------------------------------ MODULE FilterProofs -----------------------------
(***************************************************************************)
(* Theorems about the driver and about the brokers that publish to it.     *)
(*                                                                         *)
(* The driver: types, one slot per identity, no slot without its           *)
(* connection, and the slots implement the mapping table.  Inv is          *)
(* inductive: a slot's owner is a connection of the slot's identity, so two *)
(* slots of one owner would be two slots of one identity; and a stopped    *)
(* driver has no connection left, so loading it again forgets nothing.  The *)
(* clients here are arbitrary.                                             *)
(*                                                                         *)
(* The brokers: their two caches, their pause and their generations stay in *)
(* step with the driver.  What the driver promises of its own is Inv again, *)
(* as every step of a broker is one of the driver's or none.  PublisherInv *)
(* adds, for each broker, what its port and its caches mean at each point  *)
(* of a publish (Fits), and that no slot is ahead of the clock.            *)
(***************************************************************************)
EXTENDS MappingPublisher, FiniteSetTheorems, TLAPS

StoppedIsEmpty == driver = "stopped" => \A c \in Conn : conns[c].stage = "free"

Inv == TypeOK /\ OneSlotPerIdentity /\ OwnersConnected /\ StoppedIsEmpty

-----------------------------------------------------------------------------
(* The empty values exist.                                                  *)

LEMMA EmptySlotType == EmptySlot \in Slots /\ EmptySlot.owner = NoConn
<1>1. PICK i \in Identity, v \in Volume : TRUE
  BY FilterAssumption
<1>2. [owner |-> NoConn, id |-> i, gen |-> 0,
       map |-> [volume |-> v, names |-> {}]] \in Slots
  BY <1>1, FilterAssumption DEF Slots, Mapping
<1> QED
  BY <1>2 DEF EmptySlot

LEMMA FreeContextType == FreeContext \in Contexts /\ FreeContext.stage = "free"
  BY FilterAssumption DEF FreeContext, Contexts, ConnStages

LEMMA NoQueryType == NoQuery \in Query
<1>1. PICK i \in Identity, v \in Volume, n \in Name : TRUE
  BY FilterAssumption
<1>2. [id |-> i, volume |-> v, name |-> n] \in Query
  BY <1>1 DEF Query
<1> QED
  BY <1>2 DEF NoQuery

-----------------------------------------------------------------------------
(* The inductive invariant.                                                 *)

\* What an invariant that holds says about one occupied slot.
LEMMA OwnerOf ==
  ASSUME TypeOK, OwnersConnected, NEW s \in Occupied
  PROVE  /\ s \in Slot /\ slots[s] \in Slots /\ slots[s].owner \in Conn
         /\ conns[slots[s].owner].id = slots[s].id
         /\ conns[slots[s].owner].stage \in {"live", "closed"}
BY DEF TypeOK, OwnersConnected, Occupied, Slots

\* A replace goes to the only slot that may hold its identity.
LEMMA TargetOfReplace ==
  ASSUME TypeOK, OwnersConnected, OneSlotPerIdentity, NEW c \in Conn,
         NEW m \in Messages, Status(c, m) = "success", m.operation = "replace",
         NEW s \in Target(c)
  PROVE  /\ s \in Slot
         /\ Written(c, m) \in Slots
         /\ \A t \in Occupied : slots[t].id = conns[c].id => t = s
         /\ s \in Occupied => slots[s].owner = c
<1>1. WellFormed(m)
  BY DEF Status
<1>2. Written(c, m) \in Slots
  <2>1. m.gen \in 0..MaxGen /\ m.volume \in Volume /\ m.names \in SUBSET Name
    <3>1. m \in [operation : {"replace"}, gen : 0..MaxGen, volume : Volume,
                 names : SUBSET (Name \cup {BadName})]
      BY DEF Messages
    <3> QED
      BY <3>1, <1>1 DEF WellFormed
  <2>2. conns[c].id \in Identity
    BY DEF TypeOK, Contexts
  <2> QED
    BY <2>1, <2>2 DEF Written, Slots, Mapping
<1>3. s \in Slot
  BY DEF Target, OwnSlot, Occupied, FreeSlot
<1>4. CASE OwnSlot(c) # {}
  <2>1. s \in Occupied /\ slots[s].owner = c
    BY <1>4 DEF Target, OwnSlot
  <2>2. slots[s].id = conns[c].id
    BY <2>1 DEF OwnersConnected
  <2> QED
    BY <1>2, <1>3, <2>1, <2>2 DEF OneSlotPerIdentity
<1>5. CASE OwnSlot(c) = {}
  <2>1. TwinSlot(c) = {}
    BY <1>1, <1>5 DEF Status
  <2>2. ASSUME NEW t \in Occupied, slots[t].id = conns[c].id PROVE FALSE
    BY <2>1, <2>2, <1>5 DEF TwinSlot, OwnSlot
  <2>3. s \notin Occupied
    BY <1>5 DEF Target, FreeSlot
  <2> QED
    BY <1>2, <1>3, <2>2, <2>3
<1> QED
  BY <1>4, <1>5

LEMMA InitInv == Init => Inv
<1> SUFFICES ASSUME Init PROVE Inv
  OBVIOUS
<1> USE EmptySlotType, FreeContextType, NoQueryType
<1>1. TypeOK
  BY DEF Init, TypeOK, Creates, Decided
<1>2. Occupied = {}
  BY DEF Init, Occupied
<1>3. StoppedIsEmpty
  BY DEF Init, StoppedIsEmpty
<1> QED
  BY <1>1, <1>2, <1>3 DEF Inv, OneSlotPerIdentity, OwnersConnected

\* Steps that leave the slots and every slot owner's context alone.
LEMMA SlotsKept ==
  ASSUME Inv, slots' = slots, conns' \in [Conn -> Contexts],
         \A c \in Conn : conns[c].stage \in {"live", "closed"} =>
           conns'[c].id = conns[c].id /\ conns'[c].stage \in {"live", "closed"}
  PROVE  OneSlotPerIdentity' /\ OwnersConnected'
<1>1. Occupied' = Occupied
  BY DEF Occupied
<1>2. OneSlotPerIdentity'
  BY <1>1 DEF Inv, OneSlotPerIdentity
<1>3. ASSUME NEW s \in Occupied
      PROVE  /\ conns'[slots[s].owner].stage \in {"live", "closed"}
             /\ conns'[slots[s].owner].id = slots[s].id
  BY OwnerOf DEF Inv
<1> QED
  BY <1>1, <1>2, <1>3 DEF OwnersConnected

\* The actions of the clients.
LEMMA ConnectInv ==
  ASSUME Inv, NEW c \in Conn, NEW i \in Identity, Connect(c, i)
  PROVE  Inv'
<1> USE DEF Inv, Connect
<1>1. conns' \in [Conn -> Contexts]
  BY DEF TypeOK, Contexts, ConnStages
<1>2. TypeOK'
  BY <1>1 DEF TypeOK
<1>3. OneSlotPerIdentity' /\ OwnersConnected'
  BY <1>1, SlotsKept DEF TypeOK
<1>4. StoppedIsEmpty'
  BY DEF StoppedIsEmpty
<1> QED
  BY <1>2, <1>3, <1>4

LEMMA CloseInv ==
  ASSUME Inv, NEW c \in Conn, Close(c)
  PROVE  Inv'
<1> USE DEF Inv, Close
<1>1. conns' \in [Conn -> Contexts]
  BY DEF TypeOK, Contexts, ConnStages
<1>2. TypeOK'
  BY <1>1 DEF TypeOK
<1>3. OneSlotPerIdentity' /\ OwnersConnected'
  BY <1>1, SlotsKept DEF TypeOK, Contexts
<1>4. StoppedIsEmpty'
  BY DEF StoppedIsEmpty
<1> QED
  BY <1>2, <1>3, <1>4

LEMMA DisconnectForgetInv ==
  ASSUME Inv, NEW c \in Conn, DisconnectForget(c)
  PROVE  Inv'
<1> USE DEF Inv, DisconnectForget
<1>1. conns' \in [Conn -> Contexts]
  BY FreeContextType DEF TypeOK
<1>2. TypeOK'
  BY <1>1 DEF TypeOK
<1>3. OneSlotPerIdentity' /\ OwnersConnected'
  BY <1>1, SlotsKept DEF TypeOK
<1>4. StoppedIsEmpty'
  BY FreeContextType DEF StoppedIsEmpty, TypeOK
<1> QED
  BY <1>2, <1>3, <1>4

LEMMA DisconnectClearInv ==
  ASSUME Inv, NEW c \in Conn, DisconnectClear(c)
  PROVE  Inv'
<1> USE DEF Inv, DisconnectClear
<1>1. /\ conns' \in [Conn -> Contexts]
      /\ \A d \in Conn : d # c => conns'[d] = conns[d]
  BY DEF TypeOK, Contexts, ConnStages
<1>2. /\ slots' \in [Slot -> Slots]
      /\ \A s \in Slot : slots'[s] = IF slots[s].owner = c THEN EmptySlot ELSE slots[s]
  BY EmptySlotType DEF TypeOK, ClearOwned
<1>3. \A s \in Occupied' : s \in Occupied /\ slots'[s] = slots[s] /\ slots[s].owner # c
  BY <1>2, EmptySlotType DEF Occupied
<1>4. TypeOK'
  BY <1>1, <1>2 DEF TypeOK
<1>5. OneSlotPerIdentity'
  BY <1>3 DEF OneSlotPerIdentity
<1>6. OwnersConnected'
  <2> SUFFICES ASSUME NEW s \in Occupied'
               PROVE  /\ conns'[slots'[s].owner].stage \in {"live", "closed"}
                      /\ conns'[slots'[s].owner].id = slots'[s].id
    BY DEF OwnersConnected
  <2> QED
    BY <1>1, <1>3, OwnerOf
<1>7. StoppedIsEmpty'
  BY DEF StoppedIsEmpty
<1> QED
  BY <1>4, <1>5, <1>6, <1>7

LEMMA MessageInv ==
  ASSUME Inv, NEW c \in Conn, NEW m \in Messages, Message(c, m)
  PROVE  Inv'
<1> USE DEF Inv
<1>1. UNCHANGED <<driver, conns, create>> /\ conns[c].stage = "live"
  BY DEF Message
<1>2. StoppedIsEmpty'
  BY <1>1 DEF StoppedIsEmpty
<1>3. CASE slots' = slots
  <2>1. TypeOK'
    BY <1>1, <1>3 DEF TypeOK
  <2> QED
    BY <1>1, <1>2, <1>3, <2>1, SlotsKept DEF TypeOK
<1>4. ASSUME NEW s \in OwnSlot(c), slots' = [slots EXCEPT ![s] = EmptySlot]
      PROVE  Inv'
  <2>1. s \in Slot
    BY DEF OwnSlot, Occupied
  <2>2. TypeOK'
    BY <1>1, <1>4, <2>1, EmptySlotType DEF TypeOK
  <2>3. \A t \in Occupied' : t \in Occupied /\ slots'[t] = slots[t]
    BY <1>4, <2>1, EmptySlotType DEF Occupied, TypeOK
  <2>4. OneSlotPerIdentity'
    BY <2>3 DEF OneSlotPerIdentity
  <2>5. OwnersConnected'
    BY <1>1, <2>3 DEF OwnersConnected
  <2> QED
    BY <1>2, <2>2, <2>4, <2>5
<1>5. ASSUME Status(c, m) = "success", m.operation = "replace", NEW s \in Target(c),
             slots' = [slots EXCEPT ![s] = Written(c, m)]
      PROVE  Inv'
  <2>1. /\ s \in Slot
        /\ Written(c, m) \in Slots
        /\ \A t \in Occupied : slots[t].id = conns[c].id => t = s
    BY <1>5, TargetOfReplace
  <2>2. TypeOK'
    BY <1>1, <1>5, <2>1 DEF TypeOK
  <2>3. slots'[s] = Written(c, m)
    BY <1>5, <2>1 DEF TypeOK
  <2>4. \A t \in Occupied' : t # s => t \in Occupied /\ slots'[t] = slots[t]
    BY <1>5, <2>1 DEF Occupied, TypeOK
  <2>5. OneSlotPerIdentity'
    BY <2>1, <2>3, <2>4 DEF OneSlotPerIdentity, Written
  <2>6. OwnersConnected'
    BY <1>1, <2>3, <2>4 DEF OwnersConnected, Written
  <2> QED
    BY <1>2, <2>2, <2>5, <2>6
<1> QED
  BY <1>3, <1>4, <1>5 DEF Message

\* A file open reads the slots and changes none.
LEMMA CreateInv ==
  ASSUME Inv, (\E q \in Query : StartCreate(q)) \/ CheckCandidate \/ CheckOwner \/ FailOpen
  PROVE  Inv'
<1> USE DEF Inv
<1>1. UNCHANGED <<driver, conns, slots>>
  BY DEF StartCreate, CheckCandidate, CheckOwner, FailOpen, Answer
<1>2. create' \in Creates
  BY NoQueryType DEF StartCreate, CheckCandidate, CheckOwner, FailOpen, Answer,
     TypeOK, Creates, Decided
<1>3. TypeOK'
  BY <1>1, <1>2 DEF TypeOK
<1>4. OneSlotPerIdentity' /\ OwnersConnected'
  BY <1>1, SlotsKept DEF TypeOK
<1> QED
  BY <1>1, <1>3, <1>4 DEF StoppedIsEmpty

LEMMA LifecycleInv ==
  ASSUME Inv, Load \/ Unload \/ Unloaded
  PROVE  Inv'
<1> USE DEF Inv
<1>1. CASE Load
  <2>1. TypeOK' /\ Occupied' = {}
    BY <1>1, EmptySlotType DEF Load, TypeOK, Occupied
  <2> QED
    BY <1>1, <2>1 DEF Load, OneSlotPerIdentity, OwnersConnected, StoppedIsEmpty
<1>2. CASE Unload \/ Unloaded
  <2>1. UNCHANGED <<conns, slots, create>> /\ TypeOK'
    BY <1>2 DEF Unload, Unloaded, TypeOK
  <2>2. StoppedIsEmpty'
    BY <1>2 DEF Unload, Unloaded, StoppedIsEmpty, Registered
  <2> QED
    BY <2>1, <2>2, SlotsKept DEF TypeOK
<1> QED
  BY <1>1, <1>2

LEMMA NextInv == Inv /\ [Next]_filterVars => Inv'
<1> SUFFICES ASSUME Inv, [Next]_filterVars PROVE Inv'
  OBVIOUS
<1>1. CASE UNCHANGED filterVars
  BY <1>1 DEF filterVars, Inv, TypeOK, OneSlotPerIdentity, OwnersConnected, Occupied,
     StoppedIsEmpty
<1>2. CASE Next
  BY <1>2, ConnectInv, CloseInv, DisconnectClearInv, DisconnectForgetInv, MessageInv,
     CreateInv, LifecycleInv DEF Next
<1> QED
  BY <1>1, <1>2

\* Inv holds in every reachable state.
THEOREM Invariance == Spec => []Inv
  BY InitInv, NextInv, PTL DEF Spec

\* Every reachable state of the driver has the types of its C structures.
THEOREM TypeCorrect == Spec => []TypeOK
<1>1. Inv => TypeOK
  BY DEF Inv
<1> QED
  BY Invariance, <1>1, PTL

\* No two slots ever belong to one identity, whatever the clients send.
THEOREM OneSlot == Spec => []OneSlotPerIdentity
<1>1. Inv => OneSlotPerIdentity
  BY DEF Inv
<1> QED
  BY Invariance, <1>1, PTL

\* No slot ever outlives the connection that filled it.
THEOREM SlotsHaveOwners == Spec => []OwnersConnected
<1>1. Inv => OwnersConnected
  BY DEF Inv
<1> QED
  BY Invariance, <1>1, PTL

\* A mapping has one slot, and the slot has one owner that is still connected.
THEOREM SlotsStayOwned == Spec => []SlotsOwned
<1>1. OneSlotPerIdentity /\ OwnersConnected => SlotsOwned
  BY DEF SlotsOwned
<1> QED
  BY OneSlot, SlotsHaveOwners, <1>1, PTL

-----------------------------------------------------------------------------
(* The slots implement the mapping table.                                   *)

NoEntry == [owner |-> NoConn, map |-> EmptySlot.map]

\* An occupied slot is the entry of its identity, before and after a step.
LEMMA EntryOfSlot ==
  ASSUME Inv, NEW i, NEW s \in Occupied, slots[s].id = i
  PROVE  EntryOf(i) = [owner |-> slots[s].owner, map |-> slots[s].map]
<1>1. \A t \in Occupied : slots[t].id = i => t = s
  BY DEF Inv, OneSlotPerIdentity
<1> QED
  BY <1>1 DEF EntryOf

LEMMA EntryOfSlotNext ==
  ASSUME Inv', NEW i, NEW s \in Occupied', slots'[s].id = i
  PROVE  EntryOf(i)' = [owner |-> slots'[s].owner, map |-> slots'[s].map]
<1>1. \A t \in Occupied' : slots'[t].id = i => t = s
  BY DEF Inv, OneSlotPerIdentity
<1> QED
  BY <1>1 DEF EntryOf

\* A step that touches the slots of one identity only leaves every other entry.
LEMMA OtherEntries ==
  ASSUME Inv, Inv', NEW i \in Identity, NEW j \in Identity, j # i,
         \A t \in Slot : slots[t].id # i /\ t \in Occupied =>
            t \in Occupied' /\ slots'[t] = slots[t],
         \A t \in Slot : slots'[t].id # i /\ t \in Occupied' =>
            t \in Occupied /\ slots'[t] = slots[t]
  PROVE  EntryOf(j)' = EntryOf(j)
<1>1. CASE \E s \in Occupied : slots[s].id = j
  <2>1. PICK s \in Occupied : slots[s].id = j
    BY <1>1
  <2>2. s \in Slot
    BY DEF Occupied
  <2>3. s \in Occupied' /\ slots'[s] = slots[s]
    BY <2>1, <2>2
  <2> QED
    BY <2>1, <2>3, EntryOfSlot, EntryOfSlotNext
<1>2. CASE ~ \E s \in Occupied : slots[s].id = j
  <2>1. ASSUME NEW s \in Occupied', slots'[s].id = j PROVE FALSE
    <3>1. s \in Slot
      BY DEF Occupied
    <3> QED
      BY <1>2, <2>1, <3>1
  <2>2. EntryOf(j) = NoEntry
    BY <1>2 DEF EntryOf, NoEntry
  <2>3. EntryOf(j)' = NoEntry
    BY <2>1 DEF EntryOf, NoEntry
  <2> QED
    BY <2>2, <2>3
<1> QED
  BY <1>1, <1>2

\* The entry of an identity decides its file opens as FswOwnsDistribution does.
LEMMA OwnsIsRouted ==
  ASSUME Inv, NEW q \in Query
  PROVE  Owns(q) <=> Table!Routed(q)
<1>1. q.id \in Identity
  BY DEF Query
<1>2. CASE \E s \in Occupied : slots[s].id = q.id
  <2>1. PICK s \in Occupied : slots[s].id = q.id
    BY <1>2
  <2>2. EntryOf(q.id) = [owner |-> slots[s].owner, map |-> slots[s].map]
    BY <2>1, EntryOfSlot
  <2>3. slots[s].owner # NoConn /\ s \in Slot /\ Slot \subseteq Nat
    BY DEF Occupied, Slot
  <2>4. \A t \in Occupied : slots[t].id = q.id => t = s
    BY <2>1 DEF Inv, OneSlotPerIdentity
  <2>5. Owns(q) <=> slots[s].map.volume = q.volume /\ q.name \in slots[s].map.names
    BY <2>1, <2>3, <2>4 DEF Owns
  <2> QED
    BY <1>1, <2>2, <2>3, <2>5 DEF Table!Routed, Table!Mapped, Table!Lists
<1>3. CASE ~ \E s \in Occupied : slots[s].id = q.id
  <2>1. ~Owns(q)
    BY <1>3 DEF Owns
  <2>2. EntryOf(q.id).owner = NoConn
    BY <1>3 DEF EntryOf
  <2> QED
    BY <1>1, <2>1, <2>2 DEF Table!Routed, Table!Mapped
<1> QED
  BY <1>2, <1>3

\* The name gate never turns away an open that the table would route.
LEMMA CandidateIsEnough ==
  ASSUME NEW q \in Query, Owns(q)
  PROVE  Candidate(q)
BY DEF Owns, Candidate

LEMMA TableInit == Init => Table!Init
<1> SUFFICES ASSUME Init PROVE Table!Init
  OBVIOUS
<1>1. Occupied = {}
  BY EmptySlotType DEF Init, Occupied
<1>2. \A i \in Identity : EntryOf(i) = NoEntry
  BY <1>1 DEF EntryOf, NoEntry
<1> QED
  BY <1>2, NoQueryType DEF Init, Table!Init, NoEntry

\* Steps of the connections stutter, or withdraw what a closed one published.
LEMMA StutterStep ==
  ASSUME UNCHANGED <<slots, create>>
  PROVE  UNCHANGED Table!tableVars
BY DEF Table!tableVars, EntryOf, Occupied

LEMMA ClearStep ==
  ASSUME Inv, Inv', NEW c \in Conn, DisconnectClear(c)
  PROVE  [Table!Next]_Table!tableVars
<1>1. \A s \in Slot : slots'[s] = IF slots[s].owner = c THEN EmptySlot ELSE slots[s]
  BY DEF DisconnectClear, ClearOwned
<1>2. create' = create /\ slots \in [Slot -> Slots] /\ slots' \in [Slot -> Slots]
  BY DEF DisconnectClear, Inv, TypeOK
<1>3. CASE \A s \in Slot : slots[s].owner # c
  <2>1. slots' = slots
    BY <1>1, <1>2, <1>3
  <2> QED
    BY <1>2, <2>1, StutterStep
<1>4. ASSUME NEW i \in Identity, NEW s \in Slot, slots[s].id = i, slots[s].owner = c
      PROVE  Table!Withdraw(i)
  <2>1. s \in Occupied
    BY <1>4, FilterAssumption DEF Occupied
  <2>2. conns[c].id = i
    BY <1>4, <2>1, OwnerOf DEF Inv
  <2>3. \A t \in Occupied : slots[t].owner = c => t = s
    BY <1>4, <2>1, <2>2, OwnerOf DEF Inv, OneSlotPerIdentity
  <2>4. \A t \in Slot : t \in Occupied' <=> t \in Occupied /\ slots[t].owner # c
    BY <1>1, EmptySlotType DEF Occupied
  <2>5. ASSUME NEW j \in Identity, j # i PROVE EntryOf(j)' = EntryOf(j)
    <3>1. \A t \in Slot : slots[t].id # i /\ t \in Occupied =>
             t \in Occupied' /\ slots'[t] = slots[t]
      BY <1>1, <1>4, <2>3, <2>4
    <3>2. \A t \in Slot : slots'[t].id # i /\ t \in Occupied' =>
             t \in Occupied /\ slots'[t] = slots[t]
      BY <1>1, <2>4
    <3> QED
      BY <2>5, <3>1, <3>2, OtherEntries
  <2>6. ASSUME NEW t \in Occupied' PROVE slots'[t].id # i
    <3>1. t \in Slot /\ t \in Occupied /\ slots[t].owner # c
      BY <2>4 DEF Occupied
    <3>2. slots'[t] = slots[t]
      BY <1>1, <3>1
    <3> QED
      BY <1>4, <2>1, <3>1, <3>2 DEF Inv, OneSlotPerIdentity
  <2>7. EntryOf(i)' = NoEntry
    BY <2>6 DEF EntryOf, NoEntry
  <2> QED
    BY <1>2, <2>5, <2>7 DEF Table!Withdraw, Table!Only, NoEntry
<1>5. \A s \in Slot : slots[s].id \in Identity
  BY <1>2 DEF Slots
<1> QED
  BY <1>3, <1>4, <1>5 DEF Table!Next

LEMMA MessageStep ==
  ASSUME Inv, Inv', NEW c \in Conn, NEW m \in Messages, Message(c, m)
  PROVE  [Table!Next]_Table!tableVars
<1>1. create' = create /\ slots \in [Slot -> Slots] /\ slots' \in [Slot -> Slots]
  BY DEF Message, Inv, TypeOK
<1>2. CASE slots' = slots
  BY <1>1, <1>2, StutterStep
<1>3. ASSUME NEW i \in Identity, NEW s \in OwnSlot(c), slots[s].id = i,
             slots' = [slots EXCEPT ![s] = EmptySlot]
      PROVE  Table!Withdraw(i)
  <2>1. s \in Occupied /\ s \in Slot
    BY <1>1 DEF OwnSlot, Occupied, Slots
  <2>2. \A t \in Slot : t # s => slots'[t] = slots[t]
    BY <1>1, <1>3
  <2>3. slots'[s] = EmptySlot
    BY <1>1, <1>3, <2>1
  <2>4. \A t \in Slot : t \in Occupied' <=> t \in Occupied /\ t # s
    BY <2>2, <2>3, EmptySlotType DEF Occupied
  <2>5. ASSUME NEW j \in Identity, j # i PROVE EntryOf(j)' = EntryOf(j)
    <3>1. \A t \in Slot : slots[t].id # i /\ t \in Occupied =>
             t \in Occupied' /\ slots'[t] = slots[t]
      BY <1>3, <2>2, <2>4
    <3>2. \A t \in Slot : slots'[t].id # i /\ t \in Occupied' =>
             t \in Occupied /\ slots'[t] = slots[t]
      BY <2>2, <2>4
    <3> QED
      BY <2>5, <3>1, <3>2, OtherEntries
  <2>6. \A t \in Occupied' : slots'[t].id # i
    <3> SUFFICES ASSUME NEW t \in Occupied' PROVE slots'[t].id # i
      OBVIOUS
    <3>1. t \in Slot
      BY DEF Occupied
    <3> QED
      BY <1>3, <2>1, <2>2, <2>4, <3>1 DEF Inv, OneSlotPerIdentity
  <2>7. EntryOf(i)' = NoEntry
    BY <2>6 DEF EntryOf, NoEntry
  <2> QED
    BY <1>1, <2>5, <2>7 DEF Table!Withdraw, Table!Only, NoEntry
<1>4. ASSUME NEW i \in Identity, conns[c].id = i, Status(c, m) = "success", m.operation = "replace",
             NEW s \in Target(c), slots' = [slots EXCEPT ![s] = Written(c, m)]
      PROVE  Table!Publish(i)
  <2>1. /\ s \in Slot
        /\ Written(c, m) \in Slots
        /\ \A t \in Occupied : slots[t].id = i => t = s
        /\ s \in Occupied => slots[s].owner = c
    BY <1>4, TargetOfReplace DEF Inv
  <2>3. slots'[s] = Written(c, m) /\ \A t \in Slot : t # s => slots'[t] = slots[t]
    BY <1>1, <1>4, <2>1
  <2>4. s \in Occupied' /\ slots'[s].id = i /\ slots'[s].owner = c
    BY <1>4, <2>1, <2>3, FilterAssumption DEF Occupied, Written
  <2>5. s \in Occupied => slots[s].id = i
    BY <1>4, <2>1 DEF Inv, OwnersConnected
  <2>6. ASSUME NEW j \in Identity, j # i PROVE EntryOf(j)' = EntryOf(j)
    <3>1. \A t \in Slot : slots[t].id # i /\ t \in Occupied =>
             t \in Occupied' /\ slots'[t] = slots[t]
      BY <2>3, <2>5 DEF Occupied
    <3>2. \A t \in Slot : slots'[t].id # i /\ t \in Occupied' =>
             t \in Occupied /\ slots'[t] = slots[t]
      BY <2>3, <2>4 DEF Occupied
    <3> QED
      BY <2>6, <3>1, <3>2, OtherEntries
  <2>7. EntryOf(i)' = [owner |-> c, map |-> slots'[s].map]
    BY <2>4, EntryOfSlotNext
  <2>8. EntryOf(i)' \in Table!Entries
    BY <1>1, <2>1, <2>7 DEF Table!Entries, Slots
  <2>9. EntryOf(i).owner # NoConn => EntryOf(i).owner = c
    <3>1. CASE s \in Occupied
      BY <2>1, <2>5, <3>1, EntryOfSlot
    <3>2. CASE s \notin Occupied
      BY <2>1, <3>2 DEF EntryOf
    <3> QED
      BY <3>1, <3>2
  <2> QED
    BY <1>1, <2>6, <2>7, <2>8, <2>9 DEF Table!Publish, Table!Only, Table!Mapped
<1>5. conns[c].id \in Identity /\ \A s \in Slot : slots[s].id \in Identity
  BY <1>1 DEF Inv, TypeOK, Contexts, Slots
<1>6. OwnSlot(c) \subseteq Slot
  BY DEF OwnSlot, Occupied
<1> QED
  BY <1>2, <1>3, <1>4, <1>5, <1>6 DEF Message, Table!Next

\* The two looks of a file open are one look at the table.
LEMMA CreateStep ==
  ASSUME Inv, (\E q \in Query : StartCreate(q)) \/ CheckCandidate \/ CheckOwner \/ FailOpen
  PROVE  [Table!Next]_Table!tableVars
<1>1. \A i \in Identity : EntryOf(i)' = EntryOf(i)
  BY DEF StartCreate, CheckCandidate, CheckOwner, FailOpen, Answer, EntryOf, Occupied
<1>2. create.query \in Query /\ create \in Creates
  BY DEF Inv, TypeOK, Creates
<1>3. ASSUME NEW q \in Query, StartCreate(q) PROVE Table!Ask(q)
  BY <1>1, <1>3 DEF StartCreate, Table!Ask, Inv, TypeOK, Creates, Decided
<1>4. ASSUME NEW a \in Decided, Answer(a), create.pc # "done",
             a = "failOpen" \/ (a = "redirect" /\ Table!Routed(create.query))
             \/ (a = "native" /\ ~Table!Routed(create.query))
      PROVE  Table!Decide
  BY <1>1, <1>4, NoQueryType DEF Answer, Table!Decide
<1>5. CASE FailOpen
  BY <1>4, <1>5 DEF FailOpen, Decided, Table!Next
<1>6. CASE CheckOwner
  BY <1>2, <1>4, <1>6, OwnsIsRouted DEF CheckOwner, Decided, Table!Next
<1>7. CASE CheckCandidate
  <2>1. CASE Candidate(create.query)
    <3>1. create'.query = create.query /\ create'.pc = "owner" /\ create.pc = "candidate"
      BY <1>2, <1>7, <2>1 DEF CheckCandidate, Creates
    <3> QED
      BY <1>1, <3>1 DEF Table!tableVars
  <2>2. CASE ~Candidate(create.query)
    BY <1>2, <1>4, <1>7, <2>2, OwnsIsRouted, CandidateIsEnough
       DEF CheckCandidate, Decided, Table!Next
  <2> QED
    BY <2>1, <2>2
<1> QED
  BY <1>3, <1>5, <1>6, <1>7 DEF Table!Next

LEMMA LifecycleStep ==
  ASSUME Inv, Load \/ Unload \/ Unloaded
  PROVE  UNCHANGED Table!tableVars
<1>1. CASE Load
  <2>1. Occupied = {}
    BY <1>1, OwnerOf DEF Load, Inv, StoppedIsEmpty
  <2>2. Occupied' = {}
    BY <1>1, EmptySlotType DEF Load, Occupied
  <2>3. \A i \in Identity : EntryOf(i)' = EntryOf(i)
    BY <2>1, <2>2 DEF EntryOf
  <2> QED
    BY <1>1, <2>3 DEF Load, Table!tableVars
<1>2. CASE Unload \/ Unloaded
  BY <1>2, StutterStep DEF Unload, Unloaded
<1> QED
  BY <1>1, <1>2

\* The driver's slots and its two-stage file open implement the mapping table.
THEOREM Implements == Spec => ImplementsTable
<1>1. Inv /\ Inv' /\ [Next]_filterVars => [Table!Next]_Table!tableVars
  <2> SUFFICES ASSUME Inv, Inv', [Next]_filterVars
               PROVE  [Table!Next]_Table!tableVars
    OBVIOUS
  <2>1. CASE UNCHANGED filterVars
    BY <2>1, StutterStep DEF filterVars
  <2>2. CASE \E c \in Conn : \/ \E i \in Identity : Connect(c, i)
                             \/ Close(c) \/ DisconnectForget(c)
    BY <2>2, StutterStep DEF Connect, Close, DisconnectForget
  <2> QED
    BY <2>1, <2>2, ClearStep, MessageStep, CreateStep, LifecycleStep DEF Next
<1> QED
  BY TableInit, <1>1, Invariance, PTL DEF Spec, ImplementsTable, Table!Spec

-----------------------------------------------------------------------------
(* No session locks another one out.                                        *)

\* A set no larger than n has an injection into 1..n.
LEMMA Numbered ==
  ASSUME NEW S, IsFiniteSet(S), NEW n \in Nat, Cardinality(S) <= n
  PROVE  Injection(S, 1..n) # {}
<1>1. Cardinality(S) \in Nat /\ IsFiniteSet(1..Cardinality(S))
      /\ Cardinality(1..Cardinality(S)) = Cardinality(S)
  BY FS_CardinalityType, FS_Interval
<1>2. PICK f \in Bijection(S, 1..Cardinality(S)) : TRUE
  BY <1>1, FS_SameCardinalityBij DEF ExistsBijection
<1>3. f \in [S -> 1..Cardinality(S)] /\ IsInjective(f)
  BY <1>2 DEF Bijection, Injection
<1>4. 1..Cardinality(S) \subseteq 1..n
  BY <1>1
<1>5. f \in [S -> 1..n]
  BY <1>3, <1>4
<1>6. f \in Injection(S, 1..n)
  BY <1>3, <1>5 DEF Injection
<1> QED
  BY <1>6

\* A table of rows and places, each place taken once, has a place for an entry
\* of a row whose own places are not all taken.
LEMMA Places ==
  ASSUME NEW Rows, IsFiniteSet(Rows), NEW Entries, NEW row \in [Entries -> Rows],
         NEW n \in Nat \ {0}, NEW r \in Rows,
         \A x \in Rows : LET In == {e \in Entries : row[e] = x}
                         IN IsFiniteSet(In) /\ Cardinality(In) <= n,
         Cardinality({e \in Entries : row[e] = r}) < n
  PROVE  /\ IsFiniteSet(Entries) /\ Cardinality(Entries) \in Nat
         /\ Cardinality(Rows) \in Nat
         /\ Cardinality(Entries) < Cardinality(Rows) * n
<1> DEFINE In(x) == {e \in Entries : row[e] = x}
           limit(x) == IF x = r THEN n - 1 ELSE n
           place == [x \in Rows |-> CHOOSE f \in Injection(In(x), 1..limit(x)) : TRUE]
           pair == [e \in Entries |-> <<row[e], place[row[e]][e]>>]
           Spare == (Rows \X (1..n)) \ {<<r, n>>}
<1>1. \A x \in Rows : /\ place[x] \in [In(x) -> 1..limit(x)]
                      /\ \A d, e \in In(x) : place[x][d] = place[x][e] => d = e
  <2> SUFFICES ASSUME NEW x \in Rows
               PROVE  /\ place[x] \in [In(x) -> 1..limit(x)]
                      /\ \A d, e \in In(x) : place[x][d] = place[x][e] => d = e
    OBVIOUS
  <2>1. IsFiniteSet(In(x)) /\ Cardinality(In(x)) \in Nat /\ Cardinality(In(x)) <= n
    BY FS_CardinalityType
  <2>2. Cardinality(In(r)) < n
    OBVIOUS
  <2>3. limit(x) \in Nat /\ Cardinality(In(x)) <= limit(x)
    <3> HIDE DEF In
    <3> QED
      BY <2>1, <2>2
  <2>4. Injection(In(x), 1..limit(x)) # {}
    <3> HIDE DEF In, limit
    <3> QED
      BY <2>1, <2>3, Numbered
  <2>5. place[x] \in Injection(In(x), 1..limit(x))
    <3> HIDE DEF In, limit
    <3> QED
      BY <2>4
  <2> HIDE DEF In, limit, place
  <2> QED
    BY <2>5 DEF Injection, IsInjective
<1>2. \A e \in Entries : row[e] \in Rows /\ e \in In(row[e])
  OBVIOUS
<1>3. \A x \in Rows : 1..limit(x) \subseteq 1..n
  OBVIOUS
<1>4. n \notin 1..limit(r)
  OBVIOUS
<1> HIDE DEF In, limit, place
<1>5. pair \in [Entries -> Spare]
  <2> SUFFICES ASSUME NEW e \in Entries
               PROVE  <<row[e], place[row[e]][e]>> \in Spare
    OBVIOUS
  <2>1. place[row[e]][e] \in 1..limit(row[e])
    BY <1>1, <1>2
  <2>2. row[e] = r => place[row[e]][e] # n
    BY <1>4, <2>1
  <2> QED
    BY <1>2, <1>3, <2>1, <2>2
<1>6. \A d, e \in Entries : pair[d] = pair[e] => d = e
  <2> SUFFICES ASSUME NEW d \in Entries, NEW e \in Entries, pair[d] = pair[e]
               PROVE  d = e
    OBVIOUS
  <2>1. row[d] = row[e] /\ place[row[d]][d] = place[row[e]][e]
    OBVIOUS
  <2> QED
    BY <1>1, <1>2, <2>1
<1>7. pair \in Injection(Entries, Spare)
  <2> HIDE DEF pair, Spare
  <2> QED
    BY <1>5, <1>6 DEF Injection, IsInjective
<1>8. /\ IsFiniteSet(Spare)
      /\ Cardinality(Spare) = Cardinality(Rows) * n - 1
      /\ Cardinality(Rows) \in Nat
  <2>1. IsFiniteSet(1..n) /\ Cardinality(1..n) = n
    BY FS_Interval
  <2>2. IsFiniteSet(Rows \X (1..n)) /\ Cardinality(Rows \X (1..n)) = Cardinality(Rows) * n
    BY <2>1, FS_Product
  <2>3. <<r, n>> \in Rows \X (1..n)
    OBVIOUS
  <2>4. Cardinality(Rows) \in Nat
    BY FS_CardinalityType
  <2>5. /\ IsFiniteSet((Rows \X (1..n)) \ {<<r, n>>})
        /\ Cardinality((Rows \X (1..n)) \ {<<r, n>>}) = Cardinality(Rows \X (1..n)) - 1
    BY <2>2, <2>3, FS_RemoveElement
  <2> QED
    BY <2>2, <2>4, <2>5
<1>9. IsFiniteSet(Entries) /\ Cardinality(Entries) <= Cardinality(Spare)
  <2> HIDE DEF pair, Spare
  <2> QED
    BY <1>7, <1>8, FS_Injection
<1>10. Cardinality(Entries) \in Nat
  BY <1>9, FS_CardinalityType
<1>11. Cardinality(Rows) * n \in Nat
  BY <1>8
<1> QED
  BY <1>8, <1>9, <1>10, <1>11

\* No session ever has more connections than its cap.
SessionsCapped ==
  \A s \in Session : /\ IsFiniteSet(InSession(s))
                     /\ Cardinality(InSession(s)) <= MaxPerSession

LEMMA CappedInit == Init => SessionsCapped
<1> SUFFICES ASSUME Init, NEW s \in Session
             PROVE  IsFiniteSet(InSession(s)) /\ Cardinality(InSession(s)) <= MaxPerSession
  BY DEF SessionsCapped
<1>1. InSession(s) = {}
  BY FreeContextType DEF Init, InSession, Registered
<1> QED
  BY <1>1, FS_EmptySet, FilterAssumption

\* Nothing but a connection that is admitted adds to a session.
LEMMA CappedStep ==
  ASSUME Inv, SessionsCapped, [Next]_filterVars
  PROVE  SessionsCapped'
<1> SUFFICES ASSUME NEW s \in Session
             PROVE  /\ IsFiniteSet(InSession(s)')
                    /\ Cardinality(InSession(s)') <= MaxPerSession
  BY DEF SessionsCapped
<1>1. /\ IsFiniteSet(InSession(s)) /\ Cardinality(InSession(s)) \in Nat
      /\ Cardinality(InSession(s)) <= MaxPerSession /\ MaxPerSession \in Nat
  BY FS_CardinalityType, FilterAssumption DEF SessionsCapped
<1>2. ASSUME InSession(s)' \subseteq InSession(s)
      PROVE  /\ IsFiniteSet(InSession(s)')
             /\ Cardinality(InSession(s)') <= MaxPerSession
  <2>1. /\ IsFiniteSet(InSession(s)')
        /\ Cardinality(InSession(s)') <= Cardinality(InSession(s))
    BY <1>1, <1>2, FS_Subset
  <2>2. Cardinality(InSession(s)') \in Nat
    BY <2>1, FS_CardinalityType
  <2> QED
    BY <1>1, <2>1, <2>2
<1>3. ASSUME NEW c \in Conn, NEW i \in Identity, Connect(c, i)
      PROVE  /\ IsFiniteSet(InSession(s)')
             /\ Cardinality(InSession(s)') <= MaxPerSession
  <2>1. CASE SessionOf[i] # s
    <3>1. InSession(s)' \subseteq InSession(s)
      BY <1>3, <2>1 DEF Connect, InSession, Registered, Inv, TypeOK
    <3> QED
      BY <1>2, <3>1
  <2>2. CASE SessionOf[i] = s
    <3>1. InSession(s)' = InSession(s) \cup {c}
      BY <1>3, <2>2 DEF Connect, InSession, Registered, Inv, TypeOK
    <3>2. Cardinality(InSession(s)) < MaxPerSession
      BY <1>3, <2>2 DEF Connect, Admits
    <3> HIDE DEF InSession
    <3>3. /\ IsFiniteSet(InSession(s) \cup {c})
          /\ Cardinality(InSession(s) \cup {c}) \in
               {Cardinality(InSession(s)), Cardinality(InSession(s)) + 1}
      BY <1>1, FS_AddElement
    <3> QED
      BY <1>1, <3>1, <3>2, <3>3
  <2> QED
    BY <2>1, <2>2
<1>4. ASSUME NEW c \in Conn, Close(c) \/ DisconnectClear(c) \/ DisconnectForget(c)
      PROVE  InSession(s)' \subseteq InSession(s)
  BY <1>4, FreeContextType DEF Close, DisconnectClear, DisconnectForget, InSession,
     Registered, Inv, TypeOK, Contexts
<1>5. ASSUME conns' = conns
      PROVE  InSession(s)' \subseteq InSession(s)
  BY <1>5 DEF InSession, Registered
<1>6. /\ \A c \in Conn, m \in Messages : Message(c, m) => conns' = conns
      /\ \A q \in Query : StartCreate(q) => conns' = conns
      /\ CheckCandidate \/ CheckOwner \/ FailOpen => conns' = conns
      /\ Load \/ Unload \/ Unloaded => conns' = conns
      /\ UNCHANGED filterVars => conns' = conns
  BY DEF Message, StartCreate, CheckCandidate, CheckOwner, FailOpen, Answer, Load, Unload,
     Unloaded, filterVars
<1> HIDE DEF InSession
<1> QED
  BY <1>2, <1>3, <1>4, <1>5, <1>6 DEF Next

\* With no more sessions than the driver has room for, a session below its own
\* cap finds a free entry, however many connections the others hold.
THEOREM RoomForEverySession == Spec => []NoSessionLockedOut
<1>1. Inv /\ SessionsCapped /\ [Next]_filterVars => SessionsCapped'
  BY CappedStep
<1>2. Inv /\ SessionsCapped => NoSessionLockedOut
  <2> SUFFICES ASSUME Inv, SessionsCapped, Cardinality(Session) <= MaxSlots,
                      NEW s \in Session, Cardinality(InSession(s)) < MaxPerSession
               PROVE  Cardinality(Registered) < MaxConnections
    BY DEF NoSessionLockedOut
  <2> DEFINE row == [c \in Registered |-> SessionOf[conns[c].id]]
  <2>1. row \in [Registered -> Session]
    BY FilterAssumption DEF Inv, TypeOK, Contexts, Registered
  <2>2. \A x \in Session : InSession(x) = {c \in Registered : row[c] = x}
    BY DEF InSession
  <2> HIDE DEF row
  <2>3. /\ Cardinality(Registered) \in Nat /\ Cardinality(Session) \in Nat
        /\ Cardinality(Registered) < Cardinality(Session) * MaxPerSession
    <3>1. \A x \in Session : LET In == {c \in Registered : row[c] = x}
                             IN IsFiniteSet(In) /\ Cardinality(In) <= MaxPerSession
      BY <2>2 DEF SessionsCapped
    <3>2. Cardinality({c \in Registered : row[c] = s}) < MaxPerSession
      BY <2>2
    <3>3. IsFiniteSet(Session) /\ MaxPerSession \in Nat \ {0}
      BY FilterAssumption
    <3> QED
      BY <2>1, <3>1, <3>2, <3>3, Places
  <2>4. Cardinality(Session) * MaxPerSession <= MaxSlots * MaxPerSession
    BY <2>3, FilterAssumption
  <2>5. /\ Cardinality(Session) * MaxPerSession \in Nat
        /\ MaxSlots * MaxPerSession \in Nat
    BY <2>3, FilterAssumption
  <2> QED
    BY <2>3, <2>4, <2>5 DEF MaxConnections
<1> QED
  BY CappedInit, <1>1, <1>2, Invariance, PTL DEF Spec

-----------------------------------------------------------------------------
(* Publication: the brokers that are the driver's clients.                  *)

\* The broker b of identity i in step with the connections C and slots S.
PortFits(i, b, C) ==
  /\ b.port \in Conn =>
       /\ C[b.port].id = i
       /\ b.pc = "closing" => C[b.port].stage \in {"closed", "cleared"}
       /\ b.pc # "closing" => C[b.port].stage = "live"
  /\ b.pc \in {"ping", "send", "close"} => b.port # NoConn
  /\ b.pc = "closing" => b.port \in Conn
  /\ ~b.up => b.port = NoConn

\* The cache, the list about to be sent, and the pause.
CacheFits(b, S) ==
  /\ b.port = NoConn \/ b.pc \in {"ping", "close", "closing"} => b.published = NoMapping
  /\ b.port \in Conn /\ b.published # NoMapping =>
       \E s \in Slot : S[s].owner = b.port /\ S[s].map = b.published
PauseFits(b, S) ==
  /\ b.pc = "send" => b.want \in Mapping /\ (b.paused => b.want.names = {})
  /\ b.pc = "idle" /\ b.paused /\ b.port \in Conn =>
       \A s \in Slot : S[s].owner = b.port => S[s].map.names = {}

\* A live connection with a slot is the port of its identity's broker.
SlotFits(i, b, C, S) ==
  \A s \in Slot :
    S[s].owner \in Conn /\ S[s].id = i /\ C[S[s].owner].stage = "live"
      => b.port = S[s].owner

Fits(i, b, C, S) ==
  b \in Brokers /\ PortFits(i, b, C) /\ CacheFits(b, S) /\ PauseFits(b, S)
  /\ SlotFits(i, b, C, S)

BrokersFit ==
  /\ broker \in [Identity -> Brokers]
  /\ \A i \in Identity : Fits(i, broker[i], conns, slots)

EnvInv ==
  /\ registered \in [Identity -> SUBSET Name] /\ shadowed \in BOOLEAN
  /\ clock \in 0..MaxGen /\ probes \in 0..MaxProbes /\ events \in 0..MaxEvents

\* Generations are clock readings of the past.
NotAhead == \A s \in Slot : slots[s].owner \in Conn => slots[s].gen <= clock

PublisherInv == Inv /\ EnvInv /\ NotAhead /\ BrokersFit

-----------------------------------------------------------------------------
(* The driver's part: every step of the publisher is a step of FswFilter.   *)

\* What the publisher asks of the driver.
ClientStep ==
  \/ \E c \in Conn : \/ \E i \in Identity : Connect(c, i)
                     \/ \E m \in Messages : Message(c, m)
                     \/ Close(c) \/ DisconnectClear(c)
                     \/ DisconnectForget(c)
  \/ Load \/ Unload \/ Unloaded
  \/ DriverKept

LEMMA DriverStep ==
  ASSUME Inv, ClientStep
  PROVE  Inv'
<1>1. [Next]_filterVars
  BY DEF ClientStep, Next, filterVars, DriverKept
<1> QED
  BY <1>1, NextInv

\* What the driver's invariant says, spelled out.
LEMMA DriverFacts ==
  ASSUME Inv
  PROVE  /\ driver \in {"stopped", "running", "unloading"}
         /\ conns \in [Conn -> Contexts] /\ slots \in [Slot -> Slots]
         /\ \A s \in Slot : slots[s].owner # NoConn =>
              /\ slots[s].owner \in Conn
              /\ conns[slots[s].owner].stage \in {"live", "closed"}
              /\ conns[slots[s].owner].id = slots[s].id
         /\ \A s, t \in Slot :
              slots[s].owner # NoConn /\ slots[t].owner # NoConn /\ slots[s].id = slots[t].id
                => s = t
         /\ driver = "stopped" => \A c \in Conn : conns[c].stage = "free"
<1>1. TypeOK /\ OneSlotPerIdentity /\ OwnersConnected /\ StoppedIsEmpty
  BY DEF Inv
<1>2. /\ driver \in {"stopped", "running", "unloading"}
      /\ conns \in [Conn -> Contexts] /\ slots \in [Slot -> Slots]
  BY <1>1 DEF TypeOK
<1>3. \A s \in Slot : slots[s].owner # NoConn => s \in Occupied
  BY DEF Occupied
<1>4. \A s \in Slot : slots[s].owner \in Conn \cup {NoConn}
  BY <1>2 DEF Slots
<1>5. ASSUME NEW s \in Slot, slots[s].owner # NoConn
      PROVE  /\ slots[s].owner \in Conn
             /\ conns[slots[s].owner].stage \in {"live", "closed"}
             /\ conns[slots[s].owner].id = slots[s].id
  BY <1>1, <1>3, <1>4, <1>5 DEF OwnersConnected
<1>6. \A s, t \in Slot :
        slots[s].owner # NoConn /\ slots[t].owner # NoConn /\ slots[s].id = slots[t].id
          => s = t
  BY <1>1, <1>3 DEF OneSlotPerIdentity
<1> QED
  BY <1>1, <1>2, <1>5, <1>6 DEF StoppedIsEmpty

-----------------------------------------------------------------------------
(* Frames.                                                                  *)

\* A broker that does not move still fits when its own connection and slot
\* are left alone and its identity gains no live slot.
LEMMA FitsKept ==
  ASSUME NEW i, NEW b, NEW C, NEW S, NEW D, NEW T, Fits(i, b, C, S),
         b.port \in Conn => D[b.port] = C[b.port],
         \A s \in Slot :
           b.port \in Conn /\ (S[s].owner = b.port \/ T[s].owner = b.port) => T[s] = S[s],
         \A s \in Slot :
           T[s].owner \in Conn /\ T[s].id = i /\ D[T[s].owner].stage = "live"
             => S[s] = T[s] /\ C[S[s].owner].stage = "live"
  PROVE  Fits(i, b, D, T)
<1>1. PortFits(i, b, D)
  BY DEF Fits, PortFits
<1>2. CacheFits(b, T)
  BY DEF Fits, CacheFits
<1>3. PauseFits(b, T)
  BY DEF Fits, PauseFits
<1>4. SlotFits(i, b, D, T)
  BY DEF Fits, SlotFits
<1> QED
  BY <1>1, <1>2, <1>3, <1>4 DEF Fits

\* Only the broker of i moves, and the driver is left alone.
LEMMA BrokerStep ==
  ASSUME PublisherInv, NEW i \in Identity, NEW b, Set(i, b),
         Fits(i, b, conns, slots), DriverKept, EnvInv', clock' = clock
  PROVE  PublisherInv'
<1>1. Inv'
  BY DriverStep DEF PublisherInv, ClientStep
<1>2. NotAhead'
  BY DEF PublisherInv, NotAhead, DriverKept
<1>3. /\ broker' \in [Identity -> Brokers]
      /\ broker'[i] = b /\ \A j \in Identity : j # i => broker'[j] = broker[j]
  BY DEF PublisherInv, BrokersFit, Set, Fits
<1>4. ASSUME NEW j \in Identity PROVE Fits(j, broker'[j], conns, slots)
  BY <1>3 DEF PublisherInv, BrokersFit
<1>5. BrokersFit'
  BY <1>3, <1>4 DEF BrokersFit, DriverKept
<1> QED
  BY <1>1, <1>2, <1>5 DEF PublisherInv

\* The environment's variables stand still.
LEMMA EnvironmentKept == EnvInv /\ UNCHANGED environment => EnvInv' /\ clock' = clock
BY DEF EnvInv, environment

LEMMA EventInv ==
  ASSUME EnvInv, Event, UNCHANGED <<clock, probes>>,
         registered' \in [Identity -> SUBSET Name], shadowed' \in BOOLEAN
  PROVE  EnvInv' /\ clock' = clock
<1>1. events' \in 0..MaxEvents
  BY FilterAssumption, PublisherAssumption DEF EnvInv, Event
<1> QED
  BY <1>1 DEF EnvInv

-----------------------------------------------------------------------------
(* The steps of a broker that ask nothing of the driver.                    *)

\* What the invariant says of one broker.
LEMMA BrokerFacts ==
  ASSUME PublisherInv, NEW i \in Identity
  PROVE  /\ broker[i] \in Brokers /\ Fits(i, broker[i], conns, slots)
         /\ PortFits(i, broker[i], conns) /\ CacheFits(broker[i], slots)
         /\ PauseFits(broker[i], slots) /\ SlotFits(i, broker[i], conns, slots)
BY DEF PublisherInv, BrokersFit, Fits

\* A broker that keeps its port, or had none to keep, keeps its live slot.
LEMMA SlotStillFits ==
  ASSUME PublisherInv, NEW i \in Identity, NEW b,
         b.port = broker[i].port \/ broker[i].port \notin Conn
  PROVE  SlotFits(i, b, conns, slots)
BY BrokerFacts DEF SlotFits

\* Between the guard and the connection nothing of the broker's matters.
LEMMA OnTheWay ==
  ASSUME PublisherInv, NEW i \in Identity, NEW b \in Brokers,
         broker[i].pc \in {"idle", "guard", "connect", "ping"},
         b.port = broker[i].port, b.published = broker[i].published,
         b.up, b.pc \in {"guard", "connect", "enumerate"}
  PROVE  Fits(i, b, conns, slots)
<1>1. PortFits(i, b, conns)
  BY BrokerFacts DEF PortFits
<1>2. CacheFits(b, slots)
  BY BrokerFacts DEF CacheFits
<1>3. PauseFits(b, slots)
  BY DEF PauseFits
<1> QED
  BY <1>1, <1>2, <1>3, SlotStillFits DEF Fits

LEMMA StartInv ==
  ASSUME PublisherInv, NEW i \in Identity, Start(i)
  PROVE  PublisherInv'
<1>1. EnvInv' /\ clock' = clock
  BY EventInv DEF Start, PublisherInv, EnvInv
<1>2. PICK paused \in BOOLEAN :
        Set(i, [Down EXCEPT !.up = TRUE, !.pc = "guard", !.paused = paused, !.force = TRUE])
  BY DEF Start
<1> DEFINE b == [Down EXCEPT !.up = TRUE, !.pc = "guard", !.paused = paused, !.force = TRUE]
<1>3. /\ b \in Brokers /\ b.port = NoConn /\ b.published = NoMapping
      /\ b.up /\ b.pc = "guard"
  BY DEF Down, Brokers, PCs
<1>4. broker[i].port = NoConn
  BY BrokerFacts DEF Start, PortFits
<1>5. Set(i, b)
  BY <1>2
<1> HIDE DEF b
<1>6. PortFits(i, b, conns) /\ CacheFits(b, slots) /\ PauseFits(b, slots)
  BY <1>3, FilterAssumption, PublisherAssumption DEF PortFits, CacheFits, PauseFits
<1>7. Fits(i, b, conns, slots)
  BY <1>3, <1>4, <1>6, SlotStillFits DEF Fits
<1> QED
  BY <1>1, <1>5, <1>7, BrokerStep DEF Start

LEMMA TickInv ==
  ASSUME PublisherInv, NEW i \in Identity, Tick(i)
  PROVE  PublisherInv'
<1>1. EnvInv' /\ clock' = clock
  BY EnvironmentKept DEF Tick, PublisherInv
<1> DEFINE b == [broker[i] EXCEPT !.pc = "guard", !.force = FALSE]
<1>2. /\ b \in Brokers /\ b.port = broker[i].port /\ b.published = broker[i].published
      /\ b.up /\ b.pc = "guard" /\ broker[i].pc = "idle"
  BY BrokerFacts DEF Brokers, PCs, Tick, At
<1>3. Set(i, b)
  BY DEF Tick
<1> HIDE DEF b
<1>4. Fits(i, b, conns, slots)
  BY <1>2, OnTheWay
<1> QED
  BY <1>1, <1>3, <1>4, BrokerStep DEF Tick

LEMMA SetPausedInv ==
  ASSUME PublisherInv, NEW i \in Identity, SetPaused(i)
  PROVE  PublisherInv'
<1>1. EnvInv' /\ clock' = clock
  BY EventInv DEF SetPaused, PublisherInv, EnvInv
<1> DEFINE b == [broker[i] EXCEPT !.pc = "guard", !.force = TRUE, !.paused = ~@]
<1>2. /\ b \in Brokers /\ b.port = broker[i].port /\ b.published = broker[i].published
      /\ b.up /\ b.pc = "guard" /\ broker[i].pc = "idle"
  BY BrokerFacts DEF Brokers, PCs, SetPaused, At
<1>3. Set(i, b)
  BY DEF SetPaused
<1> HIDE DEF b
<1>4. Fits(i, b, conns, slots)
  BY <1>2, OnTheWay
<1> QED
  BY <1>1, <1>3, <1>4, BrokerStep DEF SetPaused

\* disconnect_filter with a port in hand, or without one.
LEMMA DisconnectFits ==
  ASSUME PublisherInv, NEW i \in Identity, broker[i].up, NEW b \in Brokers,
         broker[i].pc # "closing",
         b.up, b.published = NoMapping,
         b.pc = Disconnect(broker[i]).pc, b.port = Disconnect(broker[i]).port
  PROVE  Fits(i, b, conns, slots)
<1>1. broker[i] \in Brokers
  BY BrokerFacts
<1>2. /\ broker[i].port \in Conn => b.pc = "close" /\ b.port = broker[i].port
      /\ broker[i].port \notin Conn => b.pc = "idle" /\ b.port = NoConn
  BY <1>1, FilterAssumption, PublisherAssumption DEF Disconnect, KeepCache, Brokers
<1>3. PortFits(i, b, conns)
  BY <1>2, BrokerFacts, FilterAssumption, PublisherAssumption DEF PortFits
<1>4. CacheFits(b, slots)
  BY DEF CacheFits
<1>5. PauseFits(b, slots)
  BY <1>2, FilterAssumption, PublisherAssumption DEF PauseFits
<1>6. SlotFits(i, b, conns, slots)
  BY <1>2, SlotStillFits
<1> QED
  BY <1>3, <1>4, <1>5, <1>6 DEF Fits

LEMMA GuardInv ==
  ASSUME PublisherInv, NEW i \in Identity, Guard(i)
  PROVE  PublisherInv'
<1>1. EnvInv' /\ clock' = clock
  BY EnvironmentKept DEF Guard, PublisherInv
<1>2. broker[i] \in Brokers /\ broker[i].up /\ broker[i].pc = "guard"
  BY BrokerFacts DEF Guard, At
<1>3. CASE shadowed
  <2> DEFINE b == [Disconnect(broker[i]) EXCEPT !.interval = "idle"]
  <2>1. /\ b \in Brokers /\ b.up /\ b.published = NoMapping
        /\ b.pc = Disconnect(broker[i]).pc /\ b.port = Disconnect(broker[i]).port
    BY <1>2 DEF Disconnect, KeepCache, Brokers, PCs
  <2>2. Set(i, b)
    BY <1>3 DEF Guard
  <2> HIDE DEF b
  <2>3. Fits(i, b, conns, slots)
    BY <1>2, <2>1, DisconnectFits
  <2> QED
    BY <1>1, <2>2, <2>3, BrokerStep DEF Guard
<1>4. CASE ~shadowed
  <2> DEFINE b == [broker[i] EXCEPT !.pc = "connect"]
  <2>1. /\ b \in Brokers /\ b.port = broker[i].port /\ b.published = broker[i].published
        /\ b.up /\ b.pc = "connect"
    BY <1>2 DEF Brokers, PCs
  <2>2. Set(i, b)
    BY <1>4 DEF Guard
  <2> HIDE DEF b
  <2>3. Fits(i, b, conns, slots)
    BY <1>2, <2>1, OnTheWay
  <2> QED
    BY <1>1, <2>2, <2>3, BrokerStep DEF Guard
<1> QED
  BY <1>3, <1>4

LEMMA UnconnectedInv ==
  ASSUME PublisherInv, NEW i \in Identity, broker[i].up,
         broker[i].port \notin Conn, broker[i].published = NoMapping,
         Set(i, Unconnected(i)), DriverKept, UNCHANGED environment
  PROVE  PublisherInv'
<1>1. EnvInv' /\ clock' = clock
  BY EnvironmentKept DEF PublisherInv
<1> DEFINE b == Unconnected(i)
<1>2. /\ b \in Brokers /\ b.port = NoConn /\ b.published = NoMapping /\ b.up
      /\ b.pc \in {"enumerate", "idle"}
  BY BrokerFacts, ZenonT(30) DEF Unconnected, Brokers, PCs
<1>3. Set(i, b)
  OBVIOUS
<1> HIDE DEF b
<1>4. PortFits(i, b, conns) /\ CacheFits(b, slots) /\ PauseFits(b, slots)
  BY <1>2, FilterAssumption, PublisherAssumption DEF PortFits, CacheFits, PauseFits
<1>5. Fits(i, b, conns, slots)
  BY <1>2, <1>4, SlotStillFits DEF Fits
<1> QED
  BY <1>1, <1>3, <1>5, BrokerStep

LEMMA ConnectedInv ==
  ASSUME PublisherInv, NEW i \in Identity, broker[i].up,
         broker[i].pc \in {"connect", "ping"},
         Set(i, Connected(i)), DriverKept, UNCHANGED environment
  PROVE  PublisherInv'
<1>1. EnvInv' /\ clock' = clock
  BY EnvironmentKept DEF PublisherInv
<1> DEFINE b == Connected(i)
<1>2. /\ b \in Brokers /\ b.port = broker[i].port /\ b.published = broker[i].published
      /\ b.up /\ b.pc = "enumerate"
  BY BrokerFacts DEF Connected, Brokers, PCs
<1>3. Set(i, b)
  OBVIOUS
<1> HIDE DEF b
<1>4. Fits(i, b, conns, slots)
  BY <1>2, OnTheWay
<1> QED
  BY <1>1, <1>3, <1>4, BrokerStep

LEMMA ConnectionInv ==
  ASSUME PublisherInv, NEW i \in Identity, KeepPort(i) \/ ConnectRefused(i) \/ Ping(i)
  PROVE  PublisherInv'
<1>1. CASE KeepPort(i)
  BY <1>1, ConnectedInv DEF KeepPort, At
<1>2. CASE ConnectRefused(i)
  BY <1>2, UnconnectedInv, BrokerFacts, FilterAssumption, PublisherAssumption
  DEF ConnectRefused, At, CacheFits
<1>3. CASE Ping(i) /\ broker[i].port = Severed
  BY <1>3, UnconnectedInv, BrokerFacts, FilterAssumption, PublisherAssumption DEF Ping, At, CacheFits
<1>4. CASE Ping(i) /\ broker[i].port # Severed
  BY <1>4, ConnectedInv DEF Ping, At
<1> QED
  BY <1>1, <1>2, <1>3, <1>4

LEMMA DesiredType ==
  ASSUME PublisherInv, NEW i \in Identity
  PROVE  /\ Desired(i) \in Mapping /\ Desired(i) # NoMapping
         /\ broker[i].paused => Desired(i).names = {}
<1>1. Native \in Volume
  BY FilterAssumption, PublisherAssumption DEF Native
<1>2. registered[i] \in SUBSET Name
  BY DEF PublisherInv, EnvInv
<1>3. Desired(i) \in [volume : Volume, names : SUBSET Name]
  BY <1>1, <1>2 DEF Desired
<1> QED
  BY <1>3, FilterAssumption, PublisherAssumption DEF Desired, Mapping

LEMMA EnumerateInv ==
  ASSUME PublisherInv, NEW i \in Identity, Enumerate(i)
  PROVE  PublisherInv'
<1>1. EnvInv' /\ clock' = clock
  BY EnvironmentKept DEF Enumerate, PublisherInv
<1> DEFINE skip == ~broker[i].force /\ broker[i].attempted = Desired(i)
                     /\ broker[i].published = Desired(i)
           b == [broker[i] EXCEPT
                  !.want = Desired(i), !.attempted = Desired(i),
                  !.pc = IF broker[i].port = NoConn \/ skip THEN "idle" ELSE "send"]
<1>2. broker[i] \in Brokers /\ broker[i].up /\ broker[i].pc = "enumerate"
  BY BrokerFacts DEF Enumerate, At
<1>3. /\ b \in Brokers /\ b.port = broker[i].port /\ b.published = broker[i].published
      /\ b.up /\ b.paused = broker[i].paused /\ b.want = Desired(i)
      /\ b.pc = IF broker[i].port = NoConn \/ skip THEN "idle" ELSE "send"
  BY <1>2, DesiredType DEF Brokers, PCs
<1>4. Set(i, b)
  BY DEF Enumerate
<1> HIDE DEF b
<1>5. PortFits(i, b, conns)
  BY <1>2, <1>3, BrokerFacts DEF PortFits
<1>6. CacheFits(b, slots)
  BY <1>2, <1>3, BrokerFacts DEF CacheFits
<1>7. PauseFits(b, slots)
  <2>1. b.pc = "send" => b.want \in Mapping /\ (b.paused => b.want.names = {})
    BY <1>3, DesiredType
  <2>2. ASSUME b.pc = "idle", b.paused, b.port \in Conn, NEW s \in Slot,
               slots[s].owner = b.port
        PROVE  slots[s].map.names = {}
    <3>1. broker[i].published = Desired(i)
      BY <2>2, <1>3, FilterAssumption, PublisherAssumption
    <3>2. PICK t \in Slot : slots[t].owner = b.port /\ slots[t].map = Desired(i)
      BY <2>2, <3>1, <1>3, BrokerFacts, DesiredType DEF CacheFits
    <3>3. s = t
      BY <2>2, <3>2, DriverFacts, FilterAssumption, PublisherAssumption DEF PublisherInv
    <3> QED
      BY <2>2, <3>2, <3>3, <1>3, DesiredType
  <2> QED
    BY <2>1, <2>2 DEF PauseFits
<1>8. Fits(i, b, conns, slots)
  BY <1>3, <1>5, <1>6, <1>7, SlotStillFits DEF Fits
<1> QED
  BY <1>1, <1>4, <1>8, BrokerStep DEF Enumerate

-----------------------------------------------------------------------------
(* The steps that reach the driver.                                         *)

LEMMA ClientInv ==
  ASSUME PublisherInv, ClientStep, EnvInv', NotAhead', broker' \in [Identity -> Brokers],
         \A i \in Identity : Fits(i, broker'[i], conns', slots')
  PROVE  PublisherInv'
BY DriverStep DEF PublisherInv, BrokersFit

\* Connections that are free have no slot and are no broker's port.
LEMMA FreeConn ==
  ASSUME PublisherInv, NEW c \in Conn, conns[c].stage = "free"
  PROVE  /\ \A s \in Slot : slots[s].owner # c
         /\ \A i \in Identity : broker[i].port # c
<1>1. \A s \in Slot : slots[s].owner # c
  BY DriverFacts, FilterAssumption, PublisherAssumption DEF PublisherInv
<1>2. \A i \in Identity : broker[i].port # c
  BY BrokerFacts DEF PortFits
<1> QED
  BY <1>1, <1>2

\* A new connection disturbs no broker, whoever opened it.
LEMMA ConnectKeeps ==
  ASSUME PublisherInv, NEW c \in Conn, NEW j \in Identity, Connect(c, j)
  PROVE  /\ slots' = slots /\ conns[c].stage = "free"
         /\ conns' = [conns EXCEPT ![c] = [stage |-> "live", id |-> j]]
         /\ \A i \in Identity : Fits(i, broker[i], conns', slots')
<1>1. /\ slots' = slots /\ conns[c].stage = "free"
      /\ conns' = [conns EXCEPT ![c] = [stage |-> "live", id |-> j]]
  BY DEF Connect
<1>2. \A d \in Conn : d # c => conns'[d] = conns[d]
  BY <1>1, DriverFacts DEF PublisherInv
<1>3. ASSUME NEW i \in Identity PROVE Fits(i, broker[i], conns', slots')
  <2>1. broker[i].port \in Conn => conns'[broker[i].port] = conns[broker[i].port]
    BY <1>1, <1>2, FreeConn
  <2>2. \A s \in Slot : slots'[s] = slots[s] /\ slots[s].owner # c
    BY <1>1, FreeConn
  <2>3. \A s \in Slot : slots[s].owner \in Conn =>
          conns'[slots[s].owner] = conns[slots[s].owner]
    BY <1>2, <2>2
  <2> QED
    BY <2>1, <2>2, <2>3, FitsKept, BrokerFacts
<1> QED
  BY <1>1, <1>3 DEF ClientStep, PublisherInv

LEMMA ProbeInv ==
  ASSUME PublisherInv, NEW i \in Identity, Probe(i)
  PROVE  PublisherInv'
<1>1. PICK c \in Conn : Connect(c, i)
  BY DEF Probe
<1>2. EnvInv'
  BY FilterAssumption, PublisherAssumption DEF Probe, PublisherInv, EnvInv
<1>3. NotAhead'
  BY <1>1, ConnectKeeps DEF NotAhead, PublisherInv, Probe
<1>4. broker' = broker
  BY DEF Probe
<1> QED
  BY <1>1, <1>2, <1>3, <1>4, ConnectKeeps, ClientInv
  DEF ClientStep, PublisherInv, BrokersFit

LEMMA OpenPortInv ==
  ASSUME PublisherInv, NEW i \in Identity, OpenPort(i)
  PROVE  PublisherInv'
<1>1. PICK c \in Conn : /\ Connect(c, i)
                        /\ Set(i, [broker[i] EXCEPT !.pc = "ping", !.port = c])
  BY DEF OpenPort
<1>2. EnvInv' /\ clock' = clock
  BY EnvironmentKept DEF OpenPort, PublisherInv
<1>3. NotAhead'
  BY <1>1, <1>2, ConnectKeeps DEF NotAhead, PublisherInv
<1> DEFINE b == [broker[i] EXCEPT !.pc = "ping", !.port = c]
<1>4. broker[i] \in Brokers /\ broker[i].up /\ broker[i].port = NoConn
  BY BrokerFacts DEF OpenPort, At
<1>5. /\ b \in Brokers /\ b.port = c /\ b.pc = "ping" /\ b.up
      /\ b.published = broker[i].published
  BY <1>4 DEF Brokers, PCs
<1>6. Set(i, b)
  BY <1>1
<1> HIDE DEF b
<1>7. /\ broker' \in [Identity -> Brokers] /\ broker'[i] = b
      /\ \A j \in Identity : j # i => broker'[j] = broker[j]
  BY <1>5, <1>6 DEF Set, PublisherInv, BrokersFit
<1>8. /\ slots' = slots /\ conns[c].stage = "free"
      /\ conns'[c] = [stage |-> "live", id |-> i]
      /\ \A j \in Identity : Fits(j, broker[j], conns', slots')
  BY <1>1, ConnectKeeps, DriverFacts DEF PublisherInv
<1>9. Fits(i, b, conns', slots')
  <2>1. PortFits(i, b, conns')
    BY <1>5, <1>8, FilterAssumption, PublisherAssumption DEF PortFits
  <2>2. CacheFits(b, slots')
    BY <1>4, <1>5, BrokerFacts DEF CacheFits
  <2>3. PauseFits(b, slots')
    BY <1>5 DEF PauseFits
  <2>4. SlotFits(i, b, conns', slots')
    <3>1. SlotFits(i, broker[i], conns', slots')
      BY <1>8 DEF Fits
    <3> QED
      BY <3>1, <1>4, FilterAssumption, PublisherAssumption DEF SlotFits
  <2> QED
    BY <1>5, <2>1, <2>2, <2>3, <2>4 DEF Fits
<1> QED
  BY <1>1, <1>2, <1>3, <1>7, <1>8, <1>9, ClientInv DEF ClientStep

\* A closed connection disturbs no broker but the one whose port it is.
LEMMA CloseKeeps ==
  ASSUME PublisherInv, NEW c \in Conn, Close(c)
  PROVE  /\ slots' = slots /\ conns'[c].stage = "closed" /\ conns'[c].id = conns[c].id
         /\ \A d \in Conn : d # c => conns'[d] = conns[d]
         /\ \A j \in Identity :
              /\ SlotFits(j, broker[j], conns', slots')
              /\ broker[j].port # c => Fits(j, broker[j], conns', slots')
<1>1. /\ slots' = slots /\ conns[c] \in Contexts
      /\ conns' = [conns EXCEPT ![c].stage = "closed"]
  BY DriverFacts DEF Close, PublisherInv
<1>2. conns'[c].stage = "closed" /\ conns'[c].id = conns[c].id
  BY <1>1, DriverFacts DEF PublisherInv, Contexts
<1>3. \A d \in Conn : d # c => conns'[d] = conns[d]
  BY <1>1, DriverFacts DEF PublisherInv
<1>4. ASSUME NEW j \in Identity PROVE SlotFits(j, broker[j], conns', slots')
  BY <1>1, <1>2, <1>3, BrokerFacts DEF SlotFits
<1>5. ASSUME NEW j \in Identity, broker[j].port # c
      PROVE  Fits(j, broker[j], conns', slots')
  <2>1. broker[j].port \in Conn => conns'[broker[j].port] = conns[broker[j].port]
    BY <1>3, <1>5
  <2>2. \A s \in Slot :
          slots'[s].owner \in Conn /\ conns'[slots'[s].owner].stage = "live"
            => conns[slots[s].owner].stage = "live"
    BY <1>1, <1>2, <1>3
  <2>3. \A s \in Slot : slots'[s] = slots[s]
    BY <1>1
  <2>4. Fits(j, broker[j], conns, slots)
    BY BrokerFacts
  <2> QED
    BY <2>1, <2>2, <2>3, <2>4, FitsKept
<1> QED
  BY <1>1, <1>2, <1>3, <1>4, <1>5

LEMMA CloseHandleInv ==
  ASSUME PublisherInv, NEW i \in Identity, CloseHandle(i)
  PROVE  PublisherInv'
<1>1. EnvInv' /\ clock' = clock
  BY EnvironmentKept DEF CloseHandle, PublisherInv
<1>2. broker[i] \in Brokers /\ broker[i].up /\ broker[i].pc = "close"
  BY BrokerFacts DEF CloseHandle, At
<1>3. CASE broker[i].port = Severed
  <2> DEFINE b == [broker[i] EXCEPT !.pc = "idle", !.port = NoConn]
  <2>1. /\ b \in Brokers /\ b.port = NoConn /\ b.pc = "idle" /\ b.up
        /\ b.published = broker[i].published
    BY <1>2 DEF Brokers, PCs
  <2>2. Set(i, b) /\ DriverKept
    BY <1>3 DEF CloseHandle
  <2> HIDE DEF b
  <2>3. PortFits(i, b, conns) /\ CacheFits(b, slots) /\ PauseFits(b, slots)
    BY <2>1, <1>2, BrokerFacts, FilterAssumption, PublisherAssumption DEF PortFits, CacheFits, PauseFits
  <2>4. Fits(i, b, conns, slots)
    BY <1>3, <2>1, <2>3, SlotStillFits, FilterAssumption, PublisherAssumption DEF Fits
  <2> QED
    BY <1>1, <2>2, <2>4, BrokerStep
<1>4. CASE broker[i].port # Severed
  <2> DEFINE c == broker[i].port
             b == [broker[i] EXCEPT !.pc = "closing"]
  <2>1. c \in Conn
    BY <1>2, <1>4, BrokerFacts DEF PortFits, Brokers
  <2>2. Close(c) /\ Set(i, b)
    BY <1>4 DEF CloseHandle
  <2>3. /\ b \in Brokers /\ b.port = c /\ b.pc = "closing" /\ b.up
        /\ b.published = broker[i].published
    BY <1>2 DEF Brokers, PCs
  <2> HIDE DEF b
  <2>4. /\ broker' \in [Identity -> Brokers] /\ broker'[i] = b
        /\ \A j \in Identity : j # i => broker'[j] = broker[j]
    BY <2>2, <2>3 DEF Set, PublisherInv, BrokersFit
  <2>5. conns[c].id = i
    BY <2>1, BrokerFacts DEF PortFits
  <2>6. PortFits(i, b, conns')
    BY <2>1, <2>2, <2>3, <2>5, CloseKeeps, FilterAssumption, PublisherAssumption DEF PortFits
  <2>7. CacheFits(b, slots') /\ PauseFits(b, slots')
    BY <1>2, <2>3, BrokerFacts DEF CacheFits, PauseFits
  <2>8. SlotFits(i, b, conns', slots')
    BY <2>1, <2>2, <2>3, CloseKeeps DEF SlotFits
  <2>9. ASSUME NEW j \in Identity PROVE Fits(j, broker'[j], conns', slots')
    <3>1. CASE j = i
      BY <3>1, <2>3, <2>4, <2>6, <2>7, <2>8 DEF Fits
    <3>2. CASE j # i
      <4>1. broker[j].port # c
        BY <3>2, <2>1, <2>5, BrokerFacts DEF PortFits
      <4> QED
        BY <3>2, <4>1, <2>1, <2>2, <2>4, CloseKeeps
    <3> QED
      BY <3>1, <3>2
  <2>10. NotAhead'
    BY <1>1, <2>1, <2>2, CloseKeeps DEF NotAhead, PublisherInv
  <2> QED
    BY <1>1, <2>1, <2>2, <2>4, <2>9, <2>10, ClientInv DEF ClientStep
<1> QED
  BY <1>3, <1>4

LEMMA ProbeEndsInv ==
  ASSUME PublisherInv, NEW c \in Conn, ProbeEnds(c)
  PROVE  PublisherInv'
<1>1. EnvInv' /\ clock' = clock
  BY EnvironmentKept DEF ProbeEnds, PublisherInv
<1>2. Close(c) /\ broker' = broker /\ \A i \in Identity : broker[i].port # c
  BY DEF ProbeEnds
<1>3. NotAhead'
  BY <1>1, <1>2, CloseKeeps DEF NotAhead, PublisherInv
<1> QED
  BY <1>1, <1>2, <1>3, CloseKeeps, ClientInv DEF ClientStep, PublisherInv, BrokersFit

LEMMA DownFits ==
  ASSUME NEW i, NEW C, NEW S,
         \A s \in Slot : S[s].owner \in Conn /\ S[s].id = i => C[S[s].owner].stage # "live"
  PROVE  Fits(i, Down, C, S)
<1> DEFINE b == Down
<1>1. b \in Brokers /\ b.port = NoConn /\ b.pc = "idle" /\ b.published = NoMapping /\ ~b.paused
  BY DEF Down, Brokers, PCs
<1> HIDE DEF b
<1>2. PortFits(i, b, C) /\ CacheFits(b, S) /\ PauseFits(b, S) /\ SlotFits(i, b, C, S)
  BY <1>1, FilterAssumption, PublisherAssumption DEF PortFits, CacheFits, PauseFits, SlotFits
<1>3. Fits(i, b, C, S)
  BY <1>1, <1>2 DEF Fits
<1> QED
  BY <1>3 DEF b

LEMMA KillInv ==
  ASSUME PublisherInv, NEW i \in Identity, Kill(i)
  PROVE  PublisherInv'
<1>1. EnvInv' /\ clock' = clock
  BY EventInv DEF Kill, PublisherInv, EnvInv
<1>2. Set(i, Down)
  BY DEF Kill
<1>3. CASE broker[i].port \in Conn /\ conns[broker[i].port].stage = "live"
  <2> DEFINE c == broker[i].port
  <2>1. c \in Conn /\ Close(c) /\ conns[c].id = i
    BY <1>3, BrokerFacts DEF Kill, PortFits
  <2>2. /\ broker' \in [Identity -> Brokers] /\ broker'[i] = Down
        /\ \A j \in Identity : j # i => broker'[j] = broker[j]
    BY <1>2 DEF Set, PublisherInv, BrokersFit, Down, Brokers, PCs
  <2>3. ASSUME NEW s \in Slot, slots'[s].owner \in Conn, slots'[s].id = i
        PROVE  conns'[slots'[s].owner].stage # "live"
    BY <2>1, <2>3, CloseKeeps DEF SlotFits
  <2>4. Fits(i, broker'[i], conns', slots')
    BY <2>2, <2>3, DownFits
  <2>5. ASSUME NEW j \in Identity, j # i PROVE Fits(j, broker'[j], conns', slots')
    <3>1. broker[j].port # c
      BY <2>1, <2>5, BrokerFacts DEF PortFits
    <3> QED
      BY <2>1, <2>2, <2>5, <3>1, CloseKeeps
  <2>6. NotAhead'
    BY <1>1, <2>1, CloseKeeps DEF NotAhead, PublisherInv
  <2> QED
    BY <1>1, <2>1, <2>2, <2>4, <2>5, <2>6, ClientInv DEF ClientStep
<1>4. CASE ~(broker[i].port \in Conn /\ conns[broker[i].port].stage = "live")
  <2>1. DriverKept
    BY <1>4 DEF Kill
  <2>2. \A s \in Slot : slots[s].owner \in Conn /\ slots[s].id = i
          => conns[slots[s].owner].stage # "live"
    BY <1>4, BrokerFacts DEF SlotFits
  <2>3. Fits(i, Down, conns, slots)
    BY <2>2, DownFits
  <2> QED
    BY <1>1, <1>2, <2>1, <2>3, BrokerStep
<1> QED
  BY <1>3, <1>4

\* The slot of an accepted list is the broker's own, or one nobody has.
LEMMA ReplaceFacts ==
  ASSUME Inv, NEW c \in Conn, NEW m \in Messages,
         Status(c, m) = "success", m.operation = "replace", NEW s \in Target(c)
  PROVE  /\ s \in Slot /\ Written(c, m) \in Slots
         /\ \A t \in Slot :
              slots[t].owner # NoConn /\ slots[t].id = conns[c].id => t = s
         /\ slots[s].owner # NoConn => slots[s].owner = c
<1>1. TypeOK /\ OwnersConnected /\ OneSlotPerIdentity
  BY DEF Inv
<1>2. /\ s \in Slot
      /\ Written(c, m) \in Slots
      /\ \A t \in Occupied : slots[t].id = conns[c].id => t = s
      /\ s \in Occupied => slots[s].owner = c
  BY <1>1, TargetOfReplace
<1> QED
  BY <1>2 DEF Occupied

LEMMA SendInv ==
  ASSUME PublisherInv, NEW i \in Identity, Send(i)
  PROVE  PublisherInv'
<1>1. EnvInv' /\ clock' = clock
  BY EnvironmentKept DEF Send, PublisherInv
<1> DEFINE c == broker[i].port
           m == Update(i)
<1>2. broker[i] \in Brokers /\ broker[i].up /\ broker[i].pc = "send"
  BY BrokerFacts DEF Send, At
<1>3. CASE c \in Conn /\ Status(c, m) = "success"
  <2> DEFINE b == [broker[i] EXCEPT !.pc = "idle", !.published = broker[i].want]
  <2>1. Message(c, m) /\ Set(i, b)
    BY <1>3 DEF Send
  <2>2. broker[i].want \in Mapping /\ (broker[i].paused => broker[i].want.names = {})
    BY <1>2, BrokerFacts DEF PauseFits
  <2>3. m \in Messages /\ m.operation = "replace"
    BY <2>2 DEF Update, Messages, Mapping, PublisherInv, EnvInv
  <2>4. /\ b \in Brokers /\ b.port = c /\ b.pc = "idle" /\ b.up
        /\ b.published = broker[i].want /\ b.paused = broker[i].paused
    BY <1>2, <2>2 DEF Brokers, PCs
  <2> HIDE DEF b
  <2>5. conns[c].id = i /\ conns[c].stage = "live" /\ conns' = conns
    BY <1>2, <1>3, <2>1, BrokerFacts DEF PortFits, Message
  <2>6. PICK s \in Target(c) : slots' = [slots EXCEPT ![s] = Written(c, m)]
    BY <1>3, <2>1, <2>3 DEF Message
  <2>7. /\ s \in Slot /\ Written(c, m) \in Slots
        /\ \A t \in Slot : slots[t].owner # NoConn /\ slots[t].id = i => t = s
        /\ slots[s].owner # NoConn => slots[s].owner = c
    BY <1>3, <2>3, <2>5, <2>6, ReplaceFacts DEF PublisherInv
  <2>8. slots'[s] = [owner |-> c, id |-> i, gen |-> clock, map |-> broker[i].want]
    <3>1. slots'[s] = Written(c, m)
      BY <2>6, <2>7, DriverFacts DEF PublisherInv
    <3>2. [volume |-> broker[i].want.volume, names |-> broker[i].want.names] = broker[i].want
      BY <2>2 DEF Mapping
    <3> QED
      BY <2>5, <3>1, <3>2 DEF Written, Update
  <2>9. \A t \in Slot : t # s => slots'[t] = slots[t]
    BY <2>6, DriverFacts DEF PublisherInv
  <2> HIDE DEF m
  <2>10. /\ broker' \in [Identity -> Brokers] /\ broker'[i] = b
         /\ \A j \in Identity : j # i => broker'[j] = broker[j]
    BY <2>1, <2>4 DEF Set, PublisherInv, BrokersFit
  <2>11. Fits(i, b, conns', slots')
    <3>1. PortFits(i, b, conns')
      BY <1>3, <2>4, <2>5, FilterAssumption, PublisherAssumption DEF PortFits
    <3>2. CacheFits(b, slots')
      BY <1>3, <2>4, <2>7, <2>8, FilterAssumption, PublisherAssumption DEF CacheFits
    <3>3. PauseFits(b, slots')
      <4> SUFFICES ASSUME b.paused, NEW t \in Slot, slots'[t].owner = c
                   PROVE  slots'[t].map.names = {}
        BY <2>4 DEF PauseFits
      <4>1. t = s
        <5> SUFFICES ASSUME t # s PROVE FALSE
          OBVIOUS
        <5>1. slots[t].owner = c
          BY <2>9
        <5> QED
          BY <1>3, <2>5, <2>7, <5>1, DriverFacts, FilterAssumption, PublisherAssumption DEF PublisherInv
      <4> QED
        BY <2>2, <2>4, <2>8, <4>1
    <3>4. SlotFits(i, b, conns', slots')
      <4> SUFFICES ASSUME NEW t \in Slot, slots'[t].owner \in Conn, slots'[t].id = i,
                          conns'[slots'[t].owner].stage = "live"
                   PROVE  c = slots'[t].owner
        BY <2>4 DEF SlotFits
      <4>1. CASE t = s
        BY <2>8, <4>1
      <4>2. CASE t # s
        BY <2>5, <2>9, <4>2, BrokerFacts DEF SlotFits
      <4> QED
        BY <4>1, <4>2
    <3> QED
      BY <2>4, <3>1, <3>2, <3>3, <3>4 DEF Fits
  <2>12. ASSUME NEW j \in Identity, j # i PROVE Fits(j, broker'[j], conns', slots')
    <3>1. broker[j].port \in Conn => broker[j].port # c
      BY <2>5, <2>12, BrokerFacts DEF PortFits
    <3>2. \A t \in Slot :
            broker[j].port \in Conn
            /\ (slots[t].owner = broker[j].port \/ slots'[t].owner = broker[j].port)
              => slots'[t] = slots[t]
      BY <2>7, <2>8, <2>9, <3>1, FilterAssumption, PublisherAssumption
    <3>3. \A t \in Slot : slots'[t].id = j => slots'[t] = slots[t]
      BY <2>8, <2>9, <2>12
    <3>4. Fits(j, broker[j], conns', slots')
      BY <2>5, <3>2, <3>3, FitsKept, BrokerFacts
    <3> QED
      BY <2>10, <2>12, <3>4
  <2>13. NotAhead'
    BY <1>1, <2>7, <2>8, <2>9 DEF NotAhead, PublisherInv, EnvInv
  <2> QED
    BY <1>1, <1>3, <2>1, <2>3, <2>10, <2>11, <2>12, <2>13, ClientInv DEF ClientStep
<1>4. CASE ~(c \in Conn /\ Status(c, m) = "success")
  <2> DEFINE b == Disconnect(broker[i])
  <2>1. b \in Brokers /\ b.up /\ b.published = NoMapping
    BY <1>2 DEF Disconnect, KeepCache, Brokers, PCs
  <2>2. Set(i, b) /\ DriverKept
    BY <1>4 DEF Send
  <2>3. b.pc = Disconnect(broker[i]).pc /\ b.port = Disconnect(broker[i]).port
    OBVIOUS
  <2> HIDE DEF b
  <2>4. Fits(i, b, conns, slots)
    BY <1>2, <2>1, <2>3, DisconnectFits
  <2> QED
    BY <1>1, <2>2, <2>4, BrokerStep
<1> QED
  BY <1>3, <1>4

-----------------------------------------------------------------------------
(* The driver's own steps and the environment.                              *)

\* The slots a clear leaves are those of other connections.
LEMMA ClearFacts ==
  ASSUME PublisherInv, NEW c \in Conn, DisconnectClear(c)
  PROVE  /\ conns'[c].stage = "cleared" /\ conns'[c].id = conns[c].id
         /\ conns[c].stage \in {"live", "closed"}
         /\ \A d \in Conn : d # c => conns'[d] = conns[d]
         /\ \A s \in Slot : slots'[s].owner # c
         /\ \A s \in Slot : slots[s].owner # c => slots'[s] = slots[s]
         /\ \A s \in Slot :
              slots'[s].owner \in Conn => slots'[s] = slots[s]
<1>1. EmptySlot.owner = NoConn
  BY FilterAssumption, EmptySlotType
<1>2. conns' = [conns EXCEPT ![c].stage = "cleared"] /\ slots' = ClearOwned(c)
      /\ conns[c].stage \in {"live", "closed"}
  BY DEF DisconnectClear
<1>3. /\ conns'[c].stage = "cleared" /\ conns'[c].id = conns[c].id
      /\ \A d \in Conn : d # c => conns'[d] = conns[d]
  BY <1>2, DriverFacts DEF PublisherInv, Contexts
<1>4. \A s \in Slot :
        slots'[s] = IF slots[s].owner = c THEN EmptySlot ELSE slots[s]
  BY <1>2 DEF ClearOwned
<1> QED
  BY <1>1, <1>2, <1>3, <1>4, FilterAssumption, PublisherAssumption

LEMMA DriverClearsInv ==
  ASSUME PublisherInv, NEW c \in Conn, DriverClears(c)
  PROVE  PublisherInv'
<1>1. EnvInv' /\ clock' = clock
  BY EnvironmentKept DEF DriverClears, PublisherInv
<1>2. DisconnectClear(c)
  BY DEF DriverClears
<1>3. NotAhead'
  BY <1>1, <1>2, ClearFacts DEF NotAhead, PublisherInv
<1>4. ASSUME NEW i \in Identity
      PROVE  broker'[i] \in Brokers /\ Fits(i, broker'[i], conns', slots')
  <2>1. broker[i] \in Brokers
    BY BrokerFacts
  <2>2. CASE broker[i].port = c /\ conns[c].stage = "live"
    <3> DEFINE b == [broker[i] EXCEPT !.port = Severed]
    <3>1. broker'[i] = b
      BY <2>2 DEF DriverClears
    <3>2. /\ b \in Brokers /\ b.port = Severed /\ b.pc = broker[i].pc /\ b.up = broker[i].up
          /\ b.published = broker[i].published /\ b.want = broker[i].want
          /\ b.paused = broker[i].paused
      BY <2>1 DEF Brokers
    <3> HIDE DEF b
    <3>3. broker[i].pc # "closing" /\ broker[i].up
      BY <2>2, BrokerFacts, FilterAssumption, PublisherAssumption DEF PortFits
    <3>4. PortFits(i, b, conns')
      BY <3>2, <3>3, FilterAssumption, PublisherAssumption DEF PortFits
    <3>5. CacheFits(b, slots')
      BY <2>2, <3>2, BrokerFacts, FilterAssumption, PublisherAssumption DEF CacheFits
    <3>6. PauseFits(b, slots')
      BY <3>2, BrokerFacts, FilterAssumption, PublisherAssumption DEF PauseFits
    <3>7. SlotFits(i, b, conns', slots')
      <4> SUFFICES ASSUME NEW s \in Slot, slots'[s].owner \in Conn, slots'[s].id = i,
                          conns'[slots'[s].owner].stage = "live"
                   PROVE  FALSE
        BY DEF SlotFits
      <4>1. slots'[s] = slots[s] /\ slots[s].owner # c
        BY <1>2, ClearFacts
      <4>2. conns[slots[s].owner].stage = "live"
        BY <1>2, <4>1, ClearFacts
      <4> QED
        BY <2>2, <4>1, <4>2, BrokerFacts DEF SlotFits
    <3> QED
      BY <3>1, <3>2, <3>4, <3>5, <3>6, <3>7 DEF Fits
  <2>3. CASE broker[i].port = c /\ conns[c].stage # "live"
    <3>1. broker'[i] = broker[i]
      BY <2>1, <2>3 DEF DriverClears
    <3>2. broker[i].pc = "closing"
      BY <2>3, BrokerFacts DEF PortFits
    <3>3. PortFits(i, broker[i], conns')
      BY <1>2, <2>3, <3>2, ClearFacts, BrokerFacts DEF PortFits
    <3>4. CacheFits(broker[i], slots')
      BY <3>2, BrokerFacts DEF CacheFits
    <3>5. PauseFits(broker[i], slots')
      BY <3>2 DEF PauseFits
    <3>6. SlotFits(i, broker[i], conns', slots')
      BY <1>2, ClearFacts, BrokerFacts DEF SlotFits
    <3> QED
      BY <2>1, <3>1, <3>3, <3>4, <3>5, <3>6 DEF Fits
  <2>4. CASE broker[i].port # c
    <3>1. broker'[i] = broker[i]
      BY <2>1, <2>4 DEF DriverClears
    <3>2. broker[i].port \in Conn => conns'[broker[i].port] = conns[broker[i].port]
      BY <1>2, <2>4, ClearFacts
    <3>3. \A s \in Slot :
            broker[i].port \in Conn
            /\ (slots[s].owner = broker[i].port \/ slots'[s].owner = broker[i].port)
              => slots'[s] = slots[s]
      BY <1>2, <2>4, ClearFacts
    <3>4. \A s \in Slot :
            slots'[s].owner \in Conn /\ slots'[s].id = i
            /\ conns'[slots'[s].owner].stage = "live"
              => slots[s] = slots'[s] /\ conns[slots[s].owner].stage = "live"
      BY <1>2, ClearFacts
    <3> QED
      BY <2>1, <3>1, <3>2, <3>3, <3>4, FitsKept, BrokerFacts
  <2> QED
    BY <2>2, <2>3, <2>4
<1>5. broker' \in [Identity -> Brokers]
  <2>1. broker' = [i \in Identity |-> broker'[i]]
    BY DEF DriverClears
  <2> QED
    BY <1>4, <2>1
<1> QED
  BY <1>1, <1>2, <1>3, <1>4, <1>5, ClientInv DEF ClientStep

LEMMA DriverForgetsInv ==
  ASSUME PublisherInv, NEW c \in Conn, DriverForgets(c)
  PROVE  PublisherInv'
<1>1. EnvInv' /\ clock' = clock
  BY EnvironmentKept DEF DriverForgets, PublisherInv
<1>2. DisconnectForget(c)
  BY DEF DriverForgets
<1>3. /\ slots' = slots /\ conns[c].stage = "cleared"
      /\ \A d \in Conn : d # c => conns'[d] = conns[d]
  BY <1>2, DriverFacts DEF PublisherInv, DisconnectForget
<1>4. \A s \in Slot : slots[s].owner # c
  BY <1>3, DriverFacts, FilterAssumption, PublisherAssumption DEF PublisherInv
<1>5. NotAhead'
  BY <1>1, <1>3 DEF NotAhead, PublisherInv
<1>6. ASSUME NEW i \in Identity
      PROVE  broker'[i] \in Brokers /\ Fits(i, broker'[i], conns', slots')
  <2>1. broker[i] \in Brokers
    BY BrokerFacts
  <2>2. CASE broker[i].port = c
    <3> DEFINE b == [broker[i] EXCEPT !.port = NoConn, !.pc = "idle"]
    <3>1. broker'[i] = b
      BY <2>2 DEF DriverForgets
    <3>2. /\ b \in Brokers /\ b.port = NoConn /\ b.pc = "idle"
          /\ b.published = broker[i].published
      BY <2>1 DEF Brokers, PCs
    <3> HIDE DEF b
    <3>3. broker[i].pc = "closing"
      BY <1>3, <2>2, BrokerFacts DEF PortFits
    <3>4. PortFits(i, b, conns') /\ PauseFits(b, slots')
      BY <3>2, FilterAssumption, PublisherAssumption DEF PortFits, PauseFits
    <3>5. CacheFits(b, slots')
      BY <3>2, <3>3, BrokerFacts, FilterAssumption, PublisherAssumption DEF CacheFits
    <3>6. SlotFits(i, b, conns', slots')
      BY <1>3, <1>4, <2>2, BrokerFacts DEF SlotFits
    <3> QED
      BY <3>1, <3>2, <3>4, <3>5, <3>6 DEF Fits
  <2>3. CASE broker[i].port # c
    <3>1. broker'[i] = broker[i]
      BY <2>1, <2>3 DEF DriverForgets
    <3>2. broker[i].port \in Conn => conns'[broker[i].port] = conns[broker[i].port]
      BY <1>3, <2>3
    <3>3. \A s \in Slot : slots'[s] = slots[s] /\ slots'[s].owner # c
      BY <1>3, <1>4
    <3>4. \A s \in Slot :
            slots'[s].owner \in Conn /\ conns'[slots'[s].owner].stage = "live"
              => conns[slots[s].owner].stage = "live"
      BY <1>3, <3>3
    <3> QED
      BY <2>1, <3>1, <3>2, <3>3, <3>4, FitsKept, BrokerFacts
  <2> QED
    BY <2>2, <2>3
<1>7. broker' \in [Identity -> Brokers]
  <2>1. broker' = [i \in Identity |-> broker'[i]]
    BY DEF DriverForgets
  <2> QED
    BY <1>6, <2>1
<1> QED
  BY <1>1, <1>2, <1>5, <1>6, <1>7, ClientInv DEF ClientStep

\* Steps that leave connections, slots and brokers alone.
LEMMA QuietInv ==
  ASSUME PublisherInv, ClientStep, UNCHANGED <<conns, slots, broker>>, EnvInv',
         clock' \in Nat, clock' >= clock
  PROVE  PublisherInv'
<1>1. NotAhead'
  <2> SUFFICES ASSUME NEW s \in Slot, slots[s].owner \in Conn
               PROVE  slots[s].gen <= clock'
    BY DEF NotAhead
  <2>1. slots[s].gen \in Nat /\ slots[s].gen <= clock
    BY DriverFacts, FilterAssumption, PublisherAssumption DEF PublisherInv, NotAhead, Slots
  <2> QED
    BY <2>1 DEF PublisherInv, EnvInv
<1> QED
  BY <1>1, ClientInv DEF PublisherInv, BrokersFit

\* Loading happens in a stopped driver, which has no connection and no broker
\* with a port.
LEMMA LoadInv ==
  ASSUME PublisherInv, Load, broker' = broker, EnvInv', clock' = clock
  PROVE  PublisherInv'
<1>1. EmptySlot.owner = NoConn
  BY FilterAssumption, EmptySlotType
<1>2. /\ conns' = conns /\ \A s \in Slot : slots'[s].owner = NoConn
      /\ \A d \in Conn : conns[d].stage = "free"
  BY <1>1, DriverFacts DEF Load, PublisherInv
<1>3. NotAhead'
  BY <1>2, FilterAssumption, PublisherAssumption DEF NotAhead
<1>4. ASSUME NEW i \in Identity PROVE Fits(i, broker[i], conns', slots')
  <2>1. broker[i].port \notin Conn
    BY <1>2, BrokerFacts DEF PortFits
  <2> QED
    BY <1>2, <2>1, BrokerFacts, FilterAssumption, PublisherAssumption
    DEF Fits, PortFits, CacheFits, PauseFits, SlotFits
<1> QED
  BY <1>3, <1>4, ClientInv DEF ClientStep, PublisherInv, BrokersFit

LEMMA EnvironmentInv ==
  ASSUME PublisherInv,
         (\E i \in Identity : Register(i)) \/ Shadow \/ ClockTick \/ LoadOrUnload \/ DriverGone
  PROVE  PublisherInv'
<1>1. clock \in Nat
  BY DEF PublisherInv, EnvInv
<1>2. ASSUME NEW i \in Identity, Register(i) PROVE PublisherInv'
  <2>1. registered' \in [Identity -> SUBSET Name]
    BY <1>2 DEF Register, PublisherInv, EnvInv
  <2>2. EnvInv' /\ clock' = clock
    BY <1>2, <2>1, EventInv DEF Register, PublisherInv, EnvInv
  <2> QED
    BY <1>1, <1>2, <2>2, QuietInv DEF Register, DriverKept, ClientStep
<1>3. CASE Shadow
  <2>1. EnvInv' /\ clock' = clock
    BY <1>3, EventInv DEF Shadow, PublisherInv, EnvInv
  <2> QED
    BY <1>1, <1>3, <2>1, QuietInv DEF Shadow, DriverKept, ClientStep
<1>4. CASE ClockTick
  <2>1. clock' \in 0..MaxGen /\ clock' >= clock
    BY <1>1, <1>4, FilterAssumption, PublisherAssumption DEF ClockTick
  <2>2. EnvInv'
    BY <1>4, <2>1 DEF ClockTick, PublisherInv, EnvInv
  <2> QED
    BY <1>4, <2>1, <2>2, QuietInv DEF ClockTick, DriverKept, ClientStep
<1>5. CASE LoadOrUnload
  <2>1. EnvInv' /\ clock' = clock /\ broker' = broker
    BY <1>5, EventInv DEF LoadOrUnload, PublisherInv, EnvInv
  <2>2. CASE Load
    BY <2>1, <2>2, LoadInv
  <2>3. CASE Unload
    BY <1>1, <2>1, <2>3, QuietInv DEF Unload, ClientStep
  <2> QED
    BY <1>5, <2>2, <2>3 DEF LoadOrUnload
<1>6. CASE DriverGone
  <2>1. EnvInv' /\ clock' = clock /\ broker' = broker
    BY <1>6, EnvironmentKept DEF DriverGone, PublisherInv, environment
  <2> QED
    BY <1>1, <1>6, <2>1, QuietInv DEF DriverGone, Unloaded, ClientStep
<1> QED
  BY <1>2, <1>3, <1>4, <1>5, <1>6

-----------------------------------------------------------------------------
(* The inductive invariant.                                                 *)

LEMMA PublisherInitInv == PublisherInit => PublisherInv
<1> SUFFICES ASSUME PublisherInit PROVE PublisherInv
  OBVIOUS
<1>1. /\ EmptySlot \in Slots /\ EmptySlot.owner = NoConn
      /\ FreeContext \in Contexts /\ FreeContext.stage = "free"
      /\ NoQuery \in Query
  BY FilterAssumption, EmptySlotType, FreeContextType, NoQueryType
<1>2. /\ conns = [c \in Conn |-> FreeContext]
      /\ slots = [s \in Slot |-> EmptySlot]
  BY DEF PublisherInit
<1>3. Inv
  <2>1. TypeOK
    BY <1>1, <1>2 DEF PublisherInit, TypeOK, Creates, Decided
  <2>2. Occupied = {}
    BY <1>1, <1>2 DEF Occupied
  <2>3. StoppedIsEmpty
    BY <1>1, <1>2 DEF StoppedIsEmpty
  <2> QED
    BY <2>1, <2>2, <2>3
    DEF Inv, OneSlotPerIdentity, OwnersConnected
<1>4. EnvInv
  <2>1. registered \in [Identity -> SUBSET Name] /\ shadowed \in BOOLEAN
    BY DEF PublisherInit
  <2>2. clock \in 0..MaxGen /\ probes \in 0..MaxProbes /\ events \in 0..MaxEvents
    BY FilterAssumption, PublisherAssumption DEF PublisherInit
  <2> QED
    BY <2>1, <2>2 DEF EnvInv
<1>5. NotAhead
  BY <1>1, <1>2, FilterAssumption, PublisherAssumption DEF NotAhead
<1> DEFINE b == [Down EXCEPT !.up = TRUE, !.pc = "guard", !.force = TRUE]
<1>6. b \in Brokers /\ b.port = NoConn /\ b.published = NoMapping /\ b.pc = "guard" /\ b.up
  BY DEF Down, Brokers, PCs
<1>7. broker = [i \in Identity |-> b]
  BY DEF PublisherInit
<1> HIDE DEF b
<1>8. ASSUME NEW i \in Identity PROVE Fits(i, b, conns, slots)
  BY <1>1, <1>2, <1>6, FilterAssumption, PublisherAssumption
  DEF Fits, PortFits, CacheFits, PauseFits, SlotFits
<1>9. BrokersFit
  BY <1>6, <1>7, <1>8 DEF BrokersFit
<1> QED
  BY <1>3, <1>4, <1>5, <1>9 DEF PublisherInv

LEMMA PublisherNextInv == PublisherInv /\ [PublisherNext]_vars => PublisherInv'
<1> SUFFICES ASSUME PublisherInv, [PublisherNext]_vars PROVE PublisherInv'
  OBVIOUS
<1>1. ASSUME NEW i \in Identity,
             Start(i) \/ Tick(i) \/ SetPaused(i) \/ Publish(i) \/ Probe(i) \/ Kill(i)
      PROVE  PublisherInv'
  BY <1>1, StartInv, TickInv, SetPausedInv, GuardInv, ConnectionInv, OpenPortInv,
     EnumerateInv, SendInv, CloseHandleInv, ProbeInv, KillInv DEF Publish
<1>2. ASSUME NEW c \in Conn, DriverClears(c) \/ DriverForgets(c) \/ ProbeEnds(c)
      PROVE  PublisherInv'
  BY <1>2, DriverClearsInv, DriverForgetsInv, ProbeEndsInv
<1>3. CASE (\E i \in Identity : Register(i)) \/ Shadow \/ ClockTick \/ LoadOrUnload \/ DriverGone
  BY <1>3, EnvironmentInv
<1>4. CASE UNCHANGED vars
  <2>1. ClientStep /\ UNCHANGED <<conns, slots, broker, clock>>
    BY <1>4 DEF vars, ClientStep, DriverKept
  <2>2. EnvInv' /\ clock \in Nat
    BY <1>4 DEF vars, PublisherInv, EnvInv
  <2> QED
    BY <2>1, <2>2, QuietInv
<1> QED
  BY <1>1, <1>2, <1>3, <1>4 DEF PublisherNext

\* What the brokers and the driver agree on survives every step of either
\* (publish_filter_mappings, FswPortMessage, FswPortDisconnect).
THEOREM PublisherInvHolds == PublisherSpec => []PublisherInv
<1> QED
  BY PublisherInitInv, PublisherNextInv, PTL DEF PublisherSpec

\* Every variable keeps its type (FswFilter's, and the broker's statics).
THEOREM PublisherTypesKept == PublisherSpec => []PublisherTypeOK
<1>1. PublisherInv => PublisherTypeOK
  BY DriverFacts DEF PublisherInv, BrokersFit, EnvInv, PublisherTypeOK
<1> QED
  BY <1>1, PublisherInvHolds, PTL

\* The caches, the pause and the generations of every broker agree with what
\* the driver holds (publish_filter_mappings and FswPortMessage together).
THEOREM PublicationIsSound == PublisherSpec => []PublicationSound
<1>1. ASSUME PublisherInv PROVE CacheCoherent
  <2> SUFFICES ASSUME NEW i \in Identity, broker[i].port \in Conn,
                      broker[i].published # NoMapping
               PROVE  \E s \in OwnSlot(broker[i].port) :
                        slots[s].map = broker[i].published
    BY DEF CacheCoherent
  <2>1. PICK s \in Slot : /\ slots[s].owner = broker[i].port
                                 /\ slots[s].map = broker[i].published
    BY <1>1, BrokerFacts DEF CacheFits
  <2>2. s \in OwnSlot(broker[i].port)
    BY <2>1, FilterAssumption, PublisherAssumption DEF OwnSlot, Occupied
  <2> QED
    BY <2>1, <2>2
<1>2. ASSUME PublisherInv PROVE PausedIsInert
  <2> SUFFICES ASSUME NEW i \in Identity, At(i, "idle"), broker[i].paused,
                      NEW s \in Occupied, slots[s].id = i, slots[s].map.names # {}
               PROVE  conns[slots[s].owner].stage = "closed"
    BY DEF PausedIsInert
  <2>1. s \in Slot /\ slots[s].owner # NoConn
    BY DEF Occupied
  <2>2. slots[s].owner \in Conn /\ conns[slots[s].owner].stage \in {"live", "closed"}
    BY <1>2, <2>1, DriverFacts DEF PublisherInv
  <2>3. broker[i].port # slots[s].owner
    BY <1>2, <2>1, <2>2, BrokerFacts DEF PauseFits, At
  <2> QED
    BY <1>2, <2>1, <2>2, <2>3, BrokerFacts DEF SlotFits
<1>3. ASSUME PublisherInv PROVE OwnerNeverRefused
  <2> SUFFICES ASSUME NEW i \in Identity, At(i, "send"), broker[i].port \in Conn,
                      OwnSlot(broker[i].port) # {}
               PROVE  Status(broker[i].port, Update(i)) = "success"
    BY DEF OwnerNeverRefused
  <2>1. broker[i].want \in Mapping
    BY <1>3, BrokerFacts DEF PauseFits, At
  <2>2. WellFormed(Update(i))
    BY <2>1, FilterAssumption, PublisherAssumption DEF Update, Mapping, WellFormed
  <2>3. ASSUME NEW s \in OwnSlot(broker[i].port) PROVE ~Stale(Update(i), s)
    <3>1. slots[s].gen <= clock /\ slots[s].gen \in Nat /\ clock \in Nat
      BY <1>3, DriverFacts, FilterAssumption, PublisherAssumption
      DEF PublisherInv, NotAhead, EnvInv, OwnSlot, Occupied, Slots
    <3> QED
      BY <3>1 DEF Stale, Update
  <2> QED
    BY <2>2, <2>3 DEF Status, Update
<1> QED
  BY <1>1, <1>2, <1>3, PublisherInvHolds, PTL DEF PublicationSound

-----------------------------------------------------------------------------
(* The composition.                                                         *)

LEMMA SendIsClientStep ==
  ASSUME PublisherInv, NEW i \in Identity, Send(i)
  PROVE  ClientStep
<1> DEFINE c == broker[i].port
<1>1. CASE c \in Conn /\ Status(c, Update(i)) = "success"
  <2>1. broker[i].want \in Mapping
    BY BrokerFacts DEF Send, At, PauseFits
  <2>2. Update(i) \in Messages
    BY <2>1 DEF Update, Messages, Mapping, PublisherInv, EnvInv
  <2> QED
    BY <1>1, <2>2 DEF Send, ClientStep
<1>2. CASE ~(c \in Conn /\ Status(c, Update(i)) = "success")
  BY <1>2 DEF Send, ClientStep
<1> QED
  BY <1>1, <1>2

LEMMA EveryStepIsClientStep ==
  ASSUME PublisherInv, [PublisherNext]_vars
  PROVE  ClientStep
<1>1. ASSUME NEW i \in Identity, CloseHandle(i) PROVE ClientStep
  <2>1. broker[i].port # Severed => broker[i].port \in Conn
    BY <1>1, BrokerFacts DEF CloseHandle, At, PortFits, Brokers
  <2> QED
    BY <1>1, <2>1 DEF CloseHandle, ClientStep
<1>2. ASSUME NEW i \in Identity,
             Guard(i) \/ KeepPort(i) \/ OpenPort(i) \/ ConnectRefused(i) \/ Ping(i)
             \/ Enumerate(i)
      PROVE  ClientStep
  BY <1>2 DEF Guard, KeepPort, OpenPort, ConnectRefused, Ping, Enumerate, ClientStep
<1>3. ASSUME NEW i \in Identity,
             Start(i) \/ Tick(i) \/ SetPaused(i) \/ Probe(i) \/ Kill(i) \/ Register(i)
      PROVE  ClientStep
  BY <1>3 DEF Start, Tick, SetPaused, Probe, Kill, Register, ClientStep
<1>4. ASSUME NEW c \in Conn, DriverClears(c) \/ DriverForgets(c) \/ ProbeEnds(c)
      PROVE  ClientStep
  BY <1>4 DEF DriverClears, DriverForgets, ProbeEnds, ClientStep
<1>5. CASE Shadow \/ ClockTick \/ LoadOrUnload \/ DriverGone \/ UNCHANGED vars
  BY <1>5 DEF Shadow, ClockTick, LoadOrUnload, DriverGone, vars, DriverKept, ClientStep
<1> QED
  BY <1>1, <1>2, <1>3, <1>4, <1>5, SendIsClientStep DEF PublisherNext, Publish

\* The brokers are clients the driver's own specification allows: every step
\* of theirs leaves the driver alone or is one of FswFilter's, so that what is
\* proved of the driver under arbitrary clients holds under these.
THEOREM BrokersAreClients == PublisherSpec => [][Next]_filterVars
<1>1. PublisherInv /\ [PublisherNext]_vars => [Next]_filterVars
  BY EveryStepIsClientStep DEF ClientStep, Next, filterVars, DriverKept
<1> QED
  BY <1>1, PublisherInvHolds, PTL DEF PublisherSpec
=============================================================================
