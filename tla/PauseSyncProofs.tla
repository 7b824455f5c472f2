---------------------------- MODULE PauseSyncProofs ----------------------------
(***************************************************************************)
(* The pause settles, for any number of CLIs, whichever of them have        *)
(* package identity, and any number of events.                              *)
(*                                                                         *)
(* The argument: the broker's counter is the length of its queue plus the   *)
(* write under way (Counts), and the value it queued last is the pause in   *)
(* its memory (Latest).  Once that value is stored, memory and registry     *)
(* differ only while somebody is about to tell of a change or has told      *)
(* (Follows), and not at all while nobody else wrote (Alone).  The hives    *)
(* differ only while a writer is between its two writes (Hives).            *)
(***************************************************************************)
EXTENDS PauseSync, FiniteSetTheorems, TLAPS

\* Where a writer can be.
Shape ==
  /\ \A w \in Writer : /\ writer[w].pc \in {"real", "announce"} => writer[w].ok
                       /\ writer[w].pc = "package" => w \in Packaged
  /\ writer[Broker].pc \in {"idle", "real", "package", "announce", "count"}
  /\ \A c \in Cli : writer[c].pc # "count"
  /\ broker.pc # "pump" => writer[Broker].pc = "idle" /\ broker.queue = <<>>
  /\ broker.pc = "down" => broker.inbox = <<>>
  /\ Broker \notin Packaged => mirror.pc = "idle"

\* The commands whose message to the broker is still to come.
Active == {c \in Cli : writer[c].pc \in {"real", "package", "announce", "find", "send"}}

Counter ==
  IF writer[Broker].pc = "idle" THEN broker.inFlight = Len(broker.queue)
                                ELSE broker.inFlight = Len(broker.queue) + 1
Budget ==
  /\ IsFiniteSet(Active)
  /\ broker.inFlight + Cardinality(Active) <= events
Counts == Counter /\ Budget

Basics == TypeOK /\ Shape /\ Counts

\* The last value the persist thread was given, and whether it is still to land.
Latest == IF broker.queue # <<>> THEN broker.queue[Len(broker.queue)]
          ELSE writer[Broker].value
Unstored == broker.queue # <<>> \/ writer[Broker].pc \in {"real", "package"}

LatestIsPause ==
  broker.pc = "pump" /\ broker.inFlight # 0 /\ ~(excused /\ foreign) =>
    broker.paused = Latest

\* A CLI whose broadcast of a write is still to come.
Telling(c) == writer[c].pc \in {"package", "announce"} /\ writer[c].ok
\* A message the broker will not ignore.
Told == \/ broker.inFlight = 0 /\ broker.inbox # <<>>
        \/ \E k \in 1..Len(broker.inbox) : broker.inbox[k] = TRUE

Follows ==
  broker.pc = "pump" /\ ~excused /\ ~Unstored =>
    broker.paused = Disabled(Broker) \/ Told \/ \E c \in Cli : Telling(c)

Alone ==
  broker.pc = "pump" /\ ~foreign /\ ~Unstored => broker.paused = Disabled(Broker)

Hives ==
  /\ ~split /\ package # NoValue =>
       real = package \/ \E w \in Writer : writer[w].pc = "package"
  /\ \A w \in Writer :
       writer[w].pc = "package" /\ writer[w].ok /\ writer[w].alone => real = writer[w].value
  /\ mirror.pc # "idle" /\ mirror.alone =>
       mirror.value = IF package = NoValue THEN real ELSE package

IInv == Basics /\ LatestIsPause /\ Follows /\ Alone /\ Hives

-----------------------------------------------------------------------------
(* The cases of a step, and sets that grow or shrink by one.                *)

\* The actions a step is one of; the writes are the same for every writer.
LEMMA Cases ==
  ASSUME [Next]_vars, NEW P,
         Persist => P, Count => P, Reload => P, Load => P, Toggle => P,
         CreateWindow => P, Exit => P, OtherVerb => P, ReadMerged => P,
         QueryReal => P, MirrorReal => P,
         \A w \in Writer : WriteReal(w) \/ WritePackage(w) \/ Announce(w) => P,
         \A c \in Cli : \/ Find(c) \/ Send(c) \/ Report(c) \/ Undelivered(c) \/ Kill(c)
                        \/ \E v \in BOOLEAN : Command(c, v)
                        => P,
         \A v \in BOOLEAN : ForeignWrite(v) => P,
         UNCHANGED vars => P
  PROVE  P
BY DEF Next, Pumping, Running, Writing, Mirroring, Writer

\* A subset is smaller, one that misses an element smaller by one, and an
\* element more makes a set larger by at most one.
LEMMA Sizes ==
  ASSUME NEW S, NEW T, IsFiniteSet(S)
  PROVE  /\ Cardinality(S) \in Nat
         /\ T \subseteq S =>
              /\ IsFiniteSet(T) /\ Cardinality(T) \in Nat
              /\ Cardinality(T) <= Cardinality(S)
         /\ \A x \in S : T \subseteq S \ {x} =>
              /\ IsFiniteSet(T) /\ Cardinality(T) \in Nat
              /\ Cardinality(T) <= Cardinality(S) - 1
         /\ \A x : T \subseteq S \cup {x} =>
              /\ IsFiniteSet(T) /\ Cardinality(T) \in Nat
              /\ Cardinality(T) <= Cardinality(S) + 1
<1>1. Cardinality(S) \in Nat
  BY FS_CardinalityType
<1>2. ASSUME T \subseteq S
      PROVE  /\ IsFiniteSet(T) /\ Cardinality(T) \in Nat
             /\ Cardinality(T) <= Cardinality(S)
  BY <1>2, FS_Subset, FS_CardinalityType
<1>3. ASSUME NEW x \in S, T \subseteq S \ {x}
      PROVE  /\ IsFiniteSet(T) /\ Cardinality(T) \in Nat
             /\ Cardinality(T) <= Cardinality(S) - 1
  <2>1. IsFiniteSet(S \ {x}) /\ Cardinality(S \ {x}) = Cardinality(S) - 1
    BY FS_RemoveElement
  <2> QED
    BY <1>3, <2>1, FS_Subset, FS_CardinalityType
<1>4. ASSUME NEW x, T \subseteq S \cup {x}
      PROVE  /\ IsFiniteSet(T) /\ Cardinality(T) \in Nat
             /\ Cardinality(T) <= Cardinality(S) + 1
  <2>1. /\ IsFiniteSet(S \cup {x})
        /\ Cardinality(S \cup {x}) \in {Cardinality(S), Cardinality(S) + 1}
    BY FS_AddElement
  <2>2. IsFiniteSet(T) /\ Cardinality(T) <= Cardinality(S \cup {x})
    BY <1>4, <2>1, FS_Subset
  <2>3. Cardinality(T) \in Nat
    BY <2>2, FS_CardinalityType
  <2> QED
    BY <1>1, <2>1, <2>2, <2>3
<1> QED
  BY <1>1, <1>2, <1>3, <1>4

\* The sequences of the broker.
LEMMA Queues ==
  ASSUME NEW q \in Seq(BOOLEAN)
  PROVE  /\ Len(q) \in Nat /\ (q = <<>> <=> Len(q) = 0)
         /\ \A k \in 1..Len(q) : q[k] \in BOOLEAN
         /\ \A v \in BOOLEAN :
              /\ Append(q, v) \in Seq(BOOLEAN) /\ Append(q, v) # <<>>
              /\ Len(Append(q, v)) = Len(q) + 1
              /\ Append(q, v)[Len(q) + 1] = v
              /\ \A k \in 1..Len(q) : Append(q, v)[k] = q[k]
         /\ q # <<>> =>
              /\ Head(q) \in BOOLEAN /\ Head(q) = q[1]
              /\ Tail(q) \in Seq(BOOLEAN) /\ Len(Tail(q)) = Len(q) - 1
              /\ \A k \in 1..Len(q) - 1 : Tail(q)[k] = q[k + 1]
<1>1. /\ Len(q) \in Nat /\ (q = <<>> <=> Len(q) = 0)
      /\ \A k \in 1..Len(q) : q[k] \in BOOLEAN
  OBVIOUS
<1>2. ASSUME NEW v \in BOOLEAN
      PROVE  /\ Append(q, v) \in Seq(BOOLEAN) /\ Append(q, v) # <<>>
             /\ Len(Append(q, v)) = Len(q) + 1
             /\ Append(q, v)[Len(q) + 1] = v
             /\ \A k \in 1..Len(q) : Append(q, v)[k] = q[k]
  OBVIOUS
<1>3. ASSUME q # <<>>
      PROVE  /\ Head(q) \in BOOLEAN /\ Head(q) = q[1]
             /\ Tail(q) \in Seq(BOOLEAN) /\ Len(Tail(q)) = Len(q) - 1
             /\ \A k \in 1..Len(q) - 1 : Tail(q)[k] = q[k + 1]
  BY <1>3
<1> QED
  BY <1>1, <1>2, <1>3

\* Somebody else's write changes nothing but who was alone.
LEMMA IntrudedType ==
  ASSUME writer \in [Writer -> WriterType]
  PROVE  /\ Intruded \in [Writer -> WriterType]
         /\ \A w \in Writer :
              /\ Intruded[w].pc = writer[w].pc /\ Intruded[w].value = writer[w].value
              /\ Intruded[w].ok = writer[w].ok
              /\ writer[w].pc # "package" => Intruded[w].alone = writer[w].alone
              /\ writer[w].pc = "package" => ~Intruded[w].alone
BY DEF Intruded, WriterType

\* An idle writer, and a broker that is down or starts.
LEMMA IdleType == Idle \in WriterType
BY DEF Idle, WriterType

LEMMA DownType ==
  /\ Down \in BrokerType /\ [Down EXCEPT !.pc = "load"] \in BrokerType
<1>1. Down \in BrokerType
  BY PauseAssumption DEF Down, BrokerType
<1> QED
  BY <1>1 DEF BrokerType

\* A broadcast reaches the inbox of a broker that has a window.
LEMMA BroadcastType ==
  ASSUME broker \in BrokerType, NEW tells \in BOOLEAN, Broadcast(tells)
  PROVE  /\ broker' \in BrokerType
         /\ broker'.pc = broker.pc /\ broker'.paused = broker.paused
         /\ broker'.queue = broker.queue /\ broker'.inFlight = broker.inFlight
         /\ broker'.inbox = IF WindowExists THEN Append(broker.inbox, tells) ELSE broker.inbox
<1>1. Append(broker.inbox, tells) \in Seq(BOOLEAN)
  BY Queues DEF BrokerType
<1> QED
  BY <1>1 DEF Broadcast, BrokerType

\* A pause the broker takes is queued to be stored, or excused.
LEMMA SetPausedType ==
  ASSUME broker \in BrokerType, broker.inFlight < MaxEvents, NEW v \in BOOLEAN, SetPaused(v)
  PROVE  /\ broker' \in BrokerType
         /\ broker'.pc = broker.pc /\ broker'.paused = v /\ broker'.inbox = broker.inbox
         /\ \/ /\ broker'.queue # <<>> /\ broker'.queue[Len(broker'.queue)] = v
               /\ Len(broker'.queue) = Len(broker.queue) + 1
               /\ broker'.inFlight = broker.inFlight + 1
               /\ ~excused' /\ ~foreign'
            \/ /\ broker'.queue = broker.queue /\ broker'.inFlight = broker.inFlight
               /\ excused' /\ foreign'
         /\ excused' \in BOOLEAN /\ foreign' \in BOOLEAN
         /\ UNCHANGED <<hives, mirror, split>>
<1> DEFINE longer == Append(broker.queue, v)
<1>1. /\ longer \in Seq(BOOLEAN) /\ longer # <<>> /\ longer[Len(longer)] = v
      /\ Len(longer) = Len(broker.queue) + 1
  BY Queues DEF BrokerType
<1>2. broker.inFlight + 1 \in 0..MaxEvents
  BY PauseAssumption DEF BrokerType
<1>3. /\ UNCHANGED <<hives, mirror, split>>
      /\ \/ broker' = Queued(broker, v) /\ excused' = FALSE /\ foreign' = FALSE
         \/ broker' = [broker EXCEPT !.paused = v] /\ excused' = TRUE /\ foreign' = TRUE
  BY DEF SetPaused
<1>4. CASE broker' = Queued(broker, v) /\ excused' = FALSE /\ foreign' = FALSE
  <2>1. broker' = [broker EXCEPT !.paused = v, !.inFlight = @ + 1, !.queue = longer]
    BY <1>4 DEF Queued
  <2> HIDE DEF longer
  <2>2. /\ broker' \in BrokerType
        /\ broker'.pc = broker.pc /\ broker'.paused = v /\ broker'.inbox = broker.inbox
        /\ broker'.queue = longer /\ broker'.inFlight = broker.inFlight + 1
    BY <1>1, <1>2, <2>1 DEF BrokerType
  <2> QED
    BY <1>1, <1>3, <1>4, <2>2
<1>5. CASE broker' = [broker EXCEPT !.paused = v] /\ excused' = TRUE /\ foreign' = TRUE
  BY <1>3, <1>5 DEF BrokerType
<1> QED
  BY <1>3, <1>4, <1>5

\* What a jump of one writer leaves alone.
LEMMA StepsAt ==
  ASSUME writer \in [Writer -> WriterType], NEW w \in Writer, NEW p, Steps(w, p)
  PROVE  /\ writer'[w].pc = p /\ writer'[w].value = writer[w].value
         /\ writer'[w].ok = writer[w].ok /\ writer'[w].alone = writer[w].alone
         /\ \A x \in Writer : x # w => writer'[x] = writer[x]
BY DEF Steps, WriterType

\* A write that lands: its writer goes on, and nobody else was alone.
IntrudesTo(w, p) ==
  /\ writer'[w].pc = p /\ writer'[w].value = writer[w].value
  /\ writer'[w].ok = writer[w].ok /\ writer'[w].alone = writer[w].alone
  /\ \A x \in Writer : x # w =>
       /\ writer'[x].pc = writer[x].pc /\ writer'[x].value = writer[x].value
       /\ writer'[x].ok = writer[x].ok
       /\ writer[x].pc = "package" => ~writer'[x].alone
  /\ mirror'.pc = mirror.pc /\ ~mirror'.alone

\* What a write that lands leaves alone.
LEMMA IntrudesAt ==
  ASSUME TypeOK, NEW w \in Writer, NEW p, Intrudes(w, p)
  PROVE  IntrudesTo(w, p)
<1>1. writer' = [Intruded EXCEPT ![w] = [writer[w] EXCEPT !.pc = p]]
      /\ mirror' = [mirror EXCEPT !.alone = FALSE]
  BY DEF Intrudes
<1>2. /\ writer'[w].pc = p /\ writer'[w].value = writer[w].value
      /\ writer'[w].ok = writer[w].ok /\ writer'[w].alone = writer[w].alone
  BY <1>1, IntrudedType DEF TypeOK, WriterType
<1>3. \A x \in Writer : x # w => writer'[x] = Intruded[x]
  BY <1>1, IntrudedType DEF TypeOK
<1>4. mirror'.pc = mirror.pc /\ ~mirror'.alone
  BY <1>1 DEF TypeOK
<1> QED
  BY <1>2, <1>3, <1>4, IntrudedType DEF TypeOK, IntrudesTo

\* A write that fails: its writer goes on, and remembers it.
FailsTo(w, p) ==
  /\ writer'[w].pc = p /\ writer'[w].value = writer[w].value
  /\ ~writer'[w].ok
  /\ \A x \in Writer : x # w => writer'[x] = writer[x]

\* What a write that fails leaves alone.
LEMMA FailsAt ==
  ASSUME writer \in [Writer -> WriterType], NEW w \in Writer, NEW p,
         writer' = [writer EXCEPT ![w].ok = FALSE, ![w].pc = p]
  PROVE  FailsTo(w, p)
BY DEF WriterType, FailsTo

\* The first write of persist_disabled: it lands, or fails and is remembered.
LEMMA RealAt ==
  ASSUME TypeOK, NEW w \in Writer, WriteReal(w)
  PROVE  /\ writer[w].pc = "real" /\ package' = package /\ broker' = broker
         /\ writer'[w].value = writer[w].value
         /\ \A x \in Writer : x # w =>
              /\ writer'[x].pc = writer[x].pc /\ writer'[x].value = writer[x].value
              /\ writer'[x].ok = writer[x].ok
         /\ \/ /\ real' = writer[w].value
               /\ writer'[w].pc = IF w \in Packaged THEN "package" ELSE "announce"
               /\ writer'[w].ok = writer[w].ok /\ writer'[w].alone = writer[w].alone
               /\ \A x \in Writer : x # w /\ writer[x].pc = "package" => ~writer'[x].alone
               /\ ~mirror'.alone /\ mirror'.pc = mirror.pc
               /\ Wrote(w) /\ split' = (split \/ w \notin Packaged)
               /\ events' = events
            \/ /\ real' = real /\ mirror' = mirror /\ Event /\ Faulty
               /\ writer'[w].pc = IF w \in Packaged THEN "package" ELSE After(w)
               /\ ~writer'[w].ok /\ \A x \in Writer : x # w => writer'[x] = writer[x]
<1> DEFINE p == IF w \in Packaged THEN "package" ELSE "announce"
           q == IF w \in Packaged THEN "package" ELSE After(w)
           Landed == /\ real' = writer[w].value /\ Intrudes(w, p) /\ Wrote(w)
                     /\ split' = (split \/ w \notin Packaged) /\ events' = events
           Failed == /\ writer' = [writer EXCEPT ![w].ok = FALSE, ![w].pc = q]
                     /\ real' = real /\ mirror' = mirror /\ Event /\ Faulty
<1>1. /\ writer[w].pc = "real" /\ package' = package /\ broker' = broker
      /\ Landed \/ Failed
  BY DEF WriteReal
<1>2. CASE Landed
  <2>1. IntrudesTo(w, p)
    BY <1>2, IntrudesAt
  <2> QED
    BY <1>1, <1>2, <2>1 DEF IntrudesTo
<1>3. CASE Failed
  <2>1. FailsTo(w, q)
    <3> HIDE DEF q
    <3> QED
      BY <1>3, FailsAt DEF TypeOK
  <2> QED
    BY <1>1, <1>3, <2>1 DEF FailsTo
<1> QED
  BY <1>1, <1>2, <1>3

\* The second write, for a process with package identity.
LEMMA PackageAt ==
  ASSUME TypeOK, NEW w \in Writer, WritePackage(w)
  PROVE  /\ writer[w].pc = "package" /\ real' = real /\ broker' = broker
         /\ writer'[w].value = writer[w].value
         /\ \A x \in Writer : x # w =>
              /\ writer'[x].pc = writer[x].pc /\ writer'[x].value = writer[x].value
              /\ writer'[x].ok = writer[x].ok
         /\ \/ /\ package' = writer[w].value
               /\ writer'[w].pc = IF writer[w].ok THEN "announce" ELSE After(w)
               /\ writer'[w].ok = writer[w].ok
               /\ \A x \in Writer : x # w /\ writer[x].pc = "package" => ~writer'[x].alone
               /\ ~mirror'.alone /\ mirror'.pc = mirror.pc
               /\ Wrote(w) /\ split' = ~(writer[w].ok /\ writer[w].alone)
               /\ events' = events
            \/ /\ package' = package /\ mirror' = mirror /\ Event /\ Faulty
               /\ writer'[w].pc = After(w)
               /\ ~writer'[w].ok /\ \A x \in Writer : x # w => writer'[x] = writer[x]
<1> DEFINE p == IF writer[w].ok THEN "announce" ELSE After(w)
           q == After(w)
           Landed == /\ package' = writer[w].value /\ Intrudes(w, p) /\ Wrote(w)
                     /\ split' = ~(writer[w].ok /\ writer[w].alone) /\ events' = events
           Failed == /\ writer' = [writer EXCEPT ![w].ok = FALSE, ![w].pc = q]
                     /\ package' = package /\ mirror' = mirror /\ Event /\ Faulty
<1>1. /\ writer[w].pc = "package" /\ real' = real /\ broker' = broker
      /\ Landed \/ Failed
  BY DEF WritePackage
<1>2. CASE Landed
  <2>1. IntrudesTo(w, p)
    BY <1>2, IntrudesAt
  <2> QED
    BY <1>1, <1>2, <2>1 DEF IntrudesTo
<1>3. CASE Failed
  <2>1. FailsTo(w, q)
    <3> HIDE DEF q
    <3> QED
      BY <1>3, FailsAt DEF TypeOK
  <2> QED
    BY <1>1, <1>3, <2>1 DEF FailsTo
<1> QED
  BY <1>1, <1>2, <1>3

\* Whoever may hand the broker a value has paid for it with an event.
LEMMA Room ==
  ASSUME Basics
  PROVE  /\ broker.inFlight <= events /\ events <= MaxEvents
         /\ Active # {} => broker.inFlight < events
         /\ \A c \in Cli : writer[c].pc = "send" => broker.inFlight < events
         /\ writer[Broker].pc = "count" => broker.inFlight > 0
<1>1. Cardinality(Active) \in Nat /\ (Active # {} => Cardinality(Active) > 0)
  BY Sizes, FS_EmptySet DEF Basics, Counts, Budget
<1>2. broker.inFlight \in Nat /\ events \in 0..MaxEvents /\ MaxEvents \in Nat
      /\ Len(broker.queue) \in Nat
  BY PauseAssumption DEF Basics, TypeOK, BrokerType
<1>3. Active # {} => broker.inFlight < events
  BY <1>1, <1>2 DEF Basics, Counts, Budget
<1>4. \A c \in Cli : writer[c].pc = "send" => c \in Active
  BY DEF Active
<1>5. broker.inFlight <= events
  BY <1>1, <1>2 DEF Basics, Counts, Budget
<1>6. writer[Broker].pc = "count" => broker.inFlight > 0
  BY <1>2 DEF Basics, Counts, Counter
<1> QED
  BY <1>2, <1>3, <1>4, <1>5, <1>6

-----------------------------------------------------------------------------
(* Types, places and counts.                                                *)

\* Every step keeps the types: a counter has room for whoever may still add to it.
LEMMA TypeStep ==
  ASSUME Basics, [Next]_vars
  PROVE  TypeOK'
<1> USE PauseAssumption DEF Basics, TypeOK, Value, hives, observers
<1>1. CASE Persist
  BY <1>1, Queues DEF Persist, BrokerType, WriterType, Writer, Idle
<1>2. CASE Count
  <2>1. broker.inFlight - 1 \in 0..MaxEvents
    BY <1>2, Room DEF Count, BrokerType
  <2> QED
    BY <1>2, <2>1 DEF Count, Counted, Steps, BrokerType, WriterType
<1>3. CASE Reload
  <2>1. Tail(broker.inbox) \in Seq(BOOLEAN) /\ Head(broker.inbox) \in BOOLEAN
    BY <1>3, Queues DEF Reload, BrokerType
  <2>2. Disabled(Broker) \in BOOLEAN
    BY DEF Disabled
  <2>3. broker' \in BrokerType
    BY <1>3, <2>1, <2>2 DEF Reload, BrokerType
  <2> QED
    BY <1>3, <2>1, <2>3 DEF Reload
<1>4. CASE Load
  BY <1>4 DEF Load, Disabled, BrokerType
<1>5. CASE Toggle
  <2>1. broker.inFlight < MaxEvents
    BY <1>5, Room DEF Toggle, Event, BrokerType
  <2>2. (~broker.paused) \in BOOLEAN
    OBVIOUS
  <2>3. /\ broker' \in BrokerType /\ excused' \in BOOLEAN /\ foreign' \in BOOLEAN
        /\ UNCHANGED <<hives, mirror, split>>
    BY <1>5, <2>1, <2>2, SetPausedType DEF Toggle
  <2>4. writer' = writer /\ events' \in 0..MaxEvents
    BY <1>5 DEF Toggle, Event
  <2> QED
    BY <2>3, <2>4
<1>6. CASE CreateWindow
  BY <1>6, DownType DEF CreateWindow, Event
<1>7. CASE Exit
  BY <1>7, DownType, IdleType DEF Exit, Event, Writer
<1>8. CASE OtherVerb
  <2>1. broker' \in BrokerType
    BY <1>8, BroadcastType DEF OtherVerb
  <2> QED
    BY <1>8, <2>1 DEF OtherVerb, Event
<1>9. CASE ReadMerged
  BY <1>9 DEF ReadMerged, Event, Merged
<1>10. CASE QueryReal
  BY <1>10 DEF QueryReal
<1>11. CASE MirrorReal
  <2>1. writer' \in [Writer -> WriterType]
    BY <1>11, IntrudedType DEF MirrorReal
  <2>2. excused' \in BOOLEAN /\ foreign' \in BOOLEAN /\ split' \in BOOLEAN
    BY <1>11 DEF MirrorReal
  <2> QED
    BY <1>11, <2>1, <2>2 DEF MirrorReal, Event
<1>12. ASSUME NEW w \in Writer, WriteReal(w)
       PROVE  TypeOK'
  <2>1. writer' \in [Writer -> WriterType]
    BY <1>12, IntrudedType DEF WriteReal, Intrudes, After, WriterType
  <2>2. excused' \in BOOLEAN /\ foreign' \in BOOLEAN /\ split' \in BOOLEAN
    BY <1>12 DEF WriteReal, Wrote, Faulty
  <2>3. real' \in Value /\ package' = package /\ broker' = broker
    BY <1>12 DEF WriteReal, WriterType
  <2>4. mirror' \in [pc : {"idle", "query", "write"}, value : BOOLEAN, alone : BOOLEAN]
    BY <1>12 DEF WriteReal, Intrudes
  <2>5. events' \in 0..MaxEvents
    BY <1>12 DEF WriteReal, Event
  <2> QED
    BY <2>1, <2>2, <2>3, <2>4, <2>5
<1>13. ASSUME NEW w \in Writer, WritePackage(w)
       PROVE  TypeOK'
  <2>1. writer' \in [Writer -> WriterType]
    BY <1>13, IntrudedType, SMTT(30) DEF WritePackage, Intrudes, After, WriterType
  <2>2. excused' \in BOOLEAN /\ foreign' \in BOOLEAN /\ split' \in BOOLEAN
    BY <1>13 DEF WritePackage, Wrote, Faulty
  <2>3. package' \in Value /\ real' = real /\ broker' = broker
    BY <1>13 DEF WritePackage, WriterType
  <2>4. mirror' \in [pc : {"idle", "query", "write"}, value : BOOLEAN, alone : BOOLEAN]
    BY <1>13 DEF WritePackage, Intrudes
  <2>5. events' \in 0..MaxEvents
    BY <1>13 DEF WritePackage, Event
  <2> QED
    BY <2>1, <2>2, <2>3, <2>4, <2>5
<1>14. ASSUME NEW w \in Writer, Announce(w)
       PROVE  TypeOK'
  <2>1. broker' \in BrokerType
    BY <1>14, BroadcastType DEF Announce
  <2> QED
    BY <1>14, <2>1 DEF Announce, Steps, WriterType
<1>15. ASSUME NEW c \in Cli, Find(c)
       PROVE  TypeOK'
  BY <1>15, ZenonT(30) DEF Find, Steps, WriterType
<1>16. ASSUME NEW c \in Cli, Send(c)
       PROVE  TypeOK'
  <2>1. broker.inFlight < MaxEvents
    BY <1>16, Room DEF Send, BrokerType
  <2>2. writer[c].value \in BOOLEAN
    BY DEF Writer, WriterType
  <2>3. /\ broker' \in BrokerType /\ excused' \in BOOLEAN /\ foreign' \in BOOLEAN
        /\ UNCHANGED <<hives, mirror, split>>
    BY <1>16, <2>1, <2>2, SetPausedType DEF Send
  <2>4. writer' \in [Writer -> WriterType] /\ events' = events
    BY <1>16 DEF Send, Steps, WriterType
  <2> QED
    BY <2>3, <2>4
<1>17. ASSUME NEW c \in Cli, Report(c)
       PROVE  TypeOK'
  <2>1. broker' \in BrokerType
    BY <1>17, BroadcastType DEF Report
  <2> QED
    BY <1>17, <2>1 DEF Report, Steps, WriterType
<1>18. ASSUME NEW c \in Cli, Undelivered(c)
       PROVE  TypeOK'
  <2>1. writer' \in [Writer -> WriterType]
    BY <1>18 DEF Undelivered, Steps, Writer, WriterType
  <2> QED
    BY <1>18, <2>1 DEF Undelivered, Event
<1>19. ASSUME NEW c \in Cli, Kill(c)
       PROVE  TypeOK'
  <2>1. writer' \in [Writer -> WriterType]
    BY <1>19 DEF Kill, Steps, Writer, WriterType
  <2>2. excused' \in BOOLEAN /\ foreign' \in BOOLEAN /\ split' \in BOOLEAN
    BY <1>19 DEF Kill, Faulty
  <2> QED
    BY <1>19, <2>1, <2>2 DEF Kill, Event
<1>20. ASSUME NEW c \in Cli, NEW v \in BOOLEAN, Command(c, v)
       PROVE  TypeOK'
  <2>1. writer' \in [Writer -> WriterType]
    BY <1>20 DEF Command, Idle, Writer, WriterType
  <2> QED
    BY <1>20, <2>1 DEF Command, Event
<1>21. ASSUME NEW v \in BOOLEAN, ForeignWrite(v)
       PROVE  TypeOK'
  <2>1. writer' \in [Writer -> WriterType] /\ real' \in Value
    BY <1>21, IntrudedType DEF ForeignWrite
  <2>2. excused' \in BOOLEAN /\ foreign' \in BOOLEAN /\ split' \in BOOLEAN
    BY <1>21 DEF ForeignWrite, Faulty
  <2>3. events' \in 0..MaxEvents
    BY <1>21 DEF ForeignWrite, Event
  <2> QED
    BY <1>21, <2>1, <2>2, <2>3 DEF ForeignWrite
<1>22. CASE UNCHANGED vars
  BY <1>22 DEF vars
<1> QED
  BY <1>1, <1>2, <1>3, <1>4, <1>5, <1>6, <1>7, <1>8, <1>9, <1>10, <1>11, <1>12,
     <1>13, <1>14, <1>15, <1>16, <1>17, <1>18, <1>19, <1>20, <1>21, <1>22, Cases

\* Every step keeps the writers where they can be.
LEMMA ShapeStep ==
  ASSUME Basics, [Next]_vars
  PROVE  Shape'
<1> USE PauseAssumption DEF Basics, Shape, Writer, hives, observers
<1>1. CASE Persist
  BY <1>1 DEF Persist, Idle, TypeOK, BrokerType
<1>2. CASE Count
  BY <1>2, StepsAt, SMTT(30) DEF Count, Counted, TypeOK, BrokerType
<1>3. CASE Reload
  BY <1>3 DEF Reload, TypeOK, BrokerType
<1>4. CASE Load
  BY <1>4 DEF Load, TypeOK, BrokerType
<1>5. CASE Toggle
  <2>1. /\ broker'.pc = broker.pc /\ broker'.inbox = broker.inbox /\ broker.pc = "pump"
        /\ mirror' = mirror /\ writer' = writer
    BY <1>5 DEF Toggle, SetPaused, Queued, TypeOK, BrokerType
  <2> QED
    BY <2>1
<1>6. CASE CreateWindow
  BY <1>6 DEF CreateWindow, Down, Idle, TypeOK, BrokerType
<1>7. CASE Exit
  BY <1>7 DEF Exit, Down, Idle, TypeOK, BrokerType
<1>8. CASE OtherVerb
  BY <1>8 DEF OtherVerb, Broadcast, WindowExists, TypeOK, BrokerType
<1>9. CASE ReadMerged
  BY <1>9 DEF ReadMerged, TypeOK, BrokerType
<1>10. CASE QueryReal
  BY <1>10 DEF QueryReal, TypeOK, BrokerType
<1>11. CASE MirrorReal
  BY <1>11, IntrudedType DEF MirrorReal, TypeOK
<1>12. ASSUME NEW w \in Writer, WriteReal(w)
       PROVE  Shape'
  BY <1>12, RealAt DEF WriteReal, After
<1>13. ASSUME NEW w \in Writer, WritePackage(w)
       PROVE  Shape'
  BY <1>13, PackageAt DEF WritePackage, After
<1>14. ASSUME NEW w \in Writer, Announce(w)
       PROVE  Shape'
  BY <1>14, StepsAt DEF Announce, Broadcast, WindowExists, TypeOK, BrokerType
<1>15. ASSUME NEW c \in Cli, Find(c)
       PROVE  Shape'
  BY <1>15, StepsAt DEF Find, TypeOK, BrokerType
<1>16. ASSUME NEW c \in Cli, Send(c)
       PROVE  Shape'
  <2>1. /\ broker'.pc = broker.pc /\ broker'.inbox = broker.inbox /\ broker.pc = "pump"
        /\ mirror' = mirror
    BY <1>16 DEF Send, SetPaused, Queued, TypeOK, BrokerType
  <2> QED
    BY <1>16, <2>1, StepsAt DEF Send, TypeOK
<1>17. ASSUME NEW c \in Cli, Report(c)
       PROVE  Shape'
  <2>1. /\ broker'.pc = broker.pc /\ broker'.queue = broker.queue
        /\ broker.pc = "down" => broker'.inbox = broker.inbox
    BY <1>17, BroadcastType, (FALSE) \in BOOLEAN DEF Report, TypeOK, WindowExists
  <2> QED
    BY <1>17, <2>1, StepsAt DEF Report, TypeOK
<1>18. ASSUME NEW c \in Cli, Undelivered(c)
       PROVE  Shape'
  BY <1>18, StepsAt DEF Undelivered, TypeOK, BrokerType
<1>19. ASSUME NEW c \in Cli, Kill(c)
       PROVE  Shape'
  BY <1>19, StepsAt DEF Kill, TypeOK, BrokerType
<1>20. ASSUME NEW c \in Cli, NEW v \in BOOLEAN, Command(c, v)
       PROVE  Shape'
  BY <1>20 DEF Command, Idle, TypeOK, BrokerType
<1>21. ASSUME NEW v \in BOOLEAN, ForeignWrite(v)
       PROVE  Shape'
  BY <1>21, IntrudedType DEF ForeignWrite, TypeOK
<1>22. CASE UNCHANGED vars
  BY <1>22 DEF vars
<1> HIDE DEF Basics, Shape, Writer, hives, observers
<1> QED
  BY <1>1, <1>2, <1>3, <1>4, <1>5, <1>6, <1>7, <1>8, <1>9, <1>10, <1>11,
     <1>12, <1>13, <1>14, <1>15, <1>16, <1>17, <1>18, <1>19, <1>20, <1>21, <1>22, Cases

\* Every step keeps PERSIST_IN_FLIGHT equal to what is queued or under way.
LEMMA CounterStep ==
  ASSUME Basics, [Next]_vars
  PROVE  Counter'
<1> USE PauseAssumption DEF Basics, Shape, Counts, Counter, Writer, hives, observers
<1>1. CASE Persist
  BY <1>1, Queues DEF Persist, Idle, TypeOK, BrokerType
<1>2. CASE Count
  BY <1>2, StepsAt DEF Count, Counted, TypeOK, BrokerType
<1>3. CASE Reload
  BY <1>3 DEF Reload, TypeOK, BrokerType
<1>4. CASE Load
  BY <1>4 DEF Load, TypeOK, BrokerType
<1>5. CASE Toggle
  <2>1. broker.inFlight < MaxEvents /\ (~broker.paused) \in BOOLEAN /\ SetPaused(~broker.paused)
    BY <1>5, Room DEF Toggle, Event, TypeOK, BrokerType
  <2>2. /\ \/ /\ Len(broker'.queue) = Len(broker.queue) + 1
              /\ broker'.inFlight = broker.inFlight + 1
           \/ broker'.queue = broker.queue /\ broker'.inFlight = broker.inFlight
        /\ writer' = writer
    BY <1>5, <2>1, SetPausedType DEF Toggle, TypeOK
  <2>3. Len(broker.queue) \in Nat /\ broker.inFlight \in Nat
    BY Queues DEF TypeOK, BrokerType
  <2> QED
    BY <2>2, <2>3
<1>6. CASE CreateWindow
  BY <1>6, Queues DEF CreateWindow, Down
<1>7. CASE Exit
  BY <1>7 DEF Exit, Down, Idle, TypeOK, BrokerType
<1>8. CASE OtherVerb
  BY <1>8 DEF OtherVerb, Broadcast, WindowExists, TypeOK, BrokerType
<1>9. CASE ReadMerged
  BY <1>9 DEF ReadMerged, TypeOK, BrokerType
<1>10. CASE QueryReal
  BY <1>10 DEF QueryReal, TypeOK, BrokerType
<1>11. CASE MirrorReal
  BY <1>11, IntrudedType DEF MirrorReal, TypeOK
<1>12. ASSUME NEW w \in Writer, WriteReal(w)
       PROVE  Counter'
  BY <1>12, RealAt DEF WriteReal, After
<1>13. ASSUME NEW w \in Writer, WritePackage(w)
       PROVE  Counter'
  BY <1>13, PackageAt DEF WritePackage, After
<1>14. ASSUME NEW w \in Writer, Announce(w)
       PROVE  Counter'
  BY <1>14, StepsAt DEF Announce, Broadcast, WindowExists, TypeOK, BrokerType
<1>15. ASSUME NEW c \in Cli, Find(c)
       PROVE  Counter'
  BY <1>15, StepsAt DEF Find, TypeOK, BrokerType
<1>16. ASSUME NEW c \in Cli, Send(c)
       PROVE  Counter'
  <2>1. broker.inFlight < MaxEvents /\ writer[c].value \in BOOLEAN
    BY <1>16, Room DEF Send, TypeOK, BrokerType, WriterType
  <2>2. \/ /\ Len(broker'.queue) = Len(broker.queue) + 1
           /\ broker'.inFlight = broker.inFlight + 1
        \/ broker'.queue = broker.queue /\ broker'.inFlight = broker.inFlight
    BY <1>16, <2>1, SetPausedType DEF Send, TypeOK
  <2>3. Len(broker.queue) \in Nat /\ broker.inFlight \in Nat
    BY Queues DEF TypeOK, BrokerType
  <2>4. writer'[Broker] = writer[Broker]
    BY <1>16, StepsAt DEF Send, TypeOK
  <2> QED
    BY <2>2, <2>3, <2>4
<1>17. ASSUME NEW c \in Cli, Report(c)
       PROVE  Counter'
  BY <1>17, StepsAt DEF BrokerType, Report, Broadcast, WindowExists, TypeOK
<1>18. ASSUME NEW c \in Cli, Undelivered(c)
       PROVE  Counter'
  BY <1>18, StepsAt DEF Undelivered, TypeOK, BrokerType
<1>19. ASSUME NEW c \in Cli, Kill(c)
       PROVE  Counter'
  BY <1>19, StepsAt DEF Kill, TypeOK, BrokerType
<1>20. ASSUME NEW c \in Cli, NEW v \in BOOLEAN, Command(c, v)
       PROVE  Counter'
  BY <1>20 DEF Command, Idle, TypeOK, BrokerType
<1>21. ASSUME NEW v \in BOOLEAN, ForeignWrite(v)
       PROVE  Counter'
  BY <1>21, IntrudedType DEF ForeignWrite, TypeOK
<1>22. CASE UNCHANGED vars
  BY <1>22 DEF vars
<1> HIDE DEF Basics, Shape, Counts, Counter, Writer, hives, observers
<1> QED
  BY <1>1, <1>2, <1>3, <1>4, <1>5, <1>6, <1>7, <1>8, <1>9, <1>10, <1>11,
     <1>12, <1>13, <1>14, <1>15, <1>16, <1>17, <1>18, <1>19, <1>20, <1>21, <1>22, Cases

\* Nothing that costs no event adds a command or a write under way.
LEMMA BudgetKept ==
  ASSUME Basics, TypeOK', Active' \subseteq Active,
         broker'.inFlight <= broker.inFlight, events' >= events
  PROVE  Budget'
<1>1. IsFiniteSet(Active') /\ Cardinality(Active') \in Nat /\ Cardinality(Active) \in Nat
      /\ Cardinality(Active') <= Cardinality(Active)
  BY Sizes DEF Basics, Counts, Budget
<1>2. /\ broker.inFlight \in Nat /\ broker'.inFlight \in Nat
      /\ events \in Nat /\ events' \in Nat
  BY PauseAssumption DEF Basics, TypeOK, BrokerType
<1> QED
  BY <1>1, <1>2 DEF Basics, Counts, Budget

\* Every step that lets somebody hand the broker a value costs an event.
LEMMA BudgetStep ==
  ASSUME Basics, [Next]_vars
  PROVE  Budget'
<1>0. TypeOK'
  BY TypeStep
<1> USE <1>0, PauseAssumption DEF Basics, TypeOK, Shape, Writer, BrokerType, WriterType, hives, observers
<1>1. CASE Persist
  <2>1. Active' \subseteq Active /\ broker'.inFlight <= broker.inFlight /\ events' >= events
    BY <1>1 DEF Active, Persist, Idle
  <2> QED
    BY <2>1, BudgetKept
<1>2. CASE Count
  <2>1. Active' \subseteq Active /\ broker'.inFlight <= broker.inFlight /\ events' >= events
    BY <1>2 DEF Active, Count, Steps, Counted
  <2> QED
    BY <2>1, BudgetKept
<1>3. CASE Reload
  <2>1. Active' = Active /\ broker'.inFlight = broker.inFlight /\ events' = events
    BY <1>3 DEF Active, Reload
  <2> QED
    BY <2>1, BudgetKept
<1>4. CASE Load
  <2>1. Active' \subseteq Active /\ broker'.inFlight <= broker.inFlight /\ events' >= events
    BY <1>4 DEF Active, Load
  <2> QED
    BY <2>1, BudgetKept
<1>5. CASE Toggle
  <2>1. broker.inFlight < MaxEvents
    BY <1>5, Room DEF Toggle, Event
  <2>2. (~broker.paused) \in BOOLEAN
    OBVIOUS
  <2>3. broker'.inFlight <= broker.inFlight + 1
    <3>1. SetPaused(~broker.paused) /\ broker \in BrokerType /\ broker.inFlight \in Nat
      BY <1>5 DEF Toggle
    <3>2. broker'.inFlight = broker.inFlight + 1 \/ broker'.inFlight = broker.inFlight
      BY <2>1, <2>2, <3>1, SetPausedType
    <3> QED
      BY <3>1, <3>2
  <2>4. Active' = Active /\ events' = events + 1
    BY <1>5 DEF Toggle, Event, Active
  <2> QED
    BY <2>3, <2>4, Sizes DEF Counts, Budget
<1>6. CASE CreateWindow
  <2>1. Active' \subseteq Active /\ broker'.inFlight <= broker.inFlight /\ events' >= events
    BY <1>6 DEF Active, CreateWindow, Down, Idle, Event
  <2> QED
    BY <2>1, BudgetKept
<1>7. CASE Exit
  <2>1. Active' \subseteq Active /\ broker'.inFlight <= broker.inFlight /\ events' >= events
    BY <1>7 DEF Active, Exit, Down, Idle, Event
  <2> QED
    BY <2>1, BudgetKept
<1>8. CASE OtherVerb
  <2>1. Active' \subseteq Active /\ broker'.inFlight <= broker.inFlight /\ events' >= events
    BY <1>8 DEF Active, OtherVerb, Broadcast, WindowExists, Event
  <2> QED
    BY <2>1, BudgetKept
<1>9. CASE ReadMerged
  <2>1. Active' \subseteq Active /\ broker'.inFlight <= broker.inFlight /\ events' >= events
    BY <1>9 DEF Active, ReadMerged, Event
  <2> QED
    BY <2>1, BudgetKept
<1>10. CASE QueryReal
  <2>1. Active' \subseteq Active /\ broker'.inFlight <= broker.inFlight /\ events' >= events
    BY <1>10 DEF Active, QueryReal
  <2> QED
    BY <2>1, BudgetKept
<1>11. CASE MirrorReal
  <2>1. Active' \subseteq Active /\ broker'.inFlight <= broker.inFlight /\ events' >= events
    BY <1>11, IntrudedType DEF Active, MirrorReal, Event
  <2> QED
    BY <2>1, BudgetKept
<1>12. ASSUME NEW w \in Writer, WriteReal(w)
       PROVE  Budget'
  <2>1. Active' \subseteq Active /\ broker'.inFlight = broker.inFlight
    BY <1>12, RealAt DEF After, Active
  <2>2. events' >= events
    BY <1>12 DEF WriteReal, Event
  <2> QED
    BY <2>1, <2>2, BudgetKept
<1>13. ASSUME NEW w \in Writer, WritePackage(w)
       PROVE  Budget'
  <2>1. Active' \subseteq Active /\ broker'.inFlight = broker.inFlight
    BY <1>13, PackageAt DEF After, Active
  <2>2. events' >= events
    BY <1>13 DEF WritePackage, Event
  <2> QED
    BY <2>1, <2>2, BudgetKept
<1>14. ASSUME NEW w \in Writer, Announce(w)
       PROVE  Budget'
  <2>1. Active' \subseteq Active /\ broker'.inFlight <= broker.inFlight /\ events' >= events
    BY <1>14, StepsAt DEF Active, Announce, Broadcast, WindowExists
  <2> QED
    BY <2>1, BudgetKept
<1>15. ASSUME NEW c \in Cli, Find(c)
       PROVE  Budget'
  <2>1. Active' \subseteq Active /\ broker'.inFlight <= broker.inFlight /\ events' >= events
    BY <1>15 DEF Active, Find, Steps
  <2> QED
    BY <2>1, BudgetKept
<1>16. ASSUME NEW c \in Cli, Send(c)
       PROVE  Budget'
  <2>1. broker.inFlight < MaxEvents
    BY <1>16, Room DEF Send
  <2>2. writer[c].value \in BOOLEAN
    OBVIOUS
  <2>3. broker'.inFlight <= broker.inFlight + 1
    BY <1>16, <2>1, <2>2, SetPausedType DEF Send
  <2>4. c \in Active /\ Active' \subseteq Active \ {c} /\ events' = events
    BY <1>16, StepsAt DEF Send, Active
  <2>5. /\ IsFiniteSet(Active') /\ Cardinality(Active') \in Nat /\ Cardinality(Active) \in Nat
        /\ Cardinality(Active') <= Cardinality(Active) - 1
    BY <2>4, Sizes DEF Counts, Budget
  <2> QED
    BY <2>3, <2>4, <2>5 DEF Counts, Budget
<1>17. ASSUME NEW c \in Cli, Report(c)
       PROVE  Budget'
  <2>1. Active' \subseteq Active /\ broker'.inFlight <= broker.inFlight /\ events' >= events
    BY <1>17 DEF Active, Report, Steps, Broadcast, WindowExists
  <2> QED
    BY <2>1, BudgetKept
<1>18. ASSUME NEW c \in Cli, Undelivered(c)
       PROVE  Budget'
  <2>1. Active' \subseteq Active /\ broker'.inFlight <= broker.inFlight /\ events' >= events
    BY <1>18 DEF Active, Undelivered, Steps, Event
  <2> QED
    BY <2>1, BudgetKept
<1>19. ASSUME NEW c \in Cli, Kill(c)
       PROVE  Budget'
  <2>1. Active' \subseteq Active /\ broker'.inFlight <= broker.inFlight /\ events' >= events
    BY <1>19 DEF Active, Kill, Steps, Event
  <2> QED
    BY <2>1, BudgetKept
<1>20. ASSUME NEW c \in Cli, NEW v \in BOOLEAN, Command(c, v)
       PROVE  Budget'
  <2>1. Active' \subseteq Active \cup {c} /\ events' = events + 1 /\ broker' = broker
    BY <1>20 DEF Command, Active, Idle, Event
  <2>2. /\ IsFiniteSet(Active') /\ Cardinality(Active') \in Nat /\ Cardinality(Active) \in Nat
        /\ Cardinality(Active') <= Cardinality(Active) + 1
    BY <2>1, Sizes DEF Counts, Budget
  <2> QED
    BY <2>1, <2>2 DEF Counts, Budget
<1>21. ASSUME NEW v \in BOOLEAN, ForeignWrite(v)
       PROVE  Budget'
  <2>1. Active' \subseteq Active /\ broker'.inFlight <= broker.inFlight /\ events' >= events
    BY <1>21, IntrudedType DEF Active, ForeignWrite, Event
  <2> QED
    BY <2>1, BudgetKept
<1>22. CASE UNCHANGED vars
  <2>1. Active' \subseteq Active /\ broker'.inFlight <= broker.inFlight /\ events' >= events
    BY <1>22 DEF Active, vars
  <2> QED
    BY <2>1, BudgetKept
<1> HIDE DEF Basics, TypeOK, Shape, Writer, BrokerType, WriterType, hives, observers
<1> QED
  BY <1>1, <1>2, <1>3, <1>4, <1>5, <1>6, <1>7, <1>8, <1>9, <1>10, <1>11,
     <1>12, <1>13, <1>14, <1>15, <1>16, <1>17, <1>18, <1>19, <1>20, <1>21, <1>22, Cases

-----------------------------------------------------------------------------
(* What the steps of the broker and the broadcasts do.                      *)

\* Taking the head of a queue leaves its last value last, or in hand.
LEMMA LastStays ==
  ASSUME NEW q \in Seq(BOOLEAN), q # <<>>
  PROVE  IF Tail(q) = <<>> THEN q[Len(q)] = q[1]
                           ELSE Tail(q)[Len(Tail(q))] = q[Len(q)]
<1> DEFINE rest == Tail(q)
<1>1. /\ Len(rest) = Len(q) - 1 /\ Len(q) \in Nat /\ (rest = <<>> <=> Len(rest) = 0)
      /\ \A k \in 1..Len(q) - 1 : rest[k] = q[k + 1]
  BY Queues
<1> HIDE DEF rest
<1>2. CASE rest = <<>>
  BY <1>1, <1>2 DEF rest
<1>3. CASE rest # <<>>
  <2>1. Len(rest) \in 1..Len(q) - 1 /\ Len(rest) + 1 = Len(q)
    BY <1>1, <1>3
  <2>2. rest[Len(rest)] = q[Len(q)]
    BY <1>1, <2>1
  <2> QED
    BY <1>3, <2>2 DEF rest
<1> QED
  BY <1>2, <1>3

\* The persist thread takes the head of the queue in hand.
LEMMA PersistAt ==
  ASSUME TypeOK, Persist
  PROVE  /\ broker.queue # <<>> /\ broker'.queue = Tail(broker.queue)
         /\ broker'.pc = broker.pc /\ broker'.paused = broker.paused
         /\ broker'.inFlight = broker.inFlight /\ broker'.inbox = broker.inbox
         /\ writer'[Broker].pc = "real" /\ writer'[Broker].value = broker.queue[1]
         /\ \A x \in Writer : x # Broker => writer'[x] = writer[x]
         /\ UNCHANGED <<hives, mirror, observers, events>>
BY Queues DEF TypeOK, BrokerType, Persist, Idle, Writer

\* The persist thread counts its write out, and keeps what it has in hand.
LEMMA CountAt ==
  ASSUME TypeOK, Count
  PROVE  /\ broker'.queue = broker.queue /\ broker'.inFlight = broker.inFlight - 1
         /\ broker'.pc = broker.pc /\ broker'.paused = broker.paused
         /\ broker'.inbox = broker.inbox
         /\ writer[Broker].pc = "count" /\ writer'[Broker].pc = "idle"
         /\ writer'[Broker].value = writer[Broker].value
         /\ \A x \in Writer : x # Broker => writer'[x] = writer[x]
         /\ UNCHANGED <<hives, mirror, observers, events>>
BY StepsAt DEF TypeOK, BrokerType, Count, Counted, Writer

\* A reload adopts the stored value, or drops the message and may excuse it.
LEMMA ReloadAt ==
  ASSUME TypeOK, Reload
  PROVE  /\ broker.pc = "pump" /\ broker'.pc = "pump"
         /\ broker'.queue = broker.queue /\ broker'.inFlight = broker.inFlight
         /\ broker.inbox # <<>> /\ broker'.inbox = Tail(broker.inbox)
         /\ IF broker.inFlight # 0
            THEN /\ broker'.paused = broker.paused
                 /\ excused' = (excused \/ broker.inbox[1] = TRUE)
            ELSE broker'.paused = Disabled(Broker) /\ excused' = excused
         /\ UNCHANGED <<hives, writer, mirror, foreign, split, events>>
<1>1. /\ broker.pc = "pump" /\ broker'.pc = "pump"
      /\ broker'.queue = broker.queue /\ broker'.inFlight = broker.inFlight
      /\ broker.inbox # <<>> /\ broker'.inbox = Tail(broker.inbox)
  BY DEF TypeOK, Reload, BrokerType
<1>2. UNCHANGED <<hives, writer, mirror, foreign, split, events>>
  BY DEF Reload
<1>3. IF broker.inFlight # 0
      THEN /\ broker'.paused = broker.paused
           /\ excused' = (excused \/ broker.inbox[1] = TRUE)
      ELSE broker'.paused = Disabled(Broker) /\ excused' = excused
  <2>1. Head(broker.inbox) = broker.inbox[1] /\ broker.inbox[1] \in BOOLEAN
    <3> DEFINE q == broker.inbox
    <3>1. q \in Seq(BOOLEAN) /\ q # <<>>
      BY <1>1 DEF TypeOK, BrokerType
    <3> HIDE DEF q
    <3>2. Head(q) = q[1] /\ Head(q) \in BOOLEAN
      BY <3>1, Queues
    <3> QED
      BY <3>2 DEF q
  <2>2. CASE broker.inFlight # 0
    <3>1. broker' = [broker EXCEPT !.inbox = Tail(@)] /\ excused' = (excused \/ Head(broker.inbox))
      BY <2>2 DEF Reload
    <3>2. broker'.paused = broker.paused
      BY <3>1 DEF TypeOK, BrokerType
    <3>3. Head(broker.inbox) = (broker.inbox[1] = TRUE)
      BY <2>1
    <3>4. excused' = (excused \/ broker.inbox[1] = TRUE)
      BY <3>1, <3>3
    <3> QED
      BY <2>2, <3>2, <3>4
  <2>3. CASE broker.inFlight = 0
    <3>1. /\ broker' = [[broker EXCEPT !.inbox = Tail(@)] EXCEPT !.paused = Disabled(Broker)]
          /\ UNCHANGED excused
      BY <2>3 DEF Reload
    <3>2. broker'.paused = Disabled(Broker)
      BY <3>1 DEF TypeOK, BrokerType
    <3> QED
      BY <2>3, <3>1, <3>2
  <2> QED
    BY <2>2, <2>3
<1> QED
  BY <1>1, <1>2, <1>3

\* A broker that starts has nothing queued and adopts what is stored.
LEMMA LoadAt ==
  ASSUME Basics, Load
  PROVE  /\ broker'.pc = "pump" /\ broker'.paused = Disabled(Broker)
         /\ broker'.queue = <<>> /\ broker'.inFlight = 0
         /\ ~excused' /\ ~foreign'
         /\ UNCHANGED <<hives, writer, mirror, split>>
<1>1. broker.queue = <<>> /\ broker.inFlight = 0
  BY DEF Load, Basics, Counts, Counter, Shape
<1> QED
  BY <1>1 DEF Load, Basics, TypeOK, BrokerType

\* What is told is told until the broker hears of it.
LEMMA ToldAt ==
  ASSUME broker \in BrokerType, NEW tells \in BOOLEAN, Broadcast(tells)
  PROVE  /\ broker'.pc = broker.pc /\ broker'.paused = broker.paused
         /\ broker'.queue = broker.queue /\ broker'.inFlight = broker.inFlight
         /\ Told => Told'
         /\ tells /\ broker.pc # "down" => Told'
<1>1. /\ broker'.pc = broker.pc /\ broker'.paused = broker.paused
      /\ broker'.queue = broker.queue /\ broker'.inFlight = broker.inFlight
      /\ broker'.inbox = IF WindowExists THEN Append(broker.inbox, tells) ELSE broker.inbox
  BY BroadcastType
<1>2. CASE ~WindowExists
  BY <1>1, <1>2 DEF Told, WindowExists
<1>3. CASE WindowExists
  <2> DEFINE more == Append(broker.inbox, tells)
  <2>1. broker'.inbox = more
    BY <1>1, <1>3
  <2>2. broker.inbox \in Seq(BOOLEAN)
    BY DEF BrokerType
  <2>3. /\ more # <<>> /\ Len(more) = Len(broker.inbox) + 1 /\ Len(broker.inbox) \in Nat
        /\ more[Len(broker.inbox) + 1] = tells
        /\ \A k \in 1..Len(broker.inbox) : more[k] = broker.inbox[k]
    BY <2>2, Queues
  <2> HIDE DEF more
  <2>4. Told => Told'
    BY <1>1, <2>1, <2>3 DEF Told
  <2>5. tells => Told'
    <3>1. Len(broker.inbox) + 1 \in 1..Len(more)
      BY <2>3
    <3> QED
      BY <2>1, <2>3, <3>1 DEF Told
  <2> QED
    BY <1>1, <2>4, <2>5
<1> QED
  BY <1>2, <1>3

\* The broadcast of a write, seen from the broker.
LEMMA AnnounceAt ==
  ASSUME TypeOK, NEW w \in Writer, Announce(w)
  PROVE  /\ broker'.pc = broker.pc /\ broker'.paused = broker.paused
         /\ broker'.queue = broker.queue /\ broker'.inFlight = broker.inFlight
         /\ Told => Told'
         /\ w # Broker /\ broker.pc # "down" => Told'
         /\ writer[w].pc = "announce"
         /\ writer'[w].pc = IF w = Broker THEN "count" ELSE "find"
         /\ writer'[w].value = writer[w].value
         /\ \A x \in Writer : x # w => writer'[x] = writer[x]
         /\ UNCHANGED <<hives, mirror, observers>>
<1>1. Broadcast(w # Broker) /\ (w # Broker) \in BOOLEAN
  BY DEF Announce
<1>2. /\ broker'.pc = broker.pc /\ broker'.paused = broker.paused
      /\ broker'.queue = broker.queue /\ broker'.inFlight = broker.inFlight
      /\ Told => Told'
      /\ w # Broker /\ broker.pc # "down" => Told'
  BY <1>1, ToldAt DEF TypeOK
<1> QED
  BY <1>2, StepsAt DEF Announce, TypeOK

\* The last broadcast of a verb tells of nothing.
LEMMA ReportAt ==
  ASSUME TypeOK, NEW c \in Cli, Report(c)
  PROVE  /\ broker'.pc = broker.pc /\ broker'.paused = broker.paused
         /\ broker'.queue = broker.queue /\ broker'.inFlight = broker.inFlight
         /\ Told => Told'
         /\ writer[c].pc = "report" /\ writer'[c].pc = "idle"
         /\ \A x \in Writer : x # c => writer'[x] = writer[x]
         /\ UNCHANGED <<hives, mirror, observers>>
<1>1. Broadcast(FALSE) /\ (FALSE) \in BOOLEAN /\ c \in Writer
  BY DEF Report, Writer
<1>2. /\ broker'.pc = broker.pc /\ broker'.paused = broker.paused
      /\ broker'.queue = broker.queue /\ broker'.inFlight = broker.inFlight
      /\ Told => Told'
  BY <1>1, ToldAt DEF TypeOK
<1> QED
  BY <1>1, <1>2, StepsAt DEF Report, TypeOK

\* Neither does the broadcast of another verb.
LEMMA OtherVerbAt ==
  ASSUME TypeOK, OtherVerb
  PROVE  /\ broker'.pc = broker.pc /\ broker'.paused = broker.paused
         /\ broker'.queue = broker.queue /\ broker'.inFlight = broker.inFlight
         /\ Told => Told'
         /\ UNCHANGED <<hives, writer, mirror, observers>>
<1>1. Broadcast(FALSE) /\ (FALSE) \in BOOLEAN
  BY DEF OtherVerb
<1> QED
  BY <1>1, ToldAt DEF OtherVerb, TypeOK

\* A toggle, or a command that reaches the broker.
Takes(v) ==
  /\ broker'.pc = broker.pc /\ broker'.paused = v /\ broker'.inbox = broker.inbox
  /\ broker.pc = "pump"
  /\ \/ /\ broker'.queue # <<>> /\ broker'.queue[Len(broker'.queue)] = v
        /\ ~excused' /\ ~foreign'
     \/ /\ broker'.queue = broker.queue /\ broker'.inFlight = broker.inFlight
        /\ excused' /\ foreign'
  /\ UNCHANGED <<hives, mirror, split>>

\* A toggle takes the opposite pause.
LEMMA ToggleAt ==
  ASSUME Basics, Toggle
  PROVE  Takes(~broker.paused) /\ writer' = writer
<1>1. /\ broker.inFlight < MaxEvents /\ (~broker.paused) \in BOOLEAN
      /\ SetPaused(~broker.paused) /\ writer' = writer /\ broker \in BrokerType
  BY Room, PauseAssumption DEF Basics, Toggle, Event, TypeOK, BrokerType
<1>2. broker.pc = "pump"
  BY <1>1 DEF SetPaused
<1> QED
  BY <1>1, <1>2, SetPausedType DEF Takes

\* A command takes the pause it carries.
LEMMA SendAt ==
  ASSUME Basics, NEW c \in Cli, Send(c)
  PROVE  /\ Takes(writer[c].value)
         /\ writer[c].pc = "send" /\ writer'[c].pc = "report"
         /\ \A x \in Writer : x # c => writer'[x] = writer[x]
<1>1. /\ broker.inFlight < MaxEvents /\ writer[c].value \in BOOLEAN
      /\ SetPaused(writer[c].value) /\ broker \in BrokerType
  BY Room, PauseAssumption DEF Basics, Send, TypeOK, BrokerType, WriterType, Writer
<1>2. broker.pc = "pump"
  BY <1>1 DEF SetPaused
<1>3. Takes(writer[c].value)
  BY <1>1, <1>2, SetPausedType DEF Takes
<1> QED
  BY <1>3, StepsAt DEF Basics, Send, TypeOK, Writer

-----------------------------------------------------------------------------
(* The value queued last is the pause in memory.                            *)

\* Only set_paused changes both, and it changes both alike; what the thread takes
\* off its queue it has in hand, and what it has in hand outlives the writes.
LEMMA LatestStep ==
  ASSUME Basics, LatestIsPause, [Next]_vars
  PROVE  LatestIsPause'
<1> USE PauseAssumption DEF Basics, Shape, LatestIsPause, Latest, Writer, hives, observers
<1>1. CASE Persist
  <2>1. broker.queue \in Seq(BOOLEAN)
    BY DEF TypeOK, BrokerType
  <2>2. IF Tail(broker.queue) = <<>>
        THEN broker.queue[Len(broker.queue)] = broker.queue[1]
        ELSE Tail(broker.queue)[Len(Tail(broker.queue))] = broker.queue[Len(broker.queue)]
    BY <1>1, <2>1, LastStays, PersistAt
  <2> QED
    BY <1>1, <2>2, PersistAt
<1>2. CASE Count
  BY <1>2, CountAt, Room, Queues
<1>3. CASE Reload
  BY <1>3, ReloadAt
<1>4. CASE Load
  BY <1>4, LoadAt
<1>5. CASE Toggle
  BY <1>5, ToggleAt DEF Takes
<1>6. CASE CreateWindow
  BY <1>6 DEF CreateWindow, Down, Idle, TypeOK, BrokerType
<1>7. CASE Exit
  BY <1>7 DEF Exit, Down, Idle, TypeOK, BrokerType
<1>8. CASE OtherVerb
  BY <1>8, BroadcastType, (FALSE) \in BOOLEAN DEF OtherVerb, WindowExists, TypeOK,
     BrokerType
<1>9. CASE ReadMerged
  BY <1>9 DEF ReadMerged, TypeOK, BrokerType
<1>10. CASE QueryReal
  BY <1>10 DEF QueryReal, TypeOK, BrokerType
<1>11. CASE MirrorReal
  BY <1>11, IntrudedType DEF MirrorReal, TypeOK
<1>12. ASSUME NEW w \in Writer, WriteReal(w)
       PROVE  LatestIsPause'
  <2>1. /\ broker' = broker /\ writer'[Broker].value = writer[Broker].value
        /\ excused /\ foreign => excused' /\ foreign'
    BY <1>12, RealAt DEF Wrote, Faulty
  <2> QED
    BY <2>1
<1>13. ASSUME NEW w \in Writer, WritePackage(w)
       PROVE  LatestIsPause'
  BY <1>13, PackageAt, ZenonT(30) DEF Wrote, Faulty
<1>14. ASSUME NEW w \in Writer, Announce(w)
       PROVE  LatestIsPause'
  BY <1>14, AnnounceAt
<1>15. ASSUME NEW c \in Cli, Find(c)
       PROVE  LatestIsPause'
  BY <1>15, StepsAt DEF Find, TypeOK, BrokerType
<1>16. ASSUME NEW c \in Cli, Send(c)
       PROVE  LatestIsPause'
  BY <1>16, SendAt DEF Takes
<1>17. ASSUME NEW c \in Cli, Report(c)
       PROVE  LatestIsPause'
  BY <1>17, ReportAt
<1>18. ASSUME NEW c \in Cli, Undelivered(c)
       PROVE  LatestIsPause'
  BY <1>18, StepsAt DEF Undelivered, TypeOK, BrokerType
<1>19. ASSUME NEW c \in Cli, Kill(c)
       PROVE  LatestIsPause'
  BY <1>19, StepsAt DEF Kill, TypeOK, BrokerType, Faulty
<1>20. ASSUME NEW c \in Cli, NEW v \in BOOLEAN, Command(c, v)
       PROVE  LatestIsPause'
  BY <1>20 DEF Command, Idle, TypeOK, BrokerType
<1>21. ASSUME NEW v \in BOOLEAN, ForeignWrite(v)
       PROVE  LatestIsPause'
  BY <1>21, IntrudedType DEF ForeignWrite, TypeOK, Faulty
<1>22. CASE UNCHANGED vars
  BY <1>22 DEF vars
<1> HIDE DEF Basics, Shape, LatestIsPause, Latest, Writer, hives, observers
<1> QED
  BY <1>1, <1>2, <1>3, <1>4, <1>5, <1>6, <1>7, <1>8, <1>9, <1>10, <1>11,
     <1>12, <1>13, <1>14, <1>15, <1>16, <1>17, <1>18, <1>19, <1>20, <1>21, <1>22, Cases

\* With nothing queued behind it, what the persist thread has in hand is the pause.
LEMMA InHand ==
  ASSUME Basics, LatestIsPause, ~(excused /\ foreign), broker.pc = "pump",
         broker.queue = <<>>, writer[Broker].pc # "idle"
  PROVE  broker.paused = writer[Broker].value /\ broker.paused \in BOOLEAN
<1>1. broker.inFlight # 0
  BY Queues DEF Basics, Counts, Counter, TypeOK, BrokerType
<1> QED
  BY <1>1 DEF Basics, LatestIsPause, Latest, TypeOK, BrokerType

\* While nobody else wrote, the write that empties the broker's hands stores its pause.
LEMMA AloneStep ==
  ASSUME Basics, LatestIsPause, Alone, [Next]_vars
  PROVE  Alone'
<1> USE PauseAssumption DEF Basics, Shape, Alone, Unstored, Disabled, Merged, Writer, hives, observers
<1>1. CASE Persist
  BY <1>1, Queues DEF Persist, Idle, TypeOK, BrokerType
<1>2. CASE Count
  BY <1>2, StepsAt DEF Count, Counted, TypeOK, BrokerType
<1>3. CASE Reload
  BY <1>3, ReloadAt
<1>4. CASE Load
  BY <1>4 DEF Load, TypeOK, BrokerType
<1>5. CASE Toggle
  BY <1>5, ToggleAt DEF Takes
<1>6. CASE CreateWindow
  BY <1>6 DEF CreateWindow, Down, Idle, TypeOK, BrokerType
<1>7. CASE Exit
  BY <1>7 DEF Exit, Down, Idle, TypeOK, BrokerType
<1>8. CASE OtherVerb
  BY <1>8, BroadcastType, (FALSE) \in BOOLEAN DEF OtherVerb, WindowExists, TypeOK,
     BrokerType
<1>9. CASE ReadMerged
  BY <1>9 DEF ReadMerged, TypeOK, BrokerType
<1>10. CASE QueryReal
  BY <1>10 DEF QueryReal, TypeOK, BrokerType
<1>11. CASE MirrorReal
  BY <1>11, IntrudedType DEF MirrorReal, TypeOK
<1>12. ASSUME NEW w \in Writer, WriteReal(w)
       PROVE  Alone'
  <2>1. CASE w # Broker
    BY <1>12, <2>1, RealAt DEF Wrote, Faulty
  <2>2. ASSUME w = Broker, ~foreign', broker.pc = "pump", ~Unstored'
        PROVE  broker'.paused = Disabled(Broker)'
    <3>1. /\ broker' = broker /\ ~foreign /\ real' = writer[Broker].value
          /\ package' = package /\ writer[Broker].pc = "real"
          /\ writer'[Broker].pc = IF Broker \in Packaged THEN "package" ELSE "announce"
      BY <1>12, <2>2, RealAt DEF Wrote, Faulty
    <3>2. broker.paused = writer[Broker].value /\ broker.paused \in BOOLEAN
      BY <2>2, <3>1, InHand
    <3> QED
      BY <2>2, <3>1, <3>2
  <2>3. broker' = broker
    BY <1>12, RealAt
  <2> QED
    BY <2>1, <2>2, <2>3
<1>13. ASSUME NEW w \in Writer, WritePackage(w)
       PROVE  Alone'
  <2>1. CASE w # Broker
    BY <1>13, <2>1, PackageAt DEF Wrote, Faulty
  <2>2. ASSUME w = Broker, ~foreign', broker.pc = "pump", ~Unstored'
        PROVE  broker'.paused = Disabled(Broker)'
    <3>1. /\ broker' = broker /\ ~foreign /\ package' = writer[Broker].value
          /\ writer[Broker].pc = "package" /\ Broker \in Packaged
      BY <1>13, <2>2, PackageAt DEF Wrote, Faulty
    <3>2. broker.paused = writer[Broker].value /\ broker.paused \in BOOLEAN
      BY <2>2, <3>1, InHand
    <3> QED
      BY <3>1, <3>2
  <2>3. broker' = broker
    BY <1>13, PackageAt
  <2> QED
    BY <2>1, <2>2, <2>3
<1>14. ASSUME NEW w \in Writer, Announce(w)
       PROVE  Alone'
  <2>1. Unstored' = Unstored
    BY <1>14, AnnounceAt
  <2> HIDE DEF Unstored
  <2> QED
    BY <1>14, <2>1, AnnounceAt
<1>15. ASSUME NEW c \in Cli, Find(c)
       PROVE  Alone'
  BY <1>15, StepsAt DEF Find, TypeOK, BrokerType
<1>16. ASSUME NEW c \in Cli, Send(c)
       PROVE  Alone'
  BY <1>16, SendAt DEF Takes
<1>17. ASSUME NEW c \in Cli, Report(c)
       PROVE  Alone'
  BY <1>17, ReportAt
<1>18. ASSUME NEW c \in Cli, Undelivered(c)
       PROVE  Alone'
  BY <1>18, StepsAt DEF Undelivered, TypeOK, BrokerType
<1>19. ASSUME NEW c \in Cli, Kill(c)
       PROVE  Alone'
  BY <1>19, StepsAt, SMTT(30) DEF Kill, TypeOK, BrokerType, Faulty
<1>20. ASSUME NEW c \in Cli, NEW v \in BOOLEAN, Command(c, v)
       PROVE  Alone'
  BY <1>20 DEF Command, Idle, TypeOK, BrokerType
<1>21. ASSUME NEW v \in BOOLEAN, ForeignWrite(v)
       PROVE  Alone'
  BY <1>21, IntrudedType DEF ForeignWrite, TypeOK, Faulty
<1>22. CASE UNCHANGED vars
  BY <1>22 DEF vars
<1> HIDE DEF Basics, Shape, Alone, Unstored, Disabled, Merged, Writer, hives, observers
<1> QED
  BY <1>1, <1>2, <1>3, <1>4, <1>5, <1>6, <1>7, <1>8, <1>9, <1>10, <1>11,
     <1>12, <1>13, <1>14, <1>15, <1>16, <1>17, <1>18, <1>19, <1>20, <1>21, <1>22, Cases

-----------------------------------------------------------------------------
(* Whoever changes what is stored tells the broker.                         *)

\* A message read without effect leaves those that tell of something.
LEMMA Heard ==
  ASSUME NEW q \in Seq(BOOLEAN), q # <<>>, q[1] # TRUE,
         NEW k \in 1..Len(q), q[k] = TRUE
  PROVE  \E j \in 1..Len(Tail(q)) : Tail(q)[j] = TRUE
<1> DEFINE rest == Tail(q)
<1>1. k # 1
  OBVIOUS
<1>2. k - 1 \in 1..Len(q) - 1 /\ k = (k - 1) + 1
  BY <1>1
<1>3. Len(rest) = Len(q) - 1 /\ \A j \in 1..Len(q) - 1 : rest[j] = q[j + 1]
  BY Queues
<1> HIDE DEF rest
<1>4. \E j \in 1..Len(rest) : rest[j] = TRUE
  BY <1>2, <1>3
<1> QED
  BY <1>4 DEF rest

\* Nothing of the broker's is stored, and no CLI forgets to tell.
Unmoved ==
  /\ Unstored' = Unstored /\ Disabled(Broker)' = Disabled(Broker)
  /\ (\E c \in Cli : Telling(c)) => (\E c \in Cli : Telling(c)')

\* A command that has written either still tells, or has told; the broker's own
\* writes store its pause; and only the reload that adopts the stored value, or
\* one that excuses it, forgets what it was told.
LEMMA FollowsStep ==
  ASSUME Basics, LatestIsPause, Follows, [Next]_vars
  PROVE  Follows'
<1> USE PauseAssumption DEF Basics, Shape, Follows, Writer, hives, observers
<1>1. CASE Persist
  BY <1>1, PersistAt DEF Unstored
<1>2. CASE Count
  <2>1. Unmoved
    BY <1>2, CountAt DEF Unmoved, Unstored, Disabled, Merged, Telling
  <2>2. Told => Told'
    BY <1>2, CountAt, Room DEF Told
  <2> QED
    BY <1>2, <2>1, <2>2, CountAt DEF Unmoved
<1>3. CASE Reload
  <2>1. Unmoved
    BY <1>3, ReloadAt DEF Unmoved, Unstored, Disabled, Merged, Telling
  <2>2. CASE broker.inFlight = 0
    BY <1>3, <2>1, <2>2, ReloadAt DEF Unmoved
  <2>3. CASE broker.inFlight # 0
    <3>1. ASSUME ~excused', Told
          PROVE  Told'
      <4>1. broker.inbox[1] # TRUE /\ broker.inbox # <<>> /\ broker.inbox \in Seq(BOOLEAN)
        BY <1>3, <2>3, <3>1, ReloadAt DEF TypeOK, BrokerType
      <4>2. PICK k \in 1..Len(broker.inbox) : broker.inbox[k] = TRUE
        BY <2>3, <3>1 DEF Told
      <4> QED
        BY <1>3, <4>1, <4>2, Heard, ReloadAt DEF Told
    <3> QED
      BY <1>3, <2>1, <2>3, <3>1, ReloadAt DEF Unmoved
  <2> QED
    BY <2>2, <2>3
<1>4. CASE Load
  BY <1>4, LoadAt DEF Disabled, Merged
<1>5. CASE Toggle
  BY <1>5, ToggleAt DEF Takes, Unstored, Told
<1>6. CASE CreateWindow
  BY <1>6 DEF CreateWindow, Down, Idle, TypeOK, BrokerType
<1>7. CASE Exit
  BY <1>7 DEF Exit, Down, Idle, TypeOK, BrokerType
<1>8. CASE OtherVerb
  <2>1. Unmoved
    BY <1>8, OtherVerbAt DEF Unmoved, Unstored, Disabled, Merged, Telling
  <2> QED
    BY <1>8, <2>1, OtherVerbAt DEF Unmoved
<1>9. CASE ReadMerged
  <2>1. Unmoved
    BY <1>9 DEF Unmoved, Unstored, Disabled, Merged, Telling, ReadMerged, TypeOK
  <2> QED
    BY <1>9, <2>1 DEF Unmoved, ReadMerged, Told
<1>10. CASE QueryReal
  <2>1. Unmoved
    BY <1>10 DEF Unmoved, Unstored, Disabled, Merged, Telling, QueryReal, TypeOK
  <2> QED
    BY <1>10, <2>1 DEF Unmoved, QueryReal, Told
<1>11. CASE MirrorReal
  <2>1. CASE package = NoValue
    BY <1>11, <2>1 DEF MirrorReal
  <2>2. CASE package # NoValue
    <3>1. Unmoved
      BY <1>11, <2>2, IntrudedType DEF Unmoved, Unstored, Disabled, Merged, Telling, MirrorReal, TypeOK
    <3> QED
      BY <1>11, <3>1 DEF Unmoved, MirrorReal, Told
  <2> QED
    BY <2>1, <2>2
<1>12. ASSUME NEW w \in Writer, WriteReal(w)
       PROVE  Follows'
  <2>1. ASSUME w \in Cli, ~excused'
        PROVE  Telling(w)'
    BY <1>12, <2>1, RealAt DEF Telling, Faulty
  <2>2. ASSUME w = Broker, ~excused', broker.pc = "pump", ~Unstored'
        PROVE  broker'.paused = Disabled(Broker)'
    <3>1. /\ broker' = broker /\ ~excused /\ real' = writer[Broker].value
          /\ package' = package /\ writer[Broker].pc = "real"
          /\ writer'[Broker].pc = IF Broker \in Packaged THEN "package" ELSE "announce"
      BY <1>12, <2>2, RealAt DEF Wrote, Faulty
    <3>2. broker.queue = <<>> /\ broker.paused = writer[Broker].value /\ broker.paused \in BOOLEAN
      BY <2>2, <3>1, InHand DEF Unstored
    <3> QED
      BY <2>2, <3>1, <3>2 DEF Unstored, Disabled, Merged
  <2>3. broker' = broker
    BY <1>12, RealAt
  <2> QED
    BY <2>1, <2>2, <2>3
<1>13. ASSUME NEW w \in Writer, WritePackage(w)
       PROVE  Follows'
  <2>1. ASSUME w \in Cli, ~excused'
        PROVE  Telling(w)'
    BY <1>13, <2>1, PackageAt DEF Telling, Wrote, Faulty
  <2>2. ASSUME w = Broker, ~excused', broker.pc = "pump", ~Unstored'
        PROVE  broker'.paused = Disabled(Broker)'
    <3>1. /\ broker' = broker /\ ~excused /\ package' = writer[Broker].value
          /\ writer[Broker].pc = "package" /\ Broker \in Packaged
      BY <1>13, <2>2, PackageAt DEF Wrote, Faulty
    <3>2. broker.paused = writer[Broker].value /\ broker.paused \in BOOLEAN
      BY <2>2, <3>1, InHand DEF Unstored
    <3> QED
      BY <3>1, <3>2 DEF Disabled, Merged
  <2>3. broker' = broker
    BY <1>13, PackageAt
  <2> QED
    BY <2>1, <2>2, <2>3
<1>14. ASSUME NEW w \in Writer, Announce(w)
       PROVE  Follows'
  <2>1. CASE w = Broker
    <3>1. Unmoved
      BY <1>14, <2>1, AnnounceAt DEF Unmoved, Unstored, Disabled, Merged, Telling
    <3> QED
      BY <1>14, <2>1, <3>1, AnnounceAt DEF Unmoved
  <2>2. CASE w # Broker
    BY <1>14, <2>2, AnnounceAt
  <2> QED
    BY <2>1, <2>2
<1>15. ASSUME NEW c \in Cli, Find(c)
       PROVE  Follows'
  <2>1. Unmoved
    BY <1>15, StepsAt DEF Unmoved, Unstored, Disabled, Merged, Telling, Find, TypeOK
  <2> QED
    BY <1>15, <2>1 DEF Unmoved, Find, Told
<1>16. ASSUME NEW c \in Cli, Send(c)
       PROVE  Follows'
  BY <1>16, SendAt DEF Takes, Unstored
<1>17. ASSUME NEW c \in Cli, Report(c)
       PROVE  Follows'
  <2>1. Unmoved
    BY <1>17, ReportAt DEF Unmoved, Unstored, Disabled, Merged, Telling
  <2> QED
    BY <1>17, <2>1, ReportAt DEF Unmoved
<1>18. ASSUME NEW c \in Cli, Undelivered(c)
       PROVE  Follows'
  <2>1. Unmoved
    BY <1>18, StepsAt DEF Unmoved, Unstored, Disabled, Merged, Telling, Undelivered, TypeOK
  <2> QED
    BY <1>18, <2>1 DEF Unmoved, Undelivered, Told
<1>19. ASSUME NEW c \in Cli, Kill(c)
       PROVE  Follows'
  <2>1. CASE writer[c].pc \in {"package", "announce"}
    BY <1>19, <2>1 DEF Kill, Faulty
  <2>2. CASE writer[c].pc \notin {"package", "announce"}
    <3>1. Unmoved
      BY <1>19, <2>2, StepsAt DEF Unmoved, Unstored, Disabled, Merged, Telling, Kill, TypeOK
    <3> QED
      BY <1>19, <2>2, <3>1 DEF Unmoved, Kill, Told
  <2> QED
    BY <2>1, <2>2
<1>20. ASSUME NEW c \in Cli, NEW v \in BOOLEAN, Command(c, v)
       PROVE  Follows'
  <2>1. Unmoved
    BY <1>20 DEF Unmoved, Unstored, Disabled, Merged, Telling, Command, Idle, TypeOK
  <2> QED
    BY <1>20, <2>1 DEF Unmoved, Command, Told
<1>21. ASSUME NEW v \in BOOLEAN, ForeignWrite(v)
       PROVE  Follows'
  BY <1>21, IntrudedType DEF ForeignWrite, TypeOK, Faulty
<1>22. CASE UNCHANGED vars
  <2>1. Unmoved
    BY <1>22 DEF Unmoved, Unstored, Disabled, Merged, Telling, vars
  <2> QED
    BY <1>22, <2>1 DEF Unmoved, vars, Told
<1> HIDE DEF Basics, Shape, Follows, Writer, hives, observers
<1> QED
  BY <1>1, <1>2, <1>3, <1>4, <1>5, <1>6, <1>7, <1>8, <1>9, <1>10, <1>11,
     <1>12, <1>13, <1>14, <1>15, <1>16, <1>17, <1>18, <1>19, <1>20, <1>21, <1>22, Cases

-----------------------------------------------------------------------------
(* The two hives.                                                           *)

\* Between its two writes a writer keeps the hives apart; the second one, when
\* nobody came between, joins them; so does a mirror that nobody disturbs.
LEMMA HivesStep ==
  ASSUME Basics, Hives, [Next]_vars
  PROVE  Hives'
<1> USE PauseAssumption DEF Basics, Shape, Hives, Writer, hives, observers
<1>1. CASE Persist
  BY <1>1, Queues DEF Persist, Idle, TypeOK, BrokerType
<1>2. CASE Count
  BY <1>2, StepsAt DEF Count, Counted, TypeOK, BrokerType
<1>3. CASE Reload
  BY <1>3, Queues DEF Reload, TypeOK, BrokerType
<1>4. CASE Load
  BY <1>4 DEF Load, TypeOK, BrokerType
<1>5. CASE Toggle
  BY <1>5, ToggleAt DEF Takes
<1>6. CASE CreateWindow
  BY <1>6 DEF CreateWindow, Down, Idle, TypeOK, BrokerType
<1>7. CASE Exit
  BY <1>7 DEF Exit, Down, Idle, TypeOK, BrokerType
<1>8. CASE OtherVerb
  BY <1>8, BroadcastType, (FALSE) \in BOOLEAN DEF OtherVerb, WindowExists, TypeOK,
     BrokerType
<1>9. CASE ReadMerged
  <2>1. mirror'.value = IF package = NoValue THEN real ELSE package
    BY <1>9 DEF ReadMerged, Merged
  <2> QED
    BY <1>9, <2>1 DEF ReadMerged
<1>10. CASE QueryReal
  <2>1. mirror'.value = mirror.value /\ mirror'.alone = mirror.alone /\ mirror.pc = "query"
    BY <1>10 DEF QueryReal, TypeOK
  <2> QED
    BY <1>10, <2>1 DEF QueryReal, Differs
<1>11. CASE MirrorReal
  <2>1. mirror'.pc = "idle" /\ mirror.pc = "write" /\ package' = package
    BY <1>11 DEF MirrorReal, TypeOK
  <2>2. CASE real' = mirror.value /\ split' = ~mirror.alone /\ writer' = Intruded
    BY <2>1, <2>2, IntrudedType DEF TypeOK
  <2>3. CASE UNCHANGED <<real, writer, split>>
    BY <2>1, <2>3
  <2> QED
    BY <1>11, <2>2, <2>3 DEF MirrorReal
<1>12. ASSUME NEW w \in Writer, WriteReal(w)
       PROVE  Hives'
  BY <1>12, RealAt, ZenonT(30) DEF After, Wrote, Faulty
<1>13. ASSUME NEW w \in Writer, WritePackage(w)
       PROVE  Hives'
  <2>1. /\ writer[w].pc = "package" /\ real' = real
        /\ writer'[w].value = writer[w].value
        /\ \A x \in Writer : x # w =>
             /\ writer'[x].pc = writer[x].pc /\ writer'[x].value = writer[x].value
             /\ writer'[x].ok = writer[x].ok
    BY <1>13, PackageAt
  <2>2. CASE /\ package' = writer[w].value
             /\ writer'[w].pc = IF writer[w].ok THEN "announce" ELSE After(w)
             /\ \A x \in Writer : x # w /\ writer[x].pc = "package" => ~writer'[x].alone
             /\ ~mirror'.alone /\ split' = ~(writer[w].ok /\ writer[w].alone)
    <3>1. writer'[w].pc # "package"
      BY <2>2 DEF After
    <3>2. ~split' => real' = package'
      BY <2>1, <2>2
    <3>3. \A x \in Writer : writer'[x].pc = "package" => ~writer'[x].alone
      BY <2>1, <2>2, <3>1
    <3> QED
      BY <2>2, <3>2, <3>3
  <2>3. CASE /\ package' = package /\ mirror' = mirror /\ Faulty
             /\ writer'[w].pc = After(w)
             /\ \A x \in Writer : x # w => writer'[x] = writer[x]
    <3>1. writer'[w].pc # "package"
      BY <2>3 DEF After
    <3>2. \A x \in Writer : writer'[x].pc = "package" => x # w /\ writer'[x] = writer[x]
      BY <2>3, <3>1
    <3> QED
      BY <2>1, <2>3, <3>2 DEF Faulty
  <2> QED
    BY <1>13, PackageAt, <2>2, <2>3
<1>14. ASSUME NEW w \in Writer, Announce(w)
       PROVE  Hives'
  BY <1>14, StepsAt, BroadcastType, (FALSE) \in BOOLEAN DEF Announce, WindowExists,
     TypeOK, BrokerType
<1>15. ASSUME NEW c \in Cli, Find(c)
       PROVE  Hives'
  BY <1>15, StepsAt DEF Find, TypeOK, BrokerType
<1>16. ASSUME NEW c \in Cli, Send(c)
       PROVE  Hives'
  BY <1>16, SendAt DEF Takes
<1>17. ASSUME NEW c \in Cli, Report(c)
       PROVE  Hives'
  BY <1>17, StepsAt, BroadcastType, (FALSE) \in BOOLEAN DEF Report, WindowExists, TypeOK
<1>18. ASSUME NEW c \in Cli, Undelivered(c)
       PROVE  Hives'
  BY <1>18, StepsAt DEF Undelivered, TypeOK, BrokerType
<1>19. ASSUME NEW c \in Cli, Kill(c)
       PROVE  Hives'
  BY <1>19, StepsAt DEF Kill, TypeOK, BrokerType, Faulty
<1>20. ASSUME NEW c \in Cli, NEW v \in BOOLEAN, Command(c, v)
       PROVE  Hives'
  BY <1>20 DEF Command, Idle, TypeOK, BrokerType
<1>21. ASSUME NEW v \in BOOLEAN, ForeignWrite(v)
       PROVE  Hives'
  BY <1>21, IntrudedType DEF ForeignWrite, TypeOK, Faulty
<1>22. CASE UNCHANGED vars
  BY <1>22 DEF vars
<1> HIDE DEF Basics, Shape, Hives, Writer, hives, observers
<1> QED
  BY <1>1, <1>2, <1>3, <1>4, <1>5, <1>6, <1>7, <1>8, <1>9, <1>10, <1>11,
     <1>12, <1>13, <1>14, <1>15, <1>16, <1>17, <1>18, <1>19, <1>20, <1>21, <1>22, Cases

-----------------------------------------------------------------------------
(* The theorems.                                                            *)

\* At the start nothing is queued, nobody writes, and a broker that runs has read
\* what is stored.
LEMMA InitInv ==
  ASSUME Init
  PROVE  IInv
<1> USE PauseAssumption DEF Init
<1>1. TypeOK
  BY DownType, IdleType DEF TypeOK, BrokerType, Down, Value, Disabled
<1>2. \A w \in Writer : writer[w] = Idle
  OBVIOUS
<1>3. /\ broker.pc \in {"down", "pump"} /\ broker.queue = <<>> /\ broker.inbox = <<>>
      /\ broker.inFlight = 0
      /\ broker.pc = "pump" => broker.paused = Disabled(Broker)
  <2>1. CASE broker = Down
    BY <2>1 DEF Down
  <2>2. CASE broker = [Down EXCEPT !.pc = "pump", !.paused = Disabled(Broker)]
    BY <2>2 DEF Down
  <2> QED
    BY <2>1, <2>2
<1>4. Shape
  BY <1>2, <1>3 DEF Shape, Idle, Writer
<1>5. Active = {}
  BY <1>2 DEF Active, Idle, Writer
<1>6. Counts
  BY <1>2, <1>3, <1>5, FS_EmptySet, Len(<<>>) = 0 DEF Counts, Counter, Budget, Idle, Writer
<1>7. LatestIsPause /\ Follows /\ Alone
  BY <1>3 DEF LatestIsPause, Follows, Alone
<1>8. Hives
  BY <1>2 DEF Hives, Idle
<1> QED
  BY <1>1, <1>4, <1>6, <1>7, <1>8 DEF IInv, Basics

\* Every step keeps the invariant.
LEMMA StepInv ==
  ASSUME IInv, [Next]_vars
  PROVE  IInv'
BY TypeStep, ShapeStep, CounterStep, BudgetStep, LatestStep, FollowsStep, AloneStep,
   HivesStep DEF IInv, Basics, Counts

\* The invariant: places and counts, the value queued last is the pause in memory,
\* whoever changes what is stored is about to tell or has told, and the hives
\* differ only while a writer is between its two writes.
THEOREM Invariance == Spec => []IInv
<1>1. Init => IInv
  BY InitInv
<1>2. IInv /\ [Next]_vars => IInv'
  BY StepInv
<1> QED
  BY <1>1, <1>2, PTL DEF Spec

\* Every variable keeps its type; in particular PERSIST_IN_FLIGHT, which the code
\* adds to and subtracts from in two threads, never falls below zero.
THEOREM TypeCorrect == Spec => []TypeOK
<1>1. IInv => TypeOK
  BY DEF IInv, Basics
<1> QED
  BY <1>1, Invariance, PTL

\* Commands, toggles, restarts and the mirror, however many and however they
\* overlap, end in one pause: the running broker has what is stored, and the hives
\* store the same, but for the exceptions the two observers name.
THEOREM OnePause == Spec => []SettlesOnOnePause
<1>1. IInv => SettlesOnOnePause
  <2> SUFFICES ASSUME IInv
               PROVE  SettlesOnOnePause
    OBVIOUS
  <2>1. Broker \in Writer /\ Cli \subseteq Writer
    BY DEF Writer
  <2>2. BrokerFollows
    <3> SUFFICES ASSUME Settled, broker.pc = "pump", broker.inbox = <<>>, ~excused
                 PROVE  broker.paused = Disabled(Broker)
      BY DEF BrokerFollows
    <3>1. ~Unstored
      BY <2>1 DEF Settled, Unstored
    <3>2. ~Told
      BY Len(<<>>) = 0 DEF Told
    <3>3. \A c \in Cli : ~Telling(c)
      BY <2>1 DEF Settled, Telling
    <3> QED
      BY <3>1, <3>2, <3>3 DEF IInv, Follows
  <2>3. HivesAgree
    BY DEF HivesAgree, Settled, IInv, Hives
  <2> QED
    BY <2>2, <2>3 DEF SettlesOnOnePause
<1> QED
  BY <1>1, Invariance, PTL

\* A reload that changes the pause in memory finds no persist in flight, so that
\* what it adopts is the pause itself unless somebody else wrote: the echo of the
\* broker's own write undoes no toggle, however many are queued behind it.
THEOREM EchoIgnored == Spec => OwnEchoIgnored
<1> DEFINE Changes == broker'.paused # broker.paused /\ Len(broker'.inbox) = Len(broker.inbox) - 1
           Kept == Changes => foreign \/ broker'.pc = "down"
<1>1. IInv /\ [Next]_vars => [Kept]_vars
  <2> SUFFICES ASSUME IInv, [Next]_vars, Changes
               PROVE  foreign \/ broker'.pc = "down"
    OBVIOUS
  <2> USE PauseAssumption DEF IInv, Basics
  <2>1. Len(broker.inbox) \in Nat /\ Len(broker.inbox) - 1 # Len(broker.inbox)
    BY Queues DEF TypeOK, BrokerType
  <2>2. CASE Reload
    <3>1. broker.inFlight = 0 /\ broker'.paused = Disabled(Broker) /\ broker.pc = "pump"
      BY <2>2, ReloadAt
    <3>2. ~Unstored
      BY <3>1, Queues DEF Unstored, Counts, Counter, TypeOK, BrokerType
    <3> QED
      BY <3>1, <3>2 DEF Alone
  <2>3. ASSUME broker.paused' = broker.paused \/ broker'.inbox = broker.inbox
        PROVE  foreign \/ broker'.pc = "down"
    BY <2>1, <2>3
  <2>4. CASE Persist
    BY <2>3, <2>4, PersistAt
  <2>5. CASE Count
    BY <2>3, <2>5, CountAt
  <2>6. CASE Load
    BY <2>3, <2>6 DEF Load, TypeOK, BrokerType
  <2>7. CASE Toggle
    BY <2>3, <2>7, ToggleAt DEF Takes
  <2>8. CASE CreateWindow
    BY <2>1, <2>8, Len(<<>>) = 0 DEF CreateWindow, Down, Shape
  <2>9. CASE Exit
    BY <2>9 DEF Exit, Down
  <2>10. CASE OtherVerb
    BY <2>3, <2>10, OtherVerbAt
  <2>11. ASSUME NEW w \in Writer, Announce(w)
         PROVE  foreign \/ broker'.pc = "down"
    BY <2>3, <2>11, AnnounceAt
  <2>12. ASSUME NEW c \in Cli, Send(c)
         PROVE  foreign \/ broker'.pc = "down"
    BY <2>3, <2>12, SendAt DEF Takes
  <2>13. ASSUME NEW c \in Cli, Report(c)
         PROVE  foreign \/ broker'.pc = "down"
    BY <2>3, <2>13, ReportAt
  <2>14. ASSUME broker' = broker
         PROVE  foreign \/ broker'.pc = "down"
    BY <2>3, <2>14
  <2> HIDE DEF IInv, Basics
  <2>15. /\ ReadMerged \/ QueryReal \/ MirrorReal => broker' = broker
         /\ \A w \in Writer : WriteReal(w) \/ WritePackage(w) => broker' = broker
         /\ \A c \in Cli : Find(c) \/ Undelivered(c) \/ Kill(c) => broker' = broker
         /\ \A c \in Cli, v \in BOOLEAN : Command(c, v) => broker' = broker
         /\ \A v \in BOOLEAN : ForeignWrite(v) => broker' = broker
         /\ UNCHANGED vars => broker' = broker
    BY DEF ReadMerged, QueryReal, MirrorReal, WriteReal, WritePackage, Find, Undelivered,
           Kill, Command, ForeignWrite, vars
  <2> HIDE DEF Changes
  <2> QED
    BY <2>2, <2>4, <2>5, <2>6, <2>7, <2>8, <2>9, <2>10, <2>11, <2>12, <2>13, <2>14, <2>15,
       Cases
<1> QED
  BY <1>1, Invariance, PTL DEF Spec, OwnEchoIgnored

===============================================================================
