---------------------------- MODULE SettingsProofs ----------------------------
(***************************************************************************)
(* Proofs about the settings that other processes write.  BareSlash: the    *)
(* two ways into the path resolver agree, for every text, every registry of *)
(* distributions and every mixture of settings, and a snapshot that nobody  *)
(* disturbs catches what the last successful command stored.                *)
(* SettingsWatch: the window shows what is stored once it is idle.          *)
(***************************************************************************)
EXTENDS BareSlash, SettingsWatch, TLAPS

\* What native_target makes of a place: the place, or a refusal of a folder path
\* that holds a control character.
LEMMA NativeKeepsOrRefuses ==
  ASSUME NEW place
  PROVE  \/ Native(place) = place
         \/ /\ Native(place) = Refused("InvalidPath")
            /\ place.ok /\ Holds(place.under, WithControl)
BY DEF Native

\* A text of the wrong shape is refused for that reason by both resolvers.
LEMMA ShapeDecides ==
  ASSUME NEW text, NEW snap, NEW base, Shape(text) # "fine"
  PROVE  /\ UnderRoot(text, base) = Refused(Shape(text))
         /\ Resolve(text, snap) = Refused(Shape(text))
BY DEF UnderRoot, Resolve

\* Explorer and the browser take a text the same way, whatever the settings:
\* drive alias, shape, custom root and selector come in one order.
THEOREM OneRouting ==
  ASSUME NEW text, text # <<>>, NEW snap
  PROVE  SameWay(text, snap)
<1>1. CASE Claimed(text)
  <2>1. Explorer(text, snap) = Alias(text) /\ Browser(text, snap) = Native(Alias(text))
    BY <1>1 DEF Explorer, Browser
  <2> QED
    BY <2>1, NativeKeepsOrRefuses DEF SameWay
<1>2. CASE ~Claimed(text) /\ Shape(text) # "fine"
  <2>1. Browser(text, snap) = Refused(Shape(text))
    BY <1>2 DEF Browser
  <2>2. Explorer(text, snap) = Refused(Shape(text))
    BY <1>2, ShapeDecides DEF Explorer
  <2> QED
    BY <2>1, <2>2 DEF SameWay
<1>3. CASE ~Claimed(text) /\ Shape(text) = "fine" /\ RootOf(snap) # NoValue
  <2> DEFINE there == UnderRoot(text, InFolder(RootOf(snap)))
  <2>1. Explorer(text, snap) = there /\ Browser(text, snap) = Native(there)
    BY <1>3 DEF Explorer, Browser
  <2> HIDE DEF there
  <2> QED
    BY <2>1, NativeKeepsOrRefuses DEF SameWay
<1>4. CASE ~Claimed(text) /\ Shape(text) = "fine" /\ RootOf(snap) = NoValue
  <2>1. Explorer(text, snap) = Resolve(text, snap) /\ Browser(text, snap) = Resolve(text, snap)
    BY <1>4 DEF Explorer, Browser
  <2> QED
    BY <2>1 DEF SameWay
<1> QED
  BY <1>1, <1>2, <1>3, <1>4

\* Every snapshot a process ever takes is routed the same way by both funnels,
\* for any distributions, roots, texts, writers and number of failures.
THEOREM FunnelsAlwaysAgree == Spec => []FunnelsAgree
<1>1. FunnelsAgree
  <2>1. \A text \in Texts : text # <<>>
    BY DEF Texts
  <2> QED
    BY <2>1, OneRouting DEF FunnelsAgree
<1> QED
  BY <1>1, PTL

-----------------------------------------------------------------------------
(* What a snapshot catches.                                                 *)

PackageStored == [mode : {"list", "default", NoValue, Hidden},
                  pin  : Distro \cup {NoValue, Hidden}, root : Root \cup {NoValue, Hidden}]
Writers == [pc : {"idle", "check", "real", "package"}, asked : Stored,
              left : {Order, <<"pin", "root">>, <<"root">>},
              ok : BOOLEAN, answered : BOOLEAN, alone : BOOLEAN]
Mirrors == [pc : {"idle", "query", "write"}, merged : Stored, left : SUBSET Values,
            alone : BOOLEAN]
Readers == [pc : {"idle", "mode", "pin", "root", "routed"}, packaged : BOOLEAN,
            calm : BOOLEAN, snap : Snapshots(Distro, Root)]

BareType ==
  /\ real \in Stored /\ package \in PackageStored /\ wsl \in Wsl
  /\ writer \in [Cli -> Writers] /\ mirror \in Mirrors /\ reader \in Readers
  /\ told \in SUBSET Stored /\ shared \in BOOLEAN /\ events \in 0..MaxEvents

\* The values a command has dealt with; those a reader has read.
Written(c) == CASE c.left = Order             -> {}
                [] c.left = <<"pin", "root">> -> {"mode"}
                [] OTHER                      -> {"mode", "pin"}
Taken(pc)  == CASE pc = "pin"    -> {"mode"}
                [] pc = "root"   -> {"mode", "pin"}
                [] pc = "routed" -> Values
                [] OTHER         -> {}

\* A command that nothing went wrong with, and nobody came into.
Clean(c) == c.ok /\ c.answered /\ c.alone
WriterInv(w) ==
  /\ writer[w].pc \in {"idle", "check"} => writer[w].left = Order
  /\ writer[w].pc \in {"real", "package"} /\ Clean(writer[w]) =>
       /\ \A v \in Written(writer[w]) :
            /\ real[v] = writer[w].asked[v]
            /\ w \in Packaged => Seen(v, TRUE) = writer[w].asked[v]
       /\ writer[w].pc = "package" => real[Head(writer[w].left)] = Asked(w)
  /\ writer[w].pc = "package" => w \in Packaged

ToldInv == \A s \in told : real = s /\ (shared => View(TRUE) = s)

MirrorInv ==
  mirror.pc # "idle" => /\ mirror.alone => mirror.merged = View(TRUE)
                        /\ mirror.left \subseteq Held(mirror.merged)

ReaderInv ==
  reader.pc # "idle" /\ reader.calm =>
    /\ reader.snap.distros = wsl.distros /\ reader.snap.wslDefault = wsl.wslDefault
    /\ \A v \in Taken(reader.pc) : reader.snap[v] = Read(View(reader.packaged))[v]

SnapInv == BareType /\ (\A w \in Cli : WriterInv(w)) /\ ToldInv /\ MirrorInv /\ ReaderInv

\* The lists of values still to be written.
Lefts == {Order, <<"pin", "root">>, <<"root">>}

LEMMA LeftFacts ==
  /\ Head(Order) = "mode" /\ Len(Order) = 3 /\ Tail(Order) = <<"pin", "root">>
  /\ Head(<<"pin", "root">>) = "pin" /\ Len(<<"pin", "root">>) = 2
  /\ Tail(<<"pin", "root">>) = <<"root">>
  /\ Head(<<"root">>) = "root" /\ Len(<<"root">>) = 1
  /\ Order # <<"pin", "root">> /\ Order # <<"root">> /\ <<"pin", "root">> # <<"root">>
BY DEF Order

\* What is seen is a value of its kind.
LEMMA SeenTyped ==
  ASSUME real \in Stored, package \in PackageStored, NEW p \in BOOLEAN
  PROVE  /\ View(p) \in Stored /\ \A v \in Values : View(p)[v] = Seen(v, p)
         /\ Seen("mode", p) \in {"list", "default", NoValue}
         /\ Seen("pin", p) \in Distro \cup {NoValue}
         /\ Seen("root", p) \in Root \cup {NoValue}
<1>1. Seen("mode", p) \in {"list", "default", NoValue}
  BY DEF Seen, Stored, PackageStored
<1>2. Seen("pin", p) \in Distro \cup {NoValue}
  BY DEF Seen, Stored, PackageStored
<1>3. Seen("root", p) \in Root \cup {NoValue}
  BY DEF Seen, Stored, PackageStored
<1> HIDE DEF Seen
<1>4. View(p) \in Stored
  BY <1>1, <1>2, <1>3 DEF View, Values, Stored
<1>5. \A v \in Values : View(p)[v] = Seen(v, p)
  BY DEF View
<1> QED
  BY <1>1, <1>2, <1>3, <1>4, <1>5

LEMMA SeenTypedNext ==
  ASSUME real' \in Stored, package' \in PackageStored
  PROVE  View(TRUE)' \in Stored /\ \A v \in Values : View(TRUE)'[v] = Seen(v, TRUE)'
<1>1. /\ Seen("mode", TRUE)' \in {"list", "default", NoValue}
      /\ Seen("pin", TRUE)' \in Distro \cup {NoValue}
      /\ Seen("root", TRUE)' \in Root \cup {NoValue}
  BY DEF Seen, Stored, PackageStored
<1> HIDE DEF Seen
<1>2. View(TRUE)' \in Stored
  BY <1>1 DEF View, Values, Stored
<1> QED
  BY <1>2 DEF View

\* Two records of values that agree everywhere are one.
LEMMA SameStored ==
  ASSUME NEW s \in Stored, NEW t \in Stored, \A v \in Values : s[v] = t[v]
  PROVE  s = t
BY DEF Stored, Values

LEMMA ReadTyped ==
  ASSUME NEW s \in Stored
  PROVE  Read(s) \in Settings
BY DEF Read, Stored, Settings

\* The command that writes goes on to its next half, its next value or its end;
\* every other one that is under way has been disturbed.
LEMMA AdvanceAt ==
  ASSUME writer \in [Cli -> Writers], NEW w \in Cli, NEW c \in Writers,
         c.pc = writer[w].pc, c.pc \in {"real", "package"}, c.left = writer[w].left,
         Advance(w, c)
  PROVE  /\ reader' = [reader EXCEPT !.calm = FALSE]
         /\ writer' \in [Cli -> Writers]
         /\ \A x \in Cli : x # w => /\ writer'[x].pc = writer[x].pc
                                    /\ writer'[x].left = writer[x].left
                                    /\ writer[x].pc # "idle" => ~writer'[x].alone
         /\ \/ /\ c.pc = "real" /\ w \in Packaged /\ writer'[w] = [c EXCEPT !.pc = "package"]
               /\ told' = {} /\ shared' = shared
            \/ /\ c.pc = "package" \/ w \notin Packaged
               /\ c.left # <<"root">>
               /\ writer'[w] = [c EXCEPT !.pc = "real", !.left = Tail(@)]
               /\ told' = {} /\ shared' = shared
            \/ /\ c.pc = "package" \/ w \notin Packaged
               /\ c.left = <<"root">> /\ writer'[w] = Idle
               /\ told' = (IF c.ok /\ c.alone /\ c.answered THEN {c.asked} ELSE {})
               /\ shared' = (w \in Packaged)
<1>1. "package" \in Halves(w) <=> w \in Packaged
  BY DEF Halves
<1>2. ASSUME NEW d \in Writers, d.pc # c.pc \/ d.left # c.left,
             Intrudes([writer EXCEPT ![w] = d])
      PROVE  /\ reader' = [reader EXCEPT !.calm = FALSE]
             /\ writer' \in [Cli -> Writers] /\ writer'[w] = d
             /\ \A x \in Cli : x # w => /\ writer'[x].pc = writer[x].pc
                                        /\ writer'[x].left = writer[x].left
                                        /\ writer[x].pc # "idle" => ~writer'[x].alone
  <2> DEFINE after == [writer EXCEPT ![w] = d]
  <2>1. /\ reader' = [reader EXCEPT !.calm = FALSE]
        /\ writer' = [x \in Cli |-> IF writer[x].pc = "idle" \/ after[x] # writer[x]
                                    THEN after[x] ELSE [after[x] EXCEPT !.alone = FALSE]]
    BY <1>2 DEF Intrudes
  <2>2. after[w] = d /\ \A x \in Cli : x # w => after[x] = writer[x]
    OBVIOUS
  <2>3. d # writer[w]
    BY <1>2
  <2> HIDE DEF after
  <2>4. writer'[w] = d
    BY <2>1, <2>2, <2>3
  <2>5. \A x \in Cli : x # w => writer'[x] = IF writer[x].pc = "idle" THEN writer[x]
                                             ELSE [writer[x] EXCEPT !.alone = FALSE]
    BY <2>1, <2>2
  <2>6. \A x \in Cli : [writer[x] EXCEPT !.alone = FALSE] \in Writers
    BY DEF Writers
  <2>7. \A x \in Cli : writer'[x] \in Writers
    BY <1>2, <2>4, <2>5, <2>6
  <2>8. \A x \in Cli : x # w => /\ writer'[x].pc = writer[x].pc
                                /\ writer'[x].left = writer[x].left
                                /\ writer[x].pc # "idle" => ~writer'[x].alone
    <3> SUFFICES ASSUME NEW x \in Cli, x # w
                 PROVE  /\ writer'[x].pc = writer[x].pc /\ writer'[x].left = writer[x].left
                        /\ writer[x].pc # "idle" => ~writer'[x].alone
      OBVIOUS
    <3>1. CASE writer[x].pc = "idle"
      BY <2>5, <3>1
    <3>2. CASE writer[x].pc # "idle"
      <4>1. writer'[x] = [writer[x] EXCEPT !.alone = FALSE]
        BY <2>5, <3>2
      <4> QED
        BY <4>1 DEF Writers
    <3> QED
      BY <3>1, <3>2
  <2>9. writer' = [x \in Cli |-> writer'[x]]
    BY <2>1
  <2> QED
    BY <2>1, <2>4, <2>7, <2>8, <2>9
<1>3. CASE c.pc = "real" /\ w \in Packaged
  <2>1. [c EXCEPT !.pc = "package"] \in Writers /\ [c EXCEPT !.pc = "package"].pc # c.pc
    BY <1>3 DEF Writers
  <2>2. Intrudes([writer EXCEPT ![w] = [c EXCEPT !.pc = "package"]]) /\ told' = {} /\ shared' = shared
    BY <1>1, <1>3 DEF Advance
  <2> QED
    BY <1>2, <1>3, <2>1, <2>2
<1>4. CASE ~(c.pc = "real" /\ w \in Packaged) /\ c.left # <<"root">>
  <2> DEFINE d == [c EXCEPT !.pc = "real", !.left = Tail(@)]
  <2>1. c.left \in {Order, <<"pin", "root">>}
    BY <1>4 DEF Writers
  <2>2. d \in Writers /\ d.left # c.left
    BY <2>1, LeftFacts DEF Writers
  <2>3. Len(c.left) > 1
    <3>1. CASE c.left = Order
      BY <3>1, LeftFacts
    <3>2. CASE c.left = <<"pin", "root">>
      BY <3>2
    <3> QED
      BY <2>1, <3>1, <3>2
  <2>4. Intrudes([writer EXCEPT ![w] = d]) /\ told' = {} /\ shared' = shared
    BY <1>1, <1>4, <2>3 DEF Advance
  <2> HIDE DEF d
  <2> QED
    BY <1>2, <1>4, <2>2, <2>4 DEF d
<1>5. CASE ~(c.pc = "real" /\ w \in Packaged) /\ c.left = <<"root">>
  <2>1. Idle \in Writers /\ Idle.left # c.left
    BY <1>5, LeftFacts DEF Writers, Idle, Stored, Empty
  <2>2. ~(Len(c.left) > 1)
    BY <1>5, LeftFacts
  <2>3. /\ Intrudes([writer EXCEPT ![w] = Idle])
        /\ told' = (IF c.ok /\ c.alone /\ c.answered THEN {c.asked} ELSE {})
        /\ shared' = (w \in Packaged)
    BY <1>1, <1>5, <2>2 DEF Advance
  <2> QED
    BY <1>2, <1>5, <2>1, <2>3
<1> QED
  BY <1>3, <1>4, <1>5

\* The kinds of the values.
Kind(v) == CASE v = "mode" -> {"list", "default", NoValue}
             [] v = "pin"  -> Distro \cup {NoValue}
             [] OTHER      -> Root \cup {NoValue}

LEMMA KindFacts ==
  /\ \A s \in Stored, v \in Values : s[v] \in Kind(v)
  /\ \A s \in Stored, v \in Values : \A x \in Kind(v) :
       /\ [s EXCEPT ![v] = x] \in Stored /\ [s EXCEPT ![v] = x][v] = x
       /\ \A u \in Values \ {v} : [s EXCEPT ![v] = x][u] = s[u]
  /\ \A s \in PackageStored, v \in Values : \A x \in Kind(v) \cup {Hidden} :
       /\ [s EXCEPT ![v] = x] \in PackageStored /\ [s EXCEPT ![v] = x][v] = x
       /\ \A u \in Values \ {v} : [s EXCEPT ![v] = x][u] = s[u]
  /\ \A s \in PackageStored, v \in Values : s[v] \in Kind(v) \cup {Hidden}
<1>1. \A s \in Stored, v \in Values : s[v] \in Kind(v)
  BY DEF Stored, Values, Kind
<1>2. ASSUME NEW s \in Stored, NEW v \in Values, NEW x \in Kind(v)
      PROVE  /\ [s EXCEPT ![v] = x] \in Stored /\ [s EXCEPT ![v] = x][v] = x
             /\ \A u \in Values \ {v} : [s EXCEPT ![v] = x][u] = s[u]
  BY DEF Stored, Values, Kind
<1>3. ASSUME NEW s \in PackageStored, NEW v \in Values, NEW x \in Kind(v) \cup {Hidden}
      PROVE  /\ [s EXCEPT ![v] = x] \in PackageStored /\ [s EXCEPT ![v] = x][v] = x
             /\ \A u \in Values \ {v} : [s EXCEPT ![v] = x][u] = s[u]
  BY DEF PackageStored, Values, Kind
<1>4. \A s \in PackageStored, v \in Values : s[v] \in Kind(v) \cup {Hidden}
  BY DEF PackageStored, Values, Kind
<1> QED
  BY <1>1, <1>2, <1>3, <1>4

LEMMA HeadIsValue ==
  ASSUME NEW c \in Writers
  PROVE  /\ c.left \in Lefts /\ Head(c.left) \in Values /\ c.asked \in Stored
         /\ c.asked[Head(c.left)] \in Kind(Head(c.left))
         /\ Head(c.left) \notin Written(c)
         /\ Written(c) \subseteq Values
         /\ c.left = <<"root">> => Values = Written(c) \cup {Head(c.left)}
<1>1. c.left \in Lefts /\ c.asked \in Stored
  BY DEF Writers, Lefts
<1>2. CASE c.left = Order
  BY <1>1, <1>2, LeftFacts, KindFacts DEF Written, Values
<1>3. CASE c.left = <<"pin", "root">>
  BY <1>1, <1>3, LeftFacts, KindFacts DEF Written, Values
<1>4. CASE c.left = <<"root">>
  BY <1>1, <1>4, LeftFacts, KindFacts DEF Written, Values
<1> QED
  BY <1>1, <1>2, <1>3, <1>4 DEF Lefts

\* What a write leaves: it is done, or something went wrong.
Writing(w) == WriteReal(w) \/ WritePackage(w)
LEMMA WriteAt ==
  ASSUME BareType, NEW w \in Cli, Writing(w)
  PROVE  \E c \in Writers :
           /\ Advance(w, c) /\ c.pc = writer[w].pc /\ c.left = writer[w].left
           /\ c.asked = writer[w].asked /\ c.pc \in {"real", "package"}
           /\ mirror' = [mirror EXCEPT !.alone = FALSE] /\ wsl' = wsl
           /\ events' \in 0..MaxEvents
           /\ Clean(c) => Clean(writer[w])
           /\ \/ /\ c.pc = "real" /\ package' = package
                 /\ \/ real' = [real EXCEPT ![Head(c.left)] = c.asked[Head(c.left)]]
                    \/ ~Clean(c) /\ real' = real
              \/ /\ c.pc = "package" /\ real' = real
                 /\ \/ \E x \in IF c.asked[Head(c.left)] = NoValue
                                THEN Deletions(Head(c.left)) ELSE {c.asked[Head(c.left)]} :
                         package' = [package EXCEPT ![Head(c.left)] = x]
                    \/ ~Clean(c) /\ package' = package
<1> DEFINE c0 == writer[w]
           c1 == [writer[w] EXCEPT !.ok = FALSE]
           c2 == [writer[w] EXCEPT !.answered = FALSE]
           v  == Head(writer[w].left)
<1>0. /\ c0 \in Writers /\ c1 \in Writers /\ c2 \in Writers
      /\ \A c \in {c0, c1, c2} : /\ c.pc = writer[w].pc /\ c.left = writer[w].left
                                 /\ c.asked = writer[w].asked
  BY DEF BareType, Writers
<1>1. events \in 0..MaxEvents /\ MaxEvents \in Nat
  BY BareSlashAssumption DEF BareType
<1>2. CASE WriteReal(w)
  <2>1. /\ writer[w].pc = "real" /\ mirror' = [mirror EXCEPT !.alone = FALSE]
        /\ wsl' = wsl /\ package' = package
    BY <1>2 DEF WriteReal
  <2>2. \/ real' = [real EXCEPT ![v] = c0.asked[v]] /\ Advance(w, c0) /\ events' = events
        \/ Event /\ Advance(w, c2) /\ real' = real
        \/ Event /\ Advance(w, c1) /\ real' = real
        \/ Event /\ Advance(w, c1) /\ real' = [real EXCEPT ![v] = c0.asked[v]]
    BY <1>2 DEF WriteReal, Unanswered, Failed, Late, Asked
  <2>3. events' \in 0..MaxEvents
    BY <1>1, <2>2 DEF Event
  <2> HIDE DEF c0, c1, c2, v
  <2>4. v = Head(writer[w].left)
    BY DEF v
  <2>5. CASE real' = [real EXCEPT ![v] = c0.asked[v]] /\ Advance(w, c0)
    <3>1. Clean(c0) => Clean(writer[w])
      BY DEF c0
    <3>2. /\ c0 \in Writers /\ c0.pc = writer[w].pc /\ c0.left = writer[w].left
          /\ c0.asked = writer[w].asked /\ v = Head(c0.left)
      BY <1>0, <2>4
    <3> USE <3>2
    <3> WITNESS c0 \in Writers
    <3> QED
      BY <2>1, <2>3, <2>5, <3>1, <3>2
  <2>6. CASE Advance(w, c2) /\ real' = real
    <3>1. ~Clean(c2)
      BY DEF c2, BareType, Writers, Clean
    <3> QED
      BY <1>0, <2>1, <2>3, <2>4, <2>6, <3>1
  <2>7. CASE Advance(w, c1)
    <3>1. ~Clean(c1)
      BY DEF c1, BareType, Writers, Clean
    <3>2. real' = real \/ real' = [real EXCEPT ![v] = c0.asked[v]]
      BY <2>2
    <3> QED
      BY <1>0, <2>1, <2>3, <2>4, <2>7, <3>1, <3>2
  <2> QED
    BY <2>2, <2>5, <2>6, <2>7
<1>3. CASE WritePackage(w)
  <2>1. /\ writer[w].pc = "package" /\ mirror' = [mirror EXCEPT !.alone = FALSE]
        /\ wsl' = wsl /\ real' = real
    BY <1>3 DEF WritePackage
  <2>2. \/ /\ \E x \in IF c0.asked[v] = NoValue THEN Deletions(v) ELSE {c0.asked[v]} :
                package' = [package EXCEPT ![v] = x]
           /\ Advance(w, c0) /\ events' = events
        \/ Event /\ Advance(w, c1) /\ package' = package
    BY <1>3 DEF WritePackage, Failed, Asked
  <2>3. events' \in 0..MaxEvents
    BY <1>1, <2>2 DEF Event
  <2> HIDE DEF c0, c1, c2, v
  <2>4. v = Head(writer[w].left)
    BY DEF v
  <2>5. CASE Advance(w, c0) /\ \E x \in IF c0.asked[v] = NoValue THEN Deletions(v)
                                        ELSE {c0.asked[v]} :
                                 package' = [package EXCEPT ![v] = x]
    <3>1. Clean(c0) => Clean(writer[w])
      BY DEF c0
    <3>2. /\ c0 \in Writers /\ c0.pc = writer[w].pc /\ c0.left = writer[w].left
          /\ c0.asked = writer[w].asked /\ v = Head(c0.left)
      BY <1>0, <2>4
    <3> USE <3>2
    <3> WITNESS c0 \in Writers
    <3> QED
      BY <2>1, <2>3, <2>5, <3>1
  <2>6. CASE Advance(w, c1) /\ package' = package
    <3>1. ~Clean(c1)
      BY DEF c1, BareType, Writers, Clean
    <3> QED
      BY <1>0, <2>1, <2>3, <2>4, <2>6, <3>1
  <2> QED
    BY <2>2, <2>5, <2>6
<1> QED
  BY <1>2, <1>3 DEF Writing

\* A write keeps every variable's type.
LEMMA WriteKeepsType == ASSUME BareType, NEW w \in Cli, Writing(w) PROVE BareType'
<1>1. PICK c \in Writers :
        /\ Advance(w, c) /\ c.pc = writer[w].pc /\ c.left = writer[w].left
        /\ c.pc \in {"real", "package"} /\ c.asked = writer[w].asked
        /\ mirror' = [mirror EXCEPT !.alone = FALSE] /\ wsl' = wsl
        /\ events' \in 0..MaxEvents
        /\ \/ /\ package' = package
              /\ \/ real' = [real EXCEPT ![Head(c.left)] = c.asked[Head(c.left)]]
                 \/ real' = real
           \/ /\ real' = real
              /\ \/ \E x \in IF c.asked[Head(c.left)] = NoValue
                             THEN Deletions(Head(c.left)) ELSE {c.asked[Head(c.left)]} :
                      package' = [package EXCEPT ![Head(c.left)] = x]
                 \/ package' = package
  BY WriteAt
<1>2. /\ writer \in [Cli -> Writers] /\ reader \in Readers /\ mirror \in Mirrors
      /\ told \in SUBSET Stored /\ shared \in BOOLEAN /\ real \in Stored
      /\ package \in PackageStored /\ wsl \in Wsl
  BY DEF BareType
<1>3. /\ reader' = [reader EXCEPT !.calm = FALSE] /\ writer' \in [Cli -> Writers]
      /\ told' \in {{}, {c.asked}} /\ (shared' = shared \/ shared' = (w \in Packaged))
  BY <1>1, <1>2, AdvanceAt
<1>4. reader' \in Readers /\ mirror' \in Mirrors
  BY <1>1, <1>2, <1>3 DEF Readers, Mirrors
<1>5. /\ Head(c.left) \in Values /\ c.asked \in Stored
      /\ c.asked[Head(c.left)] \in Kind(Head(c.left))
  BY HeadIsValue
<1>6. real' \in Stored
  BY <1>1, <1>2, <1>5, KindFacts
<1>7. \A x \in Deletions(Head(c.left)) : x \in Kind(Head(c.left)) \cup {Hidden}
  <2>1. NoValue \in Kind(Head(c.left))
    BY DEF Kind
  <2>2. package[Head(c.left)] \in Kind(Head(c.left)) \cup {Hidden}
    BY <1>2, <1>5, KindFacts
  <2> QED
    BY <2>1, <2>2 DEF Deletions
<1>8. package' \in PackageStored
  <2>1. CASE package' = package
    BY <1>2, <2>1
  <2>2. CASE \E x \in IF c.asked[Head(c.left)] = NoValue
                      THEN Deletions(Head(c.left)) ELSE {c.asked[Head(c.left)]} :
               package' = [package EXCEPT ![Head(c.left)] = x]
    <3>1. PICK x \in Kind(Head(c.left)) \cup {Hidden} :
            package' = [package EXCEPT ![Head(c.left)] = x]
      BY <1>5, <1>7, <2>2
    <3> QED
      BY <1>2, <1>5, <3>1, KindFacts
  <2> QED
    BY <1>1, <2>1, <2>2
<1>9. told' \in SUBSET Stored /\ shared' \in BOOLEAN
  <2>1. told' \in SUBSET Stored
    BY <1>3, <1>5
  <2>2. (w \in Packaged) \in BOOLEAN
    OBVIOUS
  <2>3. shared' = shared \/ shared' = (w \in Packaged)
    BY <1>3
  <2> QED
    BY <1>2, <2>1, <2>2, <2>3
<1> QED
  BY <1>1, <1>2, <1>3, <1>4, <1>6, <1>8, <1>9 DEF BareType

\* What one write changes of what is seen.
LEMMA RealSeen ==
  ASSUME real \in Stored, NEW v \in Values, NEW x \in Kind(v),
         real' = [real EXCEPT ![v] = x], package' = package
  PROVE  /\ real'[v] = x
         /\ \A u \in Values \ {v} : real'[u] = real[u] /\ Seen(u, TRUE)' = Seen(u, TRUE)
  BY KindFacts DEF Seen

LEMMA PackageSeen ==
  ASSUME real \in Stored, package \in PackageStored, NEW v \in Values, NEW a \in Kind(v),
         real' = real, real[v] = a,
         NEW x \in IF a = NoValue THEN Deletions(v) ELSE {a},
         package' = [package EXCEPT ![v] = x]
  PROVE  /\ Seen(v, TRUE)' = a
         /\ \A u \in Values \ {v} : Seen(u, TRUE)' = Seen(u, TRUE)
<1>1. a # Hidden
  BY BareSlashAssumption DEF Kind
<1>2. x \in Kind(v) \cup {Hidden}
  <2>1. NoValue \in Kind(v)
    BY DEF Kind
  <2>2. package[v] \in Kind(v) \cup {Hidden}
    BY KindFacts
  <2> QED
    BY <2>1, <2>2 DEF Deletions
<1>3. package'[v] = x /\ \A u \in Values \ {v} : package'[u] = package[u]
  BY <1>2, KindFacts
<1>4. CASE a # NoValue
  BY <1>1, <1>3, <1>4 DEF Seen
<1>5. CASE a = NoValue /\ Seen(v, TRUE) = NoValue
  <2>1. package'[v] = package[v] /\ real'[v] = real[v]
    BY <1>3, <1>5 DEF Deletions
  <2> QED
    BY <1>3, <1>5, <2>1 DEF Seen
<1>6. CASE a = NoValue /\ Seen(v, TRUE) # NoValue
  <2>1. package'[v] \in {NoValue, Hidden} /\ real'[v] = NoValue
    BY <1>3, <1>6 DEF Deletions
  <2> QED
    BY <1>3, <2>1 DEF Seen
<1> QED
  BY <1>4, <1>5, <1>6

\* What comes next has one value more behind it.
LEMMA NextWritten ==
  ASSUME NEW c \in Writers, c.left # <<"root">>
  PROVE  Written([c EXCEPT !.pc = "real", !.left = Tail(@)]) = Written(c) \cup {Head(c.left)}
<1> DEFINE d == [c EXCEPT !.pc = "real", !.left = Tail(@)]
<1>1. d.left = Tail(c.left)
  BY DEF Writers
<1>2. CASE c.left = Order
  BY <1>1, <1>2, LeftFacts DEF Written
<1>3. CASE c.left = <<"pin", "root">>
  BY <1>1, <1>3, LeftFacts DEF Written
<1> QED
  BY <1>2, <1>3 DEF Writers

\* A write deals with its value, and disturbs everybody else.
LEMMA WriteKeeps == ASSUME SnapInv, NEW w \in Cli, Writing(w) PROVE SnapInv'
<1> USE DEF SnapInv
<1>1. PICK c \in Writers :
        /\ Advance(w, c) /\ c.pc = writer[w].pc /\ c.left = writer[w].left
        /\ c.asked = writer[w].asked /\ c.pc \in {"real", "package"}
        /\ mirror' = [mirror EXCEPT !.alone = FALSE] /\ wsl' = wsl
        /\ Clean(c) => Clean(writer[w])
        /\ \/ /\ c.pc = "real" /\ package' = package
              /\ \/ real' = [real EXCEPT ![Head(c.left)] = c.asked[Head(c.left)]]
                 \/ ~Clean(c) /\ real' = real
           \/ /\ c.pc = "package" /\ real' = real
              /\ \/ \E x \in IF c.asked[Head(c.left)] = NoValue
                             THEN Deletions(Head(c.left)) ELSE {c.asked[Head(c.left)]} :
                      package' = [package EXCEPT ![Head(c.left)] = x]
                 \/ ~Clean(c) /\ package' = package
  BY WriteAt
<1> DEFINE v == Head(c.left)
<1>2. /\ writer \in [Cli -> Writers] /\ reader \in Readers /\ mirror \in Mirrors
      /\ real \in Stored /\ package \in PackageStored /\ BareType'
  BY WriteKeepsType DEF BareType
<1>3. /\ reader' = [reader EXCEPT !.calm = FALSE]
      /\ \A x \in Cli : x # w => /\ writer'[x].pc = writer[x].pc
                                 /\ writer'[x].left = writer[x].left
                                 /\ writer[x].pc # "idle" => ~writer'[x].alone
      /\ \/ /\ c.pc = "real" /\ w \in Packaged /\ writer'[w] = [c EXCEPT !.pc = "package"]
            /\ told' = {}
         \/ /\ c.pc = "package" \/ w \notin Packaged
            /\ c.left # <<"root">>
            /\ writer'[w] = [c EXCEPT !.pc = "real", !.left = Tail(@)]
            /\ told' = {}
         \/ /\ c.pc = "package" \/ w \notin Packaged
            /\ c.left = <<"root">> /\ writer'[w] = Idle
            /\ told' = (IF c.ok /\ c.alone /\ c.answered THEN {c.asked} ELSE {})
            /\ shared' = (w \in Packaged)
  BY <1>1, <1>2, AdvanceAt
<1>4. /\ v \in Values /\ c.asked \in Stored /\ c.asked[v] \in Kind(v) /\ v \notin Written(c)
      /\ Written(c) \subseteq Values
      /\ c.left = <<"root">> => Values = Written(c) \cup {v}
  BY HeadIsValue
<1>5. /\ Written(c) = Written(writer[w]) /\ WriterInv(w)
      /\ c.pc = "package" => w \in Packaged
  BY <1>1 DEF Written, WriterInv
<1>6. ASSUME Clean(c)
      PROVE  /\ \A u \in Written(c) : /\ real'[u] = c.asked[u]
                                      /\ w \in Packaged => Seen(u, TRUE)' = c.asked[u]
             /\ real'[v] = c.asked[v]
             /\ c.pc = "package" => Seen(v, TRUE)' = c.asked[v]
  <2>1. /\ \A u \in Written(c) : /\ real[u] = c.asked[u]
                                 /\ w \in Packaged => Seen(u, TRUE) = c.asked[u]
        /\ c.pc = "package" => real[v] = c.asked[v]
    BY <1>1, <1>5, <1>6 DEF WriterInv, Asked
  <2> HIDE DEF v
  <2>2. CASE c.pc = "real"
    <3>1. real' = [real EXCEPT ![v] = c.asked[v]] /\ package' = package
      BY <1>1, <1>6, <2>2 DEF v
    <3> QED
      BY <1>2, <1>4, <2>1, <2>2, <3>1, RealSeen, ZenonT(30)
  <2>3. CASE c.pc = "package"
    <3>1. /\ real' = real
          /\ \E x \in IF c.asked[v] = NoValue THEN Deletions(v) ELSE {c.asked[v]} :
                package' = [package EXCEPT ![v] = x]
      BY <1>1, <1>6, <2>3 DEF v
    <3>2. PICK x \in IF c.asked[v] = NoValue THEN Deletions(v) ELSE {c.asked[v]} :
                package' = [package EXCEPT ![v] = x]
      BY <3>1
    <3>3. /\ Seen(v, TRUE)' = c.asked[v]
          /\ \A u \in Values \ {v} : Seen(u, TRUE)' = Seen(u, TRUE)
      BY <1>2, <1>4, <2>1, <2>3, <3>1, <3>2, PackageSeen
    <3> QED
      BY <1>4, <2>1, <2>3, <3>1, <3>3
  <2> QED
    BY <1>1, <2>2, <2>3
<1> HIDE DEF v
<1>7. WriterInv(w)'
  <2>1. CASE /\ c.pc = "real" /\ w \in Packaged /\ writer'[w] = [c EXCEPT !.pc = "package"]
    <3>1. /\ writer'[w].pc = "package" /\ writer'[w].left = c.left
          /\ writer'[w].asked = c.asked /\ (Clean(writer'[w]) => Clean(c))
          /\ Written(writer'[w]) = Written(c)
      BY <2>1 DEF Writers, Clean, Written
    <3> QED
      BY <1>6, <2>1, <3>1 DEF WriterInv, Asked, v
  <2>2. CASE /\ c.pc = "package" \/ w \notin Packaged
             /\ c.left # <<"root">>
             /\ writer'[w] = [c EXCEPT !.pc = "real", !.left = Tail(@)]
    <3>1. /\ writer'[w].pc = "real" /\ writer'[w].asked = c.asked
          /\ (Clean(writer'[w]) => Clean(c))
      BY <2>2 DEF Writers, Clean
    <3>2. Written(writer'[w]) = Written(c) \cup {v}
      BY <2>2, NextWritten DEF v
    <3> QED
      BY <1>6, <2>2, <3>1, <3>2 DEF WriterInv
  <2>3. CASE writer'[w] = Idle
    BY <2>3 DEF WriterInv, Idle
  <2> QED
    BY <1>3, <2>1, <2>2, <2>3
<1>8. ASSUME NEW x \in Cli, x # w PROVE WriterInv(x)'
  <2>1. /\ writer'[x].pc = writer[x].pc /\ writer'[x].left = writer[x].left
        /\ writer[x].pc # "idle" => ~Clean(writer'[x])
    BY <1>3, <1>8 DEF Clean
  <2> QED
    BY <2>1 DEF WriterInv
<1>9. ToldInv'
  <2> SUFFICES ASSUME NEW s \in told' PROVE real' = s /\ (shared' => View(TRUE)' = s)
    BY DEF ToldInv
  <2>1. /\ Clean(c) /\ s = c.asked /\ c.left = <<"root">> /\ shared' = (w \in Packaged)
        /\ c.pc = "package" \/ w \notin Packaged
    BY <1>3 DEF Clean
  <2>2. \A u \in Values : real'[u] = s[u] /\ (w \in Packaged => Seen(u, TRUE)' = s[u])
    BY <1>4, <1>6, <2>1
  <2>3. /\ real' \in Stored /\ s \in Stored /\ (TRUE) \in BOOLEAN /\ View(TRUE)' \in Stored
        /\ \A u \in Values : View(TRUE)'[u] = Seen(u, TRUE)'
    <3>1. real' \in Stored /\ package' \in PackageStored /\ (TRUE) \in BOOLEAN
      BY <1>2 DEF BareType
    <3>2. View(TRUE)' \in Stored /\ \A u \in Values : View(TRUE)'[u] = Seen(u, TRUE)'
      BY <3>1, SeenTypedNext
    <3> QED
      BY <1>4, <2>1, <3>1, <3>2
  <2> QED
    <3>1. real' = s
      BY <2>2, <2>3, SameStored
    <3>2. ASSUME shared' PROVE View(TRUE)' = s
      <4>1. \A u \in Values : View(TRUE)'[u] = s[u]
        BY <2>1, <2>2, <2>3, <3>2
      <4> QED
        BY <2>3, <4>1, SameStored
    <3> QED
      BY <3>1, <3>2
<1>10. MirrorInv'
  <2>1. ~mirror'.alone /\ mirror'.pc = mirror.pc /\ mirror'.left = mirror.left
        /\ mirror'.merged = mirror.merged
    BY <1>1, <1>2 DEF Mirrors
  <2> QED
    BY <2>1 DEF MirrorInv, Held
<1>11. ReaderInv'
  <2>1. ~reader'.calm
    BY <1>2, <1>3 DEF Readers
  <2> QED
    BY <2>1 DEF ReaderInv
<1> QED
  BY <1>2, <1>7, <1>8, <1>9, <1>10, <1>11

\* The steps of a command that write nothing.
LEMMA CommandKeeps ==
  ASSUME SnapInv, NEW w \in Cli, Mode(w) \/ NewRoot(w) \/ Check(w) \/ Kill(w)
  PROVE  SnapInv'
<1> USE DEF SnapInv
<1>1. /\ writer \in [Cli -> Writers] /\ real \in Stored /\ package \in PackageStored
      /\ wsl \in Wsl /\ events \in 0..MaxEvents /\ MaxEvents \in Nat
      /\ told \in SUBSET Stored /\ shared \in BOOLEAN
  BY BareSlashAssumption DEF BareType
<1>2. /\ UNCHANGED <<real, package, wsl, mirror, reader, shared>>
      /\ told' = told \/ told' = {}
      /\ events' \in 0..MaxEvents
  <2>1. /\ UNCHANGED <<real, package, wsl, mirror, reader, shared>>
        /\ told' = told \/ told' = {}
        /\ Event \/ events' = events
    BY DEF Mode, NewRoot, Check, Kill, hives, observers
  <2>2. events' \in 0..MaxEvents
    BY <1>1, <2>1 DEF Event
  <2> QED
    BY <2>1, <2>2
<1>3. Empty \in Stored /\ Idle \in Writers /\ NoValue \in Distro \cup {NoValue}
  BY DEF Empty, Stored, Idle, Writers
<1>4. \E c \in Writers :
        /\ writer' = [writer EXCEPT ![w] = c] /\ c.left = Order
        /\ c.pc \in {"idle", "check", "real"}
  <2>1. ASSUME NEW a \in Stored, NEW p \in {"real", "check"}, Starts(w, a, p)
        PROVE  \E c \in Writers :
                 /\ writer' = [writer EXCEPT ![w] = c] /\ c.left = Order
                 /\ c.pc \in {"idle", "check", "real"}
    <3> DEFINE c == [Idle EXCEPT !.pc = p, !.asked = a]
    <3>1. c \in Writers /\ c.left = Order /\ c.pc = p
      BY <1>3 DEF Idle, Writers
    <3>2. writer' = [writer EXCEPT ![w] = c]
      BY <2>1 DEF Starts
    <3> HIDE DEF c
    <3> QED
      BY <3>1, <3>2
  <2>2. CASE Mode(w)
    <3>1. /\ [Empty EXCEPT !.mode = "list"] \in Stored
          /\ \A d \in wsl.distros \cup {NoValue} :
               [Empty EXCEPT !.mode = "default", !.pin = d] \in Stored
      BY <1>1 DEF Empty, Stored, Wsl
    <3>2. \/ Starts(w, [Empty EXCEPT !.mode = "list"], "real")
          \/ \E d \in wsl.distros \cup {NoValue} :
               Starts(w, [Empty EXCEPT !.mode = "default", !.pin = d], "real")
      BY <2>2 DEF Mode
    <3> QED
      BY <2>1, <3>1, <3>2
  <2>3. CASE NewRoot(w)
    <3>1. (w \in Packaged) \in BOOLEAN
      OBVIOUS
    <3>2. Read(View(w \in Packaged)) \in Settings
      BY <1>1, <3>1, SeenTyped, ReadTyped
    <3>3. \A r \in ValidRoot \cup {NoValue} :
            [Read(View(w \in Packaged)) EXCEPT !.root = r] \in Stored
      BY <3>2, BareSlashAssumption DEF Settings, Stored
    <3>4. \E r \in ValidRoot \cup {NoValue} :
            Starts(w, [Read(View(w \in Packaged)) EXCEPT !.root = r], "check")
      BY <2>3 DEF NewRoot
    <3> QED
      BY <2>1, <3>3, <3>4
  <2>4. CASE Check(w)
    <3> DEFINE asked == writer[w].asked
               kept  == IF asked.mode = "default" THEN asked.pin ELSE NoValue
               d     == [writer[w] EXCEPT !.pc = "real", !.asked.pin = kept]
    <3>1. writer' = [writer EXCEPT ![w] = Idle] \/ writer' = [writer EXCEPT ![w] = d]
      BY <2>4 DEF Check
    <3>2. d \in Writers /\ d.left = writer[w].left /\ d.pc = "real"
      BY <1>1, ZenonT(30) DEF Writers, Stored
    <3>3. writer[w].left = Order
      BY <2>4 DEF WriterInv, Check
    <3> HIDE DEF d
    <3> QED
      BY <1>3, <3>1, <3>2, <3>3 DEF Idle
  <2>5. CASE Kill(w)
    BY <1>3, <2>5 DEF Kill, Idle
  <2> QED
    BY <2>2, <2>3, <2>4, <2>5
<1>5. PICK c \in Writers : /\ writer' = [writer EXCEPT ![w] = c] /\ c.left = Order
                           /\ c.pc \in {"idle", "check", "real"}
  BY <1>4
<1>6. BareType'
  BY <1>1, <1>2, <1>5 DEF BareType
<1>7. WriterInv(w)'
  <2>1. writer'[w] = c
    BY <1>1, <1>5
  <2> QED
    BY <1>5, <2>1, LeftFacts DEF WriterInv, Written
<1>8. ASSUME NEW x \in Cli, x # w PROVE WriterInv(x)'
  <2>1. writer'[x] = writer[x]
    BY <1>1, <1>5, <1>8
  <2> QED
    BY <1>2, <2>1 DEF WriterInv, Seen, Asked
<1>9. ToldInv' /\ MirrorInv' /\ ReaderInv'
  BY <1>2 DEF ToldInv, MirrorInv, ReaderInv, View, Seen, Held
<1> QED
  BY <1>6, <1>7, <1>8, <1>9

\* The mirror: what it writes is what the package's view already shows.
LEMMA MirrorKeeps ==
  ASSUME SnapInv, ReadMerged \/ QueryReal \/ Mirror \/ Synced
  PROVE  SnapInv'
<1> USE DEF SnapInv
<1>1. /\ writer \in [Cli -> Writers] /\ real \in Stored /\ package \in PackageStored
      /\ wsl \in Wsl /\ events \in 0..MaxEvents /\ MaxEvents \in Nat /\ mirror \in Mirrors
      /\ told \in SUBSET Stored /\ shared \in BOOLEAN /\ reader \in Readers
      /\ (TRUE) \in BOOLEAN
  BY BareSlashAssumption DEF BareType
<1>2. View(TRUE) \in Stored /\ \A v \in Values : View(TRUE)[v] = Seen(v, TRUE)
  BY <1>1, SeenTyped
<1>3. CASE ReadMerged \/ QueryReal \/ Synced
  <2>1. /\ UNCHANGED <<real, package, wsl, writer, reader, told, shared>>
        /\ events' \in 0..MaxEvents
    <3>1. /\ UNCHANGED <<real, package, wsl, writer, reader, told, shared>>
          /\ Event \/ events' = events
      BY <1>3 DEF ReadMerged, QueryReal, Synced, hives, observers
    <3> QED
      BY <1>1, <3>1 DEF Event
  <2>2. View(TRUE)' = View(TRUE)
    BY <2>1 DEF View, Seen
  <2>3. mirror' \in Mirrors /\ MirrorInv'
    <3>1. CASE ReadMerged
      BY <1>2, <2>2, <3>1 DEF ReadMerged, Mirrors, MirrorInv
    <3>2. CASE QueryReal
      <4>1. Held(mirror.merged) \subseteq Values
            /\ SyncPlan(mirror.merged) \subseteq Held(mirror.merged)
        BY DEF Held, SyncPlan
      <4>2. /\ mirror'.pc = "write" /\ mirror'.merged = mirror.merged
            /\ mirror'.alone = mirror.alone /\ mirror' \in Mirrors /\ mirror.pc = "query"
            /\ mirror'.left \subseteq Held(mirror.merged)
        BY <1>1, <3>2, <4>1 DEF QueryReal, Mirrors
      <4> QED
        BY <2>2, <4>2 DEF MirrorInv, Held
    <3>3. CASE Synced
      BY <3>3 DEF Synced, Quiet, Mirrors, MirrorInv, Stored, Empty
    <3> QED
      BY <1>3, <3>1, <3>2, <3>3
  <2>4. BareType'
    BY <1>1, <2>1, <2>3 DEF BareType
  <2>5. \A w \in Cli : WriterInv(w)'
    BY <2>1 DEF WriterInv, Seen, Asked
  <2>6. ToldInv' /\ ReaderInv'
    BY <2>1 DEF ToldInv, ReaderInv, View, Seen
  <2> QED
    BY <2>3, <2>4, <2>5, <2>6
<1>4. CASE Mirror
  <2>1. PICK v \in mirror.left :
          /\ mirror' = [mirror EXCEPT !.left = @ \ {v}]
          /\ \/ real' = [real EXCEPT ![v] = mirror.merged[v]] /\ events' = events
             \/ Event /\ real' = real
    BY <1>4 DEF Mirror
  <2>2. /\ mirror.pc = "write" /\ UNCHANGED <<package, wsl, shared>> /\ Intrudes(writer)
        /\ told' = IF mirror.alone /\ shared THEN told ELSE {}
    BY <1>4 DEF Mirror
  <2>3. /\ v \in Values /\ mirror.merged[v] \in Kind(v) /\ mirror.merged[v] # NoValue
        /\ mirror.merged \in Stored
    <3>1. v \in Held(mirror.merged) /\ mirror.merged \in Stored
      BY <1>1, <2>2 DEF MirrorInv, Mirrors
    <3> QED
      BY <3>1, KindFacts DEF Held
  <2>4. events' \in 0..MaxEvents
    BY <1>1, <2>1 DEF Event
  <2>5. real' \in Stored /\ (real' = real \/ (real'[v] = mirror.merged[v]
                                   /\ \A u \in Values \ {v} : real'[u] = real[u]))
    BY <1>1, <2>1, <2>3, KindFacts
  <2>6. /\ mirror'.pc = mirror.pc /\ mirror'.merged = mirror.merged
        /\ mirror'.alone = mirror.alone /\ mirror'.left \subseteq mirror.left
        /\ mirror' \in Mirrors
    BY <1>1, <2>1 DEF Mirrors
  <2>7. /\ reader' \in Readers /\ ~reader'.calm
    BY <1>1, <2>2 DEF Intrudes, Readers
  <2>8. /\ writer' \in [Cli -> Writers]
        /\ \A x \in Cli : /\ writer'[x].pc = writer[x].pc
                          /\ writer'[x].left = writer[x].left
                          /\ writer[x].pc # "idle" => ~Clean(writer'[x])
    <3>1. writer' = [x \in Cli |-> IF writer[x].pc = "idle" THEN writer[x]
                                   ELSE [writer[x] EXCEPT !.alone = FALSE]]
      BY <2>2 DEF Intrudes
    <3>2. \A x \in Cli : [writer[x] EXCEPT !.alone = FALSE] \in Writers
      BY <1>1 DEF Writers
    <3>3. \A x \in Cli : /\ [writer[x] EXCEPT !.alone = FALSE].pc = writer[x].pc
                         /\ [writer[x] EXCEPT !.alone = FALSE].left = writer[x].left
                         /\ ~[writer[x] EXCEPT !.alone = FALSE].alone
      BY <1>1 DEF Writers
    <3> QED
      BY <1>1, <3>1, <3>2, <3>3 DEF Clean
  <2>9. BareType'
    BY <1>1, <2>2, <2>4, <2>5, <2>6, <2>7, <2>8 DEF BareType
  <2>10. mirror.alone => \A u \in Values : Seen(u, TRUE)' = Seen(u, TRUE)
    <3> SUFFICES ASSUME mirror.alone, NEW u \in Values PROVE Seen(u, TRUE)' = Seen(u, TRUE)
      OBVIOUS
    <3>1. mirror.merged = View(TRUE)
      BY <2>2 DEF MirrorInv
    <3>2. Seen(v, TRUE) = mirror.merged[v]
      BY <1>2, <2>3, <3>1
    <3>3. CASE real'[u] = real[u]
      BY <2>2, <3>3 DEF Seen
    <3>4. CASE u = v /\ real'[v] = mirror.merged[v]
      BY <2>2, <2>3, <3>2, <3>4 DEF Seen
    <3> QED
      BY <2>5, <3>3, <3>4
  <2>11. mirror.alone => View(TRUE)' = View(TRUE)
    BY <2>10 DEF View
  <2>12. ToldInv'
    <3> SUFFICES ASSUME NEW s \in told' PROVE real' = s /\ (shared' => View(TRUE)' = s)
      BY DEF ToldInv
    <3>1. mirror.alone /\ shared /\ s \in told
      BY <2>2
    <3>2. real = s /\ View(TRUE) = s /\ mirror.merged = s
      BY <2>2, <3>1 DEF ToldInv, MirrorInv
    <3>3. real' = real
      BY <1>1, <2>5, <3>2, SameStored
    <3> QED
      BY <2>11, <3>1, <3>2, <3>3
  <2>13. MirrorInv'
    BY <2>2, <2>6, <2>11 DEF MirrorInv, Held
  <2>14. ReaderInv'
    BY <2>7 DEF ReaderInv
  <2>15. \A w \in Cli : WriterInv(w)'
    BY <2>8 DEF WriterInv
  <2> QED
    BY <2>9, <2>12, <2>13, <2>14, <2>15
<1> QED
  BY <1>3, <1>4

\* What has been read is what is there, until somebody comes between.
LEMMA ReaderKeeps ==
  ASSUME SnapInv, Reading \/ Registers
  PROVE  SnapInv'
<1> USE DEF SnapInv
<1>1. /\ real \in Stored /\ package \in PackageStored /\ wsl \in Wsl
      /\ events \in 0..MaxEvents /\ MaxEvents \in Nat /\ reader \in Readers
      /\ reader.snap \in Snapshots(Distro, Root) /\ reader.packaged \in BOOLEAN
  BY BareSlashAssumption DEF BareType, Readers
<1>2. /\ UNCHANGED <<real, package, writer, mirror, told, shared>> /\ events' \in 0..MaxEvents
  <2>1. /\ UNCHANGED <<real, package, writer, mirror, told, shared>>
        /\ Event \/ events' = events
    BY DEF Reading, Registers, ReadWsl, ReadValue, Route, hives, observers
  <2> QED
    BY <1>1, <2>1 DEF Event
<1>3. (\A w \in Cli : WriterInv(w)') /\ ToldInv' /\ MirrorInv'
  BY <1>2 DEF WriterInv, ToldInv, MirrorInv, View, Seen, Asked, Held
<1>4. View(reader.packaged) \in Stored /\ Read(View(reader.packaged)) \in Settings
  BY <1>1, SeenTyped, ReadTyped
<1>5. \A p \in BOOLEAN : Read(View(p))' = Read(View(p))
  BY <1>2 DEF Read, View, Seen
<1>6. Away \in Readers /\ Snapshot(Read(Empty), wsl) \in Snapshots(Distro, Root)
  BY <1>1 DEF Away, Readers, Snapshots, Snapshot, Read, Empty, Wsl
<1>7. wsl' \in Wsl /\ (~Registers => wsl' = wsl)
  <2>1. CASE Registers
    BY <2>1, SMTT(30) DEF Registers, Wsl
  <2>2. CASE Reading
    BY <1>1, <2>2 DEF Reading, ReadWsl, ReadValue, Route
  <2> QED
    BY <2>1, <2>2
<1>8. reader' \in Readers /\ ReaderInv'
  <2>1. CASE Registers
    <3>1. reader' = [reader EXCEPT !.calm = FALSE]
      BY <2>1 DEF Registers
    <3> QED
      BY <1>1, <3>1 DEF Readers, ReaderInv
  <2>2. CASE ReadWsl
    <3>1. /\ reader'.pc = "mode" /\ reader' \in Readers
          /\ reader'.snap = Snapshot(Read(Empty), wsl) /\ wsl' = wsl
      BY <1>6, <2>2 DEF ReadWsl, Readers
    <3>2. reader'.snap.distros = wsl.distros /\ reader'.snap.wslDefault = wsl.wslDefault
      BY <3>1 DEF Snapshot
    <3>3. Taken(reader'.pc) = {}
      BY <3>1 DEF Taken
    <3> QED
      BY <3>1, <3>2, <3>3 DEF ReaderInv
  <2>3. CASE Route
    BY <1>6, <2>3 DEF Route, ReaderInv, Away
  <2>4. ASSUME NEW v \in Values, NEW next \in {"pin", "root", "routed"}, ReadValue(v, next),
               Taken(next) = Taken(v) \cup {v}, v \notin Taken(v), Taken(v) \subseteq Values
        PROVE  reader' \in Readers /\ ReaderInv'
    <3> DEFINE x == Read(View(reader.packaged))[v]
    <3>1. /\ reader.pc = v /\ reader' = [reader EXCEPT !.pc = next, !.snap[v] = x]
          /\ wsl' = wsl
      BY <2>4 DEF ReadValue
    <3>2. /\ v = "mode" => x \in {"list", "default"}
          /\ v = "pin"  => x \in Distro \cup {NoValue}
          /\ v = "root" => x \in Root \cup {NoValue}
      BY <1>4 DEF Settings
    <3> HIDE DEF x
    <3>3. /\ reader'.snap = [reader.snap EXCEPT ![v] = x] /\ reader'.pc = next
          /\ reader'.packaged = reader.packaged /\ reader'.calm = reader.calm
      BY <1>1, <3>1 DEF Readers
    <3>4. /\ reader'.snap \in Snapshots(Distro, Root) /\ reader'.snap[v] = x
          /\ reader'.snap.distros = reader.snap.distros
          /\ reader'.snap.wslDefault = reader.snap.wslDefault
          /\ \A u \in Values \ {v} : reader'.snap[u] = reader.snap[u]
      BY <1>1, <3>2, <3>3 DEF Snapshots, Values
    <3>5. reader' \in Readers
      BY <1>1, <3>1, <3>4, <3>3 DEF Readers
    <3>6. ReaderInv'
      <4> SUFFICES ASSUME reader.calm
                   PROVE  /\ reader'.snap.distros = wsl.distros
                          /\ reader'.snap.wslDefault = wsl.wslDefault
                          /\ \A u \in Taken(next) :
                               reader'.snap[u] = Read(View(reader.packaged))[u]
        BY <1>1, <1>5, <3>1, <3>3 DEF ReaderInv
      <4>1. /\ reader.snap.distros = wsl.distros /\ reader.snap.wslDefault = wsl.wslDefault
            /\ \A u \in Taken(v) : reader.snap[u] = Read(View(reader.packaged))[u]
        BY <3>1 DEF ReaderInv, Values
      <4> QED
        BY <2>4, <3>4, <4>1 DEF x
    <3> QED
      BY <3>5, <3>6
  <2>5. /\ Taken("pin") = Taken("mode") \cup {"mode"} /\ "mode" \notin Taken("mode")
        /\ Taken("root") = Taken("pin") \cup {"pin"} /\ "pin" \notin Taken("pin")
        /\ Taken("routed") = Taken("root") \cup {"root"} /\ "root" \notin Taken("root")
        /\ Taken("mode") \subseteq Values /\ Taken("pin") \subseteq Values
        /\ Taken("root") \subseteq Values
        /\ "mode" \in Values /\ "pin" \in Values /\ "root" \in Values
    BY DEF Taken, Values
  <2> QED
    BY <2>1, <2>2, <2>3, <2>4, <2>5 DEF Reading
<1>9. BareType'
  BY <1>1, <1>2, <1>7, <1>8 DEF BareType
<1> QED
  BY <1>3, <1>8, <1>9

LEMMA SnapInit == Init => SnapInv
<1> SUFFICES ASSUME Init PROVE SnapInv
  OBVIOUS
<1>1. Empty \in Stored /\ Idle \in Writers /\ Quiet \in Mirrors
  BY DEF Empty, Stored, Idle, Writers, Quiet, Mirrors
<1>2. Away \in Readers
  BY DEF Away, Readers, Snapshots, Snapshot, Read, Empty
<1>3. real \in Stored /\ package \in Stored /\ wsl \in Wsl
  BY BareSlashAssumption DEF Init
<1>4. package \in PackageStored
  BY <1>3 DEF Stored, PackageStored
<1>5. /\ writer = [w \in Cli |-> Idle] /\ mirror = Quiet /\ reader = Away /\ told = {real}
      /\ shared = (View(TRUE) = real) /\ events = 0
  BY DEF Init
<1>6. shared \in BOOLEAN
  BY <1>5
<1>7. BareType
  BY <1>1, <1>2, <1>3, <1>4, <1>5, <1>6, BareSlashAssumption DEF BareType
<1>8. ASSUME NEW w \in Cli PROVE WriterInv(w)
  <2>1. writer[w] = Idle
    BY <1>5
  <2> QED
    BY <2>1 DEF WriterInv, Idle
<1>9. ToldInv
  BY <1>5 DEF ToldInv
<1>10. MirrorInv /\ ReaderInv
  BY <1>5 DEF MirrorInv, ReaderInv, Quiet, Away
<1> QED
  BY <1>7, <1>8, <1>9, <1>10 DEF SnapInv

LEMMA SnapStep == SnapInv /\ [Next]_vars => SnapInv'
<1> SUFFICES ASSUME SnapInv, [Next]_vars PROVE SnapInv'
  OBVIOUS
<1>1. CASE UNCHANGED vars
  <2>1. UNCHANGED <<real, package, wsl, writer, mirror, reader, told, shared, events>>
    BY <1>1 DEF vars, hives, observers
  <2>2. BareType' /\ \A w \in Cli : WriterInv(w)'
    BY <2>1 DEF SnapInv, BareType, WriterInv, Seen, Asked
  <2>3. View(TRUE)' = View(TRUE) /\ View(reader.packaged)' = View(reader.packaged)
    BY <2>1 DEF View, Seen
  <2>4. ToldInv' /\ MirrorInv' /\ ReaderInv'
    <3>1. ToldInv'
      BY <2>1, <2>3 DEF SnapInv, ToldInv
    <3>2. MirrorInv'
      BY <2>1, <2>3 DEF SnapInv, MirrorInv, Held
    <3>3. ReaderInv'
      BY <2>1, <2>3 DEF SnapInv, ReaderInv, Read
    <3> QED
      BY <3>1, <3>2, <3>3
  <2> QED
    BY <2>2, <2>4 DEF SnapInv
<1>2. CASE Next
  BY <1>2, WriteKeeps, CommandKeeps, MirrorKeeps, ReaderKeeps DEF Next, Commands, Writing
<1> QED
  BY <1>1, <1>2

\* Whatever the commands, the mirror, the registrations and the readers do to one
\* another, in any order and with any failures.
THEOREM SnapInvariance == Spec => []SnapInv
  BY SnapInit, SnapStep, PTL DEF Spec

\* Every variable keeps its type.
THEOREM TypeCorrect == Spec => []TypeOK
<1>1. SnapInv => TypeOK
  <2> SUFFICES ASSUME SnapInv PROVE TypeOK
    OBVIOUS
  <2>1. package \in [Values -> {"list", "default", NoValue, Hidden} \cup Distro \cup Root]
    BY DEF SnapInv, BareType, PackageStored, Values
  <2> QED
    BY <2>1 DEF SnapInv, BareType, Writers, Mirrors, Readers, TypeOK
<1> QED
  BY <1>1, SnapInvariance, PTL

\* A process that nobody disturbs, and whose view the last successful command
\* reached, takes exactly that command's settings and the distributions of the
\* moment into its snapshot, whether the command ran inside the package or outside
\* and whatever the mirror has copied since (write_bare_slash_settings, sync_plan,
\* Snapshot::current).
THEOREM SettingsCaught == Spec => []CaughtAsTold
<1>1. SnapInv => CaughtAsTold
  <2> SUFFICES ASSUME SnapInv, reader.pc = "routed", reader.calm, shared \/ ~reader.packaged,
                      NEW s \in told
               PROVE  reader.snap = Snapshot(Read(s), wsl)
    BY DEF CaughtAsTold
  <2>1. /\ real \in Stored /\ package \in PackageStored /\ s \in Stored
        /\ reader.snap \in Snapshots(Distro, Root) /\ reader.packaged \in BOOLEAN
        /\ (FALSE) \in BOOLEAN
    BY DEF SnapInv, BareType, Readers
  <2>2. real = s /\ (shared => View(TRUE) = s)
    BY DEF SnapInv, ToldInv
  <2>3. View(reader.packaged) = s
    <3>1. CASE reader.packaged = TRUE
      BY <2>2, <3>1
    <3>2. CASE reader.packaged = FALSE
      <4>1. \A v \in Values : Seen(v, FALSE) = real[v]
        BY DEF Seen
      <4>2. View(FALSE) \in Stored /\ \A v \in Values : View(FALSE)[v] = real[v]
        BY <2>1, <4>1, SeenTyped
      <4> QED
        BY <2>1, <2>2, <3>2, <4>2, SameStored
    <3> QED
      BY <2>1, <3>1, <3>2
  <2>4. /\ reader.snap.distros = wsl.distros /\ reader.snap.wslDefault = wsl.wslDefault
        /\ \A v \in Values : reader.snap[v] = Read(s)[v]
    BY <2>3 DEF SnapInv, ReaderInv, Taken
  <2>5. Read(s) \in Settings
    BY <2>1, ReadTyped
  <2> QED
    BY <2>1, <2>4, <2>5 DEF Snapshots, Snapshot, Settings, Values
<1> QED
  BY <1>1, SnapInvariance, PTL

-----------------------------------------------------------------------------
(* The settings window.                                                     *)

\* A read is still to start after the last change that was, or will be, announced.
Ahead ==
  \/ untold # 0 \/ signal \/ turn = "drain" \/ (turn = "woke" /\ ~poll)
  \/ read = Running \/ owed

\* While none is, the window shows that change or is about to, and no refresh
\* brings back an older state.
Shows ==
  ~unseen /\ ~Ahead =>
    /\ read = None => shown = stored
    /\ read # None => read = Posted(stored)
    /\ refresh.stage = "posted" => refresh = Posted(stored)

WindowType == WatchTypeOK /\ untold <= changes /\ (owed => read # None)
WindowInv  == WindowType /\ Shows


\* What a read on its way is.
LEMMA Readings ==
  /\ \A r \in Reads : r = None \/ r = Running \/ \E s \in State : r = Posted(s)
  /\ None \in Reads /\ Running \in Reads
  /\ \A s \in State : Posted(s) \in Reads
BY DEF Reads

LEMMA Stages ==
  /\ None.stage = "none" /\ Running.stage = "running"
  /\ \A s : Posted(s).stage = "posted" /\ Posted(s).state = s
BY DEF None, Running, Posted

LEMMA PostedReads ==
  ASSUME NEW r \in Reads, r.stage = "posted"
  PROVE  r.state \in State /\ r = Posted(r.state)
  <1>1. r # None /\ r # Running BY Stages
  <1>2. PICK s \in State : r = Posted(s) BY <1>1, Readings
  <1> QED BY <1>2, Stages

LEMMA WindowInit ==
  ASSUME WatchInit
  PROVE  WindowInv
  <1> USE WatchAssumption
  <1>0. /\ stored \in State /\ untold = 0 /\ shown = stored /\ turn = "wait" /\ changes = 0
        /\ read = None /\ owed = FALSE /\ refresh = None
        /\ listening = FALSE /\ signal = FALSE /\ poll = FALSE /\ visible = TRUE /\ unseen = FALSE
    BY DEF WatchInit
  <1>1. WatchTypeOK
    <2>1. {listening, signal, poll, owed, visible, unseen} \subseteq BOOLEAN BY <1>0
    <2>2. untold \in 0..MaxChanges /\ changes \in 0..MaxChanges BY <1>0
    <2>3. read \in Reads /\ refresh \in Reads BY <1>0, Readings
    <2> QED BY <1>0, <2>1, <2>2, <2>3 DEF WatchTypeOK
  <1>2. Shows BY <1>0, Stages DEF Shows
  <1> QED BY <1>0, <1>1, <1>2 DEF WindowInv, WindowType

LEMMA WindowTypeStep ==
  ASSUME WindowType, [WatchNext]_windowVars
  PROVE  WindowType'
  <1> USE WatchAssumption DEF WindowType, WatchTypeOK
  <1> DEFINE Q == UNCHANGED <<stored, untold, shown, visible, unseen, changes>>
  <1>0. Watch => Q BY DEF Watch
  <1>1. ASSUME NEW s \in State, Write(s) PROVE WindowType'
    <2>1. untold' = untold + 1 /\ changes' = changes + 1 /\ changes < MaxChanges /\ stored' = s
      BY <1>1 DEF Write, Change
    <2>3. untold' \in 0..MaxChanges /\ changes' \in 0..MaxChanges /\ untold' <= changes' BY <2>1
    <2>2. UNCHANGED <<shown, listening, signal, turn, poll, read, owed, refresh, visible, unseen>>
      BY <1>1 DEF Write, watch, reads
    <2> QED BY <2>1, <2>2, <2>3
  <1>2. ASSUME NEW s \in State, SilentWrite(s) PROVE WindowType'
    BY <1>2 DEF SilentWrite, Change, watch, reads
  <1>3. CASE Announce
    <2>1. untold' \in 0..MaxChanges /\ untold' <= changes BY <1>3 DEF Announce
    <2>2. UNCHANGED <<stored, shown, listening, turn, poll, read, owed, refresh, visible, changes>>
          /\ signal' \in BOOLEAN /\ unseen' \in BOOLEAN
      BY <1>3 DEF Announce, reads
    <2> QED BY <2>1, <2>2
  <1>4. CASE Listen
    BY <1>4 DEF Listen, Watch, reads
  <1>5. CASE Signalled \/ Drain \/ Poll
    <2>1. UNCHANGED <<stored, untold, shown, listening, read, owed, refresh, visible, unseen, changes>>
      BY <1>5 DEF Signalled, Drain, Poll, Watch, reads
    <2>2. turn' \in {"wait", "drain", "woke"} /\ signal' \in BOOLEAN /\ poll' \in BOOLEAN
      BY <1>5 DEF Signalled, Drain, Poll
    <2> QED BY <2>1, <2>2
  <1>6. CASE Woke
    BY <1>6, Readings, Stages DEF Woke, Rearmed, Watch
  <1>7. CASE ReadState
    BY <1>7, Readings, Stages DEF ReadState, watch
  <1>8. CASE StateRefreshed
    <2>1. shown' = read.state /\ read.state \in State BY <1>8, PostedReads DEF StateRefreshed
    <2>2. /\ UNCHANGED <<stored, untold, listening, signal, turn, poll, refresh, visible, unseen, changes>>
          /\ read' \in Reads /\ owed' = FALSE
      BY <1>8, Readings DEF StateRefreshed, Finished, watch
    <2> QED BY <2>1, <2>2
  <1>9. CASE Refresh
    BY <1>9, Readings DEF Refresh, Change, watch
  <1>10. CASE RefreshState
    BY <1>10, Readings DEF RefreshState, Watch, watch
  <1>11. CASE StateLoaded
    <2>1. shown' = refresh.state /\ refresh.state \in State BY <1>11, PostedReads DEF StateLoaded
    <2>2. /\ UNCHANGED <<stored, untold, listening, signal, turn, poll, read, owed, visible, unseen, changes>>
          /\ refresh' \in Reads
      BY <1>11, Readings DEF StateLoaded, watch
    <2> QED BY <2>1, <2>2
  <1>12. CASE Minimize
    BY <1>12 DEF Minimize, Change, watch, reads
  <1>13. CASE UNCHANGED windowVars
    BY <1>13 DEF windowVars, watch, reads
  <1> QED BY <1>1, <1>2, <1>3, <1>4, <1>5, <1>6, <1>7, <1>8, <1>9, <1>10, <1>11, <1>12, <1>13
          DEF WatchNext, Turn, Coalesced, Refreshed

LEMMA ShowsStep ==
  ASSUME WindowInv, WindowType', [WatchNext]_windowVars
  PROVE  Shows'
  <1> SUFFICES ASSUME ~unseen', ~Ahead'
               PROVE  /\ read' = None => shown' = stored'
                      /\ read' # None => read' = Posted(stored')
                      /\ refresh'.stage = "posted" => refresh' = Posted(stored')
    BY DEF Shows
  <1> USE DEF WindowInv, WindowType, WatchTypeOK
  <1>1. ASSUME NEW s \in State, Write(s) PROVE FALSE
    <2>1. untold' # 0 BY <1>1 DEF Write
    <2> QED BY <2>1 DEF Ahead
  <1>2. ASSUME NEW s \in State, SilentWrite(s) PROVE FALSE
    BY <1>2 DEF SilentWrite
  <1>3. CASE Announce
    <2>1. signal' BY <1>3 DEF Announce
    <2> QED BY <2>1 DEF Ahead
  <1>4. CASE Listen \/ Signalled \/ Drain \/ Poll
    <2>1. UNCHANGED <<stored, shown, read, owed, refresh, unseen, untold>>
      BY <1>4 DEF Listen, Signalled, Drain, Poll, Watch, reads
    <2>2. ~Ahead
      BY <1>4, <2>1 DEF Ahead, Listen, Signalled, Drain, Poll
    <2> QED BY <2>1, <2>2 DEF Shows
  <1>5. CASE Woke
    <2>1. UNCHANGED <<stored, shown, refresh, unseen, untold, signal, poll>> /\ turn = "woke"
      BY <1>5 DEF Woke, Watch
    <2>2. ~Wanted /\ UNCHANGED <<read, owed>>
      BY <1>5 DEF Woke, Ahead
    <2>3. ~Ahead BY <2>1, <2>2 DEF Ahead, Wanted
    <2> QED BY <2>1, <2>2, <2>3 DEF Shows
  <1>6. CASE ReadState
    <2>1. read' = Posted(stored) /\ refresh = None /\ UNCHANGED <<stored, refresh>>
      BY <1>6 DEF ReadState
    <2> QED BY <2>1, Stages
  <1>7. CASE StateRefreshed
    <2>1. /\ read.stage = "posted" /\ shown' = read.state /\ owed' = FALSE
          /\ read' = IF owed THEN Running ELSE None
          /\ UNCHANGED <<stored, untold, signal, turn, poll, refresh, unseen>>
      BY <1>7 DEF StateRefreshed, Finished, watch
    <2>2. ~owed /\ read' = None BY <2>1 DEF Ahead
    <2>3. read # None /\ read # Running BY <2>1, Stages
    <2>4. ~Ahead BY <2>1, <2>2, <2>3 DEF Ahead
    <2>5. read = Posted(stored) /\ (refresh.stage = "posted" => refresh = Posted(stored))
      BY <2>1, <2>3, <2>4 DEF Shows
    <2> QED BY <2>1, <2>2, <2>5, Stages
  <1>8. CASE Refresh \/ RefreshState
    <2>1. UNCHANGED <<stored, untold, shown, signal, turn, poll, read, owed, unseen>>
      BY <1>8 DEF Refresh, RefreshState, Watch, watch
    <2>2. ~Ahead BY <2>1 DEF Ahead
    <2>3. refresh' = Running \/ refresh' = Posted(stored)
      BY <1>8 DEF Refresh, RefreshState
    <2> QED BY <2>1, <2>2, <2>3, Stages DEF Shows
  <1>9. CASE StateLoaded
    <2>1. /\ refresh.stage = "posted" /\ shown' = refresh.state /\ refresh' = None
          /\ UNCHANGED <<stored, untold, signal, turn, poll, read, owed, unseen>>
      BY <1>9 DEF StateLoaded, watch
    <2>2. ~Ahead BY <2>1 DEF Ahead
    <2> QED BY <2>1, <2>2, Stages DEF Shows
  <1>10. CASE Minimize \/ UNCHANGED windowVars
    <2>1. UNCHANGED <<stored, untold, shown, signal, turn, poll, read, owed, refresh, unseen>>
      BY <1>10 DEF Minimize, windowVars, watch, reads
    <2>2. ~Ahead BY <2>1 DEF Ahead
    <2> QED BY <2>1, <2>2 DEF Shows
  <1> QED BY <1>1, <1>2, <1>3, <1>4, <1>5, <1>6, <1>7, <1>8, <1>9, <1>10
          DEF WatchNext, Turn, Coalesced, Refreshed

\* The types of the watch, its reads and the window.
THEOREM WindowTypes == WatchSpec => []WatchTypeOK
<1>1. WatchInit => WindowInv
  BY WindowInit
<1>2. WindowInv /\ [WatchNext]_windowVars => WindowInv'
  BY WindowTypeStep, ShowsStep DEF WindowInv
<1>3. WindowInv => WatchTypeOK
  BY DEF WindowInv, WindowType
<1> QED
  BY <1>1, <1>2, <1>3, PTL DEF WatchSpec

\* No broadcast is lost between two turns of the watch, during a read or while
\* one is owed (state_watch.rs, ReadCoalescer): an idle window shows what is stored.
THEOREM WindowIsTrue == WatchSpec => []WindowFollows
<1>1. WatchInit => WindowInv
  BY WindowInit
<1>2. WindowInv /\ [WatchNext]_windowVars => WindowInv'
  BY WindowTypeStep, ShowsStep DEF WindowInv
<1>3. WindowInv => WindowFollows
  <2> SUFFICES ASSUME WindowInv, untold = 0, ~signal, turn = "wait", read = None, ~unseen
               PROVE  shown = stored
    BY DEF WindowFollows
  <2>1. ~owed /\ read # Running BY Stages DEF WindowInv, WindowType
  <2>2. ~Ahead BY <2>1 DEF Ahead
  <2> QED BY <2>2 DEF WindowInv, Shows
<1> QED
  BY <1>1, <1>2, <1>3, PTL DEF WatchSpec

===============================================================================
