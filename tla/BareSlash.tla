------------------------------ MODULE BareSlash -------------------------------
(***************************************************************************)
(* What "/" means: three registry values in two hives, written one by one  *)
(* by fwdslash bare-slash (write_bare_slash_settings of                    *)
(* crates/fsw-core/src/lib.rs over settings_write.rs), mirrored by every   *)
(* packaged process, and read one by one into the Snapshot from which      *)
(* every typed path is routed (PathResolver).                              *)
(***************************************************************************)
EXTENDS PathResolver, FiniteSets

CONSTANTS
  Distro,     \* the names WSL may have registered
  Root,       \* the custom roots, usable or not
  Cli,        \* processes running fwdslash bare-slash
  Packaged,   \* those with package identity
  Start,      \* bound: the settings and registrations before anything is run
  Typed,      \* the texts a user types
  Sample,     \* bound: those typed once something has been run
  Hidden,     \* a value that was deleted in the package's hive
  MaxEvents   \* bound: commands, mirrors, changes of WSL, failures, kills

VARIABLES
  real, package,  \* the values in the user's hive and in the package's own
  wsl,         \* the registered distributions and WSL's default
  writer,      \* the processes in the middle of a command
  mirror,      \* a process in sync_settings_to_real_hive
  reader,      \* a process taking a snapshot, and what it then routes
  \* Observers.
  told,        \* {what the last command stored by its own report}, or {}
  shared,      \* it wrote both hives
  events

hives == <<real, package>>
observers == <<told, shared>>
vars  == <<hives, wsl, writer, mirror, reader, observers, events>>

-----------------------------------------------------------------------------
Values   == {"mode", "pin", "root"}
Stored   == [mode : {"list", "default", NoValue}, pin : Distro \cup {NoValue},
             root : Root \cup {NoValue}]
Empty    == [mode |-> NoValue, pin |-> NoValue, root |-> NoValue]
Settings == [mode : {"list", "default"}, pin : Distro \cup {NoValue},
             root : Root \cup {NoValue}]
Wsl      == [distros : SUBSET Distro, wslDefault : Distro \cup {NoValue}]

ASSUME BareSlashAssumption ==
  /\ Packaged \subseteq Cli /\ Distro \subseteq Name
  /\ ValidRoot \subseteq Root /\ Sample \subseteq Typed /\ Typed \subseteq Text
  /\ Start \subseteq [real : Stored, package : Stored, wsl : Wsl]
  /\ Hidden \notin Distro \cup Root \cup {"list", "default", NoValue}
  /\ MaxEvents \in Nat

\* A packaged process sees the package's hive over the user's.
Seen(v, packaged) ==
  CASE packaged /\ package[v] = Hidden -> NoValue
    [] packaged /\ package[v] \notin {Hidden, NoValue} -> package[v]
    [] OTHER -> real[v]
View(packaged) == [v \in Values |-> Seen(v, packaged)]

ReadAsStored(stored) == [stored EXCEPT !.root = IF @ \in ValidRoot THEN @ ELSE NoValue]
\* SettingsValues::read: what is not stored, or is no root, has its default.
Read(stored) == [stored EXCEPT !.mode = IF @ = NoValue THEN "list" ELSE @,
                               !.root = IF @ \in ValidRoot THEN @ ELSE NoValue]

Snapshot(settings, w) ==
  [distros |-> w.distros, wslDefault |-> w.wslDefault, mode |-> settings.mode,
   pin |-> settings.pin, root |-> settings.root]

\* Every value is attempted, in this order.
Order == <<"mode", "pin", "root">>

Idle == [pc |-> "idle", asked |-> Empty, left |-> Order, ok |-> TRUE,
         answered |-> TRUE, alone |-> TRUE]
Quiet == [pc |-> "idle", merged |-> Empty, left |-> {}, alone |-> TRUE]
Away  == [pc |-> "idle", packaged |-> FALSE, calm |-> FALSE,
          snap |-> Snapshot(Read(Empty), [distros |-> {}, wslDefault |-> NoValue])]

Event == events < MaxEvents /\ events' = events + 1

\* A write falls into whatever the others are doing.
Intrudes(after) ==
  /\ writer' = [x \in Cli |-> IF writer[x].pc = "idle" \/ after[x] # writer[x]
                              THEN after[x] ELSE [after[x] EXCEPT !.alone = FALSE]]
  /\ reader' = [reader EXCEPT !.calm = FALSE]

-----------------------------------------------------------------------------
(* fwdslash bare-slash.                                                     *)

Starts(w, asked, pc) ==
  writer' = [writer EXCEPT ![w] = [Idle EXCEPT !.pc = pc, !.asked = asked]]

\* "list" and "default [name]": the custom root goes.
Mode(w) ==
  /\ writer[w].pc = "idle" /\ Event
  /\ \/ Starts(w, [Empty EXCEPT !.mode = "list"], "real")
     \/ \E d \in wsl.distros \cup {NoValue} :
          Starts(w, [Empty EXCEPT !.mode = "default", !.pin = d], "real")
  /\ UNCHANGED <<hives, wsl, mirror, reader, observers>>

\* "root [path]": the mode and the pin are read and written back.
NewRoot(w) ==
  /\ writer[w].pc = "idle" /\ Event
  /\ \E r \in ValidRoot \cup {NoValue} :
       Starts(w, [Read(View(w \in Packaged)) EXCEPT !.root = r], "check")
  /\ UNCHANGED <<hives, wsl, mirror, reader, observers>>

\* set_bare_slash: a pin that is not registered any more refuses the command.
Check(w) ==
  LET asked == writer[w].asked
      stale == asked.mode = "default" /\ asked.pin \notin {NoValue} \cup wsl.distros
      kept  == IF asked.mode = "default" THEN asked.pin ELSE NoValue
  IN /\ writer[w].pc = "check"
     /\ \/ stale /\ writer' = [writer EXCEPT ![w] = Idle]
        \/ ~stale /\ writer' = [writer EXCEPT ![w] =
                                  [@ EXCEPT !.pc = "real", !.asked.pin = kept]]
     /\ UNCHANGED <<hives, wsl, mirror, reader, observers, events>>

\* Both halves of a write are attempted whatever the first one does.
OneHalf(w) == {"real"}
Halves(w)  == IF w \in Packaged THEN {"real", "package"} ELSE {"real"}

\* The first failure is what the command reports; a success is announced.
Advance(w, c) ==
  IF c.pc = "real" /\ "package" \in Halves(w)
  THEN Intrudes([writer EXCEPT ![w] = [c EXCEPT !.pc = "package"]])
       /\ told' = {} /\ UNCHANGED shared
  ELSE IF Len(c.left) > 1
  THEN Intrudes([writer EXCEPT ![w] = [c EXCEPT !.pc = "real", !.left = Tail(@)]])
       /\ told' = {} /\ UNCHANGED shared
  ELSE Intrudes([writer EXCEPT ![w] = Idle])
       /\ told' = (IF c.ok /\ c.alone /\ c.answered THEN {c.asked} ELSE {})
       /\ shared' = (w \in Packaged)

Asked(w)  == writer[w].asked[Head(writer[w].left)]
Failed(w) == Event /\ Advance(w, [writer[w] EXCEPT !.ok = FALSE])

\* A packaged process writes this half with reg.exe, and stops waiting for it.
Late(w) == w \in Packaged /\ real[Head(writer[w].left)] # Asked(w) /\ Failed(w)

\* A delete with reg.exe asks for the value first, and takes no answer for none.
Unanswered(w) ==
  /\ Event /\ Asked(w) = NoValue /\ w \in Packaged
  /\ Advance(w, [writer[w] EXCEPT !.answered = FALSE])

WriteReal(w) ==
  LET v == Head(writer[w].left)
  IN /\ writer[w].pc = "real"
     /\ \/ real' = [real EXCEPT ![v] = Asked(w)] /\ Advance(w, writer[w]) /\ UNCHANGED events
        \/ Unanswered(w) /\ UNCHANGED real
        \/ Failed(w) /\ UNCHANGED real
        \/ Late(w) /\ real' = [real EXCEPT ![v] = Asked(w)]
     /\ mirror' = [mirror EXCEPT !.alone = FALSE]
     /\ UNCHANGED <<package, wsl>>

\* Deleting what only the user's hive holds may or may not hide it.
Deletions(v) == IF Seen(v, TRUE) = NoValue THEN {package[v]} ELSE {NoValue, Hidden}

WritePackage(w) ==
  LET v == Head(writer[w].left)
  IN /\ writer[w].pc = "package"
     /\ \/ /\ \E x \in IF Asked(w) = NoValue THEN Deletions(v) ELSE {Asked(w)} :
                package' = [package EXCEPT ![v] = x]
           /\ Advance(w, writer[w]) /\ UNCHANGED events
        \/ Failed(w) /\ UNCHANGED package
     /\ mirror' = [mirror EXCEPT !.alone = FALSE]
     /\ UNCHANGED <<real, wsl>>

Untouched(c) == c.left = Order /\ c.pc # "package"

Kill(w) ==
  /\ writer[w].pc # "idle" /\ Event
  /\ writer' = [writer EXCEPT ![w] = Idle]
  /\ told' = IF Untouched(writer[w]) THEN told ELSE {}
  /\ UNCHANGED <<hives, wsl, mirror, reader, shared>>

-----------------------------------------------------------------------------
(* sync_settings_to_real_hive.                                              *)

ReadMerged ==
  /\ mirror.pc = "idle" /\ Packaged # {} /\ View(TRUE) # Empty /\ Event
  /\ mirror' = [pc |-> "query", merged |-> View(TRUE), left |-> {}, alone |-> TRUE]
  /\ UNCHANGED <<hives, wsl, writer, reader, observers>>

\* sync_plan: what is held and missing or different over there, never a delete.
Held(merged)     == {v \in Values : merged[v] # NoValue}
SyncPlan(merged) == {v \in Held(merged) : real[v] # merged[v]}

\* A query that goes unanswered finds nothing, so everything is written.
QueryReal ==
  /\ mirror.pc = "query"
  /\ \/ mirror' = [mirror EXCEPT !.pc = "write", !.left = SyncPlan(mirror.merged)]
        /\ UNCHANGED events
     \/ mirror' = [mirror EXCEPT !.pc = "write", !.left = Held(mirror.merged)] /\ Event
  /\ UNCHANGED <<hives, wsl, writer, reader, observers>>

Mirror ==
  /\ mirror.pc = "write" /\ mirror.left # {}
  /\ \E v \in mirror.left :
       /\ mirror' = [mirror EXCEPT !.left = @ \ {v}]
       /\ \/ real' = [real EXCEPT ![v] = mirror.merged[v]] /\ UNCHANGED events
          \/ Event /\ UNCHANGED real
  /\ Intrudes(writer)
  /\ told' = IF mirror.alone /\ shared THEN told ELSE {}
  /\ UNCHANGED <<package, wsl, shared>>

Synced ==
  /\ mirror.pc = "write" /\ mirror.left = {}
  /\ mirror' = Quiet
  /\ UNCHANGED <<hives, wsl, writer, reader, observers, events>>

-----------------------------------------------------------------------------
(* Snapshot::current, and the path that is routed from it.                  *)

ReadWsl ==
  /\ reader.pc = "idle"
  /\ \E p \in BOOLEAN :
       reader' = [pc |-> "mode", packaged |-> p, calm |-> TRUE,
                  snap |-> Snapshot(Read(Empty), wsl)]
  /\ UNCHANGED <<hives, wsl, writer, mirror, observers, events>>

ReadValue(v, next) ==
  /\ reader.pc = v
  /\ reader' = [reader EXCEPT !.pc = next, !.snap[v] = Read(View(reader.packaged))[v]]
  /\ UNCHANGED <<hives, wsl, writer, mirror, observers, events>>

Route ==
  /\ reader.pc = "routed"
  /\ reader' = Away
  /\ UNCHANGED <<hives, wsl, writer, mirror, observers, events>>

\* wsl --install, --unregister, --set-default; one distribution is the default.
Registers ==
  /\ Event
  /\ \E D \in SUBSET Distro : \E d \in D \cup {NoValue} :
       /\ (Cardinality(D) = 1 => d # NoValue)
       /\ wsl' = [distros |-> D, wslDefault |-> d]
  /\ reader' = [reader EXCEPT !.calm = FALSE]
  /\ UNCHANGED <<hives, writer, mirror, observers>>

-----------------------------------------------------------------------------
Init ==
  /\ \E start \in Start :
       /\ real = start.real /\ package = start.package /\ wsl = start.wsl
  /\ writer = [w \in Cli |-> Idle]
  /\ mirror = Quiet /\ reader = Away
  /\ told = {real} /\ shared = (View(TRUE) = real) /\ events = 0

Commands == \E w \in Cli : Mode(w) \/ NewRoot(w) \/ Check(w)
                           \/ WriteReal(w) \/ WritePackage(w) \/ Kill(w)
Reading  == ReadWsl \/ ReadValue("mode", "pin") \/ ReadValue("pin", "root")
            \/ ReadValue("root", "routed") \/ Route

Next == Commands \/ ReadMerged \/ QueryReal \/ Mirror \/ Synced \/ Reading \/ Registers

Spec == Init /\ [][Next]_vars

-----------------------------------------------------------------------------
(* Properties.                                                              *)

TypeOK ==
  /\ real \in Stored
  /\ package \in [Values -> {"list", "default", NoValue, Hidden} \cup Distro \cup Root]
  /\ wsl \in Wsl
  /\ writer \in [Cli -> [pc : {"idle", "check", "real", "package"}, asked : Stored,
                         left : {Order, <<"pin", "root">>, <<"root">>},
                         ok : BOOLEAN, answered : BOOLEAN, alone : BOOLEAN]]
  /\ mirror \in [pc : {"idle", "query", "write"}, merged : Stored,
                 left : SUBSET Values, alone : BOOLEAN]
  /\ reader.pc \in {"idle", "mode", "pin", "root", "routed"}
  /\ reader.packaged \in BOOLEAN /\ reader.calm \in BOOLEAN
  /\ reader.snap \in Snapshots(Distro, Root)
  /\ told \in SUBSET Stored /\ shared \in BOOLEAN
  /\ events \in 0..MaxEvents

\* What may be typed now, if it starts with a slash.
Texts == (IF events = 0 THEN Typed ELSE Sample) \ {<<>>}

\* A text that starts with a slash opens the same place in a browser as in
\* Explorer and the shells, or is refused for the same reason, whatever mixture
\* of settings the snapshot caught; only a folder path with a control character
\* in it is refused by the browser alone (resolve_slash_target, native_target,
\* resolve_user_slash_path).
SameWay(text, snap) ==
  \/ Browser(text, snap) = Explorer(text, snap)
  \/ /\ Browser(text, snap) = Refused("InvalidPath")
     /\ Explorer(text, snap).ok /\ Holds(Explorer(text, snap).under, WithControl)

FunnelsAgree ==
  reader.pc = "routed" => \A text \in Texts : SameWay(text, reader.snap)

\* Reference: a name is kept unless a later ".." is left over to take it back,
\* and the root is left when a ".." finds nothing before it.
Names(s, i, j) == Cardinality({k \in i..j : s[k] \in Name})
Backs(s, i, j) == Cardinality({k \in i..j : s[k] = ".."})
Kept(s) == {i \in DOMAIN s : s[i] \in Name
              /\ \A j \in (i + 1)..Len(s) : Backs(s, i + 1, j) <= Names(s, i + 1, j)}
Leaves(s) == \E j \in DOMAIN s : Backs(s, 1, j) > Names(s, 1, j)
KeptNames(s) == LET at == SetToSortSeq(Kept(s), <) IN [k \in DOMAIN at |-> s[at[k]]]

\* What follows the part of a text that chose the place.
Rest(text, snap) ==
  CASE Claimed(text) -> SubSeq(text, 3, Len(text))
    [] ~Claimed(text) /\ RootOf(snap) = NoValue /\ Selects(text, snap) -> Tail(text)
    [] OTHER -> text

\* While nobody writes, every process with a view that the last successful
\* command reached catches that command's settings, and the mirror never undoes
\* them (write_bare_slash_settings, sync_plan).
CaughtAsTold ==
  reader.pc = "routed" /\ reader.calm /\ (shared \/ ~reader.packaged) =>
    \A settings \in told : reader.snap = Snapshot(Read(settings), wsl)

\* By them every text is routed to its normal form (render).
RoutesAsTold ==
  /\ CaughtAsTold
  /\ reader.pc = "routed" /\ reader.calm /\ (shared \/ ~reader.packaged) /\ told # {} =>
       \A text \in Texts :
         LET place == Explorer(text, reader.snap)
             rest  == Rest(text, reader.snap)
         IN /\ place.ok => place.under = KeptNames(rest) /\ ~Leaves(rest)
            /\ ~place.ok /\ place.why = "TraversalAboveRoot" => Leaves(rest)

\* "root" is orthogonal to the mode and the pin (crates/fsw-cli/src/main.rs): a
\* usable root is never refused for what the pin is.
RootIsOrthogonal ==
  [][\A w \in Cli : writer[w].pc = "check" /\ writer'[w].pc = "idle" =>
       events' # events]_vars

\* The first failure is what the caller hears about (settings_write.rs): a
\* command that nobody disturbed and that reports success has changed the hive
\* that the shells read.
FailuresAreHeard ==
  [][\A w \in Cli : /\ writer[w].pc # "idle" /\ writer'[w].pc = "idle"
                    /\ events' = events /\ writer[w].pc # "check"
                    /\ writer[w].ok /\ writer[w].alone
       => real' = writer[w].asked]_vars

===============================================================================
