-------------------- MODULE PowerShellAdapterProofs ---------------------
(***************************************************************************)
(* Proofs about PowerShellAdapter.  Every theorem goes by one inductive    *)
(* invariant, built up in layers, each proved with the ones before it:     *)
(*                                                                         *)
(*   Types     what the variables range over;                              *)
(*   Control   the list of tasks of the running command: which tasks may   *)
(*             follow which, and the steps each of them has;               *)
(*   Midway    the phase of the journals and the marker that a step finds, *)
(*             and that no journal is left open but where a recovery is    *)
(*             still to come (JournalsShut, SwapShut);                     *)
(*   Kept, Held  the recovery directories: what an open transaction has    *)
(*             replaced is still in one of them;                           *)
(*   Calm      a command in the background never gets to a step that       *)
(*             writes a profile it did not install.                        *)
(***************************************************************************)
EXTENDS PowerShellAdapter, TLAPS, SequenceTheorems

-----------------------------------------------------------------------------
Tasks == {"recover", "swap", "rolled", "enable", "upgrade", "tree", "install", "reinstall",
          "adopt", "resume", "begin", "replace", "uninstall", "modules", "leftovers",
          "repair", "strip", "swept", "wipe"}

Shared == {"payload", "swapjournal", "aside", "deploy", "finish", "finishswap",
           "undo", "undoroot", "undoname", "undoclean"}
Whole  == {"stage", "journal", "publish", "prepared", "retire", "live", "write",
           "installed", "verify", "commit", "finishstate", "finishjournal"}

\* The steps of a task.
StepsOf(t) ==
  CASE t = "recover" -> {"recover", "restore", "unpublish", "unretire", "values", "state", "rolled",
                         "tidyswap", "tidydrop", "tidystate", "dropjournal"}
    [] t = "rolled"  -> {"rolled", "tidystate", "dropjournal"}
    [] t = "swap"    -> {"swap", "swaproot", "swaprename", "swapclean", "swapdrop"}
    [] t \in {"begin", "replace"} -> {t} \cup Shared \cup Whole
    [] t = "upgrade" -> {"upgrade", "commitswap", "version"} \cup Shared
    [] t = "adopt"   -> {"adopt", "adopted"}
    [] t = "uninstall" -> {"uninstall", "examine", "excise", "restate", "forget", "erase", "erased",
                           "cleanup", "cleanpayload"}
    [] t = "strip"   -> {"strip", "stripped"}
    [] t = "wipe"    -> {"wipe", "retiretree"}
    [] OTHER -> {t}
Steps == {"idle"} \cup Tasks \cup Shared \cup Whole
           \cup {"restore", "unpublish", "unretire", "values", "state", "tidyswap", "tidydrop",
                 "tidystate", "dropjournal", "swaproot", "swaprename", "swapclean", "swapdrop",
                 "commitswap", "version", "adopted", "examine", "excise", "restate", "forget",
                 "erase", "erased", "cleanup", "cleanpayload", "stripped", "retiretree"}

\* The tasks that may come later than a task.
Later(user, t) ==
  CASE t \in {"recover", "swap", "rolled"} -> Tasks
    [] t \in {"enable", "upgrade", "install", "reinstall", "begin", "replace"} -> {"modules", "leftovers"}
    [] t = "tree"   -> {"install", "modules", "leftovers"}
    [] t = "resume" -> {"begin", "modules", "leftovers"}
    [] t \in {"adopt", "uninstall", "modules", "leftovers"} ->
         {"adopt", "resume", "begin", "tree", "modules", "leftovers", "swept"}
    [] t = "repair" -> IF user THEN {} ELSE {"repair", "modules", "tree", "leftovers"}
    [] OTHER -> {"strip", "wipe"}

\* The tasks of a command.
Cleans == {"recover", "swap", "rolled", "adopt", "uninstall", "modules", "leftovers", "swept",
           "strip", "wipe"}
TasksOf(cmd) == IF cmd = "clean" THEN Cleans
                ELSE IF cmd = "sweep" THEN Cleans \ {"swept", "strip", "wipe"}
                ELSE Tasks \ {"swept", "wipe"}

Lists == Seq(Tasks \X Edition)
\* Tasks that start from nothing: the end of a rollback and an upgrade do not.
Plainly(s) == \A i \in 1..Len(s) : s[i][1] \notin {"rolled", "upgrade"}
Ordered(user, s) == \A i, j \in 1..Len(s) : i < j => s[j][1] \in Later(user, s[i][1])
\* A pending end of a rollback is the running task, or the next after the
\* payload's of the same host.
RolledNext(s) ==
  \A i \in 1..Len(s) : /\ s[i][1] = "rolled" => i = 1 \/ (i = 2 /\ s[1] = <<"swap", s[2][2]>>)
                       /\ s[i][1] = "upgrade" => i = 1

-----------------------------------------------------------------------------
Journals == {j \in Entries : j.phase # "none" => j.tx \in Tx}
Files  == {c \in Contents : c.text # NoText \/ c.block # "none" => c.present}
Marked == {m \in Markers : ~m.present => m = NoMarker}
Saved  == [kind : {"none", "full", "old", "adopted", "torn"}, before : Files, orig : BOOLEAN]
Jobs   == [cmd : Commands, user : BOOLEAN, fresh : BOOLEAN, todo : Lists, pc : Steps,
           tx : Tx \cup {NoTx}, seen : Files, was : Marked, inplace : BOOLEAN,
           undoing : BOOLEAN, worst : BOOLEAN]
Types ==
  /\ profile \in [Edition -> Files] /\ marker \in [Edition -> Marked]
  /\ snap \in [Edition -> [Names -> Saved]] /\ journal \in [Edition -> Journals]
  /\ payload \in [Names -> 0..MaxBuild] /\ swap \in Journals
  /\ tree \in [state : BOOLEAN, legacy : BOOLEAN]
  /\ build \in 0..MaxBuild /\ targets \subseteq Edition
  /\ op \in Jobs
  /\ last \in {"none", "ok", "failed", "refused", "confirm", "policy"}
  /\ owned \in [Edition -> [text : Texts, file : BOOLEAN]]

\* A list of tasks that a command may have.
Runnable(cmd, user, s) ==
  /\ s \in Lists /\ Ordered(user, s) /\ RolledNext(s)
  /\ \A i \in 1..Len(s) : s[i][1] \in TasksOf(cmd)

Control ==
  op # Idle =>
     /\ op.cmd # "none" /\ op.todo # <<>> /\ Runnable(op.cmd, op.user, op.todo)
     /\ op.pc \in StepsOf(op.todo[1][1])
     /\ op.cmd = "clean" <=> build = 0
     /\ op.pc \in Shared \cup Whole \cup {"commitswap", "version"} =>
          op.tx \in Tx /\ (op.inplace <=> op.todo[1][1] = "upgrade")

-----------------------------------------------------------------------------
HasTask(names, e) == \E i \in 1..Len(op.todo) : op.todo[i][1] \in names /\ op.todo[i][2] = e
\* The steps with a journal open, and with a swap under way.
Opens == {"publish", "prepared", "retire", "live", "write", "installed", "verify", "commit", "undo"}
Swaps == (Shared \cup Whole \cup {"commitswap", "version"}) \ {"payload", "swapjournal"}

\* The phase of a journal and the marker that a step finds.
Open  == {"publish", "prepared", "retire", "live", "write", "installed", "verify", "commit"}
Backs == {"recover", "swap", "rolled"}
RollingBack == \/ op.pc \in {"unretire", "values", "state", "rolled"}
               \/ Len(op.todo) > 1 /\ op.todo[2][1] = "rolled"
Phased ==
  /\ op.pc \in {"restore", "unpublish"} \cup Open \/ RollingBack => J.phase = "open"
  /\ op.pc \in {"tidyswap", "tidydrop", "tidystate", "dropjournal"} => J.phase \in {"committed", "rolledback"}
  /\ op.pc \in Finishes => J.phase # "open"
  /\ op.pc \in {"swaproot", "swaprename", "swapclean", "swapdrop"} => swap.phase # "none"
  /\ op.undoing => \A i \in 1..Len(op.todo) : op.todo[i][1] \in Backs
MarkerSteps == {"prepared", "retire", "live", "write", "installed", "verify", "commit",
                "adopted", "examine", "excise", "restate"}
Presence ==
  /\ op.pc \in MarkerSteps => marker[Cur].present
  /\ op.todo # <<>> /\ op.todo[1][1] = "upgrade" => InstalledMarker(Cur)

JournalsShut ==
  \A e \in Edition : journal[e].phase = "open" /\ op # Idle =>
    HasTask({"recover", "rolled"}, e) \/ (e = Cur /\ op.pc \in Opens)

SwapShut ==
  swap.phase # "none" /\ op # Idle =>
    \/ \E e \in Edition : HasTask({"swap"}, e)
    \/ op.pc \in Swaps \/ op.undoing
    \/ \A i \in 1..Len(op.todo) : op.todo[i][1] \in {"modules", "leftovers"}

-----------------------------------------------------------------------------
Good == {"full", "old", "adopted"}
Kind(e, n) == snap[e][n].kind
Stg(t) == <<"staging", t>>
Rmv(t) == <<"removing", t>>

\* Whatever a transaction that is open replaced, it can put back; and a marker
\* that says installed has its recovery files.
KeptAt(e) ==
  /\ journal[e].phase = "open" /\ journal[e].prev # 0 =>
       \/ Kind(e, Rmv(journal[e].tx)) \in Good
       \/ /\ Kind(e, Rmv(journal[e].tx)) = "none" /\ Kind(e, Live) \in Good
          /\ Kind(e, Stg(journal[e].tx)) # "none"
  /\ InstalledMarker(e) /\ journal[e].phase # "open" => Kind(e, Live) \in Good
Kept == \A e \in Edition : KeptAt(e)

\* What the steps of a transaction find in the recovery directories.
Before == {"payload", "swapjournal", "aside", "deploy", "stage", "journal"}
Filed  == {"journal", "publish", "prepared", "retire", "live"}
Unretired == {"publish", "prepared", "retire"}
After  == {"write", "installed", "verify", "commit"}
Restored == RollingBack /\ op.pc # "unretire"
Held ==
  /\ op.pc \in Before => Kind(Cur, Rmv(T)) = "none" /\ (op.was.version # 0 => Kind(Cur, Live) \in Good)
  /\ op.pc \in Filed => Kind(Cur, Stg(T)) = "full"
  /\ op.pc \in Open => J.tx = T
  /\ op.pc \in Unretired => Kind(Cur, Rmv(T)) = "none"
  /\ op.pc = "live" => J.prev = 0 \/ Kind(Cur, Rmv(T)) \in Good
  /\ op.pc \in After => Kind(Cur, Live) = "full"
  /\ op.pc \in {"restore", "unpublish"} => Recovery.kind = "full"
  /\ RollingBack => Kind(Cur, Stg(J.tx)) # "none"
  /\ Restored => Kind(Cur, Rmv(J.tx)) = "none" /\ (J.prev # 0 => Kind(Cur, Live) \in Good)
  /\ Restored /\ op.pc # "values" /\ marker[Cur].present => J.prev # 0
  /\ op.pc \in {"examine", "excise", "restate"} => Kind(Cur, Live) \in Good
  /\ op.pc \in {"erase", "erased"} => ~marker[Cur].present
  /\ op.pc = "retiretree" => \A e \in Edition : ~marker[e].present

-----------------------------------------------------------------------------
(* Lists of tasks.                                                          *)

LEMMA Listed ==
  ASSUME NEW s \in Lists, s # <<>>
  PROVE /\ Len(s) \in Nat /\ Len(s) >= 1 /\ Head(s) = s[1]
        /\ s[1] \in Tasks \X Edition /\ s[1][1] \in Tasks /\ s[1][2] \in Edition
        /\ \A i \in 1..Len(s) : s[i] \in Tasks \X Edition
        /\ Tail(s) \in Lists /\ Len(Tail(s)) = Len(s) - 1
        /\ \A i \in 1..Len(Tail(s)) : Tail(s)[i] = s[i + 1]
  BY HeadTailProperties, SMT DEF Lists

\* What is left of a runnable list is runnable.
LEMMA RestRuns ==
  ASSUME NEW c, NEW u, NEW s, Runnable(c, u, s), s # <<>>
  PROVE /\ Runnable(c, u, Tail(s))
        /\ s[1][1] # "swap" => Plainly(Tail(s))
        /\ \A i \in 1..Len(Tail(s)) : Tail(s)[i][1] \in Later(u, s[1][1])
        /\ Tail(s) # <<>> /\ Tail(s)[1][1] = "rolled" => Tail(s)[1][2] = s[1][2] /\ s[1][1] = "swap"
  <1>1. /\ s \in Lists /\ Len(s) \in Nat /\ Len(s) >= 1
        /\ Tail(s) \in Lists /\ Len(Tail(s)) = Len(s) - 1
        /\ \A i \in 1..Len(Tail(s)) : Tail(s)[i] = s[i + 1]
    BY Listed DEF Runnable
  <1>2. \A i \in 1..Len(Tail(s)) : i + 1 \in 1..Len(s) /\ 1 < i + 1 /\ Tail(s)[i] = s[i + 1]
    BY <1>1
  <1>3. Ordered(u, Tail(s))
    BY <1>1, <1>2 DEF Runnable, Ordered
  <1>4. RolledNext(Tail(s))
    BY <1>1, <1>2 DEF Runnable, RolledNext
  <1>5. s[1][1] # "swap" => Plainly(Tail(s))
    BY <1>1, <1>2 DEF Runnable, RolledNext, Plainly
  <1>6. \A i \in 1..Len(Tail(s)) : Tail(s)[i][1] \in Later(u, s[1][1])
    BY <1>1, <1>2 DEF Runnable, Ordered
  <1>7. Tail(s) # <<>> /\ Tail(s)[1][1] = "rolled" => Tail(s)[1][2] = s[1][2] /\ s[1][1] = "swap"
    <2>1. Tail(s) # <<>> => Len(Tail(s)) >= 1 BY <1>1, Listed
    <2> QED BY <2>1, <1>1, <1>2, SMT DEF Runnable, RolledNext
  <1> QED BY <1>1, <1>2, <1>3, <1>4, <1>5, <1>6, <1>7 DEF Runnable

Ahead(t, e, r) == <<<<t, e>>>> \o r

\* A task may be put before those that may come later than it.
LEMMA Put ==
  ASSUME NEW c, NEW u, NEW r, NEW t \in Tasks, NEW e \in Edition,
         Runnable(c, u, r), Plainly(r), t # "rolled", t \in TasksOf(c),
         \A i \in 1..Len(r) : r[i][1] \in Later(u, t)
  PROVE /\ Runnable(c, u, Ahead(t, e, r)) /\ (t # "upgrade" => Plainly(Ahead(t, e, r)))
        /\ Ahead(t, e, r) # <<>> /\ Ahead(t, e, r)[1] = <<t, e>>
        /\ Len(Ahead(t, e, r)) = Len(r) + 1
        /\ \A i \in 1..Len(r) : Ahead(t, e, r)[i + 1] = r[i]
  <1> DEFINE s == <<<<t, e>>>> \o r
  <1>0. <<t, e>> \in Tasks \X Edition OBVIOUS
  <1>1. /\ s \in Lists /\ Len(r) \in Nat /\ Len(s) = Len(r) + 1 /\ s[1] = <<t, e>> /\ s # <<>>
        /\ \A i \in 1..Len(r) : s[i + 1] = r[i]
    BY <1>0, SMT DEF Lists, Runnable
  <1>2. \A i \in 1..Len(s) : i = 1 \/ (i - 1 \in 1..Len(r) /\ s[i] = r[i - 1])
    BY <1>1
  <1>3. Ordered(u, s)
    <2> SUFFICES ASSUME NEW i \in 1..Len(s), NEW j \in 1..Len(s), i < j
                 PROVE s[j][1] \in Later(u, s[i][1])
      BY DEF Ordered
    <2>1. j - 1 \in 1..Len(r) /\ s[j] = r[j - 1] BY <1>1, <1>2
    <2>2. CASE i = 1 BY <2>1, <2>2, <1>1
    <2>3. CASE i # 1
      <3>1. i - 1 \in 1..Len(r) /\ s[i] = r[i - 1] /\ i - 1 < j - 1 BY <2>3, <1>1, <1>2
      <3> QED BY <3>1, <2>1 DEF Runnable, Ordered
    <2> QED BY <2>2, <2>3
  <1>4. t # "upgrade" => Plainly(s)
    BY <1>1, <1>2 DEF Plainly
  <1>5. RolledNext(s)
    BY <1>1, <1>2 DEF Plainly, RolledNext
  <1>6. \A i \in 1..Len(s) : s[i][1] \in TasksOf(c)
    BY <1>1, <1>2 DEF Runnable
  <1> HIDE DEF s
  <1>7. Runnable(c, u, s) /\ (t # "upgrade" => Plainly(s)) /\ s # <<>> /\ s[1] = <<t, e>>
        /\ Len(s) = Len(r) + 1 /\ \A i \in 1..Len(r) : s[i + 1] = r[i]
    BY <1>1, <1>3, <1>4, <1>5, <1>6 DEF Runnable
  <1> QED BY <1>7 DEF s, Ahead

\* Without what is said of lists that grow: several tasks are put one by one.
LEMMA Regroup ==
  ASSUME NEW s \in Lists, NEW t \in Lists, NEW u \in Lists
  PROVE (s \o t) \o u = s \o (t \o u)
  <1> QED BY ConcatAssociative DEF Lists

LEMMA TwoAhead ==
  ASSUME NEW r \in Lists, NEW x \in Tasks \X Edition, NEW y \in Tasks \X Edition
  PROVE <<x, y>> \o r = <<x>> \o (<<y>> \o r)
  <1>2. <<x>> \in Lists /\ <<y>> \in Lists BY SMT DEF Lists
  <1>3. <<x, y>> \in Lists BY SMT DEF Lists
  <1>4. <<x>> \o <<y>> \in Lists BY <1>2, ConcatProperties DEF Lists
  <1>5. Len(<<x>> \o <<y>>) = 2 /\ (<<x>> \o <<y>>)[1] = x /\ (<<x>> \o <<y>>)[2] = y
    BY <1>2, SMT DEF Lists
  <1>6. Len(<<x, y>>) = 2 /\ <<x, y>>[1] = x /\ <<x, y>>[2] = y BY SMT
  <1>7. \A i \in 1..2 : i = 1 \/ i = 2 BY SMT
  <1>1. <<x, y>> = <<x>> \o <<y>> BY <1>3, <1>4, <1>5, <1>6, <1>7, SeqEqual DEF Lists
  <1> DEFINE p == <<x>>
             q == <<y>>
  <1>8. p \in Lists /\ q \in Lists BY <1>2
  <1> HIDE DEF p, q
  <1>9. (p \o q) \o r = p \o (q \o r) BY <1>8, Regroup
  <1> QED BY <1>1, <1>9 DEF p, q

LEMMA ThreeAhead ==
  ASSUME NEW r \in Lists, NEW x \in Tasks \X Edition, NEW y \in Tasks \X Edition,
         NEW z \in Tasks \X Edition
  PROVE <<x, y, z>> \o r = <<x>> \o (<<y>> \o (<<z>> \o r))
  <1>2. <<x>> \in Lists /\ <<y, z>> \in Lists BY SMT DEF Lists
  <1>4. <<x, y, z>> \in Lists BY SMT DEF Lists
  <1>5. <<x>> \o <<y, z>> \in Lists BY <1>2, ConcatProperties DEF Lists
  <1>6. /\ Len(<<x>> \o <<y, z>>) = 3 /\ (<<x>> \o <<y, z>>)[1] = x
        /\ (<<x>> \o <<y, z>>)[2] = y /\ (<<x>> \o <<y, z>>)[3] = z
    BY <1>2, SMT DEF Lists
  <1>7. Len(<<x, y, z>>) = 3 /\ <<x, y, z>>[1] = x /\ <<x, y, z>>[2] = y /\ <<x, y, z>>[3] = z BY SMT
  <1>8. \A i \in 1..3 : i = 1 \/ i = 2 \/ i = 3 BY SMT
  <1>1. <<x, y, z>> = <<x>> \o <<y, z>> BY <1>4, <1>5, <1>6, <1>7, <1>8, SeqEqual DEF Lists
  <1> DEFINE p == <<x>>
             q == <<y, z>>
  <1>9. p \in Lists /\ q \in Lists BY <1>2
  <1> HIDE DEF p, q
  <1>10. (p \o q) \o r = p \o (q \o r) BY <1>9, Regroup
  <1>3. <<x, y, z>> \o r = <<x>> \o (<<y, z>> \o r) BY <1>1, <1>10 DEF p, q
  <1> QED BY <1>3, TwoAhead


-----------------------------------------------------------------------------
(* What a step does to the running command.                                 *)

Codes == {"none", "ok", "failed", "refused", "confirm", "policy"}
Stated == Shared \cup Whole \cup {"commitswap", "version"}

\* The command has ended, or its next task starts.
Starting(todo) ==
  \/ op' = Idle
  \/ /\ todo # <<>> /\ op'.todo = todo /\ op'.pc = todo[1][1] /\ op'.cmd = op.cmd
     /\ op'.user = op.user /\ op'.undoing = op.undoing /\ op'.fresh = op.fresh

LEMMA StepsKnown == \A t \in Tasks : StepsOf(t) \subseteq Steps
  BY SMT DEF Tasks, StepsOf, Steps, Shared, Whole

\* A task starts with a step of its own, which is none of an installation.
LEMMA FirstStep == \A t \in Tasks : t \in StepsOf(t) /\ t \in Steps /\ t \notin Stated /\ t # "idle"
  BY SMT DEF Tasks, StepsOf, Steps, Shared, Whole, Stated

LEMMA NotMarked == NoMarker \in Marked /\ Absent \in Files
  <1>1. MaxBuild \in Nat BY PowerShellAssumption
  <1>2. 0 \in 0..MaxBuild BY <1>1, SMT
  <1>3. NoMarker \in Marked BY <1>2 DEF NoMarker, Marked, Markers
  <1>4. Absent \in Files BY DEF Absent, Files, Contents, Texts, Blocks
  <1> QED BY <1>3, <1>4

LEMMA IdleTyped == Idle \in Jobs
  <1>1. <<>> \in Lists BY EmptySeq DEF Lists
  <1> QED BY <1>1, NotMarked, SMT DEF Idle, Jobs, Steps, Commands

LEMMA Somebody == Order[1] \in Edition
  BY PowerShellAssumption, SMT

LEMMA Running ==
  ASSUME Types, Control
  PROVE /\ Cur \in Edition
        /\ op # Idle => /\ op.todo \in Lists /\ op.todo # <<>> /\ Cur = op.todo[1][2]
                        /\ op.todo[1][1] \in Tasks /\ op.todo[1][1] \in TasksOf(op.cmd)
                        /\ op.pc # "idle"
        /\ op.pc # "idle" => op # Idle
  <1>1. CASE op = Idle BY <1>1, Somebody DEF Idle, Cur
  <1>2. CASE op # Idle
    <2>1. op.todo \in Lists /\ op.todo # <<>> BY <1>2 DEF Control, Runnable
    <2>2. Len(op.todo) >= 1 /\ Len(op.todo) \in Nat /\ Head(op.todo) = op.todo[1]
          /\ op.todo[1][2] \in Edition /\ op.todo[1][1] \in Tasks BY <2>1, Listed
    <2>3. op.todo[1][1] \in TasksOf(op.cmd) BY <1>2, <2>2 DEF Control, Runnable
    <2>4. op.pc # "idle"
      BY <1>2, <2>2, SMT DEF Control, StepsOf, Tasks, Shared, Whole
    <2> QED BY <1>2, <2>1, <2>2, <2>3, <2>4 DEF Cur
  <1> QED BY <1>1, <1>2

LEMMA ContinuesTo ==
  ASSUME Types, Control, op # Idle, NEW todo, NEW w \in BOOLEAN,
         Runnable(op.cmd, op.user, todo), Continues(todo, w), UNCHANGED build
  PROVE op' \in Jobs /\ last' \in Codes /\ Control' /\ Starting(todo)
  <1>1. CASE todo = <<>>
    <2>1. op' = Idle /\ last' \in Codes BY <1>1 DEF Continues, Ends, Codes
    <2> QED BY <2>1, IdleTyped DEF Control, Starting
  <1>2. CASE todo # <<>>
    <2>1. /\ todo \in Lists /\ Len(todo) \in Nat /\ Len(todo) >= 1 /\ Head(todo) = todo[1]
          /\ todo[1][1] \in Tasks
      BY <1>2, Listed DEF Runnable
    <2>2. op' = [NextTask(todo) EXCEPT !.worst = w] /\ last' = last BY <1>2 DEF Continues
    <2>3. op' = [op EXCEPT !.todo = todo, !.pc = todo[1][1], !.tx = NoTx, !.seen = Absent,
                           !.was = NoMarker, !.inplace = FALSE, !.worst = w]
      BY <2>1, <2>2 DEF NextTask, Types, Jobs
    <2>6. op' \in Jobs BY <2>1, <2>3, NotMarked, FirstStep DEF Types, Jobs
    <2>7. /\ op'.todo = todo /\ op'.pc = todo[1][1] /\ op'.cmd = op.cmd /\ op'.user = op.user
          /\ op'.undoing = op.undoing /\ op'.fresh = op.fresh
      BY <2>3 DEF Types, Jobs
    <2>8. Control'
      BY <1>2, <2>1, <2>7, FirstStep DEF Control, Stated
    <2> QED BY <1>2, <2>2, <2>6, <2>7, <2>8 DEF Starting, Types, Codes
  <1> QED BY <1>1, <1>2

LEMMA DoneTo ==
  ASSUME Types, Control, op # Idle, Done, UNCHANGED build
  PROVE /\ Runnable(op.cmd, op.user, Tail(op.todo))
        /\ op' \in Jobs /\ last' \in Codes /\ Control' /\ Starting(Tail(op.todo))
  <1>1. Runnable(op.cmd, op.user, Tail(op.todo)) BY RestRuns DEF Control
  <1>2. op.worst \in BOOLEAN /\ Continues(Tail(op.todo), op.worst) BY DEF Types, Jobs, Done, Runs
  <1> QED BY <1>1, <1>2, ContinuesTo

LEMMA AbortTo ==
  ASSUME Types, Control, op # Idle, NEW code \in Codes, Abort(code), UNCHANGED build
  PROVE /\ op' \in Jobs /\ last' \in Codes /\ Control' /\ Starting(Tail(op.todo))
        /\ op.pc \in Recovering => op' = Idle
  <1>1. Runnable(op.cmd, op.user, Tail(op.todo)) BY RestRuns DEF Control
  <1>2. CASE op.cmd \in {"sweep", "clean"} /\ op.pc \notin Recovering
    <2>1. Continues(Tail(op.todo), TRUE) BY <1>2 DEF Abort
    <2> QED BY <1>1, <1>2, <2>1, ContinuesTo
  <1>3. CASE ~(op.cmd \in {"sweep", "clean"} /\ op.pc \notin Recovering)
    <2>1. op' = Idle /\ last' \in Codes BY <1>3 DEF Abort, Ends
    <2> QED BY <2>1, IdleTyped DEF Control, Starting
  <1> QED BY <1>2, <1>3

LEMMA InsteadTo ==
  ASSUME Types, Control, op # Idle, op.todo[1][1] # "swap",
         NEW t \in Tasks, t # "rolled", t \in TasksOf(op.cmd),
         Later(op.user, op.todo[1][1]) \subseteq Later(op.user, t),
         Instead(<<<<t, Cur>>>>), UNCHANGED build
  PROVE LET s == Ahead(t, Cur, Tail(op.todo))
        IN /\ op' \in Jobs /\ last' \in Codes /\ Control' /\ Starting(s)
           /\ Runnable(op.cmd, op.user, s) /\ s # <<>> /\ s[1] = <<t, Cur>>
           /\ Len(s) = Len(Tail(op.todo)) + 1
           /\ \A i \in 1..Len(Tail(op.todo)) : s[i + 1] = Tail(op.todo)[i]
  <1>1. /\ Runnable(op.cmd, op.user, Tail(op.todo)) /\ Plainly(Tail(op.todo))
        /\ \A i \in 1..Len(Tail(op.todo)) : Tail(op.todo)[i][1] \in Later(op.user, t)
    BY RestRuns DEF Control
  <1>2. Cur \in Edition BY Running
  <1> DEFINE s == Ahead(t, Cur, Tail(op.todo))
  <1>3. /\ Runnable(op.cmd, op.user, s) /\ s # <<>> /\ s[1] = <<t, Cur>>
        /\ Len(s) = Len(Tail(op.todo)) + 1
        /\ \A i \in 1..Len(Tail(op.todo)) : s[i + 1] = Tail(op.todo)[i]
    <2> DEFINE r == Tail(op.todo)
               c == op.cmd
               u == op.user
               e == Cur
    <2>1. Runnable(c, u, r) /\ Plainly(r) /\ \A i \in 1..Len(r) : r[i][1] \in Later(u, t)
      BY <1>1
    <2>2. e \in Edition /\ t \in TasksOf(c)
      BY <1>2
    <2> HIDE DEF r, c, u, e
    <2>3. /\ Runnable(c, u, Ahead(t, e, r)) /\ Ahead(t, e, r) # <<>> /\ Ahead(t, e, r)[1] = <<t, e>>
          /\ Len(Ahead(t, e, r)) = Len(r) + 1
          /\ \A i \in 1..Len(r) : Ahead(t, e, r)[i + 1] = r[i]
      BY <2>1, <2>2, Put
    <2> QED BY <2>3 DEF r, c, u, e
  <1>4. op.worst \in BOOLEAN /\ Continues(s, op.worst) BY DEF Types, Jobs, Instead, Runs, Ahead
  <1> HIDE DEF s
  <1>5. op' \in Jobs /\ last' \in Codes /\ Control' /\ Starting(s) BY <1>3, <1>4, ContinuesTo
  <1> QED BY <1>3, <1>5 DEF s

LEMMA GotoTo ==
  ASSUME Types, Control, op # Idle, NEW q, Goto(q), q \in StepsOf(op.todo[1][1]), UNCHANGED build,
         q \in Stated => op.tx \in Tx /\ (op.inplace <=> op.todo[1][1] = "upgrade")
  PROVE /\ op' \in Jobs /\ last' \in Codes /\ Control'
        /\ op' = [op EXCEPT !.pc = q] /\ op'.pc = q /\ op'.todo = op.todo
  <1>1. op.todo[1][1] \in Tasks BY Running
  <1>2. q \in Steps BY <1>1, StepsKnown
  <1>3. op' = [op EXCEPT !.pc = q] /\ last' = last BY DEF Goto
  <1>4. op' \in Jobs /\ op'.pc = q /\ op'.todo = op.todo /\ op'.cmd = op.cmd /\ op'.user = op.user
        /\ op'.inplace = op.inplace /\ op'.tx = op.tx
    BY <1>2, <1>3 DEF Types, Jobs
  <1>5. Control' BY <1>4 DEF Control, Stated
  <1> QED BY <1>3, <1>4, <1>5 DEF Types, Codes


\* The steps that a step of a task may go to.
Nexts(p) ==
  CASE p = "recover" -> {"tidyswap", "restore", "unpublish"}
    [] p = "restore" -> {"unpublish"}
    [] p = "unpublish" -> {"unretire"}
    [] p = "unretire" -> {"values"}
    [] p = "values" -> {"state"}
    [] p = "state" -> {"rolled"}
    [] p = "rolled" -> {"tidystate"}
    [] p = "tidyswap" -> {"tidydrop", "tidystate"}
    [] p = "tidydrop" -> {"tidystate"}
    [] p = "tidystate" -> {"dropjournal"}
    [] p = "swap" -> {"swaproot", "swapclean"}
    [] p = "swaproot" -> {"swaprename"}
    [] p = "swaprename" -> {"swapclean"}
    [] p = "swapclean" -> {"swapdrop"}
    [] p = "adopt" -> {"adopted"}
    [] p = "payload" -> {"swapjournal", "undo"}
    [] p = "swapjournal" -> {"aside", "undo"}
    [] p = "aside" -> {"deploy", "undo"}
    [] p = "deploy" -> {"undo"}
    [] p = "stage" -> {"journal", "undo"}
    [] p = "journal" -> {"publish", "undo"}
    [] p = "publish" -> {"prepared", "undo"}
    [] p = "prepared" -> {"retire", "undo"}
    [] p = "retire" -> {"live", "undo"}
    [] p = "live" -> {"write", "undo"}
    [] p = "write" -> {"installed", "undo"}
    [] p = "installed" -> {"verify", "undo"}
    [] p = "verify" -> {"commit", "undo"}
    [] p = "commit" -> {"finish", "undo"}
    [] p = "finish" -> {"finishswap"}
    [] p = "finishstate" -> {"finishjournal"}
    [] p = "undo" -> {"undoroot"}
    [] p = "undoroot" -> {"undoname"}
    [] p = "undoname" -> {"undoclean"}
    [] p = "commitswap" -> {"version"}
    [] p = "version" -> {"finish"}
    [] p = "examine" -> {"forget", "restate", "excise"}
    [] p = "excise" -> {"forget", "restate"}
    [] p = "forget" -> {"erase"}
    [] p = "erase" -> {"erased"}
    [] p = "erased" -> {"cleanup"}
    [] p = "cleanup" -> {"cleanpayload"}
    [] p = "strip" -> {"stripped"}
    [] p = "wipe" -> {"retiretree"}
    [] OTHER -> {}

LEMMA Edges ==
  \A t \in Tasks : \A p \in StepsOf(t) : \A q \in Nexts(p) :
     q \in StepsOf(t) /\ (q \in Stated => p \in Stated)
  <1> SUFFICES ASSUME NEW t \in Tasks, NEW p \in StepsOf(t), NEW q \in Nexts(p)
               PROVE q \in StepsOf(t) /\ (q \in Stated => p \in Stated)
    OBVIOUS
  <1>1. CASE t \in {"recover", "swap", "rolled"}
    BY <1>1, SMTT(60) DEF StepsOf, Nexts, Stated, Shared, Whole
  <1>2. CASE t \in {"begin", "replace"}
    BY <1>2, SMTT(60) DEF StepsOf, Nexts, Stated, Shared, Whole
  <1>3. CASE t = "upgrade"
    BY <1>3, SMTT(60) DEF StepsOf, Nexts, Stated, Shared, Whole
  <1>4. CASE t \in Tasks \ {"recover", "swap", "rolled", "begin", "replace", "upgrade"}
    BY <1>4, SMTT(60) DEF Tasks, StepsOf, Nexts, Stated, Shared, Whole
  <1> QED BY <1>1, <1>2, <1>3, <1>4

\* A step goes on with the same task.
LEMMA StepTo ==
  ASSUME Types, Control, op.pc # "idle", NEW q, Goto(q), q \in Nexts(op.pc), UNCHANGED build
  PROVE /\ op' \in Jobs /\ last' \in Codes /\ Control'
        /\ op' = [op EXCEPT !.pc = q] /\ op'.pc = q /\ op'.todo = op.todo
  <1>1. op # Idle /\ op.todo[1][1] \in Tasks /\ op.pc \in StepsOf(op.todo[1][1])
    BY Running DEF Control
  <1>2. q \in StepsOf(op.todo[1][1]) /\ (q \in Stated => op.pc \in Stated)
    BY <1>1, Edges
  <1>3. q \in Stated => op.tx \in Tx /\ (op.inplace <=> op.todo[1][1] = "upgrade")
    BY <1>1, <1>2 DEF Control, Stated
  <1> QED BY <1>1, <1>2, <1>3, GotoTo


-----------------------------------------------------------------------------
(* The tasks of a new command.                                              *)

Plain(c, u, s) == Runnable(c, u, s) /\ Plainly(s)

Cat(s, r) == s \o r
MadeOf(z, s, r) == \A i \in 1..Len(z) : \/ \E j \in 1..Len(s) : z[i] = s[j]
                                        \/ \E j \in 1..Len(r) : z[i] = r[j]

LEMMA Join ==
  ASSUME NEW c, NEW u, NEW s, NEW r, Plain(c, u, s), Plain(c, u, r),
         \A i \in 1..Len(s) : \A j \in 1..Len(r) : r[j][1] \in Later(u, s[i][1])
  PROVE /\ Plain(c, u, Cat(s, r)) /\ Len(Cat(s, r)) = Len(s) + Len(r)
        /\ MadeOf(Cat(s, r), s, r)
  <1> DEFINE z == s \o r
  <1>1. s \in Lists /\ r \in Lists /\ Len(s) \in Nat /\ Len(r) \in Nat
    BY SMT DEF Plain, Runnable, Lists
  <1>2. z \in Lists /\ Len(z) = Len(s) + Len(r)
        /\ \A i \in 1..Len(z) : z[i] = IF i <= Len(s) THEN s[i] ELSE r[i - Len(s)]
    BY <1>1, ConcatProperties DEF Lists
  <1> HIDE DEF z
  <1>3. \A i \in 1..Len(z) : \/ i \in 1..Len(s) /\ z[i] = s[i]
                             \/ /\ i > Len(s) /\ i - Len(s) \in 1..Len(r)
                                /\ z[i] = r[i - Len(s)]
    BY <1>1, <1>2
  <1>4. Ordered(u, z)
    <2> SUFFICES ASSUME NEW i \in 1..Len(z), NEW j \in 1..Len(z), i < j
                 PROVE z[j][1] \in Later(u, z[i][1])
      BY DEF Ordered
    <2>1. CASE j \in 1..Len(s) /\ z[j] = s[j]
      <3>1. i \in 1..Len(s) /\ z[i] = s[i] BY <2>1, <1>1, <1>2, <1>3
      <3> QED BY <2>1, <3>1 DEF Plain, Runnable, Ordered
    <2>2. CASE j > Len(s) /\ j - Len(s) \in 1..Len(r) /\ z[j] = r[j - Len(s)]
      <3>1. CASE i \in 1..Len(s) /\ z[i] = s[i] BY <2>2, <3>1
      <3>2. CASE i > Len(s) /\ i - Len(s) \in 1..Len(r) /\ z[i] = r[i - Len(s)]
        <4>1. i - Len(s) < j - Len(s) BY <1>1, <1>2
        <4> QED BY <2>2, <3>2, <4>1 DEF Plain, Runnable, Ordered
      <3> QED BY <3>1, <3>2, <1>3
    <2> QED BY <2>1, <2>2, <1>3
  <1>5. Plainly(z) BY <1>3 DEF Plain, Plainly
  <1>6. RolledNext(z) BY <1>5 DEF RolledNext, Plainly
  <1>7. \A i \in 1..Len(z) : z[i][1] \in TasksOf(c) BY <1>3 DEF Plain, Runnable
  <1>8. Plain(c, u, z) BY <1>2, <1>4, <1>5, <1>6, <1>7 DEF Plain, Runnable
  <1>9. MadeOf(z, s, r) BY <1>3 DEF MadeOf
  <1> QED BY <1>2, <1>8, <1>9 DEF z, Cat

LEMMA JoinAt ==
  ASSUME NEW s \in Lists, NEW r \in Lists
  PROVE /\ Len(Cat(s, r)) = Len(s) + Len(r)
        /\ \A i \in 1..Len(s) : Cat(s, r)[i] = s[i]
        /\ \A i \in 1..Len(r) : Cat(s, r)[Len(s) + i] = r[i]
  BY SMT DEF Cat, Lists

One(t, e) == <<<<t, e>>>>
Two(t, v, e) == <<<<t, e>>, <<v, e>>>>

LEMMA OneRuns ==
  ASSUME NEW c, NEW u, NEW t \in Tasks, NEW e \in Edition, t \notin {"rolled", "upgrade"}, t \in TasksOf(c)
  PROVE Plain(c, u, One(t, e)) /\ Len(One(t, e)) = 1 /\ One(t, e)[1] = <<t, e>>
        /\ \A i \in 1..Len(One(t, e)) : One(t, e)[i][1] = t
  <1> DEFINE s == <<<<t, e>>>>
  <1>1. s \in Lists /\ Len(s) = 1 /\ s[1] = <<t, e>> BY SMT DEF Lists
  <1>2. \A i \in 1..1 : i = 1 BY SMT
  <1>4. s = One(t, e) BY DEF One
  <1> HIDE DEF s
  <1>3. Plain(c, u, s)
    BY <1>1, <1>2, SMT DEF Plain, Runnable, Ordered, RolledNext, Plainly
  <1>5. \A i \in 1..Len(s) : s[i][1] = t BY <1>1, <1>2
  <1> QED BY <1>1, <1>3, <1>4, <1>5

LEMMA TwoRun ==
  ASSUME NEW c, NEW u, NEW t \in Tasks, NEW v \in Tasks, NEW e \in Edition,
         t \notin {"rolled", "upgrade"}, t \in TasksOf(c), v \notin {"rolled", "upgrade"}, v \in TasksOf(c), v \in Later(u, t)
  PROVE /\ Plain(c, u, Two(t, v, e)) /\ Len(Two(t, v, e)) = 2
        /\ \A i \in 1..Len(Two(t, v, e)) : Two(t, v, e)[i][1] \in {t, v}
  <1> DEFINE s == <<<<t, e>>, <<v, e>>>>
  <1>1. s \in Lists /\ Len(s) = 2 /\ s[1] = <<t, e>> /\ s[2] = <<v, e>> BY SMT DEF Lists
  <1>2. \A i \in 1..2 : i = 1 \/ i = 2 BY SMT
  <1>6. s = Two(t, v, e) BY DEF Two
  <1> HIDE DEF s
  <1>3. Ordered(u, s)
    BY <1>1, <1>2, SMT DEF Ordered
  <1>4. \A i \in 1..2 : s[i][1] \in {t, v} BY <1>1, <1>2
  <1>5. Plain(c, u, s)
    BY <1>1, <1>3, <1>4, SMT DEF Plain, Runnable, RolledNext, Plainly
  <1> QED BY <1>1, <1>4, <1>5, <1>6

LEMMA BothRun ==
  ASSUME NEW c, NEW u, NEW t \in Tasks, t \notin {"rolled", "upgrade"}, t \in TasksOf(c), t \in Later(u, t)
  PROVE /\ Plain(c, u, Both(t)) /\ Len(Both(t)) = Len(Order) /\ Len(Both(t)) \in Nat /\ Len(Both(t)) >= 1
        /\ \A i \in 1..Len(Both(t)) : Both(t)[i] = <<t, Order[i]>> /\ Order[i] \in Edition
  <1>1. Len(Order) \in Nat /\ Len(Order) >= 1 /\ \A i \in 1..Len(Order) : Order[i] \in Edition
    BY PowerShellAssumption, SMT
  <1>2. \A i \in 1..Len(Order) : <<t, Order[i]>> \in Tasks \X Edition BY <1>1
  <1> DEFINE s == [i \in 1..Len(Order) |-> <<t, Order[i]>>]
  <1>3. s \in Lists /\ Len(s) = Len(Order) /\ \A i \in 1..Len(Order) : s[i] = <<t, Order[i]>>
    <2>1. s \in [1..Len(Order) -> Tasks \X Edition] BY <1>2
    <2>2. s \in Seq(Tasks \X Edition) BY <2>1, <1>1, SeqDef
    <2>3. DOMAIN s = 1..Len(s) /\ DOMAIN s = 1..Len(Order) /\ Len(s) \in Nat BY <2>2, LenProperties
    <2>4. Len(s) = Len(Order) BY <2>3, <1>1, SMT
    <2> QED BY <2>2, <2>4 DEF Lists
  <1>4. Both(t) = s BY DEF Both
  <1> HIDE DEF s
  <1>5. Plain(c, u, s)
    <2>1. Ordered(u, s) BY <1>3 DEF Ordered
    <2>2. Plainly(s) BY <1>3 DEF Plainly
    <2> QED BY <2>1, <2>2, <1>3 DEF Plain, Runnable, RolledNext, Plainly
  <1> QED BY <1>1, <1>3, <1>4, <1>5

\* A command recovers every journal first, the payload's too.
RecoversAll(z) == /\ \A e \in Edition : \E i \in 1..Len(z) : z[i] = <<"recover", e>>
                  /\ \E i \in 1..Len(z) : z[i] = <<"swap", Order[1]>>

LEMMA TodoRuns ==
  ASSUME NEW cmd \in Commands \ {"none"}, NEW e \in Edition, NEW u \in BOOLEAN,
         cmd = "repair" => u, cmd = "repairall" => ~u
  PROVE /\ Runnable(cmd, u, Todo(cmd, e)) /\ Todo(cmd, e) # <<>> /\ Plainly(Todo(cmd, e))
        /\ RecoversAll(Todo(cmd, e))
  <1>0. Order[1] \in Edition BY Somebody
  <1>1. Plain(cmd, u, RecoverAll) /\ Len(RecoverAll) \in Nat /\ Len(RecoverAll) >= 1
        /\ RecoversAll(RecoverAll)
        /\ \A i \in 1..Len(RecoverAll) : RecoverAll[i][1] \in {"recover", "swap"}
    <2>1. /\ Plain(cmd, u, Both("recover")) /\ Len(Both("recover")) \in Nat /\ Len(Both("recover")) >= 1
          /\ \A i \in 1..Len(Both("recover")) : Both("recover")[i][1] = "recover"
          /\ Len(Both("recover")) = Len(Order)
          /\ \A i \in 1..Len(Both("recover")) : Both("recover")[i] = <<"recover", Order[i]>>
      BY BothRun, SMT DEF Tasks, TasksOf, Cleans, Later
    <2>2. Plain(cmd, u, One("swap", Order[1])) /\ Len(One("swap", Order[1])) = 1
          /\ One("swap", Order[1])[1] = <<"swap", Order[1]>>
          /\ \A i \in 1..Len(One("swap", Order[1])) : One("swap", Order[1])[i][1] = "swap"
      <3>1. "swap" \in Tasks /\ "swap" \in TasksOf(cmd) BY SMT DEF Tasks, TasksOf, Cleans
      <3> QED BY <1>0, <3>1, OneRuns
    <2> DEFINE s == Both("recover")
               r == One("swap", Order[1])
    <2>4. RecoverAll = Cat(s, r) BY DEF RecoverAll, HostsOnly, One, Cat
    <2>6. /\ Plain(cmd, u, s) /\ Len(s) \in Nat /\ Len(s) >= 1
          /\ \A i \in 1..Len(s) : s[i][1] = "recover"
      BY <2>1
    <2>7. Plain(cmd, u, r) /\ Len(r) = 1 /\ \A i \in 1..Len(r) : r[i][1] = "swap"
      BY <2>2
    <2>8. /\ Len(s) = Len(Order) /\ \A i \in 1..Len(s) : s[i] = <<"recover", Order[i]>>
          /\ r[1] = <<"swap", Order[1]>>
      BY <2>1, <2>2
    <2>9. \A f \in Edition : \E i \in 1..Len(s) : s[i] = <<"recover", f>>
      BY <2>8, PowerShellAssumption
    <2> HIDE DEF s, r
    <2>3. \A i \in 1..Len(s) : \A j \in 1..Len(r) : r[j][1] \in Later(u, s[i][1])
      BY <2>6, <2>7, SMT DEF Later, Tasks
    <2>5. /\ Plain(cmd, u, Cat(s, r)) /\ Len(Cat(s, r)) = Len(s) + Len(r)
          /\ MadeOf(Cat(s, r), s, r)
      BY <2>6, <2>7, <2>3, Join
    <2>11. /\ \A i \in 1..Len(s) : Cat(s, r)[i] = s[i]
           /\ \A i \in 1..Len(r) : Cat(s, r)[Len(s) + i] = r[i]
      <3>1. s \in Lists /\ r \in Lists BY <2>6, <2>7 DEF Plain, Runnable
      <3> QED BY <3>1, JoinAt
    <2>10. RecoversAll(Cat(s, r))
      <3>1. 1 \in 1..Len(r) /\ Len(s) + 1 \in 1..Len(Cat(s, r)) /\ Cat(s, r)[Len(s) + 1] = <<"swap", Order[1]>>
        BY <2>5, <2>6, <2>7, <2>8, <2>11
      <3>2. \A i \in 1..Len(s) : i \in 1..Len(Cat(s, r)) BY <2>5, <2>6, <2>7
      <3> QED BY <2>5, <2>9, <2>11, <3>1, <3>2 DEF RecoversAll
    <2> QED BY <2>4, <2>5, <2>6, <2>7, <2>10 DEF MadeOf
  <1>2. ASSUME NEW r, Plain(cmd, u, r)
        PROVE /\ Plain(cmd, u, Cat(RecoverAll, r)) /\ Cat(RecoverAll, r) # <<>>
              /\ RecoversAll(Cat(RecoverAll, r))
    <2>1. \A j \in 1..Len(r) : r[j] \in Tasks \X Edition /\ r[j][1] \notin {"rolled", "upgrade"}
      BY <1>2, SMT DEF Plain, Runnable, Lists, Plainly
    <2>2. \A i \in 1..Len(RecoverAll) : \A j \in 1..Len(r) : r[j][1] \in Later(u, RecoverAll[i][1])
      BY <1>1, <2>1, SMT DEF Later
    <2>3. Len(r) \in Nat BY <1>2, SMT DEF Plain, Runnable, Lists
    <2>4. /\ Plain(cmd, u, Cat(RecoverAll, r)) /\ Len(Cat(RecoverAll, r)) = Len(RecoverAll) + Len(r)
      BY <1>1, <1>2, <2>2, Join
    <2>8. \A i \in 1..Len(RecoverAll) : Cat(RecoverAll, r)[i] = RecoverAll[i]
      <3>1. r \in Lists /\ RecoverAll \in Lists BY <1>1, <1>2 DEF Plain, Runnable
      <3> QED BY <3>1, JoinAt
    <2>5. Len(Cat(RecoverAll, r)) > 0 BY <1>1, <2>3, <2>4
    <2>6. \A i \in 1..Len(RecoverAll) : i \in 1..Len(Cat(RecoverAll, r)) BY <1>1, <2>3, <2>4
    <2>7. RecoversAll(Cat(RecoverAll, r)) BY <1>1, <2>4, <2>6, <2>8 DEF RecoversAll
    <2> QED BY <2>4, <2>5, <2>7, SMT DEF Plain, Runnable, Lists
  <1> DEFINE p == Two("modules", "leftovers", e)
  <1>p. /\ Prunes(e) = p /\ Plain(cmd, u, p) /\ Len(p) = 2
        /\ \A i \in 1..Len(p) : p[i][1] \in {"modules", "leftovers"}
    <2>1. /\ "modules" \in Tasks \cap TasksOf(cmd) /\ "leftovers" \in Tasks \cap TasksOf(cmd)
          /\ "leftovers" \in Later(u, "modules")
      BY SMT DEF Tasks, TasksOf, Cleans, Later
    <2> QED BY <2>1, TwoRun DEF Prunes, Two
  <1> HIDE DEF p
  <1>3. CASE cmd = "enable"
    <2> DEFINE s == One("enable", e)
    <2>1. Plain(cmd, u, s) /\ Len(s) = 1 /\ \A i \in 1..Len(s) : s[i][1] = "enable"
      <3>1. "enable" \in Tasks /\ "enable" \in TasksOf(cmd) BY <1>3, SMT DEF Tasks, TasksOf
      <3> QED BY <3>1, OneRuns
    <2>3. Todo(cmd, e) = Cat(RecoverAll, Cat(s, p)) BY <1>3, <1>p DEF Cat, Todo, One
    <2> HIDE DEF s
    <2>4. \A i \in 1..Len(s) : \A j \in 1..Len(p) : p[j][1] \in Later(u, s[i][1])
      BY <2>1, <1>p, SMT DEF Later
    <2>5. Plain(cmd, u, Cat(s, p)) BY <2>1, <1>p, <2>4, Join
    <2> QED BY <2>3, <2>5, <1>2 DEF Plain
  <1>4. CASE cmd = "disable"
    <2>1. Plain(cmd, u, Two("adopt", "leftovers", e))
      <3>1. /\ "adopt" \in Tasks \cap TasksOf(cmd) /\ "leftovers" \in Tasks \cap TasksOf(cmd)
            /\ "leftovers" \in Later(u, "adopt")
        BY <1>4, SMT DEF Tasks, TasksOf, Later
      <3> QED BY <3>1, TwoRun
    <2>2. Todo(cmd, e) = Cat(RecoverAll, Two("adopt", "leftovers", e)) BY <1>4 DEF Cat, Todo, Two
    <2> QED BY <2>1, <2>2, <1>2 DEF Plain
  <1>5. CASE cmd = "repair"
    <2>1. Plain(cmd, u, One("repair", e))
      <3>1. "repair" \in Tasks /\ "repair" \in TasksOf(cmd) BY <1>5, SMT DEF Tasks, TasksOf
      <3> QED BY <3>1, OneRuns
    <2>2. Todo(cmd, e) = Cat(RecoverAll, One("repair", e)) BY <1>5 DEF Cat, Todo, One
    <2> QED BY <2>1, <2>2, <1>2 DEF Plain
  <1>6. CASE cmd = "repairall"
    <2> DEFINE s == Both("repair")
               x == <<<<"modules", e>>, <<"tree", e>>, <<"leftovers", e>>>>
    <2>0. ~u BY <1>6
    <2>1. Plain(cmd, u, s) /\ \A i \in 1..Len(s) : s[i][1] = "repair"
      BY <1>6, <2>0, BothRun, SMT DEF Tasks, TasksOf, Later
    <2>2. x \in Lists /\ Len(x) = 3 /\ x[1] = <<"modules", e>> /\ x[2] = <<"tree", e>>
          /\ x[3] = <<"leftovers", e>>
      BY SMT DEF Lists, Tasks
    <2>3. \A i \in 1..3 : i = 1 \/ i = 2 \/ i = 3 BY SMT
    <2>4. Todo(cmd, e) = Cat(RecoverAll, Cat(s, x)) BY <1>6 DEF Cat, Todo
    <2> HIDE DEF s, x
    <2>5. Ordered(u, x)
      BY <2>2, <2>3, SMT DEF Ordered, Later
    <2>6. \A i \in 1..Len(x) : x[i][1] \in {"modules", "tree", "leftovers"} BY <2>2, <2>3
    <2>7. Plain(cmd, u, x)
      BY <2>2, <2>5, <2>6, <1>6, SMT DEF Plain, Runnable, RolledNext, Plainly, TasksOf, Tasks
    <2>8. \A i \in 1..Len(s) : \A j \in 1..Len(x) : x[j][1] \in Later(u, s[i][1])
      BY <2>0, <2>1, <2>6, SMT DEF Later
    <2>9. Plain(cmd, u, Cat(s, x)) BY <2>1, <2>7, <2>8, Join
    <2> QED BY <2>4, <2>9, <1>2 DEF Plain
  <1>7. CASE cmd \in {"sweep", "clean"}
    <2> DEFINE s == Both("adopt")
               z == One("swept", e)
    <2>1. Plain(cmd, u, s) /\ \A i \in 1..Len(s) : s[i][1] = "adopt"
      BY <1>7, BothRun, SMT DEF Tasks, TasksOf, Cleans, Later
    <2>4. CASE cmd = "sweep"
      <3>1. Todo(cmd, e) = Cat(RecoverAll, Cat(s, p)) BY <2>4, <1>p DEF Cat, Todo
      <3> HIDE DEF s
      <3>2. \A i \in 1..Len(s) : \A j \in 1..Len(p) : p[j][1] \in Later(u, s[i][1])
        BY <2>1, <1>p, SMT DEF Later
      <3>3. Plain(cmd, u, Cat(s, p)) BY <2>1, <1>p, <3>2, Join
      <3> QED BY <3>1, <3>3, <1>2 DEF Plain
    <2>5. CASE cmd = "clean"
      <3>2. Plain(cmd, u, z) /\ Len(z) = 1 /\ \A i \in 1..Len(z) : z[i][1] = "swept"
        <4>1. "swept" \in Tasks /\ "swept" \in TasksOf(cmd) BY <2>5, SMT DEF Tasks, TasksOf, Cleans
        <4> QED BY <4>1, OneRuns
      <3>1. Todo(cmd, e) = Cat(RecoverAll, Cat(s, Cat(p, z)))
        <4>1. Todo(cmd, e) = RecoverAll \o ((s \o p) \o z) BY <2>5, <1>p DEF Todo, One
        <4> HIDE DEF s, z
        <4>2. s \in Lists /\ p \in Lists /\ z \in Lists
          BY <2>1, <3>2, <1>p DEF Plain, Runnable
        <4>3. (s \o p) \o z = s \o (p \o z)
          BY <4>2, ConcatAssociative, SMTT(30) DEF Lists
        <4> QED BY <4>1, <4>3 DEF Cat
      <3> HIDE DEF s, z
      <3>3. \A i \in 1..Len(p) : \A j \in 1..Len(z) : z[j][1] \in Later(u, p[i][1])
        BY <3>2, <1>p, SMT DEF Later
      <3> DEFINE r == Cat(p, z)
      <3>4. Plain(cmd, u, r) /\ \A i \in 1..Len(r) : r[i][1] \in {"modules", "leftovers", "swept"}
        <4>1. Plain(cmd, u, r) /\ MadeOf(r, p, z)
          BY <3>2, <3>3, <1>p, Join
        <4> HIDE DEF r
        <4> QED BY <4>1, <3>2, <1>p DEF MadeOf
      <3>5. \A i \in 1..Len(s) : \A j \in 1..Len(r) : r[j][1] \in Later(u, s[i][1])
        BY <2>1, <3>4, SMT DEF Later
      <3> HIDE DEF r
      <3>6. Plain(cmd, u, Cat(s, r)) BY <2>1, <3>4, <3>5, Join
      <3> QED BY <3>1, <3>6, <1>2 DEF Plain, r
    <2> QED BY <1>7, <2>4, <2>5
  <1> QED BY <1>3, <1>4, <1>5, <1>6, <1>7 DEF Commands


-----------------------------------------------------------------------------
(* Types and control of every step.                                         *)

RollList(e, r) == <<<<"swap", e>>, <<"rolled", e>>>> \o r

\* A rollback goes through the payload's first.
LEMMA RollsOn ==
  ASSUME NEW c, NEW u, NEW r, NEW e \in Edition, Runnable(c, u, r), Plainly(r)
  PROVE /\ Runnable(c, u, RollList(e, r)) /\ RollList(e, r) # <<>>
        /\ RollList(e, r)[1] = <<"swap", e>> /\ RollList(e, r)[2] = <<"rolled", e>>
        /\ Len(RollList(e, r)) = Len(r) + 2
        /\ \A i \in 1..Len(r) : RollList(e, r)[i + 2] = r[i]
  <1> DEFINE s == <<<<"swap", e>>, <<"rolled", e>>>> \o r
  <1>0. <<<<"swap", e>>, <<"rolled", e>>>> \in Lists BY SMT DEF Lists, Tasks
  <1>1. /\ r \in Lists /\ s \in Lists /\ Len(r) \in Nat /\ Len(s) = Len(r) + 2
        /\ s[1] = <<"swap", e>> /\ s[2] = <<"rolled", e>> /\ s # <<>>
        /\ \A i \in 1..Len(r) : s[i + 2] = r[i]
    BY <1>0, SMT DEF Lists, Runnable
  <1> HIDE DEF s
  <1>2. \A i \in 1..Len(s) : i = 1 \/ i = 2 \/ (i > 2 /\ i - 2 \in 1..Len(r) /\ s[i] = r[i - 2])
    BY <1>1
  <1>3. \A i \in 1..Len(r) : r[i][1] \in Tasks /\ r[i][1] \notin {"rolled", "upgrade"} BY SMT DEF Lists, Runnable, Plainly
  <1>4. \A i \in 1..Len(s) : s[i][1] \in Tasks BY <1>1, <1>2, <1>3, SMT DEF Tasks
  <1>5. Ordered(u, s)
    <2> SUFFICES ASSUME NEW i \in 1..Len(s), NEW j \in 1..Len(s), i < j
                 PROVE s[j][1] \in Later(u, s[i][1])
      BY DEF Ordered
    <2>1. CASE i = 1 \/ i = 2
      BY <2>1, <1>1, <1>4, SMT DEF Later
    <2>2. CASE i > 2
      <3>1. i - 2 \in 1..Len(r) /\ s[i] = r[i - 2] /\ j - 2 \in 1..Len(r) /\ s[j] = r[j - 2]
            /\ i - 2 < j - 2
        BY <2>2, <1>1, <1>2
      <3> QED BY <3>1 DEF Runnable, Ordered
    <2> QED BY <2>1, <2>2, <1>1
  <1>6. RolledNext(s) BY <1>1, <1>2, <1>3 DEF RolledNext
  <1>7. \A i \in 1..Len(s) : s[i][1] \in TasksOf(c)
    <2>1. "swap" \in TasksOf(c) /\ "rolled" \in TasksOf(c) BY SMT DEF TasksOf, Tasks, Cleans
    <2> QED BY <2>1, <1>1, <1>2 DEF Runnable
  <1> QED BY <1>1, <1>5, <1>6, <1>7 DEF Runnable, RollList, s

\* A step that reads a profile, or the marker, for the next one.
LEMMA ReadTo ==
  ASSUME Types, Control, op.pc # "idle", NEW q, NEW c \in Files, NEW m \in Marked,
         q \in Nexts(op.pc), UNCHANGED <<build, last>>,
         op' = [op EXCEPT !.seen = c, !.pc = q] \/ op' = [op EXCEPT !.pc = q, !.was = m]
  PROVE /\ op' \in Jobs /\ last' \in Codes /\ Control' /\ op'.todo = op.todo /\ op'.pc = q
  <1>1. op # Idle /\ op.todo[1][1] \in Tasks /\ op.pc \in StepsOf(op.todo[1][1])
    BY Running DEF Control
  <1>2. q \in StepsOf(op.todo[1][1]) /\ (q \in Stated => op.pc \in Stated)
    BY <1>1, Edges
  <1>3. q \in Stated => op.tx \in Tx /\ (op.inplace <=> op.todo[1][1] = "upgrade")
    BY <1>1, <1>2 DEF Control, Stated
  <1>4. q \in Steps BY <1>1, <1>2, StepsKnown
  <1>5. op' \in Jobs /\ op'.pc = q /\ op'.todo = op.todo /\ op'.cmd = op.cmd /\ op'.user = op.user
        /\ op'.inplace = op.inplace /\ op'.tx = op.tx
    BY <1>4 DEF Types, Jobs
  <1>6. Control' BY <1>1, <1>2, <1>3, <1>5 DEF Control, Stated
  <1> QED BY <1>5, <1>6 DEF Types, Codes

OpOK == op' \in Jobs /\ last' \in Codes /\ Control'

\* The task that a step belongs to.
LEMMA TaskOf ==
  ASSUME Types, Control, op.pc # "idle"
  PROVE LET t == op.todo[1][1]
        IN /\ op.pc \in {"restore", "unpublish", "unretire", "values", "state", "tidyswap", "tidydrop"}
                => t = "recover"
           /\ op.pc \in {"tidystate", "dropjournal"} => t \in {"recover", "rolled"}
           /\ op.pc \in {"swap", "swaproot", "swaprename", "swapclean", "swapdrop"} => t = "swap"
           /\ op.pc \in {"adopt", "adopted"} => t = "adopt"
           /\ op.pc \in {"uninstall", "examine", "excise", "restate", "forget", "erase", "erased",
                         "cleanup", "cleanpayload"} => t = "uninstall"
           /\ op.pc \in Whole => t \in {"begin", "replace"}
           /\ op.pc \in Shared => t \in {"begin", "replace", "upgrade"}
           /\ op.pc \in {"upgrade", "commitswap", "version"} => t = "upgrade"
           /\ op.pc \in {"strip", "stripped"} => t = "strip"
           /\ op.pc \in {"wipe", "retiretree"} => t = "wipe"
           /\ op.pc \in {"begin", "replace", "resume", "enable", "install", "reinstall", "tree", "repair",
                         "swept", "modules", "leftovers", "recover"} => t = op.pc
           /\ op.pc = "rolled" => t \in {"recover", "rolled"}
  BY Running, SMTT(60) DEF Control, StepsOf, Tasks, Shared, Whole

LEMMA RecoversOp ==
  ASSUME Types, Control, Recovers
  PROVE OpOK
  <1>0. Cur \in Edition /\ profile[Cur] \in Files /\ (op.pc # "idle" => op # Idle)
        /\ NoMarker \in Marked
    BY Running, NotMarked DEF Types
  <1>1. CASE Recover
    <2>0. op.pc = "recover" /\ UNCHANGED build BY <1>1 DEF Recover, At, world
    <2>1. \/ Done \/ Goto("tidyswap") \/ Goto("unpublish") \/ Abort("refused") \/ Abort("confirm")
          \/ op' = [op EXCEPT !.seen = profile[Cur], !.pc = "restore"] /\ UNCHANGED last
      BY <1>1 DEF Recover
    <2>2. CASE Done BY <2>0, <2>2, <1>0, DoneTo DEF OpOK
    <2>3. CASE Goto("tidyswap") BY <2>0, <2>3, <1>0, StepTo DEF OpOK, Nexts
    <2>4. CASE Goto("unpublish") BY <2>0, <2>4, <1>0, StepTo DEF OpOK, Nexts
    <2>5. CASE Abort("refused") BY <2>0, <2>5, <1>0, AbortTo DEF OpOK, Codes
    <2>6. CASE Abort("confirm") BY <2>0, <2>6, <1>0, AbortTo DEF OpOK, Codes
    <2>7. CASE op' = [op EXCEPT !.seen = profile[Cur], !.pc = "restore"] /\ UNCHANGED last
      BY <2>0, <2>7, <1>0, ReadTo DEF OpOK, Nexts
    <2> QED BY <2>1, <2>2, <2>3, <2>4, <2>5, <2>6, <2>7
  <1>2. CASE Restore
    <2>1. /\ op.pc = "restore" /\ UNCHANGED build
          /\ Goto("unpublish") \/ Abort("refused")
      BY <1>2 DEF Restore, At, world, Replaced
    <2>2. CASE Goto("unpublish") BY <2>1, <2>2, StepTo DEF OpOK, Nexts
    <2>3. CASE Abort("refused") BY <2>1, <2>3, <1>0, AbortTo DEF OpOK, Codes
    <2> QED BY <2>1, <2>2, <2>3
  <1>3. CASE Unpublish
    <2>1. op.pc = "unpublish" /\ UNCHANGED build /\ Goto("unretire") BY <1>3 DEF Unpublish, At, world
    <2> QED BY <2>1, StepTo DEF OpOK, Nexts
  <1>4. CASE Unretire
    <2>1. op.pc = "unretire" /\ UNCHANGED build /\ Goto("values") BY <1>4 DEF Unretire, At, world
    <2> QED BY <2>1, StepTo DEF OpOK, Nexts
  <1>5. CASE RestoreValues
    <2>1. op.pc = "values" /\ UNCHANGED build /\ Goto("state") BY <1>5 DEF RestoreValues, At, world
    <2> QED BY <2>1, StepTo DEF OpOK, Nexts
  <1>6. CASE RestoreState
    <2>1. /\ op.pc = "state" /\ UNCHANGED build
          /\ Goto("rolled") \/ Instead(<<<<"swap", Cur>>, <<"rolled", Cur>>>>)
      BY <1>6 DEF RestoreState, At, world
    <2>2. CASE Goto("rolled") BY <2>1, <2>2, StepTo DEF OpOK, Nexts
    <2>3. CASE Instead(<<<<"swap", Cur>>, <<"rolled", Cur>>>>)
      <3>1. op # Idle /\ op.todo[1][1] = "recover" BY <2>1, <1>0, TaskOf
      <3>2. Runnable(op.cmd, op.user, Tail(op.todo)) /\ Plainly(Tail(op.todo))
        BY <3>1, RestRuns DEF Control
      <3> DEFINE s == RollList(Cur, Tail(op.todo))
      <3>3. Runnable(op.cmd, op.user, s) BY <3>2, <1>0, RollsOn
      <3>4. op.worst \in BOOLEAN /\ Continues(s, op.worst)
        BY <2>3 DEF Types, Jobs, Instead, Runs, RollList
      <3> HIDE DEF s
      <3> QED BY <2>1, <3>1, <3>3, <3>4, ContinuesTo DEF OpOK
    <2> QED BY <2>1, <2>2, <2>3
  <1>7. CASE RolledBack
    <2>1. op.pc = "rolled" /\ UNCHANGED build /\ Goto("tidystate") BY <1>7 DEF RolledBack, At, world
    <2> QED BY <2>1, StepTo DEF OpOK, Nexts
  <1>8. CASE TidySwap
    <2>1. op.pc = "tidyswap" /\ UNCHANGED build /\ (Goto("tidydrop") \/ Goto("tidystate"))
      BY <1>8 DEF TidySwap, At, world
    <2> QED BY <2>1, StepTo DEF OpOK, Nexts
  <1>9. CASE TidyDrop
    <2>1. op.pc = "tidydrop" /\ UNCHANGED build /\ Goto("tidystate") BY <1>9 DEF TidyDrop, At, world
    <2> QED BY <2>1, StepTo DEF OpOK, Nexts
  <1>10. CASE TidyState
    <2>1. op.pc = "tidystate" /\ UNCHANGED build /\ Goto("dropjournal") BY <1>10 DEF TidyState, At, world
    <2> QED BY <2>1, StepTo DEF OpOK, Nexts
  <1>11. CASE DropJournal
    <2>1. op.pc = "dropjournal" /\ UNCHANGED build /\ Done BY <1>11 DEF DropJournal, At, world
    <2> QED BY <2>1, <1>0, DoneTo DEF OpOK
  <1>12. CASE Swap
    <2>1. op.pc = "swap" /\ UNCHANGED build /\ (Done \/ Goto("swaproot") \/ Goto("swapclean"))
      BY <1>12 DEF Swap, At, world
    <2> QED BY <2>1, <1>0, DoneTo, StepTo DEF OpOK, Nexts
  <1>13. CASE SwapRoot
    <2>1. op.pc = "swaproot" /\ UNCHANGED build /\ Goto("swaprename") BY <1>13 DEF SwapRoot, At, world
    <2> QED BY <2>1, StepTo DEF OpOK, Nexts
  <1>14. CASE SwapRename
    <2>1. op.pc = "swaprename" /\ UNCHANGED build /\ Goto("swapclean") BY <1>14 DEF SwapRename, At, world
    <2> QED BY <2>1, StepTo DEF OpOK, Nexts
  <1>15. CASE SwapClean
    <2>1. op.pc = "swapclean" /\ UNCHANGED build /\ Goto("swapdrop") BY <1>15 DEF SwapClean, At, world
    <2> QED BY <2>1, StepTo DEF OpOK, Nexts
  <1>16. CASE SwapDrop
    <2>1. op.pc = "swapdrop" /\ UNCHANGED build /\ Done BY <1>16 DEF SwapDrop, At, world
    <2> QED BY <2>1, <1>0, DoneTo DEF OpOK
  <1> QED BY <1>1, <1>2, <1>3, <1>4, <1>5, <1>6, <1>7, <1>8, <1>9, <1>10, <1>11, <1>12, <1>13,
             <1>14, <1>15, <1>16 DEF Recovers

\* Keeping what was already put apart: the tasks that follow a step.
LEMMA InsteadOK ==
  ASSUME Types, Control, NEW t \in Tasks, t # "rolled", op.pc # "idle", t \in TasksOf(op.cmd),
         op.todo[1][1] # "swap", Later(op.user, op.todo[1][1]) \subseteq Later(op.user, t),
         Instead(<<<<t, Cur>>>>), UNCHANGED build
  PROVE OpOK
  <1>1. op # Idle BY Running
  <1> QED BY <1>1, InsteadTo DEF OpOK

LEMMA Fresh ==
  ASSUME Types, Control, IdLeft
  PROVE NewTx \in Tx /\ NewTx \notin Used
  <1>1. \E t \in Tx : t \notin Used BY DEF IdLeft
  <1> QED BY <1>1 DEF NewTx

\* An installation begins; a mere change of the payload belongs to an upgrade.
LEMMA StartsOK ==
  ASSUME Types, Control, NEW b \in BOOLEAN, Starts(b), UNCHANGED build,
         op.pc \in {"begin", "replace", "upgrade"}, b <=> op.pc = "upgrade"
  PROVE /\ OpOK /\ NewTx \in Tx /\ NewTx \notin Used
        /\ op' = [op EXCEPT !.pc = "payload", !.tx = NewTx, !.seen = profile[Cur],
                            !.was = marker[Cur], !.inplace = b]
  <1>1. op # Idle /\ Cur \in Edition /\ op.todo[1][1] = op.pc BY Running, TaskOf
  <1>2. NewTx \in Tx /\ NewTx \notin Used BY Fresh DEF Starts
  <1>3. op' = [op EXCEPT !.pc = "payload", !.tx = NewTx, !.seen = profile[Cur],
                         !.was = marker[Cur], !.inplace = b] /\ last' = last
    BY DEF Starts
  <1>4. profile[Cur] \in Files /\ marker[Cur] \in Marked BY <1>1 DEF Types
  <1>5. "payload" \in Steps BY DEF Steps, Shared
  <1>6. op' \in Jobs BY <1>2, <1>3, <1>4, <1>5 DEF Types, Jobs
  <1>7. /\ op'.pc = "payload" /\ op'.tx = NewTx /\ op'.inplace = b /\ op'.todo = op.todo
        /\ op'.cmd = op.cmd /\ op'.user = op.user
    BY <1>3 DEF Types, Jobs
  <1>8. "payload" \in StepsOf(op.todo[1][1])
    BY <1>1, SMT DEF StepsOf, Shared
  <1>9. Control' BY <1>1, <1>2, <1>7, <1>8 DEF Control
  <1> QED BY <1>2, <1>3, <1>6, <1>9 DEF OpOK, Types, Codes


NewList(e, r)  == <<<<"tree", e>>, <<"install", e>>>> \o r
FullList(e, r) == <<<<"adopt", e>>, <<"resume", e>>, <<"begin", e>>>> \o r

LEMMA FullAhead ==
  ASSUME NEW r \in Lists, NEW e \in Edition
  PROVE FullList(e, r) = Ahead("adopt", e, Ahead("resume", e, Ahead("begin", e, r)))
  <1>1. /\ <<"adopt", e>> \in Tasks \X Edition /\ <<"resume", e>> \in Tasks \X Edition
        /\ <<"begin", e>> \in Tasks \X Edition
    BY SMT DEF Tasks
  <1> DEFINE x == <<"adopt", e>>
             y == <<"resume", e>>
             z == <<"begin", e>>
  <1>2. x \in Tasks \X Edition /\ y \in Tasks \X Edition /\ z \in Tasks \X Edition BY <1>1
  <1> HIDE DEF x, y, z
  <1>3. <<x, y, z>> \o r = <<x>> \o (<<y>> \o (<<z>> \o r)) BY <1>2, ThreeAhead, SMTT(30)
  <1> QED BY <1>3 DEF x, y, z, FullList, Ahead

\* The tasks of an enable are put before the prunes.
LEMMA EnableLists ==
  ASSUME NEW c, NEW u, NEW e \in Edition, NEW r, Runnable(c, u, r), Plainly(r), c \notin {"clean", "sweep"},
         \A i \in 1..Len(r) : r[i][1] \in {"modules", "leftovers"}
  PROVE /\ Runnable(c, u, Ahead("upgrade", e, r)) /\ Ahead("upgrade", e, r) # <<>>
        /\ Runnable(c, u, NewList(e, r)) /\ NewList(e, r) # <<>>
        /\ Runnable(c, u, FullList(e, r))
  <1>0. r \in Lists /\ Len(r) \in Nat BY SMT DEF Runnable, Lists
  <1>1. Runnable(c, u, Ahead("upgrade", e, r)) /\ Ahead("upgrade", e, r) # <<>>
    <2>1. "upgrade" \in Tasks /\ "upgrade" \in TasksOf(c)
          /\ \A i \in 1..Len(r) : r[i][1] \in Later(u, "upgrade")
      BY SMT DEF TasksOf, Tasks, Later
    <2> DEFINE t == "upgrade"
    <2>2. /\ t \in Tasks /\ t # "rolled" /\ t \in TasksOf(c)
          /\ \A i \in 1..Len(r) : r[i][1] \in Later(u, t)
      BY <2>1
    <2> HIDE DEF t
    <2>3. Runnable(c, u, Ahead(t, e, r)) /\ Ahead(t, e, r) # <<>> /\ Ahead(t, e, r)[1] = <<t, e>>
          /\ Len(Ahead(t, e, r)) = Len(r) + 1
      BY <2>2, Put
    <2> QED BY <2>3 DEF t
  <1>2. Runnable(c, u, NewList(e, r)) /\ NewList(e, r) # <<>>
    <2> DEFINE w == Ahead("install", e, r)
    <2>1. "install" \in Tasks /\ "install" \in TasksOf(c)
          /\ \A i \in 1..Len(r) : r[i][1] \in Later(u, "install")
      BY SMT DEF TasksOf, Tasks, Later
    <2>2. /\ Runnable(c, u, w) /\ Plainly(w) /\ w[1] = <<"install", e>>
          /\ Len(w) = Len(r) + 1 /\ \A i \in 1..Len(r) : w[i + 1] = r[i]
      BY <2>1, Put
    <2>3. NewList(e, r) = Ahead("tree", e, w)
      <3>1. <<"tree", e>> \in Tasks \X Edition /\ <<"install", e>> \in Tasks \X Edition
        BY SMT DEF Tasks
      <3> QED BY <3>1, <1>0, TwoAhead DEF NewList, Ahead
    <2> HIDE DEF w
    <2>4. \A i \in 1..Len(w) : i = 1 \/ (i - 1 \in 1..Len(r) /\ w[i] = r[i - 1])
      BY <2>2, <1>0
    <2>5. "tree" \in Tasks /\ "tree" \in TasksOf(c)
          /\ \A i \in 1..Len(w) : w[i][1] \in Later(u, "tree")
      BY <2>2, <2>4, SMT DEF TasksOf, Tasks, Later
    <2> QED BY <2>2, <2>3, <2>5, Put
  <1>3. Runnable(c, u, FullList(e, r))
    <2> DEFINE w == Ahead("begin", e, r)
               z == Ahead("resume", e, w)
    <2>0. FullList(e, r) = Ahead("adopt", e, z) BY <1>0, FullAhead
    <2>1. "begin" \in Tasks /\ "begin" \in TasksOf(c)
          /\ \A i \in 1..Len(r) : r[i][1] \in Later(u, "begin")
      BY SMT DEF TasksOf, Tasks, Later
    <2>2. /\ Runnable(c, u, w) /\ Plainly(w) /\ w[1] = <<"begin", e>>
          /\ Len(w) = Len(r) + 1 /\ \A i \in 1..Len(r) : w[i + 1] = r[i]
      BY <2>1, Put
    <2> HIDE DEF w
    <2>3. \A i \in 1..Len(w) : i = 1 \/ (i - 1 \in 1..Len(r) /\ w[i] = r[i - 1])
      BY <1>0, <2>2
    <2>4. \A i \in 1..Len(w) : w[i][1] \in {"begin", "modules", "leftovers"} BY <2>2, <2>3
    <2>5. "resume" \in Tasks /\ "resume" \in TasksOf(c)
          /\ \A i \in 1..Len(w) : w[i][1] \in Later(u, "resume")
      BY <2>4, SMT DEF TasksOf, Tasks, Later
    <2>6. /\ Runnable(c, u, z) /\ Plainly(z) /\ z[1] = <<"resume", e>>
          /\ Len(z) = Len(w) + 1 /\ \A i \in 1..Len(w) : z[i + 1] = w[i]
      BY <2>2, <2>5, Put
    <2> HIDE DEF z
    <2>7. \A i \in 1..Len(z) : i = 1 \/ (i - 1 \in 1..Len(w) /\ z[i] = w[i - 1])
      BY <1>0, <2>2, <2>6
    <2>8. "adopt" \in Tasks /\ "adopt" \in TasksOf(c)
          /\ \A i \in 1..Len(z) : z[i][1] \in Later(u, "adopt")
      BY <2>4, <2>6, <2>7, SMT DEF TasksOf, Tasks, Later
    <2> QED BY <2>0, <2>6, <2>8, Put
  <1> QED BY <1>1, <1>2, <1>3

\* What follows the task of an installation.
LEMMA Follow ==
  ASSUME Types, Control, op # Idle,
         op.todo[1][1] \in {"enable", "install", "begin", "replace", "upgrade", "reinstall"}
  PROVE LET r == Tail(op.todo)
        IN /\ Runnable(op.cmd, op.user, r) /\ Plainly(r) /\ op.cmd \notin {"clean", "sweep"}
           /\ \A i \in 1..Len(r) : r[i][1] \in {"modules", "leftovers"}
  <1>1. /\ Runnable(op.cmd, op.user, Tail(op.todo)) /\ Plainly(Tail(op.todo))
        /\ \A i \in 1..Len(Tail(op.todo)) : Tail(op.todo)[i][1] \in Later(op.user, op.todo[1][1])
    <2>1. Runnable(op.cmd, op.user, op.todo) /\ op.todo # <<>> BY DEF Control
    <2> QED BY <2>1, RestRuns
  <1>2. Later(op.user, op.todo[1][1]) = {"modules", "leftovers"} BY SMT DEF Later
  <1>3. op.cmd \notin {"clean", "sweep"} BY Running, SMT DEF TasksOf, Cleans
  <1> QED BY <1>1, <1>2, <1>3

LEMMA Nothing ==
  ASSUME NEW r \in Lists
  PROVE <<>> \o r = r
  BY ConcatEmptySeq DEF Lists

LEMMA UnmarkedOK ==
  ASSUME Types, Control, op.pc \in {"adopt", "adopted"}, Unmarked, UNCHANGED build
  PROVE OpOK
  <1>1. op # Idle /\ op.todo[1][1] = "adopt" BY Running, TaskOf
  <1>2. CASE op.cmd = "enable"
    <2>1. Tail(op.todo) \in Lists BY <1>1, RestRuns DEF Control, Runnable
    <2>2. Done BY <1>2, <2>1, Nothing DEF Unmarked, Instead, Done
    <2> QED BY <1>1, <2>2, DoneTo DEF OpOK
  <1>3. CASE op.cmd # "enable"
    <2>1. Instead(<<<<"uninstall", Cur>>>>) BY <1>3 DEF Unmarked
    <2>2. "uninstall" \in Tasks /\ "uninstall" \in TasksOf(op.cmd)
          /\ Later(op.user, "adopt") \subseteq Later(op.user, "uninstall")
      BY SMT DEF TasksOf, Cleans, Tasks, Later
    <2> QED BY <1>1, <2>1, <2>2, InsteadOK
  <1> QED BY <1>2, <1>3

LEMMA AfterSwapOK ==
  ASSUME Types, Control, op.pc \in {"payload", "deploy"}, Goto(AfterSwap), UNCHANGED build
  PROVE OpOK
  <1>1. /\ op # Idle /\ op.todo[1][1] \in {"begin", "replace", "upgrade"}
        /\ op.tx \in Tx /\ (op.inplace <=> op.todo[1][1] = "upgrade")
    BY Running, TaskOf, SMT DEF Control, Shared
  <1>2. AfterSwap \in StepsOf(op.todo[1][1])
    BY <1>1, SMT DEF AfterSwap, StepsOf, Whole
  <1> QED BY <1>1, <1>2, GotoTo DEF OpOK

LEMMA EnablesOp ==
  ASSUME Types, Control, Enables
  PROVE OpOK
  <1>0. /\ Cur \in Edition /\ (op.pc # "idle" => op # Idle)
        /\ op # Idle => op.todo[1][1] \in TasksOf(op.cmd)
    BY Running
  <1>1. CASE Enable
    <2>1. op.pc = "enable" /\ op # Idle /\ op.todo[1][1] = "enable" /\ UNCHANGED <<build, last>>
      BY <1>1, <1>0, TaskOf DEF Enable, At, world
    <2> DEFINE c == op.cmd
               u == op.user
               e == Cur
               r == Tail(op.todo)
               fresh == ~op.user /\ ~InstalledMarker(Cur)
    <2>3. Runnable(c, u, r) /\ Plainly(r) /\ c \notin {"clean", "sweep"} /\ e \in Edition
          /\ \A i \in 1..Len(r) : r[i][1] \in {"modules", "leftovers"}
      BY <2>1, <1>0, Follow
    <2> HIDE DEF c, u, e, r
    <2>4. /\ Runnable(c, u, Ahead("upgrade", e, r)) /\ Ahead("upgrade", e, r) # <<>>
          /\ Runnable(c, u, NewList(e, r)) /\ NewList(e, r) # <<>>
      BY <2>3, EnableLists
    <2> DEFINE s == IF InstalledMarker(Cur) THEN Ahead("upgrade", e, r) ELSE NewList(e, r)
    <2>6. op' = [NextTask(s) EXCEPT !.fresh = fresh]
      BY <1>1 DEF Enable, r, e, Ahead, NewList
    <2>7. Runnable(op.cmd, op.user, s) /\ s # <<>> BY <2>4 DEF c, u
    <2> HIDE DEF s
    <2>8. s \in Lists /\ Head(s) = s[1] /\ s[1][1] \in Tasks BY <2>7, Listed DEF Runnable
    <2>9. op' = [op EXCEPT !.todo = s, !.pc = s[1][1], !.tx = NoTx, !.seen = Absent,
                           !.was = NoMarker, !.inplace = FALSE, !.fresh = fresh]
      BY <2>6, <2>8 DEF NextTask, Types, Jobs
    <2>10. fresh \in BOOLEAN BY DEF InstalledMarker, Types, Jobs
    <2> HIDE DEF fresh
    <2>11. op' \in Jobs BY <2>8, <2>9, <2>10, NotMarked, FirstStep DEF Types, Jobs
    <2>12. op'.todo = s /\ op'.pc = s[1][1] /\ op'.cmd = op.cmd /\ op'.user = op.user
      BY <2>9 DEF Types, Jobs
    <2>13. Control' BY <2>1, <2>7, <2>8, <2>12, FirstStep DEF Control, Stated
    <2> QED BY <2>1, <2>11, <2>13 DEF OpOK, Types, Codes
  <1>2. CASE Tree
    <2>1. op.pc = "tree" /\ UNCHANGED build /\ Done BY <1>2 DEF Tree, At, world
    <2> QED BY <2>1, <1>0, DoneTo DEF OpOK
  <1>3. CASE Install
    <2>1. /\ op.pc = "install" /\ op # Idle /\ op.todo[1][1] = "install" /\ UNCHANGED build
          /\ Instead(<<<<"adopt", Cur>>, <<"resume", Cur>>, <<"begin", Cur>>>>) \/ Ends("policy")
      BY <1>3, <1>0, TaskOf DEF Install, At, world
    <2>2. CASE Ends("policy") BY <2>2, IdleTyped DEF Ends, OpOK, Codes, Control
    <2>3. CASE Instead(<<<<"adopt", Cur>>, <<"resume", Cur>>, <<"begin", Cur>>>>)
      <3> DEFINE c == op.cmd
                 u == op.user
                 e == Cur
                 r == Tail(op.todo)
      <3>3. Runnable(c, u, r) /\ Plainly(r) /\ c \notin {"clean", "sweep"} /\ e \in Edition
            /\ \A i \in 1..Len(r) : r[i][1] \in {"modules", "leftovers"}
        BY <2>1, <1>0, Follow
      <3>4. Continues(FullList(e, r), op.worst) BY <2>3 DEF Instead, Runs, FullList
      <3> HIDE DEF c, u, e, r
      <3>5. Runnable(c, u, FullList(e, r)) BY <3>3, EnableLists
      <3> DEFINE s == FullList(e, r)
      <3>6. Runnable(op.cmd, op.user, s) BY <3>5 DEF c, u
      <3>7. op.worst \in BOOLEAN BY DEF Types, Jobs
      <3> HIDE DEF s
      <3> QED BY <2>1, <3>4, <3>6, <3>7, ContinuesTo DEF OpOK, s
    <2> QED BY <2>1, <2>2, <2>3
  <1>4. CASE Reinstall
    <2>1. /\ op.pc = "reinstall" /\ op # Idle /\ op.todo[1][1] = "reinstall" /\ UNCHANGED build
          /\ Instead(<<<<"replace", Cur>>>>) \/ Ends("policy")
      BY <1>4, <1>0, TaskOf DEF Reinstall, At, world
    <2>2. CASE Ends("policy") BY <2>2, IdleTyped DEF Ends, OpOK, Codes, Control
    <2>3. CASE Instead(<<<<"replace", Cur>>>>)
      <3>1. "replace" \in Tasks /\ "replace" \in TasksOf(op.cmd)
            /\ Later(op.user, "reinstall") \subseteq Later(op.user, "replace")
        BY <2>1, <1>0, SMT DEF TasksOf, Cleans, Tasks, Later
      <3> QED BY <2>1, <2>3, <3>1, InsteadOK
    <2> QED BY <2>1, <2>2, <2>3
  <1>5. CASE Adopt
    <2>1. op.pc = "adopt" /\ UNCHANGED build /\ (Unmarked \/ Abort("refused") \/ Goto("adopted"))
      BY <1>5 DEF Adopt, At, world
    <2>2. CASE Unmarked BY <2>1, <2>2, <1>0, UnmarkedOK
    <2>3. CASE Abort("refused") BY <2>1, <2>3, <1>0, AbortTo DEF OpOK, Codes
    <2>4. CASE Goto("adopted") BY <2>1, <2>4, StepTo DEF OpOK, Nexts
    <2> QED BY <2>1, <2>2, <2>3, <2>4
  <1>6. CASE Adopted
    <2>1. op.pc = "adopted" /\ UNCHANGED build /\ Unmarked BY <1>6 DEF Adopted, At, world
    <2> QED BY <2>1, <1>0, UnmarkedOK
  <1>7. CASE Resume
    <2>1. op.pc = "resume" /\ UNCHANGED build /\ (Done \/ Instead(<<<<"uninstall", Cur>>>>))
      BY <1>7 DEF Resume, At, world
    <2>2. CASE Done BY <2>1, <2>2, <1>0, DoneTo DEF OpOK
    <2>3. CASE Instead(<<<<"uninstall", Cur>>>>)
      <3>1. op # Idle /\ op.todo[1][1] = "resume" BY <2>1, <1>0, TaskOf
      <3>2. "uninstall" \in Tasks /\ "uninstall" \in TasksOf(op.cmd)
            /\ Later(op.user, "resume") \subseteq Later(op.user, "uninstall")
        BY SMT DEF TasksOf, Cleans, Tasks, Later
      <3> QED BY <2>1, <2>3, <3>1, <3>2, InsteadOK
    <2> QED BY <2>1, <2>2, <2>3
  <1>8. CASE Begin
    <2>1. /\ op.pc \in {"begin", "replace"} /\ UNCHANGED build
          /\ Done \/ Abort("refused") \/ Starts(FALSE)
      BY <1>8 DEF Begin, At, world
    <2>2. CASE Done BY <2>1, <2>2, <1>0, DoneTo DEF OpOK
    <2>3. CASE Abort("refused") BY <2>1, <2>3, <1>0, AbortTo DEF OpOK, Codes
    <2>4. CASE Starts(FALSE) BY <2>1, <2>4, StartsOK
    <2> QED BY <2>1, <2>2, <2>3, <2>4
  <1>9. CASE Ensure
    <2>1. op.pc = "payload" /\ UNCHANGED build /\ (Goto(AfterSwap) \/ Goto("swapjournal"))
      BY <1>9 DEF Ensure, At, world
    <2>2. CASE Goto(AfterSwap) BY <2>1, <2>2, AfterSwapOK
    <2>3. CASE Goto("swapjournal") BY <2>1, <2>3, StepTo DEF OpOK, Nexts
    <2> QED BY <2>1, <2>2, <2>3
  <1>10. CASE SwapJournal
    <2>1. op.pc = "swapjournal" /\ UNCHANGED build /\ Goto("aside") BY <1>10 DEF SwapJournal, At, world
    <2> QED BY <2>1, StepTo DEF OpOK, Nexts
  <1>11. CASE Aside
    <2>1. op.pc = "aside" /\ UNCHANGED build /\ Goto("deploy") BY <1>11 DEF Aside, At, world
    <2> QED BY <2>1, StepTo DEF OpOK, Nexts
  <1>12. CASE Deploy
    <2>1. op.pc = "deploy" /\ UNCHANGED build /\ Goto(AfterSwap) BY <1>12 DEF Deploy, At, world
    <2> QED BY <2>1, AfterSwapOK
  <1>13. CASE Stage
    <2>1. op.pc = "stage" /\ UNCHANGED build /\ Goto("journal") BY <1>13 DEF Stage, At, world
    <2> QED BY <2>1, StepTo DEF OpOK, Nexts
  <1>14. CASE OpenJournal
    <2>1. op.pc = "journal" /\ UNCHANGED build /\ Goto("publish") BY <1>14 DEF OpenJournal, At, world
    <2> QED BY <2>1, StepTo DEF OpOK, Nexts
  <1>15. CASE Publish
    <2>1. op.pc = "publish" /\ UNCHANGED build /\ Goto("prepared") BY <1>15 DEF Publish, At, world
    <2> QED BY <2>1, StepTo DEF OpOK, Nexts
  <1>16. CASE Prepared
    <2>1. op.pc = "prepared" /\ UNCHANGED build /\ Goto("retire") BY <1>16 DEF Prepared, At, world
    <2> QED BY <2>1, StepTo DEF OpOK, Nexts
  <1>17. CASE Retire
    <2>1. op.pc = "retire" /\ UNCHANGED build /\ Goto("live") BY <1>17 DEF Retire, At, world
    <2> QED BY <2>1, StepTo DEF OpOK, Nexts
  <1>18. CASE GoLive
    <2>1. op.pc = "live" /\ UNCHANGED build /\ Goto("write") BY <1>18 DEF GoLive, At, world
    <2> QED BY <2>1, StepTo DEF OpOK, Nexts
  <1>19. CASE Write
    <2>1. op.pc = "write" /\ UNCHANGED build /\ (Goto("installed") \/ Goto("undo"))
      BY <1>19 DEF Write, Replaced, At, world
    <2> QED BY <2>1, StepTo DEF OpOK, Nexts
  <1>20. CASE MarkInstalled
    <2>1. op.pc = "installed" /\ UNCHANGED build /\ Goto("verify") BY <1>20 DEF MarkInstalled, At, world
    <2> QED BY <2>1, StepTo DEF OpOK, Nexts
  <1>21. CASE Verify
    <2>1. op.pc = "verify" /\ UNCHANGED build /\ (Goto("commit") \/ Goto("undo")) BY <1>21 DEF Verify, At, world
    <2> QED BY <2>1, StepTo DEF OpOK, Nexts
  <1>22. CASE Commit
    <2>1. op.pc = "commit" /\ UNCHANGED build /\ Goto("finish") BY <1>22 DEF Commit, At, world
    <2> QED BY <2>1, StepTo DEF OpOK, Nexts
  <1>23. CASE Finish
    <2>1. op.pc = "finish" /\ UNCHANGED build /\ Goto("finishswap") BY <1>23 DEF Finish, At, world
    <2> QED BY <2>1, StepTo DEF OpOK, Nexts
  <1>24. CASE FinishSwap
    <2>1. op.pc = "finishswap" /\ UNCHANGED build /\ (Done \/ (~op.inplace /\ Goto("finishstate")))
      <3>1. op.pc = "finishswap" /\ UNCHANGED build /\ IF op.inplace THEN Done ELSE Goto("finishstate")
        BY <1>24 DEF FinishSwap, At, world
      <3> QED BY <3>1
    <2>2. CASE Done BY <2>1, <2>2, <1>0, DoneTo DEF OpOK
    <2>3. CASE ~op.inplace /\ Goto("finishstate")
      <3>1. op # Idle /\ op.todo[1][1] \in {"begin", "replace"} /\ op.tx \in Tx
        BY <2>1, <2>3, <1>0, TaskOf, SMT DEF Control, Shared
      <3>2. "finishstate" \in StepsOf(op.todo[1][1]) BY <3>1, SMT DEF StepsOf, Whole
      <3>3. op.inplace <=> op.todo[1][1] = "upgrade" BY <2>3, <3>1
      <3> QED BY <2>1, <2>3, <3>1, <3>2, <3>3, GotoTo DEF OpOK
    <2> QED BY <2>1, <2>2, <2>3
  <1>25. CASE FinishState
    <2>1. op.pc = "finishstate" /\ UNCHANGED build /\ Goto("finishjournal") BY <1>25 DEF FinishState, At, world
    <2> QED BY <2>1, StepTo DEF OpOK, Nexts
  <1>26. CASE FinishJournal
    <2>1. op.pc = "finishjournal" /\ UNCHANGED build /\ Done BY <1>26 DEF FinishJournal, At, world
    <2> QED BY <2>1, <1>0, DoneTo DEF OpOK
  <1>27. CASE Undo
    <2>1. /\ op.pc = "undo" /\ UNCHANGED <<build, last>>
          /\ \/ Goto("undoroot")
             \/ op' = [op EXCEPT !.todo = <<<<"recover", Cur>>>>, !.pc = "recover", !.undoing = TRUE]
      BY <1>27 DEF Undo, At, world, Goto
    <2>2. CASE Goto("undoroot") BY <2>1, <2>2, StepTo DEF OpOK, Nexts
    <2>3. CASE op' = [op EXCEPT !.todo = <<<<"recover", Cur>>>>, !.pc = "recover", !.undoing = TRUE]
      <3> DEFINE c == op.cmd
                 u == op.user
                 e == Cur
                 s == One("recover", e)
      <3>1. "recover" \in Tasks /\ "recover" \in TasksOf(c) /\ e \in Edition
        BY <1>0, SMT DEF Tasks, TasksOf, Cleans
      <3>2. op' = [op EXCEPT !.todo = s, !.pc = "recover", !.undoing = TRUE] BY <2>3 DEF One
      <3> HIDE DEF c, u, e
      <3>3. Runnable(c, u, s) /\ Len(s) = 1 /\ s[1] = <<"recover", e>>
        BY <3>1, OneRuns DEF Plain
      <3> HIDE DEF s
      <3>4. s # <<>> /\ s \in Lists BY <3>3, SMTT(30) DEF Runnable, Lists
      <3>5. "recover" \in Steps BY DEF Steps, Tasks
      <3>6. op' \in Jobs BY <3>2, <3>4, <3>5 DEF Types, Jobs
      <3>7. op'.todo = s /\ op'.pc = "recover" /\ op'.cmd = c /\ op'.user = u
        BY <3>2 DEF Types, Jobs, c, u
      <3>8. op.cmd # "none" /\ (op.cmd = "clean" <=> build = 0) BY <2>1, <1>0 DEF Control
      <3>9. "recover" \in StepsOf(s[1][1]) /\ "recover" \notin Stated
        BY <3>3, SMT DEF StepsOf, Stated, Shared, Whole
      <3>10. Control' BY <2>1, <3>3, <3>4, <3>7, <3>8, <3>9 DEF Control, Stated, c
      <3> QED BY <2>1, <3>6, <3>10 DEF OpOK, Types, Codes
    <2> QED BY <2>1, <2>2, <2>3
  <1>28. CASE UndoRoot
    <2>1. op.pc = "undoroot" /\ UNCHANGED build /\ Goto("undoname") BY <1>28 DEF UndoRoot, At, world
    <2> QED BY <2>1, StepTo DEF OpOK, Nexts
  <1>29. CASE UndoName
    <2>1. op.pc = "undoname" /\ UNCHANGED build /\ Goto("undoclean") BY <1>29 DEF UndoName, At, world
    <2> QED BY <2>1, StepTo DEF OpOK, Nexts
  <1>30. CASE UndoClean
    <2>1. Ends("failed") BY <1>30 DEF UndoClean
    <2> QED BY <2>1, IdleTyped DEF Ends, OpOK, Codes, Control
  <1>31. CASE Upgrade
    <2>1. /\ op.pc = "upgrade" /\ UNCHANGED build
          /\ Starts(TRUE) \/ Instead(<<<<"reinstall", Cur>>>>) \/ Abort("confirm")
      BY <1>31 DEF Upgrade, At, world
    <2>2. CASE Starts(TRUE) BY <2>1, <2>2, StartsOK
    <2>3. CASE Abort("confirm") BY <2>1, <2>3, <1>0, AbortTo DEF OpOK, Codes
    <2>4. CASE Instead(<<<<"reinstall", Cur>>>>)
      <3>1. op # Idle /\ op.todo[1][1] = "upgrade" BY <2>1, <1>0, TaskOf
      <3>2. op.cmd \notin {"clean", "sweep"} BY <3>1, Follow
      <3>3. "reinstall" \in Tasks /\ "reinstall" \in TasksOf(op.cmd)
            /\ Later(op.user, "upgrade") \subseteq Later(op.user, "reinstall")
        BY <3>2, SMT DEF TasksOf, Cleans, Tasks, Later
      <3> QED BY <2>1, <2>4, <3>1, <3>3, InsteadOK
    <2> QED BY <2>1, <2>2, <2>3, <2>4
  <1>32. CASE CommitSwap
    <2>1. op.pc = "commitswap" /\ UNCHANGED build /\ Goto("version") BY <1>32 DEF CommitSwap, At, world
    <2> QED BY <2>1, StepTo DEF OpOK, Nexts
  <1>33. CASE Version
    <2>1. op.pc = "version" /\ UNCHANGED build /\ Goto("finish") BY <1>33 DEF Version, At, world
    <2> QED BY <2>1, StepTo DEF OpOK, Nexts
  <1> QED BY <1>1, <1>2, <1>3, <1>4, <1>5, <1>6, <1>7, <1>8, <1>9, <1>10, <1>11, <1>12, <1>13, <1>14, <1>15, <1>16, <1>17, <1>18, <1>19, <1>20, <1>21, <1>22, <1>23, <1>24, <1>25, <1>26, <1>27, <1>28, <1>29, <1>30, <1>31, <1>32, <1>33 DEF Enables


LEMMA RemovesOp ==
  ASSUME Types, Control, Removes
  PROVE OpOK
  <1>0. /\ Cur \in Edition /\ (op.pc # "idle" => op # Idle) /\ profile[Cur] \in Files
        /\ marker[Cur] \in Marked
    BY Running DEF Types
  <1>1. CASE Uninstalls
    <2>1. /\ op.pc = "uninstall" /\ UNCHANGED build
          /\ \/ Done \/ Abort("refused")
             \/ op' = [op EXCEPT !.pc = "examine", !.was = marker[Cur]] /\ UNCHANGED last
      BY <1>1 DEF Uninstalls, At, world
    <2>2. CASE Done BY <2>1, <2>2, <1>0, DoneTo DEF OpOK
    <2>3. CASE Abort("refused") BY <2>1, <2>3, <1>0, AbortTo DEF OpOK, Codes
    <2>4. CASE op' = [op EXCEPT !.pc = "examine", !.was = marker[Cur]] /\ UNCHANGED last
      <3> DEFINE m == marker[Cur]
      <3>1. "examine" \in StepsOf(op.todo[1][1]) /\ op # Idle /\ op.todo[1][1] \in Tasks
            /\ "examine" \notin Stated
        BY <2>1, <1>0, TaskOf, Running, SMT DEF StepsOf, Stated, Shared, Whole
      <3>2. "examine" \in Steps BY DEF Steps
      <3>3. m \in Marked /\ op' = [op EXCEPT !.pc = "examine", !.was = m] /\ last' = last
        BY <2>4, <1>0
      <3> HIDE DEF m
      <3>4. op' \in Jobs /\ op'.pc = "examine" /\ op'.todo = op.todo /\ op'.cmd = op.cmd
            /\ op'.user = op.user
        BY <3>2, <3>3 DEF Types, Jobs
      <3>5. Control' BY <2>1, <3>1, <3>4 DEF Control, Stated
      <3> QED BY <3>3, <3>4, <3>5 DEF OpOK, Types, Codes
    <2> QED BY <2>1, <2>2, <2>3, <2>4
  <1>2. CASE Examine
    <2>1. /\ op.pc = "examine" /\ UNCHANGED build
          /\ \/ Goto("forget") \/ Goto("restate")
             \/ op' = [op EXCEPT !.seen = profile[Cur], !.pc = "excise"] /\ UNCHANGED last
      BY <1>2 DEF Examine, At, world
    <2>2. CASE Goto("forget") \/ Goto("restate") BY <2>1, <2>2, StepTo DEF OpOK, Nexts
    <2>3. CASE op' = [op EXCEPT !.seen = profile[Cur], !.pc = "excise"] /\ UNCHANGED last
      BY <2>1, <2>3, <1>0, ReadTo DEF OpOK, Nexts
    <2> QED BY <2>1, <2>2, <2>3
  <1>3. CASE Excise
    <2>1. op.pc = "excise" /\ UNCHANGED build /\ (Goto("forget") \/ Goto("restate"))
      BY <1>3 DEF Excise, Replaced, At, world
    <2> QED BY <2>1, StepTo DEF OpOK, Nexts
  <1>4. CASE Restate
    <2>1. op.pc = "restate" /\ UNCHANGED build /\ Abort("failed") BY <1>4 DEF Restate, At, world
    <2> QED BY <2>1, <1>0, AbortTo DEF OpOK, Codes
  <1>5. CASE Forget
    <2>1. op.pc = "forget" /\ UNCHANGED build /\ Goto("erase") BY <1>5 DEF Forget, At, world
    <2> QED BY <2>1, StepTo DEF OpOK, Nexts
  <1>6. CASE Erase
    <2>1. op.pc = "erase" /\ UNCHANGED build /\ Goto("erased") BY <1>6 DEF Erase, At, world
    <2> QED BY <2>1, StepTo DEF OpOK, Nexts
  <1>7. CASE Erased
    <2>1. op.pc = "erased" /\ UNCHANGED build /\ Goto("cleanup") BY <1>7 DEF Erased, At, world
    <2> QED BY <2>1, StepTo DEF OpOK, Nexts
  <1>8. CASE Cleanup
    <2>1. op.pc = "cleanup" /\ UNCHANGED build /\ Goto("cleanpayload") BY <1>8 DEF Cleanup, At, world
    <2> QED BY <2>1, StepTo DEF OpOK, Nexts
  <1>9. CASE CleanPayload
    <2>1. op.pc = "cleanpayload" /\ UNCHANGED build /\ Instead(<<<<"modules", Cur>>>>)
      BY <1>9 DEF CleanPayload, At, world
    <2>2. op # Idle /\ op.todo[1][1] = "uninstall" BY <2>1, <1>0, TaskOf
    <2>3. "modules" \in Tasks /\ "modules" \in TasksOf(op.cmd)
          /\ Later(op.user, "uninstall") \subseteq Later(op.user, "modules")
      BY SMT DEF TasksOf, Cleans, Tasks, Later
    <2> QED BY <2>1, <2>2, <2>3, InsteadOK
  <1> QED BY <1>1, <1>2, <1>3, <1>4, <1>5, <1>6, <1>7, <1>8, <1>9 DEF Removes

\* What the orphan clean ends with.
WipeList(e, r) == (Both("strip") \o <<<<"wipe", e>>>>) \o r

LEMMA WipeRuns ==
  ASSUME NEW u, NEW e \in Edition, NEW r, Plain("clean", u, r), Len(r) = 0 \/ r[1][1] \in {"strip", "wipe"},
         \A i \in 1..Len(r) : r[i][1] \in {"strip", "wipe"}
  PROVE Plain("clean", u, WipeList(e, r))
  <1> DEFINE s == Both("strip")
             w == One("wipe", e)
             z == Cat(s, w)
  <1>1. /\ "strip" \in Tasks /\ "strip" \in TasksOf("clean") /\ "strip" \in Later(u, "strip")
        /\ "wipe" \in Tasks /\ "wipe" \in TasksOf("clean")
    BY SMT DEF Tasks, TasksOf, Cleans, Later
  <1>2. Plain("clean", u, s) /\ \A i \in 1..Len(s) : s[i][1] = "strip"
    <2> DEFINE t == "strip"
    <2>1. t \in Tasks /\ t \notin {"rolled", "upgrade"} /\ t \in TasksOf("clean") /\ t \in Later(u, t) BY <1>1
    <2> HIDE DEF t
    <2>2. Plain("clean", u, Both(t)) /\ Len(Both(t)) \in Nat BY <2>1, BothRun, Zenon
    <2>3. \A i \in 1..Len(Both(t)) : Both(t)[i] = <<t, Order[i]>> BY <2>1, BothRun, Zenon
    <2>4. \A i \in 1..Len(Both(t)) : Both(t)[i][1] = t BY <2>3
    <2> QED BY <2>2, <2>4 DEF t, s
  <1>3. Plain("clean", u, w) /\ \A i \in 1..Len(w) : w[i][1] = "wipe"
    <2> DEFINE t == "wipe"
    <2>1. t \in Tasks /\ t \notin {"rolled", "upgrade"} /\ t \in TasksOf("clean") BY <1>1
    <2>2. w = One(t, e) /\ t = "wipe" OBVIOUS
    <2> HIDE DEF t, w
    <2> QED BY <2>1, <2>2, OneRuns
  <1> HIDE DEF s, w
  <1>4. \A i \in 1..Len(s) : \A j \in 1..Len(w) : w[j][1] \in Later(u, s[i][1])
    BY <1>2, <1>3, SMT DEF Later
  <1>5. Plain("clean", u, z) /\ MadeOf(z, s, w) BY <1>2, <1>3, <1>4, Join
  <1> HIDE DEF z
  <1>6. \A i \in 1..Len(z) : z[i][1] \in {"strip", "wipe"} BY <1>2, <1>3, <1>5 DEF MadeOf
  <1>7. \A i \in 1..Len(z) : \A j \in 1..Len(r) : r[j][1] \in Later(u, z[i][1])
    BY <1>6, SMT DEF Later
  <1>8. Plain("clean", u, Cat(z, r)) BY <1>5, <1>7, Join
  <1> QED BY <1>8 DEF z, s, w, WipeList, Cat, One

LEMMA TidiesOp ==
  ASSUME Types, Control, Tidies
  PROVE OpOK
  <1>0. /\ Cur \in Edition /\ (op.pc # "idle" => op # Idle) /\ profile[Cur] \in Files
        /\ NoMarker \in Marked
    BY Running, NotMarked DEF Types
  <1>1. CASE Repair
    <2>1. /\ op.pc = "repair" /\ UNCHANGED build
          /\ \/ Done
             \/ /\ op.user
                /\ Instead(<<<<"reinstall", Cur>>>>) \/ Instead(<<<<"strip", Cur>>>>)
      BY <1>1 DEF Repair, At, world
    <2>2. CASE Done BY <2>1, <2>2, <1>0, DoneTo DEF OpOK
    <2>3. ASSUME op.user PROVE /\ Later(op.user, "repair") = {} /\ op.cmd # "clean"
                               /\ {"reinstall", "strip"} \subseteq Tasks \cap TasksOf(op.cmd)
      <3>1. "repair" \in TasksOf(op.cmd) BY <2>1, <1>0, TaskOf, Running
      <3> QED BY <2>3, <3>1, SMT DEF TasksOf, Cleans, Tasks, Later
    <2>4. op # Idle /\ op.todo[1][1] = "repair" BY <2>1, <1>0, TaskOf
    <2>5. CASE op.user /\ Instead(<<<<"reinstall", Cur>>>>) BY <2>1, <2>3, <2>4, <2>5, InsteadOK
    <2>6. CASE op.user /\ Instead(<<<<"strip", Cur>>>>) BY <2>1, <2>3, <2>4, <2>6, InsteadOK
    <2> QED BY <2>1, <2>2, <2>5, <2>6
  <1>2. CASE ReadStrip
    <2>1. /\ op.pc = "strip" /\ UNCHANGED build
          /\ \/ Done
             \/ op' = [op EXCEPT !.seen = profile[Cur], !.pc = "stripped"] /\ UNCHANGED last
      BY <1>2 DEF ReadStrip, At, world
    <2>2. CASE Done BY <2>1, <2>2, <1>0, DoneTo DEF OpOK
    <2>3. CASE op' = [op EXCEPT !.seen = profile[Cur], !.pc = "stripped"] /\ UNCHANGED last
      BY <2>1, <2>3, <1>0, ReadTo DEF OpOK, Nexts
    <2> QED BY <2>1, <2>2, <2>3
  <1>3. CASE StripBlocks
    <2>1. op.pc = "stripped" /\ UNCHANGED build /\ Done BY <1>3 DEF StripBlocks, At, Replaced
    <2> QED BY <2>1, <1>0, DoneTo DEF OpOK
  <1>4. CASE Modules
    <2>1. op.pc = "modules" /\ UNCHANGED build /\ Done BY <1>4 DEF Modules, At, world
    <2> QED BY <2>1, <1>0, DoneTo DEF OpOK
  <1>5. CASE Leftovers
    <2>1. op.pc = "leftovers" /\ UNCHANGED build /\ Done BY <1>5 DEF Leftovers, At, world
    <2> QED BY <2>1, <1>0, DoneTo DEF OpOK
  <1>6. CASE Swept
    <2>1. /\ op.pc = "swept" /\ UNCHANGED build
          /\ Done \/ Instead(Both("strip") \o <<<<"wipe", Cur>>>>)
      BY <1>6 DEF Swept, At, world
    <2>2. CASE Done BY <2>1, <2>2, <1>0, DoneTo DEF OpOK
    <2>3. CASE Instead(Both("strip") \o <<<<"wipe", Cur>>>>)
      <3>1. op # Idle /\ op.todo[1][1] = "swept" BY <2>1, <1>0, TaskOf
      <3>2. op.cmd = "clean"
        <4>1. "swept" \in TasksOf(op.cmd) BY <3>1, Running
        <4> QED BY <4>1 DEF TasksOf
      <3> DEFINE r == Tail(op.todo)
                 u == op.user
                 e == Cur
      <3>3. Runnable("clean", u, r) /\ Plainly(r) /\ \A i \in 1..Len(r) : r[i][1] \in Later(u, "swept")
        <4>1. Runnable(op.cmd, op.user, op.todo) /\ op.todo # <<>> BY <3>1 DEF Control
        <4> QED BY <3>1, <3>2, <4>1, RestRuns
      <3>4. Continues(WipeList(e, r), op.worst) BY <2>3 DEF Instead, Runs, WipeList
      <3>5. e \in Edition BY <1>0
      <3> HIDE DEF r, u, e
      <3>6. Plain("clean", u, r) /\ Len(r) \in Nat /\ \A i \in 1..Len(r) : r[i][1] \in {"strip", "wipe"}
        BY <3>3, SMT DEF Plain, Later, Runnable, Lists
      <3>7. Plain("clean", u, WipeList(e, r)) BY <3>5, <3>6, WipeRuns
      <3> DEFINE s == WipeList(e, r)
      <3>8. Runnable(op.cmd, op.user, s) BY <3>2, <3>7 DEF Plain, u
      <3>9. op.worst \in BOOLEAN BY DEF Types, Jobs
      <3> HIDE DEF s
      <3> QED BY <2>1, <3>1, <3>4, <3>8, <3>9, ContinuesTo DEF OpOK, s
    <2> QED BY <2>1, <2>2, <2>3
  <1>7. CASE Wipe
    <2>1. op.pc = "wipe" /\ UNCHANGED build /\ Goto("retiretree") BY <1>7 DEF Wipe, At, world
    <2> QED BY <2>1, StepTo DEF OpOK, Nexts
  <1>8. CASE RetireTree
    <2>1. op.pc = "retiretree" /\ UNCHANGED build /\ Done BY <1>8 DEF RetireTree, At, world
    <2> QED BY <2>1, <1>0, DoneTo DEF OpOK
  <1> QED BY <1>1, <1>2, <1>3, <1>4, <1>5, <1>6, <1>7, <1>8 DEF Tidies

\* A new command.
LEMMA CommandOp ==
  ASSUME Types, Control, NEW cmd \in Commands \ {"none"}, NEW e \in Edition, NEW user \in BOOLEAN,
         cmd = "repair" => user, cmd = "repairall" => ~user,
         Command(cmd, e, user), cmd = "clean" <=> build = 0
  PROVE /\ OpOK /\ op = Idle /\ op'.todo = Todo(cmd, e) /\ op'.todo # <<>> /\ op'.pc = Todo(cmd, e)[1][1]
        /\ op'.cmd = cmd /\ op'.user = user /\ ~op'.undoing /\ UNCHANGED <<disk, build, owned, faults, edits>>
  <1> DEFINE s == Todo(cmd, e)
  <1>1. Runnable(cmd, user, s) /\ s # <<>> BY TodoRuns
  <1>2. op' = [Idle EXCEPT !.cmd = cmd, !.user = user, !.todo = s, !.pc = Head(s)[1]] /\ last' = "none"
        /\ op = Idle /\ UNCHANGED <<disk, build, owned, faults, edits>>
    BY DEF Command
  <1>5. s = Todo(cmd, e) OBVIOUS
  <1> HIDE DEF s
  <1>3. s \in Lists /\ Head(s) = s[1] /\ s[1][1] \in Tasks BY <1>1, Listed DEF Runnable
  <1>4. op' = [Idle EXCEPT !.cmd = cmd, !.user = user, !.todo = s, !.pc = s[1][1]] BY <1>2, <1>3
  <1>6. op' \in Jobs BY <1>3, <1>4, IdleTyped, FirstStep DEF Jobs
  <1>7. op'.todo = s /\ op'.pc = s[1][1] /\ op'.cmd = cmd /\ op'.user = user /\ ~op'.undoing
    BY <1>4 DEF Idle
  <1>8. Control' BY <1>1, <1>2, <1>3, <1>7, FirstStep DEF Control, Stated
  <1> QED BY <1>1, <1>2, <1>5, <1>6, <1>7, <1>8 DEF OpOK, Codes

LEMMA FailOp ==
  ASSUME Types, Control, Fail
  PROVE OpOK
  <1>0. /\ Cur \in Edition /\ (op.pc # "idle" => op # Idle) /\ UNCHANGED build BY Running DEF Fail
  <1>1. CASE op.pc \in Undoes /\ Goto("undo")
    <2>1. op.pc # "idle" /\ "undo" \in Nexts(op.pc)
      BY <1>1, SMTT(60) DEF Undoes, Nexts
    <2> QED BY <1>0, <1>1, <2>1, StepTo DEF OpOK
  <1>2. CASE op.pc = "excise" /\ Goto("restate")
    BY <1>0, <1>2, StepTo DEF OpOK, Nexts
  <1>3. CASE op.pc \in Finishes \cup {"stripped"} /\ Done
    BY <1>0, <1>3, DoneTo DEF OpOK, Finishes
  <1>4. CASE op.pc \in Reports /\ Abort("failed")
    BY <1>0, <1>4, AbortTo DEF OpOK, Codes, Reports, Recovering
  <1> QED BY <1>1, <1>2, <1>3, <1>4 DEF Fail

LEMMA WorldOp ==
  ASSUME Types, Control, World
  PROVE OpOK
  <1>0. Order[1] \in Edition BY Somebody
  <1>1. CASE UserCommand
    <2>1. PICK e \in Edition, cmd \in {"enable", "disable", "repair", "sweep"} : Command(cmd, e, TRUE)
      BY <1>1 DEF UserCommand
    <2>2. build # 0 /\ cmd \in Commands \ {"none"} /\ cmd \notin {"clean", "repairall"}
      BY <1>1 DEF UserCommand, Commands
    <2> QED BY <2>1, <2>2, CommandOp
  <1>2. CASE SweepStart BY <1>2 DEF SweepStart, OpOK, Control, Types, Codes
  <1>3. CASE BackgroundEnable
    <2>1. PICK e \in targets : Command("enable", e, FALSE) BY <1>3 DEF BackgroundEnable
    <2>2. build # 0 /\ e \in Edition BY <1>3 DEF BackgroundEnable, Types
    <2> QED BY <2>1, <2>2, CommandOp DEF Commands
  <1>4. CASE BackgroundRepair
    <2>1. build # 0 /\ Command("repairall", Order[1], FALSE) BY <1>4 DEF BackgroundRepair
    <2> QED BY <1>0, <2>1, CommandOp DEF Commands
  <1>5. CASE OrphanClean
    <2>1. build = 0 /\ Command("clean", Order[1], TRUE) BY <1>5 DEF OrphanClean
    <2> QED BY <1>0, <2>1, CommandOp DEF Commands
  <1>6. CASE NewBuild BY <1>6 DEF NewBuild, OpOK, Control, Types, Codes
  <1>7. CASE Remove BY <1>7 DEF Remove, OpOK, Control, Types, Codes
  <1>8. CASE Edit BY <1>8 DEF Edit, OpOK, Control, Types, Codes
  <1>9. CASE Crash BY <1>9, IdleTyped DEF Crash, OpOK, Control, Codes
  <1>10. CASE Fail BY <1>10, FailOp
  <1> QED BY <1>1, <1>2, <1>3, <1>4, <1>5, <1>6, <1>7, <1>8, <1>9, <1>10 DEF World


-----------------------------------------------------------------------------
(* Types of the files and keys.                                             *)

LEMMA Named == /\ Live \in Names
               /\ \A t \in Tx : <<"staging", t>> \in Names /\ <<"removing", t>> \in Names
               /\ \A t \in Tx : <<"staging", t>> # Live /\ <<"removing", t>> # Live
               /\ \A t, v \in Tx : <<"staging", t>> # <<"removing", v>>
  BY SMT DEF Live, Names

LEMMA Nothings == NoSnap \in Saved /\ NoEntry \in Journals /\ 0 \in 0..MaxBuild /\ 1 \in 0..MaxBuild /\ 2 \in 0..MaxBuild
  <1>1. MaxBuild \in Nat /\ MaxBuild >= 2 BY PowerShellAssumption
  <1>2. 0 \in 0..MaxBuild /\ 1 \in 0..MaxBuild /\ 2 \in 0..MaxBuild BY <1>1, SMT
  <1> QED BY <1>2, NotMarked DEF NoSnap, Saved, NoEntry, Journals, Entries, Phases

LEMMA FileKept ==
  ASSUME NEW c \in Files, NEW b \in BOOLEAN
  PROVE Cleaned(c, b) \in Files /\ Strip(c) \in Files /\ WithBlock(c) \in Files
  BY NotMarked DEF Files, Contents, Blocks, Cleaned, Strip, WithBlock, Absent

LEMMA MovedSnap ==
  ASSUME NEW f \in [Names -> Saved], NEW a \in Names, NEW b \in Names
  PROVE Moved(f, a, b, NoSnap) \in [Names -> Saved]
  BY Nothings DEF Moved

LEMMA MovedPayload ==
  ASSUME NEW f \in [Names -> 0..MaxBuild], NEW a \in Names, NEW b \in Names
  PROVE Moved(f, a, b, 0) \in [Names -> 0..MaxBuild]
  BY Nothings DEF Moved

\* The id of a step that needs one.
LEMMA Ids ==
  ASSUME Types, Control, Phased
  PROVE /\ Cur \in Edition /\ J \in Journals /\ (J.phase # "none" => J.tx \in Tx)
        /\ swap.phase # "none" => swap.tx \in Tx
        /\ op.pc \in Stated => T \in Tx
        /\ J.tx \in Tx => Staged \in Saved /\ Recovery \in Saved
  <1>1. Cur \in Edition /\ (op.pc # "idle" => op # Idle) BY Running
  <1>2. op.pc \in Stated => op.pc # "idle" BY DEF Stated, Shared, Whole
  <1>3. op.pc \in Stated => T \in Tx BY <1>1, <1>2 DEF Control, Stated, T
  <1>4. J.tx \in Tx => <<"staging", J.tx>> \in Names BY Named
  <1>5. J.tx \in Tx => Staged \in Saved /\ Recovery \in Saved
    BY <1>1, <1>4, Named DEF Staged, Recovery, Published, Types
  <1> QED BY <1>1, <1>3, <1>5 DEF Types, Journals, J


LEMMA RecoversTypes ==
  ASSUME Types, Control, Phased, Presence, OpOK, Recovers
  PROVE Types'
  <1>0. /\ Cur \in Edition /\ profile[Cur] \in Files /\ marker[Cur] \in Marked /\ J \in Journals
        /\ (J.phase # "none" => J.tx \in Tx) /\ (swap.phase # "none" => swap.tx \in Tx)
        /\ (op.pc \in Stated => T \in Tx) /\ build \in 0..MaxBuild
        /\ op \in Jobs /\ snap[Cur] \in [Names -> Saved]
    BY Ids DEF Types
  <1>a. /\ op.pc \in {"restore", "unpublish", "unretire"} => J.phase = "open" /\ Recovery \in Saved
        /\ op.pc \in {"restore", "unpublish", "unretire"} =>
             <<"staging", J.tx>> \in Names /\ <<"removing", J.tx>> \in Names
    BY <1>0, Ids, Named, SMT DEF Phased, RollingBack
  <1>r. op.pc \in {"rolled"} => [J EXCEPT !.phase = "rolledback"] \in Journals
    BY <1>0, SMT DEF Phased, RollingBack, Journals, Entries, Phases
  <1>v. J.prev # 0 => [marker[Cur] EXCEPT !.present = TRUE, !.version = J.prev, !.orig = J.orig] \in Marked
    BY <1>0 DEF Marked, Markers, Journals, Entries
  <1>s. op.pc = "swaprename" => <<"removing", swap.tx>> \in Names
    <2>1. op.pc = "swaprename" => swap.phase # "none" BY DEF Phased
    <2> QED BY <1>0, <2>1, Named
  <1>1. CASE Recover
    <2>1. UNCHANGED <<profile, marker, snap, journal, payload, swap, tree, build, targets, owned>>
      BY <1>1 DEF Recover, disk, world
    <2> QED BY <2>1 DEF Types, OpOK, Codes
  <1>2. CASE Restore
    <2>1. UNCHANGED <<marker, snap, journal, payload, swap, tree, build, targets, owned>>
      BY <1>2 DEF Restore, world
    <2>2. profile' \in [Edition -> Files]
      BY <1>2, <1>0, Named, Nothings, <1>a DEF Restore, Types, At, SetProfile, Replaced, Saved
    <2> QED BY <2>1, <2>2 DEF Types, OpOK, Codes
  <1>3. CASE Unpublish
    <2>1. UNCHANGED <<profile, marker, journal, payload, swap, tree, build, targets, owned>>
      BY <1>3 DEF Unpublish, world
    <2>2. snap' \in [Edition -> [Names -> Saved]]
      BY <1>3, <1>0, Named, Nothings, <1>a, MovedSnap DEF Unpublish, Types, At
    <2> QED BY <2>1, <2>2 DEF Types, OpOK, Codes
  <1>4. CASE Unretire
    <2>1. UNCHANGED <<profile, marker, journal, payload, swap, tree, build, targets, owned>>
      BY <1>4 DEF Unretire, world
    <2>2. snap' \in [Edition -> [Names -> Saved]]
      BY <1>4, <1>0, Named, Nothings, <1>a, MovedSnap DEF Unretire, Types, At
    <2> QED BY <2>1, <2>2 DEF Types, OpOK, Codes
  <1>5. CASE RestoreValues
    <2>1. UNCHANGED <<profile, snap, journal, payload, swap, tree, build, targets, owned>>
      BY <1>5 DEF RestoreValues, world
    <2>2. marker' \in [Edition -> Marked]
      BY <1>5, <1>0, Named, Nothings, <1>v, NotMarked DEF RestoreValues, Types, SetMarker
    <2> QED BY <2>1, <2>2 DEF Types, OpOK, Codes
  <1>6. CASE RestoreState
    <2>1. UNCHANGED <<profile, snap, journal, payload, swap, tree, build, targets, owned>>
      BY <1>6 DEF RestoreState, world
    <2>2. marker' \in [Edition -> Marked]
      BY <1>6, <1>0, Named, Nothings DEF RestoreState, Types, Marked, Markers
    <2> QED BY <2>1, <2>2 DEF Types, OpOK, Codes
  <1>7. CASE RolledBack
    <2>1. UNCHANGED <<profile, marker, snap, payload, swap, tree, build, targets, owned>>
      BY <1>7 DEF RolledBack, world
    <2>2. journal' \in [Edition -> Journals]
      BY <1>7, <1>0, Named, Nothings, <1>r DEF RolledBack, Types, SetJournal, At, J
    <2> QED BY <2>1, <2>2 DEF Types, OpOK, Codes
  <1>8. CASE TidySwap
    <2>1. UNCHANGED <<profile, marker, snap, journal, swap, tree, build, targets, owned>>
      BY <1>8 DEF TidySwap, world
    <2>2. payload' \in [Names -> 0..MaxBuild]
      BY <1>8, <1>0, Named, Nothings DEF TidySwap, Types, Emptied
    <2> QED BY <2>1, <2>2 DEF Types, OpOK, Codes
  <1>9. CASE TidyDrop
    <2>1. UNCHANGED <<profile, marker, snap, journal, payload, tree, build, targets, owned>>
      BY <1>9 DEF TidyDrop, world
    <2>2. swap' \in Journals
      BY <1>9, <1>0, Named, Nothings DEF TidyDrop, Types
    <2> QED BY <2>1, <2>2 DEF Types, OpOK, Codes
  <1>10. CASE TidyState
    <2>1. UNCHANGED <<profile, marker, journal, payload, swap, tree, build, targets, owned>>
      BY <1>10 DEF TidyState, world
    <2>2. snap' \in [Edition -> [Names -> Saved]]
      BY <1>10, <1>0, Named, Nothings DEF TidyState, Types
    <2> QED BY <2>1, <2>2 DEF Types, OpOK, Codes
  <1>11. CASE DropJournal
    <2>1. UNCHANGED <<profile, marker, snap, payload, swap, tree, build, targets, owned>>
      BY <1>11 DEF DropJournal, world
    <2>2. journal' \in [Edition -> Journals]
      BY <1>11, <1>0, Named, Nothings DEF DropJournal, Types
    <2> QED BY <2>1, <2>2 DEF Types, OpOK, Codes
  <1>12. CASE Swap
    <2>1. UNCHANGED <<profile, marker, snap, journal, payload, swap, tree, build, targets, owned>>
      BY <1>12 DEF Swap, disk, world
    <2> QED BY <2>1 DEF Types, OpOK, Codes
  <1>13. CASE SwapRoot
    <2>1. UNCHANGED <<profile, marker, snap, journal, swap, tree, build, targets, owned>>
      BY <1>13 DEF SwapRoot, world
    <2>2. payload' \in [Names -> 0..MaxBuild]
      BY <1>13, <1>0, Named, Nothings DEF SwapRoot, Types
    <2> QED BY <2>1, <2>2 DEF Types, OpOK, Codes
  <1>14. CASE SwapRename
    <2>1. UNCHANGED <<profile, marker, snap, journal, swap, tree, build, targets, owned>>
      BY <1>14 DEF SwapRename, world
    <2>2. payload' \in [Names -> 0..MaxBuild]
      BY <1>14, <1>0, Named, Nothings, <1>s, MovedPayload DEF SwapRename, Types, At
    <2> QED BY <2>1, <2>2 DEF Types, OpOK, Codes
  <1>15. CASE SwapClean
    <2>1. UNCHANGED <<profile, marker, snap, journal, swap, tree, build, targets, owned>>
      BY <1>15 DEF SwapClean, world
    <2>2. payload' \in [Names -> 0..MaxBuild]
      BY <1>15, <1>0, Named, Nothings DEF SwapClean, Types, Emptied
    <2> QED BY <2>1, <2>2 DEF Types, OpOK, Codes
  <1>16. CASE SwapDrop
    <2>1. UNCHANGED <<profile, marker, snap, journal, payload, tree, build, targets, owned>>
      BY <1>16 DEF SwapDrop, world
    <2>2. swap' \in Journals
      BY <1>16, <1>0, Named, Nothings DEF SwapDrop, Types
    <2> QED BY <2>1, <2>2 DEF Types, OpOK, Codes
  <1> QED BY <1>1, <1>2, <1>3, <1>4, <1>5, <1>6, <1>7, <1>8, <1>9, <1>10, <1>11, <1>12, <1>13, <1>14, <1>15, <1>16 DEF Recovers

LEMMA EnablesTypes ==
  ASSUME Types, Control, Phased, Presence, OpOK, Enables
  PROVE Types'
  <1>0. /\ Cur \in Edition /\ profile[Cur] \in Files /\ marker[Cur] \in Marked /\ J \in Journals
        /\ (J.phase # "none" => J.tx \in Tx) /\ (swap.phase # "none" => swap.tx \in Tx)
        /\ (op.pc \in Stated => T \in Tx) /\ build \in 0..MaxBuild
        /\ op \in Jobs /\ snap[Cur] \in [Names -> Saved]
    BY Ids DEF Types
  <1>m. /\ [present |-> TRUE, state |-> "", version |-> build, orig |-> snap[Cur][Live].orig] \in Marked
        /\ [snap[Cur][Live] EXCEPT !.kind = "adopted"] \in Saved
        /\ [snap[Cur][Live] EXCEPT !.kind = snap[Cur][Live].kind] \in Saved
    <2> DEFINE s == snap[Cur][Live]
    <2>1. s \in Saved /\ build \in 0..MaxBuild BY <1>0, Named
    <2> HIDE DEF s
    <2>2. [present |-> TRUE, state |-> "", version |-> build, orig |-> s.orig] \in Markers
      BY <2>1 DEF Saved, Markers
    <2>3. [s EXCEPT !.kind = "adopted"] \in Saved /\ [s EXCEPT !.kind = s.kind] \in Saved
      BY <2>1 DEF Saved
    <2> QED BY <2>2, <2>3 DEF Marked, s
  <1>e. EmptyTree \in [state : BOOLEAN, legacy : BOOLEAN] BY DEF EmptyTree
  <1>p. op.pc \in {"adopted", "prepared", "installed"} => marker[Cur].present
    BY SMT DEF Presence, MarkerSteps
  <1>u. op.pc = "version" => marker[Cur].present
    <2>1. op.pc = "version" => op.todo[1][1] = "upgrade" /\ op.todo # <<>> BY TaskOf, Running
    <2> QED BY <2>1 DEF Presence, InstalledMarker
  <1>t. op.pc \in Stated => <<"staging", T>> \in Names /\ <<"removing", T>> \in Names
    BY <1>0, Named
  <1>d. {"aside", "deploy", "undoname", "swapjournal", "journal", "retire", "live", "commit"} \subseteq Stated
    BY SMT DEF Stated, Shared, Whole
  <1>j. op.pc \in Stated => Opened(T, NoMarker) \in Journals /\ Opened(T, op.was) \in Journals
    BY <1>0, NotMarked DEF Opened, Journals, Entries, Phases, Jobs, Marked, Markers
  <1>r. op.pc = "commit" => [J EXCEPT !.phase = "committed"] \in Journals
    BY <1>0, SMT DEF Phased, Open, Journals, Entries, Phases
  <1>q. /\ OriginalPresent(op.seen, op.was) \in BOOLEAN
        /\ [kind |-> "full", before |-> op.seen, orig |-> OriginalPresent(op.seen, op.was)] \in Saved
    BY <1>0 DEF OriginalPresent, Jobs, Files, Contents, Marked, Markers, Saved
  <1>1. CASE Enable
    <2>1. UNCHANGED <<profile, marker, snap, journal, payload, swap, tree, build, targets, owned>>
      BY <1>1 DEF Enable, disk, world
    <2> QED BY <2>1 DEF Types, OpOK, Codes
  <1>2. CASE Tree
    <2>1. UNCHANGED <<profile, marker, snap, journal, swap, build, targets, owned>>
      BY <1>2 DEF Tree, world
    <2>2. payload' \in [Names -> 0..MaxBuild]
      BY <1>2, <1>0, Named, Nothings DEF Tree, Types
    <2>3. tree' \in [state : BOOLEAN, legacy : BOOLEAN]
      BY <1>2, <1>0, Named, Nothings, <1>e DEF Tree, Types
    <2> QED BY <2>1, <2>2, <2>3 DEF Types, OpOK, Codes
  <1>3. CASE Install
    <2>1. UNCHANGED <<profile, marker, snap, journal, payload, swap, tree, build, targets, owned>>
      BY <1>3 DEF Install, disk, world
    <2> QED BY <2>1 DEF Types, OpOK, Codes
  <1>4. CASE Reinstall
    <2>1. UNCHANGED <<profile, marker, snap, journal, payload, swap, tree, build, targets, owned>>
      BY <1>4 DEF Reinstall, disk, world
    <2> QED BY <2>1 DEF Types, OpOK, Codes
  <1>5. CASE Adopt
    <2>1. UNCHANGED <<profile, journal, payload, swap, tree, build, targets, owned>>
      BY <1>5 DEF Adopt, world
    <2>2. marker' \in [Edition -> Marked]
      BY <1>5, <1>0, Named, Nothings, <1>m DEF Adopt, Types, SetMarker
    <2>3. snap' \in [Edition -> [Names -> Saved]]
      <3> DEFINE s == snap[Cur][Live]
      <3>1. \/ snap' = snap
            \/ snap' = [snap EXCEPT ![Cur][Live].kind = "adopted"]
            \/ snap' = [snap EXCEPT ![Cur][Live].kind = @]
        BY <1>5 DEF Adopt
      <3>2. snap \in [Edition -> [Names -> Saved]] BY DEF Types
      <3>3. CASE snap' = snap BY <3>2, <3>3
      <3>4. CASE snap' = [snap EXCEPT ![Cur][Live].kind = "adopted"] BY <3>2, <3>4, <1>0, <1>m, Named
      <3>5. CASE snap' = [snap EXCEPT ![Cur][Live].kind = @] BY <3>2, <3>5, <1>0, <1>m, Named
      <3> QED BY <3>1, <3>3, <3>4, <3>5
    <2> QED BY <2>1, <2>2, <2>3 DEF Types, OpOK, Codes
  <1>6. CASE Adopted
    <2>1. UNCHANGED <<profile, snap, journal, payload, swap, tree, build, targets, owned>>
      BY <1>6 DEF Adopted, world
    <2>2. marker' \in [Edition -> Marked]
      BY <1>6, <1>0, Named, Nothings, <1>p DEF Adopted, Types, At, Marked, Markers
    <2> QED BY <2>1, <2>2 DEF Types, OpOK, Codes
  <1>7. CASE Resume
    <2>1. UNCHANGED <<profile, marker, snap, journal, payload, swap, tree, build, targets, owned>>
      BY <1>7 DEF Resume, disk, world
    <2> QED BY <2>1 DEF Types, OpOK, Codes
  <1>8. CASE Begin
    <2>1. UNCHANGED <<profile, marker, snap, journal, payload, swap, tree, build, targets, owned>>
      BY <1>8 DEF Begin, disk, world
    <2> QED BY <2>1 DEF Types, OpOK, Codes
  <1>9. CASE Ensure
    <2>1. UNCHANGED <<profile, marker, snap, journal, swap, tree, build, targets, owned>>
      BY <1>9 DEF Ensure, world
    <2>2. payload' \in [Names -> 0..MaxBuild]
      BY <1>9, <1>0, Named, Nothings DEF Ensure, Types
    <2> QED BY <2>1, <2>2 DEF Types, OpOK, Codes
  <1>10. CASE SwapJournal
    <2>1. UNCHANGED <<profile, marker, snap, journal, payload, tree, build, targets, owned>>
      BY <1>10 DEF SwapJournal, world
    <2>2. swap' \in Journals
      BY <1>10, <1>0, Named, Nothings, <1>j, <1>d DEF SwapJournal, Types, At
    <2> QED BY <2>1, <2>2 DEF Types, OpOK, Codes
  <1>11. CASE Aside
    <2>1. UNCHANGED <<profile, marker, snap, journal, swap, tree, build, targets, owned>>
      BY <1>11 DEF Aside, world
    <2>2. payload' \in [Names -> 0..MaxBuild]
      BY <1>11, <1>0, Named, Nothings, <1>t, <1>d, MovedPayload DEF Aside, Types, At
    <2> QED BY <2>1, <2>2 DEF Types, OpOK, Codes
  <1>12. CASE Deploy
    <2>1. UNCHANGED <<profile, marker, snap, journal, swap, tree, build, targets, owned>>
      BY <1>12 DEF Deploy, world
    <2>2. payload' \in [Names -> 0..MaxBuild]
      BY <1>12, <1>0, Named, Nothings, <1>t, <1>d, MovedPayload DEF Deploy, Types, At
    <2> QED BY <2>1, <2>2 DEF Types, OpOK, Codes
  <1>13. CASE Stage
    <2>1. UNCHANGED <<profile, marker, journal, payload, swap, build, targets, owned>>
      BY <1>13 DEF Stage, world
    <2>2. snap' \in [Edition -> [Names -> Saved]]
      BY <1>13, <1>0, Named, Nothings, <1>q DEF Stage, Types
    <2>3. tree' \in [state : BOOLEAN, legacy : BOOLEAN]
      BY <1>13, <1>0, Named, Nothings DEF Stage, Types
    <2> QED BY <2>1, <2>2, <2>3 DEF Types, OpOK, Codes
  <1>14. CASE OpenJournal
    <2>1. UNCHANGED <<profile, marker, snap, payload, swap, tree, build, targets, owned>>
      BY <1>14 DEF OpenJournal, world
    <2>2. journal' \in [Edition -> Journals]
      BY <1>14, <1>0, Named, Nothings, <1>j, <1>d DEF OpenJournal, Types, At
    <2> QED BY <2>1, <2>2 DEF Types, OpOK, Codes
  <1>15. CASE Publish
    <2>1. UNCHANGED <<profile, snap, journal, payload, swap, tree, build, targets, owned>>
      BY <1>15 DEF Publish, world
    <2>2. marker' \in [Edition -> Marked]
      BY <1>15, <1>0, Named, Nothings, <1>q DEF Publish, Types, SetMarker, Marked, Markers
    <2> QED BY <2>1, <2>2 DEF Types, OpOK, Codes
  <1>16. CASE Prepared
    <2>1. UNCHANGED <<profile, snap, journal, payload, swap, tree, build, targets, owned>>
      BY <1>16 DEF Prepared, world
    <2>2. marker' \in [Edition -> Marked]
      BY <1>16, <1>0, Named, Nothings, <1>p DEF Prepared, Types, At, Marked, Markers
    <2> QED BY <2>1, <2>2 DEF Types, OpOK, Codes
  <1>17. CASE Retire
    <2>1. UNCHANGED <<profile, marker, journal, payload, swap, tree, build, targets, owned>>
      BY <1>17 DEF Retire, world
    <2>2. snap' \in [Edition -> [Names -> Saved]]
      BY <1>17, <1>0, Named, Nothings, <1>t, <1>d, MovedSnap DEF Retire, Types, At
    <2> QED BY <2>1, <2>2 DEF Types, OpOK, Codes
  <1>18. CASE GoLive
    <2>1. UNCHANGED <<profile, marker, journal, payload, swap, tree, build, targets, owned>>
      BY <1>18 DEF GoLive, world
    <2>2. snap' \in [Edition -> [Names -> Saved]]
      BY <1>18, <1>0, Named, Nothings, <1>t, <1>d, MovedSnap DEF GoLive, Types, At
    <2> QED BY <2>1, <2>2 DEF Types, OpOK, Codes
  <1>19. CASE Write
    <2>1. UNCHANGED <<marker, snap, journal, payload, swap, tree, build, targets, owned>>
      BY <1>19 DEF Write, world
    <2>2. profile' \in [Edition -> Files]
      BY <1>19, <1>0, Named, Nothings, FileKept DEF Write, Types, SetProfile, Replaced, Jobs
    <2> QED BY <2>1, <2>2 DEF Types, OpOK, Codes
  <1>20. CASE MarkInstalled
    <2>1. UNCHANGED <<profile, snap, journal, payload, swap, tree, build, targets, owned>>
      BY <1>20 DEF MarkInstalled, world
    <2>2. marker' \in [Edition -> Marked]
      BY <1>20, <1>0, Named, Nothings, <1>p DEF MarkInstalled, Types, At, Marked, Markers
    <2> QED BY <2>1, <2>2 DEF Types, OpOK, Codes
  <1>21. CASE Verify
    <2>1. UNCHANGED <<profile, marker, snap, journal, payload, swap, tree, build, targets, owned>>
      BY <1>21 DEF Verify, disk, world
    <2> QED BY <2>1 DEF Types, OpOK, Codes
  <1>22. CASE Commit
    <2>1. UNCHANGED <<profile, marker, snap, payload, swap, tree, build, targets, owned>>
      BY <1>22 DEF Commit, world
    <2>2. journal' \in [Edition -> Journals]
      BY <1>22, <1>0, Named, Nothings, <1>r DEF Commit, Types, SetJournal, At, J
    <2> QED BY <2>1, <2>2 DEF Types, OpOK, Codes
  <1>23. CASE Finish
    <2>1. UNCHANGED <<profile, marker, snap, journal, swap, tree, build, targets, owned>>
      BY <1>23 DEF Finish, world
    <2>2. payload' \in [Names -> 0..MaxBuild]
      BY <1>23, <1>0, Named, Nothings DEF Finish, Types
    <2> QED BY <2>1, <2>2 DEF Types, OpOK, Codes
  <1>24. CASE FinishSwap
    <2>1. UNCHANGED <<profile, marker, snap, journal, payload, tree, build, targets, owned>>
      BY <1>24 DEF FinishSwap, world
    <2>2. swap' \in Journals
      BY <1>24, <1>0, Named, Nothings DEF FinishSwap, Types
    <2> QED BY <2>1, <2>2 DEF Types, OpOK, Codes
  <1>25. CASE FinishState
    <2>1. UNCHANGED <<profile, marker, journal, payload, swap, tree, build, targets, owned>>
      BY <1>25 DEF FinishState, world
    <2>2. snap' \in [Edition -> [Names -> Saved]]
      BY <1>25, <1>0, Named, Nothings DEF FinishState, Types
    <2> QED BY <2>1, <2>2 DEF Types, OpOK, Codes
  <1>26. CASE FinishJournal
    <2>1. UNCHANGED <<profile, marker, snap, payload, swap, tree, build, targets, owned>>
      BY <1>26 DEF FinishJournal, world
    <2>2. journal' \in [Edition -> Journals]
      BY <1>26, <1>0, Named, Nothings DEF FinishJournal, Types
    <2> QED BY <2>1, <2>2 DEF Types, OpOK, Codes
  <1>27. CASE Undo
    <2>1. UNCHANGED <<profile, marker, journal, payload, swap, tree, build, targets, owned>>
      BY <1>27 DEF Undo, world
    <2>2. snap' \in [Edition -> [Names -> Saved]]
      <3>1. snap' = snap \/ snap' = [snap EXCEPT ![Cur][<<"staging", T>>] = NoSnap] BY <1>27 DEF Undo
      <3>2. CASE snap' = snap BY <3>2 DEF Types
      <3>3. CASE snap' = [snap EXCEPT ![Cur][<<"staging", T>>] = NoSnap]
        <4> DEFINE n == <<"staging", T>>
        <4>1. n \in Names BY <1>27, <1>t DEF Undo, At, Stated, Shared
        <4>2. snap' = [snap EXCEPT ![Cur][n] = NoSnap] BY <3>3
        <4> HIDE DEF n
        <4> QED BY <4>1, <4>2, <1>0, Nothings DEF Types
      <3> QED BY <3>1, <3>2, <3>3
    <2> QED BY <2>1, <2>2 DEF Types, OpOK, Codes
  <1>28. CASE UndoRoot
    <2>1. UNCHANGED <<profile, marker, snap, journal, swap, tree, build, targets, owned>>
      BY <1>28 DEF UndoRoot, world
    <2>2. payload' \in [Names -> 0..MaxBuild]
      BY <1>28, <1>0, Named, Nothings DEF UndoRoot, Types
    <2> QED BY <2>1, <2>2 DEF Types, OpOK, Codes
  <1>29. CASE UndoName
    <2>1. UNCHANGED <<profile, marker, snap, journal, swap, tree, build, targets, owned>>
      BY <1>29 DEF UndoName, world
    <2>2. payload' \in [Names -> 0..MaxBuild]
      BY <1>29, <1>0, Named, Nothings, <1>t, <1>d, MovedPayload DEF UndoName, Types, At
    <2> QED BY <2>1, <2>2 DEF Types, OpOK, Codes
  <1>30. CASE UndoClean
    <2>1. UNCHANGED <<profile, marker, snap, journal, tree, build, targets, owned>>
      BY <1>30 DEF UndoClean, world
    <2>2. payload' \in [Names -> 0..MaxBuild]
      BY <1>30, <1>0, Named, Nothings DEF UndoClean, Types
    <2>3. swap' \in Journals
      BY <1>30, <1>0, Named, Nothings DEF UndoClean, Types
    <2> QED BY <2>1, <2>2, <2>3 DEF Types, OpOK, Codes
  <1>31. CASE Upgrade
    <2>1. UNCHANGED <<profile, marker, snap, journal, payload, swap, tree, build, targets, owned>>
      BY <1>31 DEF Upgrade, disk, world
    <2> QED BY <2>1 DEF Types, OpOK, Codes
  <1>32. CASE CommitSwap
    <2>1. UNCHANGED <<profile, marker, snap, journal, payload, tree, build, targets, owned>>
      BY <1>32 DEF CommitSwap, world
    <2>2. swap' \in Journals
      BY <1>32, <1>0, Named, Nothings DEF CommitSwap, Types, OwnSwap, Journals, Entries, Phases
    <2> QED BY <2>1, <2>2 DEF Types, OpOK, Codes
  <1>33. CASE Version
    <2>1. UNCHANGED <<profile, snap, journal, payload, swap, tree, build, targets, owned>>
      BY <1>33 DEF Version, world
    <2>2. marker' \in [Edition -> Marked]
      BY <1>33, <1>0, Named, Nothings, <1>u DEF Version, Types, At, Marked, Markers
    <2> QED BY <2>1, <2>2 DEF Types, OpOK, Codes
  <1> QED BY <1>1, <1>2, <1>3, <1>4, <1>5, <1>6, <1>7, <1>8, <1>9, <1>10, <1>11, <1>12, <1>13, <1>14, <1>15, <1>16, <1>17, <1>18, <1>19, <1>20, <1>21, <1>22, <1>23, <1>24, <1>25, <1>26, <1>27, <1>28, <1>29, <1>30, <1>31, <1>32, <1>33 DEF Enables

LEMMA RemovesTypes ==
  ASSUME Types, Control, Phased, Presence, OpOK, Removes
  PROVE Types'
  <1>0. /\ Cur \in Edition /\ profile[Cur] \in Files /\ marker[Cur] \in Marked /\ J \in Journals
        /\ (J.phase # "none" => J.tx \in Tx) /\ (swap.phase # "none" => swap.tx \in Tx)
        /\ (op.pc \in Stated => T \in Tx) /\ build \in 0..MaxBuild
        /\ op \in Jobs /\ snap[Cur] \in [Names -> Saved]
    BY Ids DEF Types
  <1>p. op.pc = "restate" => marker[Cur].present
    BY SMT DEF Presence, MarkerSteps
  <1>x. ToExcise \in Files
    <2>1. snap[Cur][Live] \in Saved BY <1>0, Named
    <2>2. op.seen \in Files /\ op.was.orig \in BOOLEAN BY <1>0 DEF Jobs, Marked, Markers
    <2> QED BY <2>1, <2>2, FileKept DEF ToExcise, Saved
  <1>z. marker[Cur].present => [marker[Cur] EXCEPT !.state = "removing"] \in Marked
    BY <1>0 DEF Marked, Markers
  <1>b. tree.legacy \in BOOLEAN BY DEF Types
  <1>1. CASE Uninstalls
    <2>1. UNCHANGED <<profile, snap, journal, payload, swap, tree, build, targets, owned>>
      BY <1>1 DEF Uninstalls, world
    <2>2. marker' \in [Edition -> Marked]
      BY <1>1, <1>0, Named, Nothings, <1>z DEF Uninstalls, Types
    <2> QED BY <2>1, <2>2 DEF Types, OpOK, Codes
  <1>2. CASE Examine
    <2>1. UNCHANGED <<profile, marker, snap, journal, payload, swap, tree, build, targets, owned>>
      BY <1>2 DEF Examine, disk, world
    <2> QED BY <2>1 DEF Types, OpOK, Codes
  <1>3. CASE Excise
    <2>1. UNCHANGED <<marker, snap, journal, payload, swap, tree, build, targets, owned>>
      BY <1>3 DEF Excise, world
    <2>2. profile' \in [Edition -> Files]
      BY <1>3, <1>0, Named, Nothings, <1>x DEF Excise, Types, Replaced, SetProfile
    <2> QED BY <2>1, <2>2 DEF Types, OpOK, Codes
  <1>4. CASE Restate
    <2>1. UNCHANGED <<profile, snap, journal, payload, swap, tree, build, targets, owned>>
      BY <1>4 DEF Restate, world
    <2>2. marker' \in [Edition -> Marked]
      BY <1>4, <1>0, Named, Nothings, <1>p DEF Restate, Types, At, Marked, Markers, Jobs
    <2> QED BY <2>1, <2>2 DEF Types, OpOK, Codes
  <1>5. CASE Forget
    <2>1. UNCHANGED <<profile, snap, journal, payload, swap, tree, build, targets, owned>>
      BY <1>5 DEF Forget, world
    <2>2. marker' \in [Edition -> Marked]
      BY <1>5, <1>0, Named, Nothings, NotMarked DEF Forget, Types, SetMarker
    <2> QED BY <2>1, <2>2 DEF Types, OpOK, Codes
  <1>6. CASE Erase
    <2>1. UNCHANGED <<profile, marker, journal, payload, swap, tree, build, targets, owned>>
      BY <1>6 DEF Erase, world
    <2>2. snap' \in [Edition -> [Names -> Saved]]
      BY <1>6, <1>0, Named, Nothings DEF Erase, Types, Saved
    <2> QED BY <2>1, <2>2 DEF Types, OpOK, Codes
  <1>7. CASE Erased
    <2>1. UNCHANGED <<profile, marker, journal, payload, swap, tree, build, targets, owned>>
      BY <1>7 DEF Erased, world
    <2>2. snap' \in [Edition -> [Names -> Saved]]
      BY <1>7, <1>0, Named, Nothings DEF Erased, Types
    <2> QED BY <2>1, <2>2 DEF Types, OpOK, Codes
  <1>8. CASE Cleanup
    <2>1. UNCHANGED <<profile, marker, snap, journal, payload, swap, build, targets, owned>>
      BY <1>8 DEF Cleanup, world
    <2>2. tree' \in [state : BOOLEAN, legacy : BOOLEAN]
      BY <1>8, <1>0, Named, Nothings, <1>b DEF Cleanup, Types
    <2> QED BY <2>1, <2>2 DEF Types, OpOK, Codes
  <1>9. CASE CleanPayload
    <2>1. UNCHANGED <<profile, marker, snap, journal, swap, tree, build, targets, owned>>
      BY <1>9 DEF CleanPayload, world
    <2>2. payload' \in [Names -> 0..MaxBuild]
      BY <1>9, <1>0, Named, Nothings DEF CleanPayload, Types
    <2> QED BY <2>1, <2>2 DEF Types, OpOK, Codes
  <1> QED BY <1>1, <1>2, <1>3, <1>4, <1>5, <1>6, <1>7, <1>8, <1>9 DEF Removes

LEMMA TidiesTypes ==
  ASSUME Types, Control, Phased, Presence, OpOK, Tidies
  PROVE Types'
  <1>0. /\ Cur \in Edition /\ profile[Cur] \in Files /\ marker[Cur] \in Marked /\ J \in Journals
        /\ (J.phase # "none" => J.tx \in Tx) /\ (swap.phase # "none" => swap.tx \in Tx)
        /\ (op.pc \in Stated => T \in Tx) /\ build \in 0..MaxBuild
        /\ op \in Jobs /\ snap[Cur] \in [Names -> Saved]
    BY Ids DEF Types
  <1>e. EmptyTree \in [state : BOOLEAN, legacy : BOOLEAN] BY DEF EmptyTree
  <1>1. CASE Repair
    <2>1. UNCHANGED <<profile, marker, snap, journal, payload, swap, tree, build, targets, owned>>
      BY <1>1 DEF Repair, disk, world
    <2> QED BY <2>1 DEF Types, OpOK, Codes
  <1>2. CASE ReadStrip
    <2>1. UNCHANGED <<profile, marker, snap, journal, payload, swap, tree, build, targets, owned>>
      BY <1>2 DEF ReadStrip, disk, world
    <2> QED BY <2>1 DEF Types, OpOK, Codes
  <1>3. CASE StripBlocks
    <2>1. UNCHANGED <<marker, snap, journal, payload, swap, tree, build, targets>>
      BY <1>3 DEF StripBlocks
    <2>2. profile' \in [Edition -> Files]
      BY <1>3, <1>0, Named, Nothings, FileKept DEF StripBlocks, Types, Replaced, SetProfile, Jobs
    <2>3. owned' \in [Edition -> [text : Texts, file : BOOLEAN]]
      <3> DEFINE c == Cur
                 b == profile'[Cur].present
      <3>1. owned' = [owned EXCEPT ![c].file = @ /\ b] BY <1>3 DEF StripBlocks
      <3>2. c \in Edition /\ b \in BOOLEAN BY <2>2, <1>0 DEF Files, Contents
      <3>3. owned \in [Edition -> [text : Texts, file : BOOLEAN]] BY DEF Types
      <3> HIDE DEF c, b
      <3>4. owned[c] \in [text : Texts, file : BOOLEAN] BY <3>2, <3>3
      <3>5. (owned[c].file /\ b) \in BOOLEAN OBVIOUS
      <3>6. [owned[c] EXCEPT !.file = @ /\ b] \in [text : Texts, file : BOOLEAN] BY <3>4, <3>5
      <3> QED BY <3>1, <3>3, <3>6
    <2> QED BY <2>1, <2>2, <2>3 DEF Types, OpOK, Codes
  <1>4. CASE Modules
    <2>1. UNCHANGED <<profile, marker, snap, journal, payload, swap, build, targets, owned>>
      BY <1>4 DEF Modules, world
    <2>2. tree' \in [state : BOOLEAN, legacy : BOOLEAN]
      BY <1>4, <1>0, Named, Nothings DEF Modules, Types, AllSettled, StateUsed
    <2> QED BY <2>1, <2>2 DEF Types, OpOK, Codes
  <1>5. CASE Leftovers
    <2>1. UNCHANGED <<profile, marker, snap, journal, swap, tree, build, targets, owned>>
      BY <1>5 DEF Leftovers, world
    <2>2. payload' \in [Names -> 0..MaxBuild]
      BY <1>5, <1>0, Named, Nothings DEF Leftovers, Types
    <2> QED BY <2>1, <2>2 DEF Types, OpOK, Codes
  <1>6. CASE Swept
    <2>1. UNCHANGED <<profile, marker, snap, journal, payload, swap, tree, build, targets, owned>>
      BY <1>6 DEF Swept, disk, world
    <2> QED BY <2>1 DEF Types, OpOK, Codes
  <1>7. CASE Wipe
    <2>1. UNCHANGED <<profile, snap, journal, payload, swap, tree, build, targets, owned>>
      BY <1>7 DEF Wipe, world
    <2>2. marker' \in [Edition -> Marked]
      BY <1>7, <1>0, Named, Nothings, NotMarked DEF Wipe, Types
    <2> QED BY <2>1, <2>2 DEF Types, OpOK, Codes
  <1>8. CASE RetireTree
    <2>1. UNCHANGED <<profile, marker, build, targets, owned>>
      BY <1>8 DEF RetireTree, world
    <2>2. snap' \in [Edition -> [Names -> Saved]]
      BY <1>8, <1>0, Named, Nothings DEF RetireTree, Types
    <2>3. journal' \in [Edition -> Journals]
      BY <1>8, <1>0, Named, Nothings DEF RetireTree, Types
    <2>4. payload' \in [Names -> 0..MaxBuild]
      BY <1>8, <1>0, Named, Nothings DEF RetireTree, Types
    <2>5. swap' \in Journals
      BY <1>8, <1>0, Named, Nothings DEF RetireTree, Types
    <2>6. tree' \in [state : BOOLEAN, legacy : BOOLEAN]
      BY <1>8, <1>0, Named, Nothings, <1>e DEF RetireTree, Types
    <2> QED BY <2>1, <2>2, <2>3, <2>4, <2>5, <2>6 DEF Types, OpOK, Codes
  <1> QED BY <1>1, <1>2, <1>3, <1>4, <1>5, <1>6, <1>7, <1>8 DEF Tidies

LEMMA WorldTypes ==
  ASSUME Types, Control, OpOK, World
  PROVE Types'
  <1>1. CASE UserCommand
    <2>1. UNCHANGED <<disk, build, owned, targets>> BY <1>1 DEF UserCommand, Command
    <2> QED BY <2>1 DEF Types, OpOK, Codes, disk
  <1>2. CASE SweepStart
    <2>1. UNCHANGED <<disk, build, owned>> /\ targets' \subseteq Edition BY <1>2 DEF SweepStart
    <2> QED BY <2>1 DEF Types, OpOK, Codes, disk
  <1>3. CASE BackgroundEnable
    <2>1. UNCHANGED <<disk, build, owned>> /\ targets' \subseteq targets
      BY <1>3 DEF BackgroundEnable, Command
    <2> QED BY <2>1 DEF Types, OpOK, Codes, disk
  <1>4. CASE BackgroundRepair
    <2>1. UNCHANGED <<disk, build, owned, targets>> BY <1>4 DEF BackgroundRepair, Command
    <2> QED BY <2>1 DEF Types, OpOK, Codes, disk
  <1>5. CASE OrphanClean
    <2>1. UNCHANGED <<disk, build, owned, targets>> BY <1>5 DEF OrphanClean, Command
    <2> QED BY <2>1 DEF Types, OpOK, Codes, disk
  <1>6. CASE NewBuild
    <2>1. UNCHANGED <<disk, owned, targets>> BY <1>6 DEF NewBuild
    <2>2. build' \in 0..MaxBuild
      <3>1. MaxBuild \in Nat /\ build \in 0..MaxBuild BY PowerShellAssumption DEF Types
      <3> QED BY <1>6, <3>1 DEF NewBuild
    <2> QED BY <2>1, <2>2 DEF Types, OpOK, Codes, disk
  <1>7. CASE Remove
    <2>1. UNCHANGED <<disk, owned>> /\ build' \in 0..MaxBuild /\ targets' = {} BY <1>7, Nothings DEF Remove
    <2> QED BY <2>1 DEF Types, OpOK, Codes, disk
  <1>8. CASE Edit
    <2>1. UNCHANGED <<marker, snap, journal, payload, swap, tree, build, targets>> BY <1>8 DEF Edit
    <2>2. PICK e \in Edition : \E c \in {[profile[e] EXCEPT !.present = TRUE, !.text = x] : x \in Texts}
                                      \cup {Strip(profile[e]), Absent} :
            profile' = [profile EXCEPT ![e] = c] /\ owned' = [owned EXCEPT ![e] = UsersFile(c)]
      BY <1>8, PowerShellAssumption DEF Edit, SetProfile
    <2>6. PICK c \in {[profile[e] EXCEPT !.present = TRUE, !.text = x] : x \in Texts}
                       \cup {Strip(profile[e]), Absent} :
            profile' = [profile EXCEPT ![e] = c] /\ owned' = [owned EXCEPT ![e] = UsersFile(c)]
      BY <2>2
    <2>3. c \in Files
      <3>1. profile[e] \in Files BY DEF Types
      <3>2. CASE c \in {[profile[e] EXCEPT !.present = TRUE, !.text = x] : x \in Texts}
        BY <3>1, <3>2 DEF Files, Contents
      <3>3. CASE c = Strip(profile[e]) BY <3>1, <3>3, FileKept
      <3>4. CASE c = Absent BY <3>4, NotMarked
      <3> QED BY <2>6, <3>2, <3>3, <3>4
    <2>4. UsersFile(c) \in [text : Texts, file : BOOLEAN] BY <2>3 DEF UsersFile, Files, Contents
    <2>5. profile' \in [Edition -> Files] /\ owned' \in [Edition -> [text : Texts, file : BOOLEAN]]
      BY <2>6, <2>3, <2>4 DEF Types
    <2> QED BY <2>1, <2>5 DEF Types, OpOK, Codes
  <1>9. CASE Crash
    <2>1. UNCHANGED <<disk, build, owned, targets>> BY <1>9 DEF Crash
    <2> QED BY <2>1 DEF Types, OpOK, Codes, disk
  <1>10. CASE Fail
    <2>1. UNCHANGED <<disk, build, owned, targets>> BY <1>10 DEF Fail
    <2> QED BY <2>1 DEF Types, OpOK, Codes, disk
  <1> QED BY <1>1, <1>2, <1>3, <1>4, <1>5, <1>6, <1>7, <1>8, <1>9, <1>10 DEF World

\* Every step keeps types and control.
LEMMA TypesStep ==
  ASSUME Types, Control, Phased, Presence, [Next]_vars
  PROVE Types' /\ Control'
  <1>1. CASE Recovers
    <2>1. OpOK BY <1>1, RecoversOp
    <2> QED BY <1>1, <2>1, RecoversTypes DEF OpOK
  <1>2. CASE Enables
    <2>1. OpOK BY <1>2, EnablesOp
    <2> QED BY <1>2, <2>1, EnablesTypes DEF OpOK
  <1>3. CASE Removes
    <2>1. OpOK BY <1>3, RemovesOp
    <2> QED BY <1>3, <2>1, RemovesTypes DEF OpOK
  <1>4. CASE Tidies
    <2>1. OpOK BY <1>4, TidiesOp
    <2> QED BY <1>4, <2>1, TidiesTypes DEF OpOK
  <1>5. CASE World
    <2>1. OpOK BY <1>5, WorldOp
    <2> QED BY <1>5, <2>1, WorldTypes DEF OpOK
  <1>6. CASE UNCHANGED vars
    BY <1>6 DEF vars, disk, Types, Control
  <1> QED BY <1>1, <1>2, <1>3, <1>4, <1>5, <1>6 DEF Next


-----------------------------------------------------------------------------
(* Journals, the payload's swap, and the marker, from step to step.         *)

Midway == Phased /\ Presence /\ JournalsShut /\ SwapShut

LEMMA EndMid ==
  ASSUME op' = Idle
  PROVE Midway'
  <1>1. op'.pc = "idle" /\ op'.todo = <<>> /\ Len(op'.todo) = 0 /\ ~op'.undoing /\ op' = Idle
    BY SMT DEF Idle
  <1>2. Phased' BY <1>1, SMT DEF Phased, RollingBack, Open, Finishes
  <1>3. Presence' BY <1>1, SMT DEF Presence, MarkerSteps
  <1>4. JournalsShut' /\ SwapShut' BY <1>1 DEF JournalsShut, SwapShut
  <1> QED BY <1>2, <1>3, <1>4 DEF Midway

\* Once recovery is over nothing is left open.
LEMMA Quiet ==
  ASSUME Types, Control, Midway, op.pc # "idle", op.todo[1][1] \notin Backs
  PROVE /\ op.pc \notin Opens => \A e \in Edition : journal[e].phase # "open"
        /\ \A e \in Edition \ {Cur} : journal[e].phase # "open"
        /\ op.todo[1][1] \notin {"modules", "leftovers"} /\ op.pc \notin Swaps => swap.phase = "none"
        /\ \A i \in 1..Len(op.todo) : op.todo[i][1] \notin Backs
        /\ ~op.undoing
        /\ op.todo[1][1] \notin {"modules", "leftovers"} => Plainly(Tail(op.todo))
        /\ Plainly(Tail(op.todo))
  <1>1. op # Idle /\ op.todo \in Lists /\ op.todo # <<>> /\ Runnable(op.cmd, op.user, op.todo)
        /\ op.todo[1][1] \in Tasks
    BY Running DEF Control
  <1>2. Len(op.todo) \in Nat /\ Len(op.todo) >= 1 BY <1>1, Listed
  <1>3. \A i \in 1..Len(op.todo) : i = 1 \/ op.todo[i][1] \in Later(op.user, op.todo[1][1])
    BY <1>1, <1>2 DEF Runnable, Ordered
  <1>4. Later(op.user, op.todo[1][1]) \cap Backs = {} BY <1>1, SMT DEF Later, Backs, Tasks
  <1>5. \A i \in 1..Len(op.todo) : op.todo[i][1] \notin Backs BY <1>3, <1>4
  <1>6. ~op.undoing BY <1>2, <1>5 DEF Midway, Phased
  <1>7. \A e \in Edition : ~HasTask({"recover", "rolled"}, e) /\ ~HasTask({"swap"}, e)
    BY <1>5 DEF HasTask, Backs
  <1>8. Plainly(Tail(op.todo)) BY <1>1, RestRuns DEF Backs
  <1> QED BY <1>1, <1>2, <1>5, <1>6, <1>7, <1>8 DEF Midway, JournalsShut, SwapShut

\* A task starts when nothing is open.
LEMMA BegunMid ==
  ASSUME Types, Control, Types', Control', NEW s, Starting(s), s # <<>> => Plainly(s), ~op.undoing,
         \A e \in Edition : journal'[e].phase # "open",
         swap'.phase = "none" \/ \A i \in 1..Len(s) : s[i][1] \in {"modules", "leftovers"}
  PROVE Midway'
  <1>1. CASE op' = Idle BY <1>1, EndMid
  <1>2. CASE op' # Idle
    <2>1. s # <<>> /\ op'.todo = s /\ op'.pc = s[1][1] /\ ~op'.undoing BY <1>2 DEF Starting
    <2>2. s \in Lists BY <1>2, <2>1 DEF Control, Runnable
    <2>3. Len(s) \in Nat /\ Len(s) >= 1 /\ s[1][1] \in Tasks /\ Plainly(s) BY <2>1, <2>2, Listed
    <2>4. s[1][1] \notin {"rolled", "upgrade"} /\ (Len(s) > 1 => s[2][1] # "rolled")
      BY <2>3, SMT DEF Plainly
    <2>5. op'.pc \in Tasks \ {"rolled", "upgrade"} BY <2>1, <2>3, <2>4
    <2>6. ~RollingBack' BY <2>1, <2>4, <2>5, SMT DEF RollingBack, Tasks
    <2>7. Phased' BY <2>1, <2>5, <2>6, SMT DEF Phased, Tasks, Open, Finishes
    <2>8. Presence' BY <2>1, <2>4, <2>5, SMT DEF Presence, Tasks, MarkerSteps
    <2>9. JournalsShut' BY DEF JournalsShut
    <2>10. SwapShut' BY <2>1 DEF SwapShut
    <2> QED BY <2>7, <2>8, <2>9, <2>10 DEF Midway
  <1> QED BY <1>1, <1>2

\* The next task of a command that is past its recovery.
LEMMA NextMid ==
  ASSUME Types, Control, Midway, Types', Control', op.pc # "idle", Starting(Tail(op.todo)),
         op.todo[1][1] \notin Backs,
         \A e \in Edition : journal'[e].phase = "open" => journal[e].phase = "open" /\ op.pc \notin Opens,
         swap'.phase # "none" => swap.phase # "none"
  PROVE Midway'
  <1>1. /\ \A e \in Edition : journal'[e].phase # "open"
        /\ \A i \in 1..Len(op.todo) : op.todo[i][1] \notin Backs
        /\ ~op.undoing /\ Plainly(Tail(op.todo))
    BY Quiet
  <1>0. op # Idle /\ op.todo \in Lists /\ op.todo # <<>> /\ Runnable(op.cmd, op.user, op.todo)
    BY Running DEF Control
  <1>2. /\ \A i \in 1..Len(Tail(op.todo)) : Tail(op.todo)[i] = op.todo[i + 1] /\ i + 1 \in 1..Len(op.todo)
        /\ \A i \in 1..Len(Tail(op.todo)) : Tail(op.todo)[i][1] \in Later(op.user, op.todo[1][1])
    <2>1. \A i \in 1..Len(Tail(op.todo)) : Tail(op.todo)[i] = op.todo[i + 1]
      BY <1>0, Listed
    <2>2. Len(op.todo) \in Nat /\ Len(Tail(op.todo)) = Len(op.todo) - 1 BY <1>0, Listed
    <2>3. \A i \in 1..Len(Tail(op.todo)) : i + 1 \in 1..Len(op.todo) BY <2>2
    <2> QED BY <1>0, <2>1, <2>3, RestRuns
  <1>3. swap'.phase = "none" \/ \A i \in 1..Len(Tail(op.todo)) : Tail(op.todo)[i][1] \in {"modules", "leftovers"}
    <2>1. CASE op.pc \in Swaps
      <3>1. op.todo[1][1] \in {"begin", "replace", "upgrade"} BY <2>1, TaskOf, SMT DEF Swaps
      <3>2. Later(op.user, op.todo[1][1]) = {"modules", "leftovers"} BY <3>1, SMT DEF Later
      <3> QED BY <1>2, <3>2
    <2>2. CASE op.pc \notin Swaps
      <3>1. swap.phase = "none" \/ \A i \in 1..Len(op.todo) : op.todo[i][1] \in {"modules", "leftovers"}
        BY <1>0, <1>1, <2>2 DEF Midway, SwapShut, HasTask, Backs
      <3> QED BY <1>2, <3>1
    <2> QED BY <2>1, <2>2
  <1> DEFINE s == Tail(op.todo)
  <1>4. /\ Starting(s) /\ Plainly(s)
        /\ swap'.phase = "none" \/ \A i \in 1..Len(s) : s[i][1] \in {"modules", "leftovers"}
    BY <1>1, <1>3
  <1> HIDE DEF s
  <1> QED BY <1>1, <1>4, BegunMid

\* The next task of a recovery.
LEMMA BackMid ==
  ASSUME Types, Control, Midway, Types', Control', op.pc # "idle", Starting(Tail(op.todo)),
         op.todo[1][1] \in Backs,
         \A e \in Edition : journal'[e].phase = "open" => journal[e].phase = "open",
         op.todo[1][1] \in {"recover", "rolled"} => journal'[Cur].phase # "open",
         op.todo[1][1] = "swap" => UNCHANGED journal /\ swap'.phase = "none",
         swap'.phase # "none" => swap.phase # "none"
  PROVE Midway'
  <1>1. CASE op' = Idle BY <1>1, EndMid
  <1>2. CASE op' # Idle
    <2> DEFINE s == Tail(op.todo)
    <2>0. op # Idle /\ op.todo \in Lists /\ op.todo # <<>> /\ Runnable(op.cmd, op.user, op.todo)
          /\ Cur = op.todo[1][2]
      BY Running DEF Control
    <2>1. s # <<>> /\ op'.todo = s /\ op'.pc = s[1][1] /\ op'.undoing = op.undoing
          /\ op' # Idle
      BY <1>2 DEF Starting
    <2>2. /\ s \in Lists /\ Len(s) \in Nat /\ Len(s) = Len(op.todo) - 1 /\ Len(op.todo) \in Nat
          /\ \A i \in 1..Len(s) : s[i] = op.todo[i + 1]
      BY <2>0, Listed, SMT DEF Lists
    <2>3. Runnable(op.cmd, op.user, s)
          /\ (s[1][1] = "rolled" => s[1][2] = op.todo[1][2] /\ op.todo[1][1] = "swap")
      <3> DEFINE c == op.cmd
                 u == op.user
                 l == op.todo
      <3>1. Runnable(c, u, l) /\ l # <<>> BY <2>0
      <3> HIDE DEF c, u, l
      <3>2. /\ Runnable(c, u, Tail(l))
            /\ Tail(l) # <<>> /\ Tail(l)[1][1] = "rolled" => Tail(l)[1][2] = l[1][2] /\ l[1][1] = "swap"
        BY <3>1, RestRuns
      <3> QED BY <2>1, <3>2 DEF c, u, l
    <2>4. \A i \in 1..Len(s) : s[i][1] # "upgrade" /\ (s[i][1] = "rolled" => i = 1)
      <3>1. \A i \in 1..Len(s) : i + 1 \in 1..Len(op.todo) /\ i + 1 # 1 /\ (i + 1 = 2 => i = 1)
        BY <2>2
      <3> QED BY <2>0, <2>2, <3>1 DEF Runnable, RolledNext
    <2> HIDE DEF s
    <2>5. Len(s) >= 1 /\ s[1][1] \in Tasks BY <2>1, <2>2, Listed
    <2>6. s[1][1] # "upgrade" /\ ~(Len(s) > 1 /\ s[2][1] = "rolled")
      <3>1. 1 \in 1..Len(s) /\ (Len(s) > 1 => 2 \in 1..Len(s)) BY <2>2, <2>5
      <3> QED BY <2>4, <3>1
    <2>7. Cur' = s[1][2] /\ s[1][2] \in Edition
      BY <2>1, <2>2, <2>5, Listed DEF Cur
    <2>8. s[1][1] = "rolled" => J'.phase = "open"
      <3> SUFFICES ASSUME s[1][1] = "rolled" PROVE J'.phase = "open" OBVIOUS
      <3>1. Cur' = Cur /\ op.todo[1][1] = "swap" /\ UNCHANGED journal BY <2>0, <2>3, <2>7
      <3>2. s[1] = op.todo[2] /\ Len(op.todo) > 1 BY <2>2, <2>5
      <3>3. J.phase = "open" BY <3>2 DEF Midway, Phased, RollingBack
      <3> QED BY <3>1, <3>3 DEF J
    <2>9. op'.pc \in Tasks /\ op'.pc # "upgrade" BY <2>1, <2>5, <2>6
    <2>10. RollingBack' => J'.phase = "open" BY <2>1, <2>6, <2>8, <2>9, SMT DEF RollingBack, Tasks
    <2>11. op.undoing => \A i \in 1..Len(s) : s[i][1] \in Backs
      <3>1. \A i \in 1..Len(s) : i + 1 \in 1..Len(op.todo) BY <2>2
      <3> QED BY <2>2, <3>1 DEF Midway, Phased
    <2>12. Phased' BY <2>1, <2>9, <2>10, <2>11, SMT DEF Phased, Tasks, Open, Finishes
    <2>13. Presence' BY <2>1, <2>6, <2>9, SMT DEF Presence, Tasks, MarkerSteps
    <2>14. \A names \in {{"recover", "rolled"}, {"swap"}} : \A e \in Edition :
             HasTask(names, e) => (op.todo[1][1] \in names /\ e = Cur) \/ HasTask(names, e)'
      <3> SUFFICES ASSUME NEW names \in {{"recover", "rolled"}, {"swap"}}, NEW e \in Edition,
                          HasTask(names, e), ~(op.todo[1][1] \in names /\ e = Cur)
                   PROVE HasTask(names, e)'
        OBVIOUS
      <3>1. PICK i \in 1..Len(op.todo) : op.todo[i][1] \in names /\ op.todo[i][2] = e BY DEF HasTask
      <3>2. i # 1 BY <2>0, <3>1
      <3>3. i - 1 \in 1..Len(s) /\ s[i - 1] = op.todo[i] BY <2>2, <3>2
      <3> QED BY <2>1, <3>1, <3>3 DEF HasTask
    <2>15. JournalsShut'
      <3>1. op.pc \notin Opens
        BY TaskOf, SMT DEF Opens, Backs, Shared, Whole
      <3> QED BY <2>0, <2>14, <3>1 DEF Midway, JournalsShut
    <2>16. SwapShut'
      <3>1. op.pc \notin Swaps BY TaskOf, SMT DEF Swaps, Backs, Shared, Whole
      <3>2. swap'.phase # "none" => (\E e \in Edition : HasTask({"swap"}, e)) \/ op.undoing
        <4>1. 1 \in 1..Len(op.todo) BY <2>2, <2>5
        <4> QED BY <2>0, <3>1, <4>1 DEF Midway, SwapShut, Backs
      <3> QED BY <2>1, <2>14, <3>2 DEF SwapShut
    <2> QED BY <2>12, <2>13, <2>15, <2>16 DEF Midway
  <1> QED BY <1>1, <1>2

\* Another step of the same task.
LEMMA GoMid ==
  ASSUME Types, Control, Midway, op.pc # "idle", NEW q,
         op'.todo = op.todo, op'.pc = q, op'.undoing = op.undoing,
         q \in {"restore", "unpublish", "unretire", "values", "state", "rolled"} \cup Open => J'.phase = "open",
         q \in {"tidyswap", "tidydrop", "tidystate", "dropjournal"} => J'.phase \in {"committed", "rolledback"},
         q \in Finishes => J'.phase # "open",
         q \in {"swaproot", "swaprename", "swapclean", "swapdrop"} => swap'.phase # "none",
         q \in MarkerSteps => marker'[Cur].present,
         op.todo[1][1] = "upgrade" => marker'[Cur].present /\ marker'[Cur].state = "installed",
         \A e \in Edition \ {Cur} : journal'[e] = journal[e],
         J'.phase = "open" => q \in Opens \/ (J.phase = "open" /\ op.pc \notin Opens),
         op.todo[1][1] = "swap" => UNCHANGED journal,
         swap'.phase # "none" => q \in Swaps \/ (swap.phase # "none" /\ op.pc \notin Swaps)
  PROVE Midway'
  <1>0. op # Idle /\ op.todo \in Lists /\ op.todo # <<>> /\ Runnable(op.cmd, op.user, op.todo)
        /\ Cur = op.todo[1][2] /\ Cur \in Edition
    BY Running DEF Control
  <1>1. Cur' = Cur /\ J' = journal'[Cur] BY DEF Cur, J
  <1>2. RollingBack' => J'.phase = "open"
    <2>1. CASE Len(op.todo) > 1 /\ op.todo[2][1] = "rolled"
      <3>1. J.phase = "open" BY <2>1 DEF Midway, Phased, RollingBack
      <3>2. op.todo[1][1] = "swap"
        <4>1. 2 \in 1..Len(op.todo) BY <1>0, <2>1, SMT DEF Lists
        <4> QED BY <1>0, <2>1, <4>1, SMT DEF Runnable, RolledNext
      <3> QED BY <1>1, <3>1, <3>2 DEF J
    <2> QED BY <2>1 DEF RollingBack
  <1>3. Phased' BY <1>2, SMT DEF Midway, Phased
  <1>4. Presence' BY <1>1, SMT DEF Presence, InstalledMarker
  <1>5. \A names, e : HasTask(names, e)' <=> HasTask(names, e) BY DEF HasTask
  <1>6. JournalsShut'
    <2> SUFFICES ASSUME NEW e \in Edition, journal'[e].phase = "open"
                 PROVE HasTask({"recover", "rolled"}, e)' \/ (e = Cur' /\ op'.pc \in Opens)
      BY DEF JournalsShut
    <2> QED BY <1>0, <1>1, <1>5 DEF Midway, JournalsShut, J
  <1>7. SwapShut' BY <1>0, <1>5 DEF Midway, SwapShut
  <1> QED BY <1>3, <1>4, <1>6, <1>7 DEF Midway


LEMMA GotoMid ==
  ASSUME Types, Control, Midway, op.pc # "idle", NEW q, Goto(q),
         q \in {"restore", "unpublish", "unretire", "values", "state", "rolled"} \cup Open => J'.phase = "open",
         q \in {"tidyswap", "tidydrop", "tidystate", "dropjournal"} => J'.phase \in {"committed", "rolledback"},
         q \in Finishes => J'.phase # "open",
         q \in {"swaproot", "swaprename", "swapclean", "swapdrop"} => swap'.phase # "none",
         q \in MarkerSteps => marker'[Cur].present,
         op.todo[1][1] = "upgrade" => marker'[Cur].present /\ marker'[Cur].state = "installed",
         \A e \in Edition \ {Cur} : journal'[e] = journal[e],
         J'.phase = "open" => q \in Opens \/ (J.phase = "open" /\ op.pc \notin Opens),
         op.todo[1][1] = "swap" => UNCHANGED journal,
         swap'.phase # "none" => q \in Swaps \/ (swap.phase # "none" /\ op.pc \notin Swaps)
  PROVE Midway'
  <1>1. op'.todo = op.todo /\ op'.pc = q /\ op'.undoing = op.undoing BY DEF Goto, Types, Jobs
  <1> QED BY <1>1, GoMid

\* Another step of a recovery.
LEMMA BackGo ==
  ASSUME Types, Control, Midway, op.pc # "idle", op.todo[1][1] \in Backs,
         NEW q \in UNION {StepsOf(t) : t \in Backs}, Goto(q) \/ op' = [op EXCEPT !.seen = profile[Cur], !.pc = q],
         UNCHANGED journal,
         q \in {"restore", "unpublish", "unretire", "values", "state", "rolled"} => J.phase = "open",
         q \in {"tidyswap", "tidydrop", "tidystate", "dropjournal"} => J.phase \in {"committed", "rolledback"},
         q \in {"swaproot", "swaprename", "swapclean", "swapdrop"} => swap'.phase # "none",
         swap'.phase # "none" => swap.phase # "none"
  PROVE Midway'
  <1>1. op'.todo = op.todo /\ op'.pc = q /\ op'.undoing = op.undoing BY DEF Goto, Types, Jobs
  <1>2. op.pc \notin Opens /\ op.pc \notin Swaps /\ op.todo[1][1] # "upgrade"
    BY TaskOf, SMT DEF Opens, Swaps, Backs, Shared, Whole
  <1>3. q \notin Finishes \cup MarkerSteps \cup Open
    BY SMT DEF StepsOf, Finishes, MarkerSteps, Open, Backs
  <1>4. J' = J BY <1>1 DEF J, Cur
  <1> QED BY <1>1, <1>2, <1>3, <1>4, GoMid

LEMMA RollAt ==
  ASSUME NEW r \in Lists, NEW e \in Edition
  PROVE /\ RollList(e, r)[1][1] = "swap" /\ RollList(e, r)[1][2] = e
        /\ RollList(e, r)[2][1] = "rolled" /\ RollList(e, r)[2][2] = e
        /\ Len(RollList(e, r)) = Len(r) + 2
        /\ \A i \in 1..Len(r) : RollList(e, r)[i + 2] = r[i]
  BY SMT DEF RollList, Lists

\* A rollback goes through the payload's.
LEMMA RollMid ==
  ASSUME Types, Control, Midway, op.pc = "state", UNCHANGED <<journal, swap>>,
         Starting(RollList(Cur, Tail(op.todo))), J.phase = "open"
  PROVE Midway'
  <1>1. CASE op' = Idle BY <1>1, EndMid
  <1>2. CASE op' # Idle
    <2> DEFINE s == RollList(Cur, Tail(op.todo))
               r == Tail(op.todo)
    <2>0. op # Idle /\ op.todo \in Lists /\ op.todo # <<>> /\ Runnable(op.cmd, op.user, op.todo)
          /\ Cur = op.todo[1][2] /\ Cur \in Edition /\ op.todo[1][1] = "recover"
      BY Running, TaskOf DEF Control
    <2>1. s # <<>> /\ op'.todo = s /\ op'.pc = s[1][1] /\ op'.undoing = op.undoing
      BY <1>2 DEF Starting
    <2>2. /\ Len(r) \in Nat /\ Len(r) = Len(op.todo) - 1 /\ Len(op.todo) \in Nat
          /\ \A i \in 1..Len(r) : r[i] = op.todo[i + 1]
      BY <2>0, Listed, SMT DEF Lists
    <2>3. /\ s[1][1] = "swap" /\ s[1][2] = Cur /\ s[2][1] = "rolled" /\ s[2][2] = Cur /\ Len(s) = Len(r) + 2
          /\ \A i \in 1..Len(r) : s[i + 2] = r[i]
      <3>1. Runnable(op.cmd, op.user, r) /\ Plainly(r) BY <2>0, RestRuns
      <3>2. r \in Lists BY <3>1 DEF Runnable
      <3> HIDE DEF r
      <3>3. /\ RollList(Cur, r)[1][1] = "swap" /\ RollList(Cur, r)[1][2] = Cur
            /\ RollList(Cur, r)[2][1] = "rolled" /\ RollList(Cur, r)[2][2] = Cur
            /\ Len(RollList(Cur, r)) = Len(r) + 2
            /\ \A i \in 1..Len(r) : RollList(Cur, r)[i + 2] = r[i]
        BY <2>0, <3>2, RollAt
      <3> QED BY <3>3 DEF r
    <2> HIDE DEF s, r
    <2>l. Len(r) \in Nat /\ Len(op.todo) = Len(r) + 1 /\ Len(s) = Len(r) + 2 BY <2>2, <2>3
    <2>4. Cur' = Cur
      <3>1. op'.todo # <<>> /\ Head(s) = s[1] BY <2>1, <2>2, <2>3
      <3> QED BY <2>1, <2>3, <3>1 DEF Cur
    <2>5. J'.phase = "open" /\ op'.pc = "swap" BY <2>1, <2>3, <2>4 DEF J
    <2>6. op.undoing => \A i \in 1..Len(s) : s[i][1] \in Backs
      <3> SUFFICES ASSUME op.undoing, NEW i \in 1..Len(s) PROVE s[i][1] \in Backs OBVIOUS
      <3>1. CASE i > 2
        <4>1. i - 2 \in 1..Len(r) /\ s[i] = r[i - 2] /\ i - 1 \in 1..Len(op.todo) /\ r[i - 2] = op.todo[i - 1]
          BY <2>2, <2>3, <3>1, SMTT(30)
        <4> QED BY <4>1 DEF Midway, Phased
      <3>2. i = 1 \/ i = 2 \/ i > 2 BY <2>2, <2>3
      <3> QED BY <2>3, <3>1, <3>2 DEF Backs
    <2>7. Phased' BY <2>1, <2>5, <2>6, SMT DEF Phased, Open, Finishes
    <2>8. Presence' BY <2>1, <2>3, <2>5, SMT DEF Presence, MarkerSteps
    <2>9. \A e \in Edition : HasTask({"recover", "rolled"}, e) => HasTask({"recover", "rolled"}, e)'
      <3> SUFFICES ASSUME NEW e \in Edition, HasTask({"recover", "rolled"}, e)
                   PROVE HasTask({"recover", "rolled"}, e)'
        OBVIOUS
      <3>1. PICK i \in 1..Len(op.todo) : op.todo[i][1] \in {"recover", "rolled"} /\ op.todo[i][2] = e
        BY DEF HasTask
      <3>2. CASE i = 1
        <4>1. 2 \in 1..Len(s) /\ s[2][1] = "rolled" /\ s[2][2] = e BY <2>0, <2>2, <2>3, <3>1, <3>2
        <4> QED BY <2>1, <4>1 DEF HasTask
      <3>3. CASE i # 1
        <4>1. i - 1 \in 1..Len(r) /\ i + 1 \in 1..Len(s) /\ r[i - 1] = op.todo[i] /\ s[i + 1] = r[i - 1]
          <5>1. i - 1 \in 1..Len(r) /\ i + 1 \in 1..Len(s) /\ (i - 1) + 1 = i /\ (i - 1) + 2 = i + 1
            BY <2>l, <3>3
          <5> QED BY <2>2, <2>3, <5>1
        <4> QED BY <2>1, <3>1, <4>1 DEF HasTask
      <3> QED BY <3>2, <3>3
    <2>10. op.pc \notin Opens BY DEF Opens
    <2>11. JournalsShut' BY <2>0, <2>9, <2>10 DEF Midway, JournalsShut
    <2>12. HasTask({"swap"}, Cur)'
      <3>1. 1 \in 1..Len(s) BY <2>l
      <3> QED BY <2>1, <2>3, <2>4, <3>1 DEF HasTask
    <2>13. SwapShut' BY <2>0, <2>4, <2>12 DEF SwapShut
    <2> QED BY <2>7, <2>8, <2>11, <2>13 DEF Midway
  <1> QED BY <1>1, <1>2

LEMMA RecoversMid ==
  ASSUME Types, Control, Midway, Types', Control', Recovers
  PROVE Midway'
  <1>0. /\ Cur \in Edition /\ J \in Journals /\ (op.pc # "idle" => op # Idle)
        /\ J.phase \in {"none", "open", "committed", "rolledback"}
        /\ NoEntry.phase = "none"
    BY Running DEF Types, Journals, Entries, Phases, J, NoEntry
  <1>s. op.pc # "idle" => /\ op.pc \in {"recover", "restore", "unpublish", "unretire", "values", "state",
                                        "tidyswap", "tidydrop", "tidystate", "dropjournal", "rolled"}
                              => op.todo[1][1] \in {"recover", "rolled"}
                          /\ op.pc \in {"swap", "swaproot", "swaprename", "swapclean", "swapdrop"}
                              => op.todo[1][1] = "swap"
    BY TaskOf
  <1>b. {"recover", "rolled", "swap"} \subseteq Backs BY DEF Backs
  <1>q. {"restore", "unpublish", "unretire", "values", "state", "rolled", "tidyswap", "tidydrop",
         "tidystate", "dropjournal", "swaproot", "swaprename", "swapclean", "swapdrop"}
          \subseteq UNION {StepsOf(t) : t \in Backs}
    <2>1. {"restore", "unpublish", "unretire", "values", "state", "rolled", "tidyswap", "tidydrop",
           "tidystate", "dropjournal"} \subseteq StepsOf("recover")
          /\ {"swaproot", "swaprename", "swapclean", "swapdrop"} \subseteq StepsOf("swap")
      BY SMT DEF StepsOf
    <2> QED BY <2>1, <1>b
  <1>p. /\ op.pc \in {"restore", "unpublish", "unretire", "values", "state", "rolled"} => J.phase = "open"
        /\ op.pc \in {"tidyswap", "tidydrop", "tidystate", "dropjournal"} => J.phase \in {"committed", "rolledback"}
        /\ op.pc \in {"swaproot", "swaprename", "swapclean", "swapdrop"} => swap.phase # "none"
    BY SMT DEF Midway, Phased, RollingBack
  <1>1. CASE Recover
    <2>0. op.pc = "recover" /\ UNCHANGED <<journal, swap, build>> /\ op.todo[1][1] = "recover"
      BY <1>1, TaskOf DEF Recover, At, world, disk
    <2>1. \/ J.phase = "none" /\ Done
          \/ J.phase \notin {"none", "open"} /\ Goto("tidyswap")
          \/ J.phase = "open" /\ Goto("unpublish")
          \/ Abort("refused") \/ Abort("confirm")
          \/ J.phase = "open" /\ op' = [op EXCEPT !.seen = profile[Cur], !.pc = "restore"]
      BY <1>1 DEF Recover
    <2>2. CASE J.phase = "none" /\ Done
      <3>1. Starting(Tail(op.todo)) BY <1>0, <2>0, <2>2, DoneTo
      <3> QED BY <1>b, <2>0, <2>2, <3>1, BackMid DEF J
    <2>3. CASE J.phase \notin {"none", "open"} /\ Goto("tidyswap")
      BY <1>0, <1>b, <1>q, <2>0, <2>3, BackGo
    <2>4. CASE J.phase = "open" /\ Goto("unpublish") BY <1>b, <1>q, <2>0, <2>4, BackGo
    <2>5. CASE Abort("refused") \/ Abort("confirm")
      <3>1. op' = Idle BY <1>0, <2>0, <2>5, AbortTo DEF Codes, Recovering
      <3> QED BY <3>1, EndMid
    <2>6. CASE J.phase = "open" /\ op' = [op EXCEPT !.seen = profile[Cur], !.pc = "restore"]
      BY <1>b, <1>q, <2>0, <2>6, BackGo
    <2> QED BY <2>1, <2>2, <2>3, <2>4, <2>5, <2>6
  <1>2. CASE Restore
    <2>1. /\ op.pc = "restore" /\ UNCHANGED <<build, journal, swap>>
          /\ Goto("unpublish") \/ Abort("refused")
      BY <1>2 DEF Restore, At, world, Replaced
    <2>2. CASE Goto("unpublish") BY <2>1, <2>2, <1>s, <1>b, <1>p, <1>q, BackGo
    <2>3. CASE Abort("refused")
      <3>1. op' = Idle BY <1>0, <2>1, <2>3, AbortTo DEF Codes, Recovering
      <3> QED BY <3>1, EndMid
    <2> QED BY <2>1, <2>2, <2>3
  <1>3. CASE Unpublish
    <2>1. op.pc = "unpublish" /\ UNCHANGED <<journal, swap>> /\ Goto("unretire") BY <1>3 DEF Unpublish, At
    <2> QED BY <2>1, <1>s, <1>b, <1>p, <1>q, BackGo
  <1>4. CASE Unretire
    <2>1. op.pc = "unretire" /\ UNCHANGED <<journal, swap>> /\ Goto("values") BY <1>4 DEF Unretire, At
    <2> QED BY <2>1, <1>s, <1>b, <1>p, <1>q, BackGo
  <1>5. CASE RestoreValues
    <2>1. op.pc = "values" /\ UNCHANGED <<journal, swap>> /\ Goto("state") BY <1>5 DEF RestoreValues, At
    <2> QED BY <2>1, <1>s, <1>b, <1>p, <1>q, BackGo
  <1>6. CASE RestoreState
    <2>1. /\ op.pc = "state" /\ UNCHANGED <<build, journal, swap>>
          /\ Goto("rolled") \/ Instead(<<<<"swap", Cur>>, <<"rolled", Cur>>>>)
      BY <1>6 DEF RestoreState, At, world
    <2>2. CASE Goto("rolled") BY <2>1, <2>2, <1>s, <1>b, <1>p, <1>q, BackGo
    <2>3. CASE Instead(<<<<"swap", Cur>>, <<"rolled", Cur>>>>)
      <3>1. op # Idle /\ op.todo[1][1] = "recover" BY <2>1, <1>0, TaskOf
      <3>2. Runnable(op.cmd, op.user, Tail(op.todo)) /\ Plainly(Tail(op.todo))
        BY <3>1, RestRuns DEF Control
      <3> DEFINE s == RollList(Cur, Tail(op.todo))
      <3>3. Runnable(op.cmd, op.user, s) BY <3>2, <1>0, RollsOn
      <3>4. op.worst \in BOOLEAN /\ Continues(s, op.worst)
        BY <2>3 DEF Types, Jobs, Instead, Runs, RollList
      <3> HIDE DEF s
      <3>5. Starting(s) BY <2>1, <3>1, <3>3, <3>4, ContinuesTo
      <3> QED BY <2>1, <3>5, <1>p, RollMid DEF s
    <2> QED BY <2>1, <2>2, <2>3
  <1>7. CASE RolledBack
    <2>1. op.pc = "rolled" /\ journal' = [journal EXCEPT ![Cur].phase = "rolledback"] /\ UNCHANGED swap
          /\ Goto("tidystate")
      BY <1>7 DEF RolledBack, At, SetJournal
    <2>2. op.todo[1][1] \in {"recover", "rolled"} BY <2>1, <1>s
    <2>3. /\ \A e \in Edition \ {Cur} : journal'[e] = journal[e]
          /\ journal'[Cur].phase = "rolledback"
      <3>1. journal \in [Edition -> Journals] BY DEF Types
      <3> QED BY <2>1, <3>1, <1>0 DEF Journals, Entries
    <2>4. J'.phase = "rolledback"
      <3>1. Cur' = Cur BY <2>1 DEF Goto, Cur, Types, Jobs
      <3> QED BY <2>3, <3>1 DEF J
    <2>5. op.pc \notin Opens /\ op.pc \notin Swaps BY <2>1, SMT DEF Opens, Swaps, Shared, Whole
    <2>6. "tidystate" \notin Finishes \cup MarkerSteps \cup Open BY SMT DEF Finishes, MarkerSteps, Open
    <2> QED BY <2>1, <2>2, <2>3, <2>4, <2>5, <2>6, GotoMid
  <1>8. CASE TidySwap
    <2>1. op.pc = "tidyswap" /\ UNCHANGED <<journal, swap>> /\ (Goto("tidydrop") \/ Goto("tidystate"))
      BY <1>8 DEF TidySwap, At
    <2>2. CASE Goto("tidydrop") BY <2>1, <2>2, <1>s, <1>b, <1>p, <1>q, BackGo
    <2>3. CASE Goto("tidystate") BY <2>1, <2>3, <1>s, <1>b, <1>p, <1>q, BackGo
    <2> QED BY <2>1, <2>2, <2>3
  <1>9. CASE TidyDrop
    <2>1. op.pc = "tidydrop" /\ UNCHANGED journal /\ swap'.phase = "none" /\ Goto("tidystate")
      BY <1>9, <1>0 DEF TidyDrop, At
    <2> QED BY <2>1, <1>s, <1>b, <1>p, <1>q, BackGo
  <1>10. CASE TidyState
    <2>1. op.pc = "tidystate" /\ UNCHANGED <<journal, swap>> /\ Goto("dropjournal") BY <1>10 DEF TidyState, At
    <2> QED BY <2>1, <1>s, <1>b, <1>p, <1>q, BackGo
  <1>11. CASE DropJournal
    <2>1. op.pc = "dropjournal" /\ UNCHANGED <<build, swap>> /\ Done
          /\ journal' = [journal EXCEPT ![Cur] = NoEntry]
      BY <1>11 DEF DropJournal, At, world
    <2>2. /\ journal'[Cur].phase = "none"
          /\ \A e \in Edition : journal'[e].phase = "open" => journal[e].phase = "open"
      BY <2>1, <1>0 DEF Types
    <2>3. Starting(Tail(op.todo)) BY <1>0, <2>1, DoneTo
    <2> QED BY <2>1, <2>2, <2>3, <1>s, <1>b, BackMid
  <1>12. CASE Swap
    <2>1. /\ op.pc = "swap" /\ UNCHANGED <<build, journal, swap>>
          /\ \/ swap.phase = "none" /\ Done
             \/ swap.phase # "none" /\ Goto("swaproot")
             \/ swap.phase # "none" /\ Goto("swapclean")
      BY <1>12 DEF Swap, At, world, disk
    <2>2. CASE swap.phase = "none" /\ Done
      <3>1. Starting(Tail(op.todo)) BY <1>0, <2>1, <2>2, DoneTo
      <3> QED BY <1>s, <1>b, <2>1, <2>2, <3>1, BackMid
    <2>3. CASE swap.phase # "none" /\ Goto("swaproot") BY <2>1, <2>3, <1>s, <1>b, <1>q, BackGo
    <2>4. CASE swap.phase # "none" /\ Goto("swapclean") BY <2>1, <2>4, <1>s, <1>b, <1>q, BackGo
    <2> QED BY <2>1, <2>2, <2>3, <2>4
  <1>13. CASE SwapRoot
    <2>1. op.pc = "swaproot" /\ UNCHANGED <<journal, swap>> /\ Goto("swaprename") BY <1>13 DEF SwapRoot, At
    <2> QED BY <2>1, <1>s, <1>b, <1>p, <1>q, BackGo
  <1>14. CASE SwapRename
    <2>1. op.pc = "swaprename" /\ UNCHANGED <<journal, swap>> /\ Goto("swapclean") BY <1>14 DEF SwapRename, At
    <2> QED BY <2>1, <1>s, <1>b, <1>p, <1>q, BackGo
  <1>15. CASE SwapClean
    <2>1. op.pc = "swapclean" /\ UNCHANGED <<journal, swap>> /\ Goto("swapdrop") BY <1>15 DEF SwapClean, At
    <2> QED BY <2>1, <1>s, <1>b, <1>p, <1>q, BackGo
  <1>16. CASE SwapDrop
    <2>1. op.pc = "swapdrop" /\ UNCHANGED <<build, journal>> /\ Done /\ swap'.phase = "none"
      BY <1>16, <1>0 DEF SwapDrop, At, world
    <2>3. Starting(Tail(op.todo)) BY <1>0, <2>1, DoneTo
    <2> QED BY <2>1, <2>3, <1>s, <1>b, BackMid
  <1> QED BY <1>1, <1>2, <1>3, <1>4, <1>5, <1>6, <1>7, <1>8, <1>9, <1>10, <1>11, <1>12, <1>13,
             <1>14, <1>15, <1>16 DEF Recovers


\* From a step to one that needs no more, and leaves no less open.
SameKind(p, q) ==
  /\ q \in Open => p \in Open
  /\ q \in Finishes => p \in Finishes
  /\ p \in Opens => q \in Opens
  /\ p \in Swaps => q \in Swaps
  /\ q \notin Recovering

LEMMA TaskGo ==
  ASSUME Types, Control, Midway, op.pc # "idle", op.todo[1][1] \notin Backs, NEW q,
         op'.todo = op.todo, op'.pc = q, op'.undoing = op.undoing, UNCHANGED journal,
         SameKind(op.pc, q), swap'.phase # "none" => swap.phase # "none" \/ q \in Swaps,
         q \in MarkerSteps => marker'[Cur].present,
         op.todo[1][1] = "upgrade" => marker'[Cur].present /\ marker'[Cur].state = "installed"
  PROVE Midway'
  <1>1. J' = J BY DEF J, Cur
  <1>2. /\ q \notin {"restore", "unpublish", "unretire", "values", "state", "rolled",
                     "tidyswap", "tidydrop", "tidystate", "dropjournal",
                     "swaproot", "swaprename", "swapclean", "swapdrop"}
        /\ q \in Open => J.phase = "open"
        /\ q \in Finishes => J.phase # "open"
    <2>1. q \notin Recovering /\ (q \in Open => op.pc \in Open) /\ (q \in Finishes => op.pc \in Finishes)
      BY DEF SameKind
    <2>2. (op.pc \in Open => J.phase = "open") /\ (op.pc \in Finishes => J.phase # "open")
      BY DEF Midway, Phased
    <2> QED BY <2>1, <2>2, SMT DEF Recovering
  <1>3. (op.pc \in Opens => q \in Opens) /\ (op.pc \in Swaps => q \in Swaps) BY DEF SameKind
  <1>4. op.todo[1][1] # "swap" BY DEF Backs
  <1>5. J'.phase = "open" => q \in Opens \/ (J.phase = "open" /\ op.pc \notin Opens) BY <1>1, <1>3
  <1>6. swap'.phase # "none" => q \in Swaps \/ (swap.phase # "none" /\ op.pc \notin Swaps) BY <1>3
  <1> QED BY <1>1, <1>2, <1>4, <1>5, <1>6, GoMid

\* The task of a step, and that the marker of an upgrade is there.
LEMMA TaskKind ==
  ASSUME Types, Control, Midway, op.pc # "idle", op.pc \notin Recovering
  PROVE /\ op.todo[1][1] \notin Backs
        /\ op.todo[1][1] = "upgrade" => marker[Cur].present /\ marker[Cur].state = "installed"
  <1>1. op # Idle /\ op.todo # <<>> /\ op.pc \in StepsOf(op.todo[1][1]) BY Running DEF Control
  <1>2. op.todo[1][1] \notin Backs BY <1>1, SMT DEF StepsOf, Backs, Recovering
  <1> QED BY <1>1, <1>2 DEF Midway, Presence, InstalledMarker

LEMMA GotoTask ==
  ASSUME Types, Control, Midway, op.pc \notin Recovering \cup {"idle"}, NEW q, Goto(q), UNCHANGED journal,
         SameKind(op.pc, q), swap'.phase # "none" => swap.phase # "none" \/ q \in Swaps,
         q \in MarkerSteps => marker'[Cur].present, UNCHANGED marker \/ op.todo[1][1] # "upgrade"
  PROVE Midway'
  <1>1. op'.todo = op.todo /\ op'.pc = q /\ op'.undoing = op.undoing BY DEF Goto, Types, Jobs
  <1>2. op.todo[1][1] \notin Backs
        /\ (op.todo[1][1] = "upgrade" => marker'[Cur].present /\ marker'[Cur].state = "installed")
    BY TaskKind
  <1> QED BY <1>1, <1>2, TaskGo

\* The task ends.
LEMMA DoneMid ==
  ASSUME Types, Control, Midway, Types', Control', op.pc \notin Recovering \cup {"idle"} \cup Opens,
         Done \/ (\E code \in Codes : Abort(code)), UNCHANGED build,
         \A e \in Edition : journal'[e].phase = "open" => journal[e].phase = "open",
         swap'.phase # "none" => swap.phase # "none"
  PROVE Midway'
  <1>1. op # Idle /\ op.todo[1][1] \notin Backs BY Running, TaskKind
  <1>2. Starting(Tail(op.todo)) BY <1>1, DoneTo, AbortTo
  <1> QED BY <1>1, <1>2, NextMid

\* A task gives way to others.
LEMMA InsteadMid ==
  ASSUME Types, Control, Midway, Types', Control', op.pc \notin Recovering \cup {"idle"} \cup Opens \cup Swaps,
         op.todo[1][1] \notin {"modules", "leftovers"}, NEW t \in Tasks, t \notin {"rolled", "upgrade"},
         t \in TasksOf(op.cmd), Later(op.user, op.todo[1][1]) \subseteq Later(op.user, t),
         Instead(<<<<t, Cur>>>>), UNCHANGED <<build, journal>>, swap'.phase # "none" => swap.phase # "none"
  PROVE Midway'
  <1>1. op # Idle /\ op.todo[1][1] \notin Backs /\ Cur \in Edition BY Running, TaskKind
  <1>2. /\ \A e \in Edition : journal'[e].phase # "open"
        /\ swap'.phase = "none" /\ ~op.undoing /\ Plainly(Tail(op.todo))
    BY <1>1, Quiet
  <1>3. op.todo[1][1] # "swap" BY <1>1 DEF Backs
  <1> DEFINE s == Ahead(t, Cur, Tail(op.todo))
             r == Tail(op.todo)
  <1>4. /\ Starting(s) /\ Len(s) = Len(r) + 1 /\ s[1] = <<t, Cur>>
        /\ \A i \in 1..Len(r) : s[i + 1] = r[i]
    BY <1>1, <1>3, InsteadTo
  <1>5. Len(r) \in Nat
    <2>1. Runnable(op.cmd, op.user, op.todo) /\ op.todo # <<>> BY <1>1 DEF Control
    <2>2. r \in Lists BY <2>1, RestRuns DEF Runnable
    <2> QED BY <2>2, SMT DEF Lists
  <1> HIDE DEF s, r
  <1>6. \A i \in 1..Len(s) : i = 1 \/ (i - 1 \in 1..Len(r) /\ s[i] = r[i - 1]) BY <1>4, <1>5
  <1>7. Plainly(s) BY <1>2, <1>4, <1>6 DEF Plainly, r
  <1> QED BY <1>1, <1>2, <1>4, <1>7, BegunMid

LEMMA EnablesMid ==
  ASSUME Types, Control, Midway, Types', Control', Enables
  PROVE Midway'
  <1>0. /\ Cur \in Edition /\ (op.pc # "idle" => op # Idle) /\ J \in Journals
        /\ NoEntry.phase = "none" /\ marker[Cur] \in Marked
    BY Running DEF Types, J, NoEntry
  <1>m. op.pc \in MarkerSteps => marker[Cur].present BY DEF Midway, Presence
  <1>k. {"enable", "install", "reinstall", "adopt", "adopted", "resume", "begin", "replace", "payload", "upgrade"}
          \cap (Recovering \cup {"idle"} \cup Opens \cup Swaps) = {}
    BY SMT DEF Recovering, Opens, Swaps, Shared, Whole
  <1>1. CASE Enable
    <2>1. op.pc = "enable" /\ op # Idle /\ op.todo[1][1] = "enable" /\ UNCHANGED <<journal, swap, marker>>
      BY <1>1, <1>0, TaskOf DEF Enable, At, world, disk
    <2> DEFINE c == op.cmd
               u == op.user
               e == Cur
               r == Tail(op.todo)
               s == IF InstalledMarker(Cur) THEN Ahead("upgrade", e, r) ELSE NewList(e, r)
               fresh == ~op.user /\ ~InstalledMarker(Cur)
    <2>2. op' = [NextTask(s) EXCEPT !.fresh = fresh] BY <1>1 DEF Enable, Ahead, NewList
    <2>3. Runnable(c, u, r) /\ Plainly(r) /\ e \in Edition /\ \A i \in 1..Len(r) : r[i][1] \in {"modules", "leftovers"}
      BY <2>1, <1>0, Follow
    <2>4. /\ \A f \in Edition : journal[f].phase # "open"
          /\ swap.phase = "none" /\ ~op.undoing
      BY <2>1, <1>k, Quiet DEF Backs
    <2>5. s # <<>> /\ s[1][1] = (IF InstalledMarker(Cur) THEN "upgrade" ELSE "tree")
          /\ s[1][2] = Cur /\ (Len(s) > 1 => s[2][1] # "rolled") /\ s \in Lists
      <3>1. r \in Lists BY <2>3 DEF Runnable
      <3> HIDE DEF c, u, e, r
      <3>4. /\ Ahead("upgrade", e, r) \in Lists /\ Ahead("upgrade", e, r)[1][1] = "upgrade"
            /\ Ahead("upgrade", e, r)[1][2] = e /\ Ahead("upgrade", e, r) # <<>>
            /\ Len(Ahead("upgrade", e, r)) = Len(r) + 1
            /\ \A i \in 1..Len(r) : Ahead("upgrade", e, r)[i + 1] = r[i]
        BY <2>3, <3>1, SMT DEF Ahead, Lists, Tasks
      <3>5. /\ NewList(e, r) \in Lists /\ NewList(e, r)[1][1] = "tree" /\ NewList(e, r)[1][2] = e
            /\ NewList(e, r)[2][1] = "install" /\ NewList(e, r) # <<>>
        BY <2>3, <3>1, SMT DEF NewList, Lists, Tasks
      <3>6. Len(Ahead("upgrade", e, r)) > 1 => Ahead("upgrade", e, r)[2][1] # "rolled"
        <4>1. Len(r) \in Nat BY <3>1, SMT DEF Lists
        <4>2. Len(Ahead("upgrade", e, r)) > 1 => 1 \in 1..Len(r) /\ Ahead("upgrade", e, r)[1 + 1] = r[1]
          BY <3>4, <4>1
        <4> QED BY <2>3, <4>2
      <3> QED BY <3>4, <3>5, <3>6 DEF e
    <2> HIDE DEF s, fresh
    <2>6. /\ op'.todo = s /\ op'.pc = s[1][1] /\ op'.undoing = op.undoing
      <3>1. Head(s) = s[1] BY <2>5, Listed
      <3> QED BY <2>2, <3>1 DEF NextTask, Types, Jobs
    <2>7. Cur' = Cur
      <3>1. Head(s) = s[1] BY <2>5, Listed
      <3> QED BY <2>5, <2>6, <3>1 DEF Cur
    <2>8. Phased'
      <3>1. op'.pc \in {"upgrade", "tree"} BY <2>5, <2>6
      <3>2. ~RollingBack' BY <2>5, <2>6, <3>1, SMT DEF RollingBack
      <3> QED BY <2>4, <2>6, <3>1, <3>2, SMT DEF Phased, Open, Finishes
    <2>9. Presence' BY <2>1, <2>5, <2>6, <2>7, SMT DEF Presence, MarkerSteps, InstalledMarker
    <2>10. JournalsShut' /\ SwapShut' BY <2>1, <2>4 DEF JournalsShut, SwapShut
    <2> QED BY <2>8, <2>9, <2>10 DEF Midway
  <1>2. CASE Tree
    <2>1. op.pc = "tree" /\ UNCHANGED <<build, journal, swap>> /\ Done BY <1>2 DEF Tree, At, world, disk
    <2>2. "tree" \notin Recovering \cup {"idle"} \cup Opens BY SMT DEF Recovering, Opens
    <2> QED BY <2>1, <2>2, DoneMid DEF Codes
  <1>3. CASE Install
    <2>1. /\ op.pc = "install" /\ op # Idle /\ op.todo[1][1] = "install" /\ UNCHANGED <<journal, swap, build>>
          /\ Instead(<<<<"adopt", Cur>>, <<"resume", Cur>>, <<"begin", Cur>>>>) \/ Ends("policy")
      BY <1>3, <1>0, TaskOf DEF Install, At, world, disk
    <2>2. CASE Ends("policy") BY <2>2, EndMid DEF Ends
    <2>3. CASE Instead(<<<<"adopt", Cur>>, <<"resume", Cur>>, <<"begin", Cur>>>>)
      <3> DEFINE c == op.cmd
                 u == op.user
                 e == Cur
                 r == Tail(op.todo)
      <3>3. Runnable(c, u, r) /\ Plainly(r) /\ c \notin {"clean", "sweep"} /\ e \in Edition
            /\ \A i \in 1..Len(r) : r[i][1] \in {"modules", "leftovers"}
        BY <2>1, <1>0, Follow
      <3>4. Continues(FullList(e, r), op.worst) BY <2>3 DEF Instead, Runs, FullList
      <3>8. /\ \A f \in Edition : journal[f].phase # "open"
            /\ swap.phase = "none" /\ ~op.undoing
        BY <2>1, <1>k, Quiet DEF Backs
      <3> HIDE DEF c, u, e, r
      <3>5. Runnable(c, u, FullList(e, r)) BY <3>3, EnableLists
      <3>9. Plainly(FullList(e, r))
        <4>1. r \in Lists BY <3>3 DEF Runnable
        <4>2. /\ FullList(e, r)[1][1] = "adopt" /\ FullList(e, r)[2][1] = "resume"
              /\ FullList(e, r)[3][1] = "begin" /\ Len(FullList(e, r)) = Len(r) + 3
              /\ \A i \in 1..Len(r) : FullList(e, r)[i + 3] = r[i]
          BY <4>1, <3>3, SMT DEF FullList, Lists
        <4> DEFINE s == FullList(e, r)
        <4> HIDE DEF s
        <4>3. Len(r) \in Nat BY <4>1, SMT DEF Lists
        <4>4. \A i \in 1..Len(s) : i = 1 \/ i = 2 \/ i = 3 \/ (i - 3 \in 1..Len(r) /\ s[i] = r[i - 3])
          <5> SUFFICES ASSUME NEW i \in 1..Len(s), i > 3 PROVE i - 3 \in 1..Len(r) /\ s[i] = r[i - 3]
            BY <4>2, <4>3 DEF s
          <5>1. i - 3 \in 1..Len(r) /\ (i - 3) + 3 = i BY <4>2, <4>3 DEF s
          <5> QED BY <4>2, <5>1 DEF s
        <4>5. \A i \in 1..Len(s) : s[i][1] \in {"adopt", "resume", "begin", "modules", "leftovers"}
          BY <3>3, <4>2, <4>4 DEF s
        <4> QED BY <4>5 DEF Plainly, s
      <3> DEFINE s == FullList(e, r)
      <3>6. Runnable(op.cmd, op.user, s) BY <3>5 DEF c, u
      <3>7. op.worst \in BOOLEAN BY DEF Types, Jobs
      <3>11. Plainly(s) /\ Continues(s, op.worst) BY <3>4, <3>9
      <3> HIDE DEF s
      <3>10. Starting(s) BY <2>1, <3>11, <3>6, <3>7, ContinuesTo
      <3> QED BY <2>1, <3>8, <3>10, <3>11, BegunMid
    <2> QED BY <2>1, <2>2, <2>3
  <1>4. CASE Reinstall
    <2>1. /\ op.pc = "reinstall" /\ op # Idle /\ op.todo[1][1] = "reinstall" /\ UNCHANGED <<build, journal, swap>>
          /\ Instead(<<<<"replace", Cur>>>>) \/ Ends("policy")
      BY <1>4, <1>0, TaskOf DEF Reinstall, At, world, disk
    <2>2. CASE Ends("policy") BY <2>2, EndMid DEF Ends
    <2>3. CASE Instead(<<<<"replace", Cur>>>>)
      <3>1. "replace" \in Tasks /\ "replace" \in TasksOf(op.cmd)
            /\ Later(op.user, "reinstall") \subseteq Later(op.user, "replace")
        <4>1. op.todo[1][1] \in TasksOf(op.cmd) BY <2>1, Running
        <4> QED BY <2>1, <4>1, SMT DEF TasksOf, Cleans, Tasks, Later
      <3>2. op.pc \notin Recovering \cup {"idle"} \cup Opens \cup Swaps BY <2>1, <1>k
      <3> QED BY <2>1, <2>3, <3>1, <3>2, InsteadMid
    <2> QED BY <2>1, <2>2, <2>3
  <1>u. ASSUME op.pc \in {"adopt", "adopted"}, Unmarked, UNCHANGED <<build, journal, swap>>
        PROVE Midway'
    <2>0. op # Idle /\ op.todo[1][1] = "adopt" /\ op.pc \notin Recovering \cup {"idle"} \cup Opens \cup Swaps
      BY <1>u, <1>0, <1>k, TaskOf
    <2>1. CASE op.cmd = "enable"
      <3>1. Tail(op.todo) \in Lists BY <2>0, RestRuns DEF Control, Runnable
      <3>2. Done BY <1>u, <2>1, <3>1, Nothing DEF Unmarked, Instead, Done
      <3> QED BY <1>u, <2>0, <3>2, DoneMid
    <2>2. CASE op.cmd # "enable"
      <3>1. Instead(<<<<"uninstall", Cur>>>>) BY <1>u, <2>2 DEF Unmarked
      <3>2. "uninstall" \in Tasks /\ "uninstall" \in TasksOf(op.cmd)
            /\ Later(op.user, "adopt") \subseteq Later(op.user, "uninstall")
        BY SMT DEF TasksOf, Cleans, Tasks, Later
      <3> QED BY <1>u, <2>0, <3>1, <3>2, InsteadMid
    <2> QED BY <2>1, <2>2
  <1>5. CASE Adopt
    <2>1. /\ op.pc = "adopt" /\ UNCHANGED <<build, journal, swap>>
          /\ Unmarked \/ Abort("refused") \/ (Goto("adopted") /\ marker' = [marker EXCEPT ![Cur] =
               [present |-> TRUE, state |-> "", version |-> build, orig |-> snap[Cur][Live].orig]])
      BY <1>5 DEF Adopt, At, world, SetMarker
    <2>2. CASE Unmarked BY <2>1, <2>2, <1>u
    <2>3. CASE Abort("refused")
      <3>1. op.pc \notin Recovering \cup {"idle"} \cup Opens BY <2>1, <1>k
      <3> QED BY <2>1, <2>3, <3>1, DoneMid DEF Codes
    <2>4. CASE Goto("adopted") /\ marker' = [marker EXCEPT ![Cur] =
               [present |-> TRUE, state |-> "", version |-> build, orig |-> snap[Cur][Live].orig]]
      <3>1. marker'[Cur].present BY <2>4, <1>0 DEF Types
      <3>2. op.pc \notin Recovering \cup {"idle"} /\ op.todo[1][1] = "adopt" BY <2>1, <1>k, TaskOf
      <3>3. SameKind("adopt", "adopted")
        BY SMT DEF SameKind, Open, Opens, Finishes, Swaps, Shared, Whole, Recovering
      <3> QED BY <2>1, <2>4, <3>1, <3>2, <3>3, GotoTask
    <2> QED BY <2>1, <2>2, <2>3, <2>4
  <1>6. CASE Adopted
    <2>1. op.pc = "adopted" /\ UNCHANGED <<build, journal, swap>> /\ Unmarked BY <1>6 DEF Adopted, At, world
    <2> QED BY <2>1, <1>u
  <1>7. CASE Resume
    <2>1. /\ op.pc = "resume" /\ UNCHANGED <<build, journal, swap>>
          /\ Done \/ Instead(<<<<"uninstall", Cur>>>>)
      BY <1>7 DEF Resume, At, world, disk
    <2>2. op.pc \notin Recovering \cup {"idle"} \cup Opens \cup Swaps BY <2>1, <1>k
    <2>3. CASE Done BY <2>1, <2>2, <2>3, DoneMid
    <2>4. CASE Instead(<<<<"uninstall", Cur>>>>)
      <3>1. op.todo[1][1] = "resume" BY <2>1, TaskOf
      <3>2. "uninstall" \in Tasks /\ "uninstall" \in TasksOf(op.cmd)
            /\ Later(op.user, "resume") \subseteq Later(op.user, "uninstall")
        BY SMT DEF TasksOf, Cleans, Tasks, Later
      <3> QED BY <2>1, <2>2, <2>4, <3>1, <3>2, InsteadMid
    <2> QED BY <2>1, <2>3, <2>4
  <1>v. ASSUME NEW b \in BOOLEAN, Starts(b), op.pc \in {"begin", "replace", "upgrade"}, b <=> op.pc = "upgrade",
               UNCHANGED <<build, journal, swap, marker>>
        PROVE Midway'
    <2>1. op' = [op EXCEPT !.pc = "payload", !.tx = NewTx, !.seen = profile[Cur],
                           !.was = marker[Cur], !.inplace = b]
      BY <1>v DEF Starts
    <2>2. op'.todo = op.todo /\ op'.pc = "payload" /\ op'.undoing = op.undoing BY <2>1 DEF Types, Jobs
    <2>3. op.pc \notin Recovering \cup {"idle"} BY <1>v, <1>k
    <2>4. SameKind(op.pc, "payload") /\ "payload" \notin MarkerSteps
      BY <1>v, <1>k, SMT DEF SameKind, Open, Finishes, Recovering, MarkerSteps
    <2> QED BY <1>v, <2>2, <2>3, <2>4, TaskKind, TaskGo
  <1>8. CASE Begin
    <2>1. /\ op.pc \in {"begin", "replace"} /\ UNCHANGED <<build, journal, swap, marker>>
          /\ Done \/ Abort("refused") \/ Starts(FALSE)
      BY <1>8 DEF Begin, At, world, disk
    <2>2. op.pc \notin Recovering \cup {"idle"} \cup Opens \cup Swaps BY <2>1, <1>k
    <2>3. CASE Done BY <2>1, <2>2, <2>3, DoneMid
    <2>4. CASE Abort("refused") BY <2>1, <2>2, <2>4, DoneMid DEF Codes
    <2>5. CASE Starts(FALSE) BY <2>1, <2>5, <1>v
    <2> QED BY <2>1, <2>3, <2>4, <2>5
  <1>w. ASSUME op.pc \in {"payload", "deploy"}, Goto(AfterSwap), UNCHANGED <<journal, swap, marker>>
        PROVE Midway'
    <2>1. AfterSwap \in {"commitswap", "stage"} BY DEF AfterSwap
    <2>2. SameKind(op.pc, AfterSwap) /\ op.pc \notin Recovering \cup {"idle"} /\ AfterSwap \notin MarkerSteps
      BY <1>w, <2>1, SMT DEF SameKind, Open, Opens, Finishes, Swaps, Shared, Whole, Recovering, MarkerSteps
    <2> QED BY <1>w, <2>2, GotoTask
  <1>9. CASE Ensure
    <2>1. op.pc = "payload" /\ UNCHANGED <<journal, swap, marker>> /\ (Goto(AfterSwap) \/ Goto("swapjournal"))
      BY <1>9 DEF Ensure, At
    <2>2. CASE Goto(AfterSwap) BY <2>1, <2>2, <1>w
    <2>3. CASE Goto("swapjournal")
      <3>1. SameKind("payload", "swapjournal") /\ "payload" \notin Recovering \cup {"idle"} /\ "swapjournal" \notin MarkerSteps
        BY SMT DEF SameKind, Open, Opens, Finishes, Swaps, Shared, Whole, Recovering, MarkerSteps
      <3> QED BY <2>1, <2>3, <3>1, GotoTask
    <2> QED BY <2>1, <2>2, <2>3
  <1>10. CASE SwapJournal
    <2>1. op.pc = "swapjournal" /\ UNCHANGED <<journal, marker>> /\ Goto("aside") BY <1>10 DEF SwapJournal, At
    <2>2. SameKind("swapjournal", "aside") /\ "swapjournal" \notin Recovering \cup {"idle"} /\ "aside" \notin MarkerSteps
          /\ "aside" \in Swaps
      BY SMT DEF SameKind, Open, Opens, Finishes, Swaps, Shared, Whole, Recovering, MarkerSteps
    <2> QED BY <2>1, <2>2, GotoTask
  <1>11. CASE Aside
    <2>1. op.pc = "aside" /\ UNCHANGED <<journal, swap, marker>> /\ Goto("deploy") BY <1>11 DEF Aside, At, disk
    <2>2. SameKind("aside", "deploy") /\ "aside" \notin Recovering /\ ("deploy" \in MarkerSteps => "aside" \in MarkerSteps)
      BY SMT DEF SameKind, Open, Opens, Finishes, Swaps, Shared, Whole, Recovering, MarkerSteps
    <2> QED BY <2>1, <2>2, <1>m, GotoTask
  <1>12. CASE Deploy
    <2>1. op.pc = "deploy" /\ UNCHANGED <<journal, swap, marker>> /\ Goto(AfterSwap) BY <1>12 DEF Deploy, At
    <2> QED BY <2>1, <1>w
  <1>13. CASE Stage
    <2>1. op.pc = "stage" /\ UNCHANGED <<journal, swap, marker>> /\ Goto("journal") BY <1>13 DEF Stage, At, disk
    <2>2. SameKind("stage", "journal") /\ "stage" \notin Recovering /\ ("journal" \in MarkerSteps => "stage" \in MarkerSteps)
      BY SMT DEF SameKind, Open, Opens, Finishes, Swaps, Shared, Whole, Recovering, MarkerSteps
    <2> QED BY <2>1, <2>2, <1>m, GotoTask
  <1>14. CASE OpenJournal
    <2>1. /\ op.pc = "journal" /\ UNCHANGED <<swap, marker>> /\ Goto("publish")
          /\ journal' = [journal EXCEPT ![Cur] = Opened(T, op.was)]
      BY <1>14 DEF OpenJournal, At
    <2>2. op.todo[1][1] \in {"begin", "replace"} BY <2>1, TaskOf, SMT DEF Whole
    <2>3. /\ \A e \in Edition \ {Cur} : journal'[e] = journal[e]
          /\ journal'[Cur].phase = "open"
      BY <2>1, <1>0 DEF Types, Opened
    <2>4. J'.phase = "open"
      <3>1. Cur' = Cur BY <2>1 DEF Goto, Cur, Types, Jobs
      <3> QED BY <2>3, <3>1 DEF J
    <2>5. "publish" \notin Finishes \cup MarkerSteps /\ "publish" \in Opens /\ "publish" \in Swaps
      BY SMT DEF Finishes, MarkerSteps, Opens, Swaps, Whole
    <2> QED BY <2>1, <2>2, <2>3, <2>4, <2>5, GotoMid
  <1>15. CASE Publish
    <2>1. op.pc = "publish" /\ UNCHANGED <<journal, swap>> /\ Goto("prepared") BY <1>15 DEF Publish, At
    <2>2. SameKind("publish", "prepared") /\ "publish" \notin Recovering \cup {"idle"} BY SMT DEF SameKind, Open, Opens, Finishes, Swaps, Shared, Whole, Recovering
    <2>3. op.todo[1][1] \in {"begin", "replace"} BY <2>1, TaskOf, SMT DEF Whole
    <2>4. marker'[Cur].present
      BY <1>15, <1>0 DEF Publish, SetMarker, Types, Marked, Markers
    <2> QED BY <2>1, <2>2, <2>3, <2>4, GotoTask
  <1>16. CASE Prepared
    <2>1. op.pc = "prepared" /\ UNCHANGED <<journal, swap>> /\ Goto("retire") BY <1>16 DEF Prepared, At
    <2>2. SameKind("prepared", "retire") /\ "prepared" \notin Recovering \cup {"idle"} BY SMT DEF SameKind, Open, Opens, Finishes, Swaps, Shared, Whole, Recovering
    <2>3. op.todo[1][1] \in {"begin", "replace"} BY <2>1, TaskOf, SMT DEF Whole
    <2>4. marker'[Cur].present
      <3>1. marker[Cur].present BY <2>1, <1>m, SMT DEF MarkerSteps
      <3> QED BY <1>16, <1>0, <3>1 DEF Prepared, Types, Marked, Markers
    <2> QED BY <2>1, <2>2, <2>3, <2>4, GotoTask
  <1>17. CASE Retire
    <2>1. op.pc = "retire" /\ UNCHANGED <<journal, swap, marker>> /\ Goto("live") BY <1>17 DEF Retire, At, disk
    <2>2. SameKind("retire", "live") /\ "retire" \notin Recovering /\ ("live" \in MarkerSteps => "retire" \in MarkerSteps)
      BY SMT DEF SameKind, Open, Opens, Finishes, Swaps, Shared, Whole, Recovering, MarkerSteps
    <2> QED BY <2>1, <2>2, <1>m, GotoTask
  <1>18. CASE GoLive
    <2>1. op.pc = "live" /\ UNCHANGED <<journal, swap, marker>> /\ Goto("write") BY <1>18 DEF GoLive, At, disk
    <2>2. SameKind("live", "write") /\ "live" \notin Recovering /\ ("write" \in MarkerSteps => "live" \in MarkerSteps)
      BY SMT DEF SameKind, Open, Opens, Finishes, Swaps, Shared, Whole, Recovering, MarkerSteps
    <2> QED BY <2>1, <2>2, <1>m, GotoTask
  <1>19. CASE Write
    <2>1. op.pc = "write" /\ UNCHANGED <<journal, swap, marker>> /\ (Goto("installed") \/ Goto("undo")) BY <1>19 DEF Write, At, Replaced, disk
    <2>2. CASE Goto("installed")
      <3>1. SameKind("write", "installed") /\ "write" \notin Recovering /\ ("installed" \in MarkerSteps => "write" \in MarkerSteps)
        BY SMT DEF SameKind, Open, Opens, Finishes, Swaps, Shared, Whole, Recovering, MarkerSteps
      <3> QED BY <2>1, <2>2, <3>1, <1>m, GotoTask
    <2>3. CASE Goto("undo")
      <3>1. SameKind("write", "undo") /\ "write" \notin Recovering /\ ("undo" \in MarkerSteps => "write" \in MarkerSteps)
        BY SMT DEF SameKind, Open, Opens, Finishes, Swaps, Shared, Whole, Recovering, MarkerSteps
      <3> QED BY <2>1, <2>3, <3>1, <1>m, GotoTask
    <2> QED BY <2>1, <2>2, <2>3
  <1>20. CASE MarkInstalled
    <2>1. op.pc = "installed" /\ UNCHANGED <<journal, swap>> /\ Goto("verify") BY <1>20 DEF MarkInstalled, At
    <2>2. SameKind("installed", "verify") /\ "installed" \notin Recovering \cup {"idle"} BY SMT DEF SameKind, Open, Opens, Finishes, Swaps, Shared, Whole, Recovering
    <2>3. op.todo[1][1] \in {"begin", "replace"} BY <2>1, TaskOf, SMT DEF Whole
    <2>4. marker'[Cur].present
      <3>1. marker[Cur].present BY <2>1, <1>m, SMT DEF MarkerSteps
      <3> QED BY <1>20, <1>0, <3>1 DEF MarkInstalled, Types, Marked, Markers
    <2> QED BY <2>1, <2>2, <2>3, <2>4, GotoTask
  <1>21. CASE Verify
    <2>1. op.pc = "verify" /\ UNCHANGED <<journal, swap, marker>> /\ (Goto("commit") \/ Goto("undo")) BY <1>21 DEF Verify, At, Replaced, disk
    <2>2. CASE Goto("commit")
      <3>1. SameKind("verify", "commit") /\ "verify" \notin Recovering /\ ("commit" \in MarkerSteps => "verify" \in MarkerSteps)
        BY SMT DEF SameKind, Open, Opens, Finishes, Swaps, Shared, Whole, Recovering, MarkerSteps
      <3> QED BY <2>1, <2>2, <3>1, <1>m, GotoTask
    <2>3. CASE Goto("undo")
      <3>1. SameKind("verify", "undo") /\ "verify" \notin Recovering /\ ("undo" \in MarkerSteps => "verify" \in MarkerSteps)
        BY SMT DEF SameKind, Open, Opens, Finishes, Swaps, Shared, Whole, Recovering, MarkerSteps
      <3> QED BY <2>1, <2>3, <3>1, <1>m, GotoTask
    <2> QED BY <2>1, <2>2, <2>3
  <1>22. CASE Commit
    <2>1. /\ op.pc = "commit" /\ UNCHANGED <<swap, marker>> /\ Goto("finish")
          /\ journal' = [journal EXCEPT ![Cur].phase = "committed"]
      BY <1>22 DEF Commit, At, SetJournal
    <2>2. op.todo[1][1] \in {"begin", "replace"} BY <2>1, TaskOf, SMT DEF Whole
    <2>3. /\ \A e \in Edition \ {Cur} : journal'[e] = journal[e]
          /\ journal'[Cur].phase = "committed"
      <3>1. journal \in [Edition -> Journals] BY DEF Types
      <3> QED BY <2>1, <3>1, <1>0 DEF Journals, Entries
    <2>4. J'.phase = "committed"
      <3>1. Cur' = Cur BY <2>1 DEF Goto, Cur, Types, Jobs
      <3> QED BY <2>3, <3>1 DEF J
    <2>5. "finish" \notin MarkerSteps \cup Open /\ "finish" \in Swaps
      BY SMT DEF MarkerSteps, Open, Swaps, Shared
    <2> QED BY <2>1, <2>2, <2>3, <2>4, <2>5, GotoMid
  <1>23. CASE Finish
    <2>1. op.pc = "finish" /\ UNCHANGED <<journal, swap, marker>> /\ Goto("finishswap") BY <1>23 DEF Finish, At, disk
    <2>2. SameKind("finish", "finishswap") /\ "finish" \notin Recovering /\ ("finishswap" \in MarkerSteps => "finish" \in MarkerSteps)
      BY SMT DEF SameKind, Open, Opens, Finishes, Swaps, Shared, Whole, Recovering, MarkerSteps
    <2> QED BY <2>1, <2>2, <1>m, GotoTask
  <1>24. CASE FinishSwap
    <2>1. /\ op.pc = "finishswap" /\ UNCHANGED <<journal, marker, build>>
          /\ swap'.phase # "none" => swap.phase # "none"
      BY <1>24, <1>0 DEF FinishSwap, At, world
    <2>0. op.pc \notin Recovering \cup {"idle"} \cup Opens BY <2>1, SMT DEF Recovering, Opens
    <2>2. CASE Done BY <2>0, <2>1, <2>2, DoneMid
    <2>3. CASE Goto("finishstate")
      <3>1. SameKind("finishswap", "finishstate") /\ "finishstate" \notin MarkerSteps
        BY SMT DEF SameKind, Open, Opens, Finishes, Swaps, Shared, Whole, Recovering, MarkerSteps
      <3> QED BY <2>0, <2>1, <2>3, <3>1, GotoTask
    <2>4. IF op.inplace THEN Done ELSE Goto("finishstate") BY <1>24 DEF FinishSwap
    <2> QED BY <2>2, <2>3, <2>4
  <1>25. CASE FinishState
    <2>1. op.pc = "finishstate" /\ UNCHANGED <<journal, swap, marker>> /\ Goto("finishjournal") BY <1>25 DEF FinishState, At, disk
    <2>2. SameKind("finishstate", "finishjournal") /\ "finishstate" \notin Recovering /\ ("finishjournal" \in MarkerSteps => "finishstate" \in MarkerSteps)
      BY SMT DEF SameKind, Open, Opens, Finishes, Swaps, Shared, Whole, Recovering, MarkerSteps
    <2> QED BY <2>1, <2>2, <1>m, GotoTask
  <1>26. CASE FinishJournal
    <2>1. op.pc = "finishjournal" /\ UNCHANGED <<build, swap>> /\ Done /\ journal' = [journal EXCEPT ![Cur] = NoEntry]
      BY <1>26 DEF FinishJournal, At, world
    <2>2. op.pc \notin Recovering \cup {"idle"} \cup Opens BY <2>1, SMT DEF Recovering, Opens
    <2>3. \A e \in Edition : journal'[e].phase = "open" => journal[e].phase = "open" BY <2>1, <1>0 DEF Types
    <2> QED BY <2>1, <2>2, <2>3, DoneMid
  <1>27. CASE Undo
    <2>1. /\ op.pc = "undo" /\ UNCHANGED <<journal, swap, marker>>
          /\ \/ J.phase # "open" /\ Goto("undoroot")
             \/ op' = [op EXCEPT !.todo = <<<<"recover", Cur>>>>, !.pc = "recover", !.undoing = TRUE]
      BY <1>27 DEF Undo, At, J
    <2>0. op.todo[1][1] \in {"begin", "replace", "upgrade"} /\ op.todo[1][1] \notin Backs
      BY <2>1, TaskOf, SMT DEF Shared, Backs
    <2>2. CASE J.phase # "open" /\ Goto("undoroot")
      <3>1. J' = J BY <2>1, <2>2 DEF J, Cur, Goto, Types, Jobs
      <3>2. "undoroot" \notin Finishes \cup MarkerSteps \cup Open /\ "undoroot" \in Swaps
        BY SMT DEF MarkerSteps, Open, Swaps, Shared, Finishes
      <3>3. op.todo[1][1] = "upgrade" => marker'[Cur].present /\ marker'[Cur].state = "installed"
        <4>1. op.pc \notin Recovering BY <2>1, SMT DEF Recovering
        <4> QED BY <2>1, <4>1, TaskKind
      <3> QED BY <2>0, <2>1, <2>2, <3>1, <3>2, <3>3, GotoMid
    <2>3. CASE op' = [op EXCEPT !.todo = <<<<"recover", Cur>>>>, !.pc = "recover", !.undoing = TRUE]
      <3>1. op'.todo = <<<<"recover", Cur>>>> /\ op'.pc = "recover" /\ op'.undoing BY <2>3 DEF Types, Jobs
      <3>2. /\ Len(op'.todo) = 1 /\ op'.todo[1][1] = "recover" /\ op'.todo[1][2] = Cur /\ op'.todo # <<>>
            /\ Head(op'.todo) = op'.todo[1]
        BY <3>1, SMT
      <3>3. Cur' = Cur BY <3>2 DEF Cur
      <3>4. \A i \in 1..Len(op'.todo) : op'.todo[i][1] \in Backs
        <4>1. \A i \in 1..Len(op'.todo) : i = 1 BY <3>2
        <4> QED BY <3>2, <4>1 DEF Backs
      <3>5. Phased' BY <3>1, <3>2, <3>4, SMT DEF Phased, RollingBack, Open, Finishes
      <3>6. Presence' BY <3>1, <3>2, SMT DEF Presence, MarkerSteps
      <3>7. HasTask({"recover", "rolled"}, Cur)'
        <4>1. 1 \in 1..Len(op'.todo) BY <3>2
        <4> QED BY <3>2, <3>3, <4>1 DEF HasTask
      <3>8. JournalsShut'
        <4>1. \A e \in Edition \ {Cur} : journal[e].phase # "open" BY <2>0, <2>1, Quiet
        <4> QED BY <2>1, <3>3, <3>7, <4>1 DEF JournalsShut
      <3>9. SwapShut' BY <3>1 DEF SwapShut
      <3> QED BY <3>5, <3>6, <3>8, <3>9 DEF Midway
    <2> QED BY <2>1, <2>2, <2>3
  <1>28. CASE UndoRoot
    <2>1. op.pc = "undoroot" /\ UNCHANGED <<journal, swap, marker>> /\ Goto("undoname") BY <1>28 DEF UndoRoot, At, disk
    <2>2. SameKind("undoroot", "undoname") /\ "undoroot" \notin Recovering /\ ("undoname" \in MarkerSteps => "undoroot" \in MarkerSteps)
      BY SMT DEF SameKind, Open, Opens, Finishes, Swaps, Shared, Whole, Recovering, MarkerSteps
    <2> QED BY <2>1, <2>2, <1>m, GotoTask
  <1>29. CASE UndoName
    <2>1. op.pc = "undoname" /\ UNCHANGED <<journal, swap, marker>> /\ Goto("undoclean") BY <1>29 DEF UndoName, At, disk
    <2>2. SameKind("undoname", "undoclean") /\ "undoname" \notin Recovering /\ ("undoclean" \in MarkerSteps => "undoname" \in MarkerSteps)
      BY SMT DEF SameKind, Open, Opens, Finishes, Swaps, Shared, Whole, Recovering, MarkerSteps
    <2> QED BY <2>1, <2>2, <1>m, GotoTask
  <1>30. CASE UndoClean
    <2>1. Ends("failed") BY <1>30 DEF UndoClean
    <2> QED BY <2>1, EndMid DEF Ends
  <1>31. CASE Upgrade
    <2>1. /\ op.pc = "upgrade" /\ UNCHANGED <<build, journal, swap, marker>>
          /\ Starts(TRUE) \/ Instead(<<<<"reinstall", Cur>>>>) \/ Abort("confirm")
      BY <1>31 DEF Upgrade, At, world, disk
    <2>0. op.pc \notin Recovering \cup {"idle"} \cup Opens \cup Swaps BY <2>1, <1>k
    <2>2. CASE Starts(TRUE) BY <2>1, <2>2, <1>v
    <2>3. CASE Abort("confirm") BY <2>0, <2>1, <2>3, DoneMid DEF Codes
    <2>4. CASE Instead(<<<<"reinstall", Cur>>>>)
      <3>1. op # Idle /\ op.todo[1][1] = "upgrade" BY <2>1, <1>0, TaskOf
      <3>2. op.cmd \notin {"clean", "sweep"} BY <3>1, Follow
      <3>3. "reinstall" \in Tasks /\ "reinstall" \in TasksOf(op.cmd)
            /\ Later(op.user, "upgrade") \subseteq Later(op.user, "reinstall")
        BY <3>2, SMT DEF TasksOf, Cleans, Tasks, Later
      <3> QED BY <2>0, <2>1, <2>4, <3>1, <3>3, InsteadMid
    <2> QED BY <2>1, <2>2, <2>3, <2>4
  <1>32. CASE CommitSwap
    <2>1. /\ op.pc = "commitswap" /\ UNCHANGED <<journal, marker>> /\ Goto("version")
      BY <1>32 DEF CommitSwap, At
    <2>2. SameKind("commitswap", "version") /\ "commitswap" \notin Recovering \cup {"idle"} /\ "version" \notin MarkerSteps
          /\ "version" \in Swaps
      BY SMT DEF SameKind, Open, Opens, Finishes, Swaps, Shared, Whole, Recovering, MarkerSteps
    <2> QED BY <2>1, <2>2, GotoTask
  <1>33. CASE Version
    <2>1. /\ op.pc = "version" /\ UNCHANGED <<journal, swap>> /\ Goto("finish")
          /\ marker' = [marker EXCEPT ![Cur].version = build]
      BY <1>33 DEF Version, At
    <2>2. op.todo[1][1] = "upgrade" /\ op.pc \notin Recovering \cup Opens /\ op.todo[1][1] \notin Backs
      BY <2>1, TaskOf, SMT DEF Recovering, Opens, Backs
    <2>3. J.phase # "open" BY <2>1, <2>2, <1>0, Quiet DEF J
    <2>4. J' = J BY <2>1 DEF J, Cur, Goto, Types, Jobs
    <2>5. marker'[Cur].present /\ marker'[Cur].state = "installed"
      <3>1. marker[Cur].present /\ marker[Cur].state = "installed" BY <2>1, <2>2, TaskKind
      <3> QED BY <2>1, <3>1, <1>0 DEF Types, Marked, Markers
    <2>6. "finish" \notin MarkerSteps \cup Open /\ "finish" \in Swaps
      BY SMT DEF MarkerSteps, Open, Swaps, Shared
    <2> QED BY <2>1, <2>2, <2>3, <2>4, <2>5, <2>6, GotoMid
  <1> QED BY <1>1, <1>2, <1>3, <1>4, <1>5, <1>6, <1>7, <1>8, <1>9, <1>10, <1>11, <1>12, <1>13, <1>14, <1>15, <1>16, <1>17, <1>18, <1>19, <1>20, <1>21, <1>22, <1>23, <1>24, <1>25, <1>26, <1>27, <1>28, <1>29, <1>30, <1>31, <1>32, <1>33 DEF Enables


LEMMA RemovesMid ==
  ASSUME Types, Control, Midway, Types', Control', Removes
  PROVE Midway'
  <1>0. /\ Cur \in Edition /\ (op.pc # "idle" => op # Idle) /\ marker[Cur] \in Marked
        /\ op.todo \in Lists
    BY Running DEF Types, Jobs
  <1>k. {"uninstall", "examine", "excise", "restate", "forget", "erase", "erased", "cleanup", "cleanpayload"}
          \cap (Recovering \cup {"idle"} \cup Opens \cup Swaps) = {}
    BY SMT DEF Recovering, Opens, Swaps, Shared, Whole
  <1>m. op.pc \in MarkerSteps => marker[Cur].present BY DEF Midway, Presence
  <1>u. op.pc \in {"uninstall", "examine", "excise", "restate", "forget", "erase", "erased", "cleanup", "cleanpayload"}
          => op.pc # "idle" /\ op.todo[1][1] = "uninstall" /\ op.todo[1][1] # "upgrade" /\ op.todo[1][1] \notin Backs
    BY TaskOf DEF Backs
  <1>1. CASE Uninstalls
    <2>1. /\ op.pc = "uninstall" /\ UNCHANGED <<build, journal, swap>>
          /\ \/ Done \/ Abort("refused")
             \/ /\ marker[Cur].present
                /\ marker' = [marker EXCEPT ![Cur].state = "removing"]
                /\ op' = [op EXCEPT !.pc = "examine", !.was = marker[Cur]]
      BY <1>1 DEF Uninstalls, At, world
    <2>2. CASE Done \/ Abort("refused") BY <2>1, <2>2, <1>k, DoneMid DEF Codes
    <2>3. CASE /\ marker[Cur].present
               /\ marker' = [marker EXCEPT ![Cur].state = "removing"]
               /\ op' = [op EXCEPT !.pc = "examine", !.was = marker[Cur]]
      <3>1. op'.todo = op.todo /\ op'.pc = "examine" /\ op'.undoing = op.undoing BY <2>3 DEF Types, Jobs
      <3>2. marker'[Cur].present BY <2>3, <1>0 DEF Types, Marked, Markers
      <3>3. SameKind("uninstall", "examine")
        BY SMT DEF SameKind, Open, Opens, Finishes, Swaps, Shared, Whole, Recovering
      <3> QED BY <2>1, <3>1, <3>2, <3>3, <1>u, TaskGo
    <2> QED BY <2>1, <2>2, <2>3
  <1>2. CASE Examine
    <2>1. /\ op.pc = "examine" /\ UNCHANGED <<build, journal, swap, marker>>
          /\ \/ Goto("forget") \/ Goto("restate")
             \/ op' = [op EXCEPT !.seen = profile[Cur], !.pc = "excise"]
      BY <1>2 DEF Examine, At, world, disk
    <2>2. /\ SameKind("examine", "forget") /\ SameKind("examine", "restate") /\ SameKind("examine", "excise")
          /\ "examine" \in MarkerSteps
      BY SMT DEF SameKind, Open, Opens, Finishes, Swaps, Shared, Whole, Recovering, MarkerSteps
    <2>3. CASE Goto("forget") BY <2>1, <2>2, <2>3, <1>k, <1>m, GotoTask
    <2>4. CASE Goto("restate") BY <2>1, <2>2, <2>4, <1>k, <1>m, GotoTask
    <2>5. CASE op' = [op EXCEPT !.seen = profile[Cur], !.pc = "excise"]
      <3>1. op'.todo = op.todo /\ op'.pc = "excise" /\ op'.undoing = op.undoing BY <2>5 DEF Types, Jobs
      <3> QED BY <2>1, <2>2, <3>1, <1>m, <1>u, TaskGo
    <2> QED BY <2>1, <2>3, <2>4, <2>5
  <1>3. CASE Excise
    <2>1. /\ op.pc = "excise" /\ UNCHANGED <<build, journal, swap, marker>>
          /\ Goto("forget") \/ Goto("restate")
      BY <1>3 DEF Excise, At, world, Replaced
    <2>2. /\ SameKind("excise", "forget") /\ SameKind("excise", "restate") /\ "excise" \in MarkerSteps
      BY SMT DEF SameKind, Open, Opens, Finishes, Swaps, Shared, Whole, Recovering, MarkerSteps
    <2>3. CASE Goto("forget") BY <2>1, <2>2, <2>3, <1>k, <1>m, GotoTask
    <2>4. CASE Goto("restate") BY <2>1, <2>2, <2>4, <1>k, <1>m, GotoTask
    <2> QED BY <2>1, <2>3, <2>4
  <1>4. CASE Restate
    <2>1. op.pc = "restate" /\ UNCHANGED <<build, journal, swap>> /\ Abort("failed")
      BY <1>4 DEF Restate, At, world
    <2> QED BY <2>1, <1>k, DoneMid DEF Codes
  <1>5. CASE Forget
    <2>1. op.pc = "forget" /\ UNCHANGED <<journal, swap>> /\ Goto("erase") BY <1>5 DEF Forget, At
    <2>2. SameKind("forget", "erase") /\ "erase" \notin MarkerSteps
      BY SMT DEF SameKind, Open, Opens, Finishes, Swaps, Shared, Whole, Recovering, MarkerSteps
    <2> QED BY <2>1, <2>2, <1>k, <1>u, GotoTask
  <1>6. CASE Erase
    <2>1. op.pc = "erase" /\ UNCHANGED <<journal, swap>> /\ Goto("erased") BY <1>6 DEF Erase, At
    <2>2. SameKind("erase", "erased") /\ "erased" \notin MarkerSteps
      BY SMT DEF SameKind, Open, Opens, Finishes, Swaps, Shared, Whole, Recovering, MarkerSteps
    <2> QED BY <2>1, <2>2, <1>k, <1>u, GotoTask
  <1>7. CASE Erased
    <2>1. op.pc = "erased" /\ UNCHANGED <<journal, swap>> /\ Goto("cleanup") BY <1>7 DEF Erased, At
    <2>2. SameKind("erased", "cleanup") /\ "cleanup" \notin MarkerSteps
      BY SMT DEF SameKind, Open, Opens, Finishes, Swaps, Shared, Whole, Recovering, MarkerSteps
    <2> QED BY <2>1, <2>2, <1>k, <1>u, GotoTask
  <1>8. CASE Cleanup
    <2>1. op.pc = "cleanup" /\ UNCHANGED <<journal, swap>> /\ Goto("cleanpayload") BY <1>8 DEF Cleanup, At
    <2>2. SameKind("cleanup", "cleanpayload") /\ "cleanpayload" \notin MarkerSteps
      BY SMT DEF SameKind, Open, Opens, Finishes, Swaps, Shared, Whole, Recovering, MarkerSteps
    <2> QED BY <2>1, <2>2, <1>k, <1>u, GotoTask
  <1>9. CASE CleanPayload
    <2>1. op.pc = "cleanpayload" /\ UNCHANGED <<build, journal, swap>> /\ Instead(<<<<"modules", Cur>>>>)
      BY <1>9 DEF CleanPayload, At, world
    <2>2. op.pc \notin Recovering \cup {"idle"} \cup Opens \cup Swaps BY <2>1, <1>k
    <2>3. "modules" \in Tasks /\ "modules" \in TasksOf(op.cmd)
          /\ Later(op.user, "uninstall") \subseteq Later(op.user, "modules")
      BY SMT DEF TasksOf, Cleans, Tasks, Later
    <2>4. op.todo[1][1] = "uninstall" BY <2>1, <1>u
    <2> QED BY <2>1, <2>2, <2>3, <2>4, InsteadMid
  <1> QED BY <1>1, <1>2, <1>3, <1>4, <1>5, <1>6, <1>7, <1>8, <1>9 DEF Removes

LEMMA TidiesMid ==
  ASSUME Types, Control, Midway, Types', Control', Tidies
  PROVE Midway'
  <1>0. /\ Cur \in Edition /\ (op.pc # "idle" => op # Idle) /\ NoEntry.phase = "none"
    BY Running DEF NoEntry
  <1>k. {"repair", "strip", "stripped", "modules", "leftovers", "swept", "wipe", "retiretree"}
          \cap (Recovering \cup {"idle"} \cup Opens \cup Swaps) = {}
    BY SMT DEF Recovering, Opens, Swaps, Shared, Whole
  <1>1. CASE Repair
    <2>1. /\ op.pc = "repair" /\ UNCHANGED <<build, journal, swap>>
          /\ \/ Done
             \/ /\ op.user
                /\ Instead(<<<<"reinstall", Cur>>>>) \/ Instead(<<<<"strip", Cur>>>>)
      BY <1>1 DEF Repair, At, world, disk
    <2>0. op.pc \notin Recovering \cup {"idle"} \cup Opens \cup Swaps BY <2>1, <1>k
    <2>2. CASE Done BY <2>0, <2>1, <2>2, DoneMid
    <2>3. ASSUME op.user PROVE /\ Later(op.user, "repair") = {} /\ op.cmd # "clean"
                               /\ {"reinstall", "strip"} \subseteq Tasks \cap TasksOf(op.cmd)
      <3>1. "repair" \in TasksOf(op.cmd) BY <2>1, <1>0, TaskOf, Running
      <3> QED BY <2>3, <3>1, SMT DEF TasksOf, Cleans, Tasks, Later
    <2>4. op.todo[1][1] = "repair" BY <2>1, TaskOf
    <2>5. CASE op.user /\ Instead(<<<<"reinstall", Cur>>>>) BY <2>0, <2>1, <2>3, <2>4, <2>5, InsteadMid
    <2>6. CASE op.user /\ Instead(<<<<"strip", Cur>>>>) BY <2>0, <2>1, <2>3, <2>4, <2>6, InsteadMid
    <2> QED BY <2>1, <2>2, <2>5, <2>6
  <1>2. CASE ReadStrip
    <2>1. /\ op.pc = "strip" /\ UNCHANGED <<build, journal, swap>>
          /\ \/ Done
             \/ op' = [op EXCEPT !.seen = profile[Cur], !.pc = "stripped"]
      BY <1>2 DEF ReadStrip, At, world, disk
    <2>2. CASE Done BY <2>1, <2>2, <1>k, DoneMid
    <2>3. CASE op' = [op EXCEPT !.seen = profile[Cur], !.pc = "stripped"]
      <3>1. op'.todo = op.todo /\ op'.pc = "stripped" /\ op'.undoing = op.undoing BY <2>3 DEF Types, Jobs
      <3>2. SameKind("strip", "stripped") /\ "stripped" \notin MarkerSteps
        BY SMT DEF SameKind, Open, Opens, Finishes, Swaps, Shared, Whole, Recovering, MarkerSteps
      <3>3. op.todo[1][1] = "strip" /\ op.todo[1][1] \notin Backs BY <2>1, TaskOf DEF Backs
      <3> QED BY <2>1, <3>1, <3>2, <3>3, TaskGo
    <2> QED BY <2>1, <2>2, <2>3
  <1>3. CASE StripBlocks
    <2>1. op.pc = "stripped" /\ UNCHANGED <<build, journal, swap>> /\ Done
      BY <1>3 DEF StripBlocks, At, Replaced
    <2> QED BY <2>1, <1>k, DoneMid
  <1>4. CASE Modules
    <2>1. op.pc = "modules" /\ UNCHANGED <<build, journal, swap>> /\ Done BY <1>4 DEF Modules, At, world
    <2> QED BY <2>1, <1>k, DoneMid
  <1>5. CASE Leftovers
    <2>1. op.pc = "leftovers" /\ UNCHANGED <<build, journal, swap>> /\ Done BY <1>5 DEF Leftovers, At, world
    <2> QED BY <2>1, <1>k, DoneMid
  <1>6. CASE Swept
    <2>1. /\ op.pc = "swept" /\ UNCHANGED <<build, journal, swap>>
          /\ Done \/ Instead(Both("strip") \o <<<<"wipe", Cur>>>>)
      BY <1>6 DEF Swept, At, world, disk
    <2>2. CASE Done BY <2>1, <2>2, <1>k, DoneMid
    <2>3. CASE Instead(Both("strip") \o <<<<"wipe", Cur>>>>)
      <3>1. op # Idle /\ op.todo[1][1] = "swept" BY <2>1, <1>0, TaskOf
      <3>2. op.cmd = "clean"
        <4>1. "swept" \in TasksOf(op.cmd) BY <3>1, Running
        <4> QED BY <4>1 DEF TasksOf
      <3> DEFINE r == Tail(op.todo)
                 u == op.user
                 e == Cur
      <3>3. Runnable("clean", u, r) /\ Plainly(r) /\ \A i \in 1..Len(r) : r[i][1] \in Later(u, "swept")
        <4>1. Runnable(op.cmd, op.user, op.todo) /\ op.todo # <<>> BY <3>1 DEF Control
        <4> QED BY <3>1, <3>2, <4>1, RestRuns
      <3>4. Continues(WipeList(e, r), op.worst) BY <2>3 DEF Instead, Runs, WipeList
      <3>5. e \in Edition BY <1>0
      <3> HIDE DEF r, u, e
      <3>6. Plain("clean", u, r) /\ Len(r) \in Nat /\ \A i \in 1..Len(r) : r[i][1] \in {"strip", "wipe"}
        BY <3>3, SMT DEF Plain, Later, Runnable, Lists
      <3>7. Plain("clean", u, WipeList(e, r)) BY <3>5, <3>6, WipeRuns
      <3> DEFINE s == WipeList(e, r)
      <3>8. Runnable(op.cmd, op.user, s) /\ Plainly(s) BY <3>2, <3>7 DEF Plain, u
      <3>9. op.worst \in BOOLEAN BY DEF Types, Jobs
      <3> HIDE DEF s
      <3>10. Starting(s) BY <2>1, <3>1, <3>4, <3>8, <3>9, ContinuesTo DEF s
      <3>11. /\ \A f \in Edition : journal[f].phase # "open"
             /\ swap.phase = "none" /\ ~op.undoing
        <4>1. "swept" \notin Backs \cup Opens \cup Swaps BY <1>k, SMT DEF Backs
        <4> QED BY <2>1, <3>1, <4>1, Quiet
      <3> QED BY <2>1, <3>8, <3>10, <3>11, BegunMid
    <2> QED BY <2>1, <2>2, <2>3
  <1>7. CASE Wipe
    <2>1. op.pc = "wipe" /\ UNCHANGED <<journal, swap>> /\ Goto("retiretree") BY <1>7 DEF Wipe, At
    <2>2. SameKind("wipe", "retiretree") /\ "retiretree" \notin MarkerSteps
      BY SMT DEF SameKind, Open, Opens, Finishes, Swaps, Shared, Whole, Recovering, MarkerSteps
    <2>3. op.todo[1][1] = "wipe" BY <2>1, TaskOf
    <2> QED BY <2>1, <2>2, <2>3, <1>k, GotoTask
  <1>8. CASE RetireTree
    <2>1. /\ op.pc = "retiretree" /\ UNCHANGED build /\ Done
          /\ \/ journal' = [e \in Edition |-> NoEntry] /\ swap' = NoEntry
             \/ UNCHANGED <<journal, swap>>
      BY <1>8 DEF RetireTree, At, world
    <2>2. /\ \A e \in Edition : journal'[e].phase = "open" => journal[e].phase = "open"
          /\ swap'.phase # "none" => swap.phase # "none"
      BY <2>1, <1>0
    <2> QED BY <2>1, <2>2, <1>k, DoneMid
  <1> QED BY <1>1, <1>2, <1>3, <1>4, <1>5, <1>6, <1>7, <1>8 DEF Tidies

\* A command starts with its recovery.
LEMMA CommandMid ==
  ASSUME Types, Control, Types', Control', NEW cmd \in Commands \ {"none"}, NEW e \in Edition, NEW user \in BOOLEAN,
         cmd = "repair" => user, cmd = "repairall" => ~user,
         Command(cmd, e, user), cmd = "clean" <=> build = 0
  PROVE Midway'
  <1> DEFINE s == Todo(cmd, e)
  <1>1. Runnable(cmd, user, s) /\ s # <<>> /\ Plainly(s) /\ RecoversAll(s) BY TodoRuns
  <1>2. op'.todo = s /\ op'.pc = s[1][1] /\ ~op'.undoing BY CommandOp
  <1> HIDE DEF s
  <1>3. s \in Lists BY <1>1 DEF Runnable
  <1>4. Len(s) \in Nat /\ Len(s) >= 1 /\ s[1][1] \in Tasks BY <1>1, <1>3, Listed
  <1>5. s[1][1] \notin {"rolled", "upgrade"} /\ (Len(s) > 1 => s[2][1] # "rolled")
    BY <1>1, <1>4, SMT DEF Plainly
  <1>6. op'.pc \in Tasks \ {"rolled", "upgrade"} BY <1>2, <1>4, <1>5
  <1>7. ~RollingBack' BY <1>2, <1>5, <1>6, SMT DEF RollingBack, Tasks
  <1>8. Phased' BY <1>2, <1>6, <1>7, SMT DEF Phased, Tasks, Open, Finishes
  <1>9. Presence' BY <1>2, <1>5, <1>6, SMT DEF Presence, Tasks, MarkerSteps
  <1>10. \A f \in Edition : HasTask({"recover", "rolled"}, f)'
    <2>1. ASSUME NEW f \in Edition PROVE \E i \in 1..Len(s) : s[i][1] = "recover" /\ s[i][2] = f
      <3>1. PICK i \in 1..Len(s) : s[i] = <<"recover", f>> BY <1>1 DEF RecoversAll
      <3> QED BY <3>1
    <2> QED BY <2>1, <1>2 DEF HasTask
  <1>11. JournalsShut' BY <1>10 DEF JournalsShut
  <1>12. \E f \in Edition : HasTask({"swap"}, f)'
    <2>1. \E i \in 1..Len(s) : s[i][1] = "swap" /\ s[i][2] = Order[1]
      BY <1>1, SMT DEF RecoversAll
    <2> QED BY <2>1, <1>2, Somebody DEF HasTask
  <1>13. SwapShut' BY <1>12 DEF SwapShut
  <1> QED BY <1>8, <1>9, <1>11, <1>13 DEF Midway

\* Nothing that the invariant speaks of changes.
LEMMA SameMid ==
  ASSUME Midway, UNCHANGED <<op, marker, journal, swap>>
  PROVE Midway'
  BY DEF Midway, Phased, RollingBack, Presence, InstalledMarker, JournalsShut, SwapShut, HasTask, J, Cur

LEMMA FailMid ==
  ASSUME Types, Control, Midway, Types', Control', Fail
  PROVE Midway'
  <1>0. /\ Cur \in Edition /\ (op.pc # "idle" => op # Idle) /\ UNCHANGED <<build, journal, swap, marker>>
    BY Running DEF Fail, disk
  <1>1. CASE op.pc \in Undoes /\ Goto("undo")
    <2>1. SameKind(op.pc, "undo") /\ op.pc \notin Recovering \cup {"idle"} /\ "undo" \notin MarkerSteps
      BY <1>1, SMTT(60) DEF Undoes, SameKind, Open, Opens, Finishes, Swaps, Shared, Whole, Recovering, MarkerSteps
    <2> QED BY <1>0, <1>1, <2>1, GotoTask
  <1>2. CASE op.pc = "excise" /\ Goto("restate")
    <2>1. SameKind("excise", "restate") /\ "excise" \notin Recovering \cup {"idle"} /\ "excise" \in MarkerSteps
      BY SMT DEF SameKind, Open, Opens, Finishes, Swaps, Shared, Whole, Recovering, MarkerSteps
    <2>2. marker[Cur].present BY <1>2, <2>1 DEF Midway, Presence
    <2> QED BY <1>0, <1>2, <2>1, <2>2, GotoTask
  <1>3. CASE op.pc \in Finishes \cup {"stripped"} /\ Done
    <2>1. op.pc \notin Recovering \cup {"idle"} \cup Opens
      BY <1>3, SMT DEF Finishes, Recovering, Opens
    <2> QED BY <1>0, <1>3, <2>1, DoneMid
  <1>4. CASE op.pc \in Reports /\ Abort("failed")
    <2>1. op.pc # "idle" BY <1>4, SMT DEF Reports, Recovering
    <2>2. CASE op.pc \in Recovering
      <3>1. op' = Idle BY <1>0, <1>4, <2>1, <2>2, AbortTo DEF Codes
      <3> QED BY <3>1, EndMid
    <2>3. CASE op.pc = "undo"
      <3>1. op.todo[1][1] \in {"begin", "replace", "upgrade"} BY <2>3, TaskOf DEF Shared
      <3>2. op.cmd \notin {"clean", "sweep"} BY <1>0, <2>1, <3>1, Follow
      <3>3. op' = Idle BY <1>4, <3>2 DEF Abort, Ends
      <3> QED BY <3>3, EndMid
    <2>4. CASE op.pc \notin Recovering \cup {"undo"}
      <3>1. op.pc \notin Opens BY <1>4, <2>4, SMT DEF Reports, Opens
      <3> QED BY <1>0, <1>4, <2>1, <2>4, <3>1, DoneMid DEF Codes
    <2> QED BY <2>2, <2>3, <2>4
  <1> QED BY <1>1, <1>2, <1>3, <1>4 DEF Fail

LEMMA WorldMid ==
  ASSUME Types, Control, Midway, Types', Control', World
  PROVE Midway'
  <1>0. Order[1] \in Edition BY Somebody
  <1>1. CASE UserCommand
    <2>1. PICK e \in Edition, cmd \in {"enable", "disable", "repair", "sweep"} : Command(cmd, e, TRUE)
      BY <1>1 DEF UserCommand
    <2>2. build # 0 /\ cmd \in Commands \ {"none"} /\ cmd \notin {"clean", "repairall"}
      BY <1>1 DEF UserCommand, Commands
    <2> QED BY <2>1, <2>2, CommandMid
  <1>2. CASE SweepStart BY <1>2, SameMid DEF SweepStart, disk
  <1>3. CASE BackgroundEnable
    <2>1. PICK e \in targets : Command("enable", e, FALSE) BY <1>3 DEF BackgroundEnable
    <2>2. build # 0 /\ e \in Edition BY <1>3 DEF BackgroundEnable, Types
    <2> QED BY <2>1, <2>2, CommandMid DEF Commands
  <1>4. CASE BackgroundRepair
    <2>1. build # 0 /\ Command("repairall", Order[1], FALSE) BY <1>4 DEF BackgroundRepair
    <2> QED BY <1>0, <2>1, CommandMid DEF Commands
  <1>5. CASE OrphanClean
    <2>1. build = 0 /\ Command("clean", Order[1], TRUE) BY <1>5 DEF OrphanClean
    <2> QED BY <1>0, <2>1, CommandMid DEF Commands
  <1>6. CASE NewBuild BY <1>6, SameMid DEF NewBuild, disk
  <1>7. CASE Remove BY <1>7, SameMid DEF Remove, disk
  <1>8. CASE Edit BY <1>8, SameMid DEF Edit
  <1>9. CASE Crash BY <1>9, EndMid DEF Crash
  <1>10. CASE Fail BY <1>10, FailMid
  <1> QED BY <1>1, <1>2, <1>3, <1>4, <1>5, <1>6, <1>7, <1>8, <1>9, <1>10 DEF World

\* Every step keeps what lies between the journals, the payload's, and the steps.
LEMMA MidwayStep ==
  ASSUME Types, Control, Midway, [Next]_vars
  PROVE Types' /\ Control' /\ Midway'
  <1>1. Types' /\ Control' BY TypesStep DEF Midway
  <1>2. CASE Recovers BY <1>1, <1>2, RecoversMid
  <1>3. CASE Enables BY <1>1, <1>3, EnablesMid
  <1>4. CASE Removes BY <1>1, <1>4, RemovesMid
  <1>5. CASE Tidies BY <1>1, <1>5, TidiesMid
  <1>6. CASE World BY <1>1, <1>6, WorldMid
  <1>7. CASE UNCHANGED vars
    <2>1. UNCHANGED <<op, marker, journal, swap>> BY <1>7 DEF vars, disk
    <2> QED BY <1>1, <2>1, SameMid
  <1> QED BY <1>1, <1>2, <1>3, <1>4, <1>5, <1>6, <1>7 DEF Next

LEMMA Starting0 ==
  ASSUME Init
  PROVE Types /\ Control /\ Midway
  <1>0. NoSnap \in Saved /\ NoEntry \in Journals /\ 0 \in 0..MaxBuild /\ 1 \in 0..MaxBuild /\ 2 \in 0..MaxBuild
        /\ NoMarker \in Marked /\ Idle \in Jobs
    BY Nothings, NotMarked, IdleTyped
  <1>1. PICK old \in SUBSET Edition :
       /\ profile = [e \in Edition |-> IF e \in old
                       THEN [present |-> TRUE, text |-> Start[e].text, block |-> "legacy"] ELSE Start[e]]
       /\ marker = [e \in Edition |-> IF e \in old
                      THEN [present |-> TRUE, state |-> "installed", version |-> Legacy,
                            orig |-> Start[e].present]
                      ELSE NoMarker]
       /\ snap = [e \in Edition |-> [n \in Names |->
                    IF n = Live /\ e \in old
                      THEN [kind |-> "old", orig |-> Start[e].present,
                            before |-> [present |-> TRUE, text |-> Start[e].text, block |-> "none"]]
                      ELSE NoSnap]]
       /\ tree = [state |-> old # {}, legacy |-> old # {}]
    BY DEF Init
  <1>2. /\ build = 2 /\ journal = [e \in Edition |-> NoEntry]
        /\ payload = [n \in Names |-> 0] /\ swap = NoEntry
        /\ targets = {} /\ op = Idle /\ last = "none"
        /\ owned = [e \in Edition |-> [text |-> Start[e].text, file |-> Start[e].present]]
    BY DEF Init
  <1>3. \A e \in Edition : /\ Start[e] \in [present : BOOLEAN, text : Users \cup {NoText}, block : {"none"}]
                           /\ Start[e].text # NoText => Start[e].present
    <2> TAKE e \in Edition
    <2>1. Start[e] \in [present : BOOLEAN, text : Users \cup {NoText}, block : {"none"}]
      BY PowerShellAssumption, Zenon
    <2>2. Start[e].text # NoText => Start[e].present BY PowerShellAssumption, Zenon
    <2> QED BY <2>1, <2>2
  <1>4. profile \in [Edition -> Files] BY <1>1, <1>3 DEF Files, Contents, Texts, Blocks
  <1>5. marker \in [Edition -> Marked] BY <1>0, <1>1, <1>3 DEF Marked, Markers, Legacy
  <1>6. snap \in [Edition -> [Names -> Saved]]
    <2>1. \A e \in Edition : [kind |-> "old", orig |-> Start[e].present,
                              before |-> [present |-> TRUE, text |-> Start[e].text, block |-> "none"]] \in Saved
      BY <1>3 DEF Saved, Files, Contents, Texts, Blocks
    <2> QED BY <2>1, <1>0, <1>1
  <1>7. owned \in [Edition -> [text : Texts, file : BOOLEAN]] BY <1>2, <1>3 DEF Texts
  <1>8. /\ journal \in [Edition -> Journals] /\ payload \in [Names -> 0..MaxBuild] /\ swap \in Journals
        /\ tree \in [state : BOOLEAN, legacy : BOOLEAN]
        /\ build \in 0..MaxBuild /\ targets \subseteq Edition
    BY <1>0, <1>1, <1>2
  <1>9. Types BY <1>0, <1>2, <1>4, <1>5, <1>6, <1>7, <1>8 DEF Types
  <1>10. op.pc = "idle" /\ op.todo = <<>> /\ Len(op.todo) = 0 /\ ~op.undoing /\ op = Idle
    BY <1>2, SMT DEF Idle
  <1>11. Phased BY <1>10, SMT DEF Phased, RollingBack, Open, Finishes
  <1>12. Presence BY <1>10, SMT DEF Presence, MarkerSteps
  <1>13. JournalsShut /\ SwapShut /\ Control BY <1>10 DEF JournalsShut, SwapShut, Control
  <1> QED BY <1>9, <1>11, <1>12, <1>13 DEF Midway


-----------------------------------------------------------------------------
(* The recovery directories, from step to step.                             *)

LEMMA KeptSame ==
  ASSUME Kept, UNCHANGED <<marker, snap, journal>>
  PROVE Kept'
  BY DEF Kept, KeptAt, Kind, InstalledMarker

\* A task starts.
LEMMA HeldBegin ==
  ASSUME op'.pc \in Tasks \cup {"idle"}, ~RollingBack'
  PROVE Held'
  <1>1. op'.pc \notin Before \cup Filed \cup Open \cup Unretired \cup After
    BY SMT DEF Tasks, Before, Filed, Open, Unretired, After
  <1>2. op'.pc \notin {"live", "restore", "unpublish", "examine", "excise", "restate", "erase", "erased", "retiretree"}
    BY SMT DEF Tasks
  <1> QED BY <1>1, <1>2, SMT DEF Held, Restored

LEMMA HeldShut ==
  ASSUME Types', Control', Midway', op'.pc \in Tasks \cup {"idle"}, \A e \in Edition : journal'[e].phase # "open"
  PROVE Held'
  <1>1. Cur' \in Edition
    <2>1. CASE op' = Idle BY <2>1, Somebody DEF Idle, Cur
    <2>2. CASE op' # Idle
      <3>1. op'.todo \in Lists /\ op'.todo # <<>> BY <2>2 DEF Control, Runnable
      <3> QED BY <3>1, Listed DEF Cur
    <2> QED BY <2>1, <2>2
  <1>2. ~RollingBack' BY <1>1 DEF Midway, Phased, J
  <1> QED BY <1>2, HeldBegin

LEMMA HeldIdle ==
  ASSUME op' = Idle
  PROVE Held'
  <1>1. op'.pc = "idle" /\ Len(op'.todo) = 0 BY SMT DEF Idle
  <1>2. ~RollingBack' BY <1>1, SMT DEF RollingBack
  <1> QED BY <1>1, <1>2, HeldBegin

\* A rollback that waits for the payload's.
LEMMA Pending ==
  ASSUME Types, Control, op.pc # "idle", Len(op.todo) > 1, op.todo[2][1] = "rolled"
  PROVE /\ op.todo[1][1] = "swap" /\ op.todo[2][2] = Cur
        /\ op.pc \in {"swap", "swaproot", "swaprename", "swapclean", "swapdrop"}
  <1>1. op # Idle /\ op.todo \in Lists /\ op.todo # <<>> /\ Runnable(op.cmd, op.user, op.todo)
        /\ op.pc \in StepsOf(op.todo[1][1]) /\ Cur = op.todo[1][2]
    BY Running DEF Control
  <1>2. 2 \in 1..Len(op.todo) BY <1>1, SMT DEF Lists
  <1>3. op.todo[1] = <<"swap", op.todo[2][2]>> BY <1>1, <1>2 DEF Runnable, RolledNext
  <1>4. op.todo[1][1] = "swap" /\ op.todo[1][2] = op.todo[2][2] BY <1>3, SMT
  <1> QED BY <1>1, <1>4, SMT DEF StepsOf

\* Another step of the recovery of a host.
LEMMA HostHeld ==
  ASSUME Types, Control, op.pc # "idle", op.todo[1][1] \in {"recover", "rolled"},
         NEW q \in StepsOf("recover"), op'.todo = op.todo, op'.pc = q,
         q \in {"restore", "unpublish"} => Recovery'.kind = "full",
         q \in {"unretire", "values", "state", "rolled"} => Kind(Cur, Stg(J.tx))' # "none",
         q \in {"values", "state", "rolled"} =>
            Kind(Cur, Rmv(J.tx))' = "none" /\ (J'.prev # 0 => Kind(Cur, Live)' \in Good),
         q \in {"state", "rolled"} /\ marker'[Cur'].present => J'.prev # 0
  PROVE Held'
  <1>1. ~(Len(op'.todo) > 1 /\ op'.todo[2][1] = "rolled") BY Pending
  <1>2. RollingBack' <=> q \in {"unretire", "values", "state", "rolled"} BY <1>1 DEF RollingBack
  <1>3. /\ q \notin Before \cup Filed \cup Open \cup Unretired \cup After
        /\ q \notin {"live", "examine", "excise", "restate", "erase", "erased", "retiretree"}
    BY SMT DEF StepsOf, Before, Filed, Open, Unretired, After
  <1> QED BY <1>2, <1>3, SMT DEF Held, Restored

\* Another step of the payload's.
LEMMA SwapHeld ==
  ASSUME Types, Control, Held, op.pc \in StepsOf("swap"),
         NEW q \in StepsOf("swap"), op'.todo = op.todo, op'.pc = q, UNCHANGED <<marker, snap, journal>>
  PROVE Held'
  <1>1. q \notin {"unretire", "values", "state", "rolled"} /\ op.pc \notin {"unretire", "values", "state", "rolled"}
        /\ op.pc # "idle"
    BY SMT DEF StepsOf
  <1>2. Cur' = Cur /\ J' = J BY DEF Cur, J
  <1>3. (RollingBack' <=> RollingBack) /\ (Restored' <=> Restored) BY <1>1 DEF RollingBack, Restored
  <1>4. /\ q \notin Before \cup Filed \cup Open \cup Unretired \cup After
        /\ q \notin {"live", "restore", "unpublish", "examine", "excise", "restate", "erase", "erased", "retiretree"}
    BY SMT DEF StepsOf, Before, Filed, Open, Unretired, After
  <1>5. \A n : Kind(Cur, n)' = Kind(Cur, n) BY <1>2 DEF Kind
  <1> QED BY <1>1, <1>2, <1>3, <1>4, <1>5, SMT DEF Held, Kind

\* The next task of a recovery.
LEMMA BackHeld ==
  ASSUME Types, Control, Held, Types', Control', op.pc # "idle", Starting(Tail(op.todo)),
         op.todo[1][1] \in Backs,
         op.todo[1][1] = "swap" => UNCHANGED <<marker, snap, journal>>
  PROVE Held'
  <1>1. CASE op' = Idle BY <1>1, HeldIdle
  <1>2. CASE op' # Idle
    <2> DEFINE s == Tail(op.todo)
    <2>0. op # Idle /\ op.todo \in Lists /\ op.todo # <<>> /\ Runnable(op.cmd, op.user, op.todo)
          /\ Cur = op.todo[1][2] /\ op.pc \in StepsOf(op.todo[1][1])
      BY Running DEF Control
    <2>1. s # <<>> /\ op'.todo = s /\ op'.pc = s[1][1] BY <1>2 DEF Starting
    <2>2. /\ s \in Lists /\ Len(s) \in Nat /\ Len(s) = Len(op.todo) - 1 /\ Len(op.todo) \in Nat
          /\ \A i \in 1..Len(s) : s[i] = op.todo[i + 1]
      BY <2>0, Listed, SMT DEF Lists
    <2> HIDE DEF s
    <2>5. Len(s) >= 1 /\ s[1][1] \in Tasks /\ s[1] = op.todo[2] /\ Len(op.todo) > 1 /\ Head(s) = s[1]
      BY <2>1, <2>2, Listed
    <2>6. ~(Len(s) > 1 /\ s[2][1] = "rolled")
      <3>1. Len(s) > 1 => 2 \in 1..Len(s) /\ 3 \in 1..Len(op.todo) /\ s[2] = op.todo[3]
        BY <2>2
      <3>2. \A i \in 1..Len(op.todo) : op.todo[i][1] = "rolled" => i = 1 \/ i = 2
        BY <2>0 DEF Runnable, RolledNext
      <3>3. Len(s) > 1 => op.todo[3][1] # "rolled" BY <3>1, <3>2
      <3> QED BY <3>1, <3>3
    <2>7. op'.pc \in Tasks BY <2>1, <2>5
    <2>8. RollingBack' => op'.pc = "rolled" BY <2>1, <2>6, <2>7, SMT DEF RollingBack, Tasks
    <2>9. CASE ~RollingBack' BY <2>7, <2>9, HeldBegin
    <2>10. CASE RollingBack'
      <3>1. op'.pc = "rolled" /\ op.todo[2][1] = "rolled" BY <2>1, <2>5, <2>8, <2>10
      <3>2. /\ op.todo[1][1] = "swap" /\ op.todo[2][2] = Cur
            /\ op.pc \in {"swap", "swaproot", "swaprename", "swapclean", "swapdrop"}
        BY <2>5, <3>1, Pending
      <3>3. Cur' = Cur BY <2>1, <2>5, <3>2 DEF Cur
      <3>4. UNCHANGED <<marker, snap, journal>> BY <3>2
      <3>5. J' = J /\ \A n : Kind(Cur, n)' = Kind(Cur, n) BY <3>3, <3>4 DEF J, Kind
      <3>6. RollingBack /\ Restored /\ op.pc # "values" BY <2>5, <3>1, <3>2 DEF RollingBack, Restored
      <3>7. /\ op'.pc \notin Before \cup Filed \cup Open \cup Unretired \cup After
            /\ op'.pc \notin {"live", "restore", "unpublish", "examine", "excise", "restate", "erase",
                              "erased", "retiretree"}
        BY <3>1, SMT DEF Before, Filed, Open, Unretired, After
      <3> QED BY <3>3, <3>4, <3>5, <3>6, <3>7, SMT DEF Held, Restored, Kind
    <2> QED BY <2>9, <2>10
  <1> QED BY <1>1, <1>2


\* What is kept of a host.
LEMMA KeptCur ==
  ASSUME Types, Control, Kept,
         \A e \in Edition \ {Cur} : marker'[e] = marker[e] /\ snap'[e] = snap[e] /\ journal'[e] = journal[e],
         journal'[Cur].phase = "open" /\ journal'[Cur].prev # 0 =>
           \/ snap'[Cur][Rmv(journal'[Cur].tx)].kind \in Good
           \/ /\ snap'[Cur][Rmv(journal'[Cur].tx)].kind = "none" /\ snap'[Cur][Live].kind \in Good
              /\ snap'[Cur][Stg(journal'[Cur].tx)].kind # "none",
         marker'[Cur].present /\ marker'[Cur].state = "installed" /\ journal'[Cur].phase # "open"
           => snap'[Cur][Live].kind \in Good
  PROVE Kept'
  <1> DEFINE c == Cur
  <1>1. c \in Edition BY Running
  <1>2. \A e \in Edition \ {c} : marker'[e] = marker[e] /\ snap'[e] = snap[e] /\ journal'[e] = journal[e]
    OBVIOUS
  <1> SUFFICES ASSUME NEW e \in Edition PROVE KeptAt(e)' BY DEF Kept
  <1>3. CASE e = c BY <1>3 DEF KeptAt, Kind, InstalledMarker
  <1>4. CASE e # c
    <2>1. KeptAt(e) /\ marker'[e] = marker[e] /\ snap'[e] = snap[e] /\ journal'[e] = journal[e]
      BY <1>4 DEF Kept
    <2> QED BY <2>1 DEF KeptAt, Kind, InstalledMarker
  <1> QED BY <1>3, <1>4

LEMMA RecoversHeld ==
  ASSUME Types, Control, Midway, Kept, Held, Types', Control', Recovers
  PROVE Kept' /\ Held'
  <1>0. /\ Cur \in Edition /\ (op.pc # "idle" => op # Idle) /\ J \in Journals
        /\ J.phase \in Phases /\ (J.phase # "none" => J.tx \in Tx)
    BY Ids, Running DEF Midway, Journals, Entries
  <1>s. op.pc # "idle" => /\ op.pc \in {"recover", "restore", "unpublish", "unretire", "values", "state",
                                        "tidyswap", "tidydrop", "tidystate", "dropjournal", "rolled"}
                              => op.todo[1][1] \in {"recover", "rolled"}
                          /\ op.pc \in {"swap", "swaproot", "swaprename", "swapclean", "swapdrop"}
                              => op.todo[1][1] = "swap"
    BY TaskOf
  <1>b. {"recover", "rolled", "swap"} \subseteq Backs BY DEF Backs
  <1>q. /\ {"restore", "unpublish", "unretire", "values", "state", "rolled", "tidyswap", "tidydrop",
            "tidystate", "dropjournal"} \subseteq StepsOf("recover")
        /\ {"swap", "swaproot", "swaprename", "swapclean", "swapdrop"} = StepsOf("swap")
    BY SMT DEF StepsOf
  <1>p. /\ op.pc \in {"restore", "unpublish", "unretire", "values", "state", "rolled"} => J.phase = "open"
        /\ op.pc \in {"tidyswap", "tidydrop", "tidystate", "dropjournal"} => J.phase \in {"committed", "rolledback"}
    BY SMT DEF Midway, Phased, RollingBack
  <1>r. /\ op.pc \in {"restore", "unpublish"} => Recovery.kind = "full"
        /\ op.pc \in {"unretire", "values", "state", "rolled"} => Kind(Cur, Stg(J.tx)) # "none"
        /\ op.pc \in {"values", "state", "rolled"} =>
             Kind(Cur, Rmv(J.tx)) = "none" /\ (J.prev # 0 => Kind(Cur, Live) \in Good)
        /\ op.pc \in {"state", "rolled"} /\ marker[Cur].present => J.prev # 0
    BY SMT DEF Held, RollingBack, Restored
  <1>k. /\ J.phase = "open" /\ J.prev # 0 =>
             \/ Kind(Cur, Rmv(J.tx)) \in Good
             \/ /\ Kind(Cur, Rmv(J.tx)) = "none" /\ Kind(Cur, Live) \in Good
                /\ Kind(Cur, Stg(J.tx)) # "none"
        /\ InstalledMarker(Cur) /\ J.phase # "open" => Kind(Cur, Live) \in Good
    BY <1>0 DEF Kept, KeptAt, J
  \* Steps that touch none of the three.
  <1>g. ASSUME NEW q, Goto(q) PROVE op'.todo = op.todo /\ op'.pc = q /\ Cur' = Cur
    BY <1>g DEF Goto, Types, Jobs, Cur
  <1>h. ASSUME NEW q \in {"tidyswap", "tidydrop", "tidystate", "dropjournal"}, Goto(q),
               op.pc \in {"recover", "rolled", "tidyswap", "tidydrop", "tidystate"}
        PROVE Held'
    <2>1. op'.todo = op.todo /\ op'.pc = q BY <1>g, <1>h
    <2>2. op.pc # "idle" /\ op.todo[1][1] \in {"recover", "rolled"} BY <1>h, <1>s
    <2>3. q \in StepsOf("recover") /\ q \notin {"restore", "unpublish", "unretire", "values", "state", "rolled"}
      BY <1>h, <1>q
    <2> QED BY <2>1, <2>2, <2>3, HostHeld
  <1>i. ASSUME NEW q \in StepsOf("swap"), Goto(q), op.pc \in StepsOf("swap"), UNCHANGED <<marker, snap, journal>>
        PROVE Kept' /\ Held'
    <2>1. op'.todo = op.todo /\ op'.pc = q BY <1>g, <1>i
    <2> QED BY <2>1, <1>i, SwapHeld, KeptSame
  <1>1. CASE Recover
    <2>0. op.pc = "recover" /\ UNCHANGED <<marker, snap, journal, build>> /\ op.todo[1][1] = "recover" /\ op # Idle
      BY <1>1, <1>0, TaskOf DEF Recover, At, world, disk
    <2>1. \/ J.phase = "none" /\ Done
          \/ J.phase \notin {"none", "open"} /\ Goto("tidyswap")
          \/ Recovery.kind = "full" /\ Goto("unpublish")
          \/ Abort("refused") \/ Abort("confirm")
          \/ Recovery.kind = "full" /\ op' = [op EXCEPT !.seen = profile[Cur], !.pc = "restore"]
      BY <1>1 DEF Recover
    <2>k. Kept' BY <2>0, KeptSame
    <2>2. CASE Done
      <3>1. Starting(Tail(op.todo)) BY <2>0, <2>2, DoneTo
      <3> QED BY <2>0, <2>k, <3>1, <1>b, BackHeld
    <2>3. CASE Goto("tidyswap") BY <2>0, <2>3, <2>k, <1>h
    <2>4. CASE /\ Recovery.kind = "full"
               /\ Goto("unpublish") \/ op' = [op EXCEPT !.seen = profile[Cur], !.pc = "restore"]
      <3>1. op'.todo = op.todo /\ op'.pc \in {"unpublish", "restore"} BY <2>4 DEF Goto, Types, Jobs
      <3>2. Recovery' = Recovery BY <2>0, <3>1 DEF Recovery, Published, Staged, J, Cur
      <3>3. op'.pc \in StepsOf("recover") BY <3>1, <1>q
      <3> QED BY <2>0, <2>4, <2>k, <3>1, <3>2, <3>3, HostHeld
    <2>5. CASE Abort("refused") \/ Abort("confirm")
      <3>1. op' = Idle BY <2>0, <2>5, AbortTo DEF Codes, Recovering
      <3> QED BY <2>k, <3>1, HeldIdle
    <2> QED BY <2>1, <2>2, <2>3, <2>4, <2>5
  <1>2. CASE Restore
    <2>1. /\ op.pc = "restore" /\ UNCHANGED <<build, marker, snap, journal>> /\ op # Idle
          /\ Goto("unpublish") \/ Abort("refused")
      BY <1>2, <1>0 DEF Restore, At, world, Replaced
    <2>k. Kept' BY <2>1, KeptSame
    <2>2. CASE Goto("unpublish")
      <3>1. op'.todo = op.todo /\ op'.pc = "unpublish" BY <2>2, <1>g
      <3>2. Recovery' = Recovery BY <2>1, <3>1 DEF Recovery, Published, Staged, J, Cur
      <3> QED BY <2>1, <2>k, <3>1, <3>2, <1>q, <1>r, <1>s, HostHeld
    <2>3. CASE Abort("refused")
      <3>1. op' = Idle BY <2>1, <2>3, AbortTo DEF Codes, Recovering
      <3> QED BY <2>k, <3>1, HeldIdle
    <2> QED BY <2>1, <2>2, <2>3
  <1>3. CASE Unpublish
    <2>1. op.pc = "unpublish" /\ UNCHANGED <<marker, journal>> /\ Goto("unretire")
          /\ snap' = IF Published THEN [snap EXCEPT ![Cur] = Moved(@, Live, <<"staging", J.tx>>, NoSnap)] ELSE snap
      BY <1>3 DEF Unpublish, At
    <2>2. op'.todo = op.todo /\ op'.pc = "unretire" /\ Cur' = Cur /\ J' = J BY <2>1, <1>g DEF J
    <2> DEFINE c == Cur
               t == J.tx
               g == Stg(J.tx)
    <2>3. c \in Edition /\ t \in Tx /\ g \in Names /\ g # Live /\ Live \in Names /\ Rmv(t) \in Names
          /\ Rmv(t) # Live /\ Rmv(t) # g
      BY <2>1, <1>0, <1>p, Named DEF Stg, Rmv
    <2>4. Published <=> snap[c][g].kind = "none" BY DEF Published, Staged, Stg
    <2>5. Recovery.kind = "full" BY <2>1, <1>r
    <2>6. /\ \A e \in Edition \ {c} : snap'[e] = snap[e]
          /\ snap'[c][Rmv(t)] = snap[c][Rmv(t)]
          /\ snap'[c][g].kind # "none"
          /\ Published \/ snap' = snap
      <3>1. CASE Published
        <4>1. snap' = [snap EXCEPT ![c] = Moved(@, Live, g, NoSnap)] BY <2>1, <3>1 DEF Stg
        <4>2. snap[c][Live].kind = "full" BY <2>5, <3>1 DEF Recovery
        <4> HIDE DEF c, g, t
        <4>3. /\ \A e \in Edition \ {c} : snap'[e] = snap[e]
              /\ \A n \in Names \ {Live, g} : snap'[c][n] = snap[c][n]
              /\ snap'[c][g] = snap[c][Live]
          BY <2>3, <4>1 DEF Moved, Types
        <4> QED BY <2>3, <3>1, <4>2, <4>3
      <3>2. CASE ~Published BY <2>1, <2>4, <3>2
      <3> QED BY <3>1, <3>2
    <2>7. Held'
      <3>1. Kind(Cur, Stg(J.tx))' # "none" BY <2>2, <2>6 DEF Kind
      <3> QED BY <2>1, <2>2, <3>1, <1>q, <1>s, HostHeld
    <2>8. Kept'
      <3>1. J.prev # 0 => \/ snap[Cur][Rmv(t)].kind \in Good
                          \/ /\ snap[Cur][Rmv(t)].kind = "none" /\ snap[Cur][Live].kind \in Good
                             /\ snap[Cur][g].kind # "none"
        BY <2>1, <1>p, <1>k DEF Kind
      <3>2. J.prev # 0 => \/ snap'[Cur][Rmv(t)].kind \in Good
                          \/ /\ snap'[Cur][Rmv(t)].kind = "none" /\ snap'[Cur][Live].kind \in Good
                             /\ snap'[Cur][g].kind # "none"
        BY <2>4, <2>6, <3>1
      <3> QED BY <2>1, <2>6, <3>2, <1>p, KeptCur DEF J
    <2> QED BY <2>7, <2>8
  <1>4. CASE Unretire
    <2>1. op.pc = "unretire" /\ UNCHANGED <<marker, journal>> /\ Goto("values")
          /\ snap' = IF snap[Cur][<<"removing", J.tx>>].kind # "none"
               THEN [snap EXCEPT ![Cur] = Moved(@, <<"removing", J.tx>>, Live, NoSnap)] ELSE snap
      BY <1>4 DEF Unretire, At
    <2>2. op'.todo = op.todo /\ op'.pc = "values" /\ Cur' = Cur /\ J' = J BY <2>1, <1>g DEF J
    <2> DEFINE c == Cur
               t == J.tx
               r == Rmv(J.tx)
    <2>3. c \in Edition /\ t \in Tx /\ r \in Names /\ r # Live /\ Live \in Names /\ Stg(t) \in Names
          /\ Stg(t) # Live /\ Stg(t) # r
      BY <2>1, <1>0, <1>p, Named DEF Stg, Rmv
    <2>4. J.prev # 0 => snap[c][r].kind \in Good \/ (snap[c][r].kind = "none" /\ snap[c][Live].kind \in Good)
      BY <2>1, <1>p, <1>k DEF Kind
    <2>5. snap[c][Stg(t)].kind # "none" BY <2>1, <1>r DEF Kind
    <2>6. /\ \A e \in Edition \ {c} : snap'[e] = snap[e]
          /\ snap'[c][Stg(t)] = snap[c][Stg(t)]
          /\ snap'[c][r].kind = "none"
          /\ J.prev # 0 => snap'[c][Live].kind \in Good
      <3>1. CASE snap[c][r].kind # "none"
        <4>1. snap' = [snap EXCEPT ![c] = Moved(@, r, Live, NoSnap)] BY <2>1, <3>1 DEF Rmv
        <4> HIDE DEF c, r, t
        <4>3. /\ \A e \in Edition \ {c} : snap'[e] = snap[e]
              /\ \A n \in Names \ {Live, r} : snap'[c][n] = snap[c][n]
              /\ snap'[c][Live] = snap[c][r] /\ snap'[c][r] = NoSnap
          BY <2>3, <4>1 DEF Moved, Types
        <4> QED BY <2>3, <2>4, <3>1, <4>3 DEF NoSnap, Good
      <3>2. CASE snap[c][r].kind = "none"
        <4>1. snap' = snap BY <2>1, <3>2 DEF Rmv
        <4> QED BY <2>4, <3>2, <4>1 DEF Good
      <3> QED BY <3>1, <3>2
    <2>7. Held'
      <3>1. Kind(Cur, Stg(J.tx))' # "none" /\ Kind(Cur, Rmv(J.tx))' = "none" /\ (J'.prev # 0 => Kind(Cur, Live)' \in Good)
        BY <2>2, <2>5, <2>6 DEF Kind
      <3> QED BY <2>1, <2>2, <3>1, <1>q, <1>s, HostHeld
    <2>8. Kept' BY <2>1, <2>5, <2>6, <1>p, KeptCur DEF J
    <2> QED BY <2>7, <2>8
  <1>5. CASE RestoreValues
    <2>1. op.pc = "values" /\ UNCHANGED <<snap, journal>> /\ Goto("state")
          /\ marker' = [marker EXCEPT ![Cur] = IF J.prev = 0 THEN NoMarker
                    ELSE [marker[Cur] EXCEPT !.present = TRUE, !.version = J.prev, !.orig = J.orig]]
      BY <1>5 DEF RestoreValues, At, SetMarker
    <2>2. op'.todo = op.todo /\ op'.pc = "state" /\ Cur' = Cur /\ J' = J BY <2>1, <1>g DEF J
    <2>3. /\ \A e \in Edition \ {Cur} : marker'[e] = marker[e]
          /\ marker'[Cur].present => J.prev # 0
      <3>1. marker \in [Edition -> Marked] BY DEF Types
      <3> QED BY <2>1, <3>1, <1>0 DEF NoMarker
    <2>4. Held'
      <3>1. \A n : Kind(Cur, n)' = Kind(Cur, n) BY <2>1, <2>2 DEF Kind
      <3>2. Kind(Cur, Stg(J.tx))' = Kind(Cur, Stg(J.tx)) /\ Kind(Cur, Rmv(J.tx))' = Kind(Cur, Rmv(J.tx))
            /\ Kind(Cur, Live)' = Kind(Cur, Live)
        BY <2>1, <2>2 DEF Kind
      <3> QED BY <2>1, <2>2, <2>3, <3>2, <1>q, <1>r, <1>s, HostHeld
    <2>5. Kept' BY <2>1, <2>3, <1>p, <1>k, KeptCur DEF J, Kind
    <2> QED BY <2>4, <2>5
  <1>6. CASE RestoreState
    <2>1. /\ op.pc = "state" /\ UNCHANGED <<build, snap, journal>>
          /\ marker' = IF marker[Cur].present THEN [marker EXCEPT ![Cur].state = "installed"] ELSE marker
          /\ Goto("rolled") \/ Instead(<<<<"swap", Cur>>, <<"rolled", Cur>>>>)
      BY <1>6 DEF RestoreState, At, world
    <2>2. /\ \A e \in Edition \ {Cur} : marker'[e] = marker[e]
          /\ marker'[Cur].present => J.prev # 0
      <3>1. marker \in [Edition -> Marked] BY DEF Types
      <3>2. marker'[Cur].present => marker[Cur].present BY <2>1, <3>1, <1>0 DEF Marked, Markers
      <3> QED BY <2>1, <3>1, <3>2, <1>0, <1>r
    <2>3. Kept' BY <2>1, <2>2, <1>p, <1>k, KeptCur DEF J, Kind
    <2>4. CASE Goto("rolled")
      <3>1. op'.todo = op.todo /\ op'.pc = "rolled" /\ Cur' = Cur /\ J' = J BY <2>1, <2>4, <1>g DEF J
      <3>2. Kind(Cur, Stg(J.tx))' = Kind(Cur, Stg(J.tx)) /\ Kind(Cur, Rmv(J.tx))' = Kind(Cur, Rmv(J.tx))
            /\ Kind(Cur, Live)' = Kind(Cur, Live)
        BY <2>1, <3>1 DEF Kind
      <3> QED BY <2>1, <2>2, <2>3, <3>1, <3>2, <1>q, <1>r, <1>s, HostHeld
    <2>5. CASE Instead(<<<<"swap", Cur>>, <<"rolled", Cur>>>>)
      <3>1. op # Idle /\ op.todo[1][1] = "recover" BY <2>1, <1>0, TaskOf
      <3>2. Runnable(op.cmd, op.user, Tail(op.todo)) /\ Plainly(Tail(op.todo))
        BY <3>1, RestRuns DEF Control
      <3> DEFINE s == RollList(Cur, Tail(op.todo))
                 r == Tail(op.todo)
                 c == Cur
      <3>3. Runnable(op.cmd, op.user, s) BY <3>2, <1>0, RollsOn
      <3>4. op.worst \in BOOLEAN /\ Continues(s, op.worst)
        BY <2>5 DEF Types, Jobs, Instead, Runs, RollList
      <3>a. s = RollList(c, r) /\ c = Cur /\ c \in Edition /\ r \in Lists BY <3>2, <1>0 DEF Runnable
      <3> HIDE DEF s, r, c
      <3>b. s[1][1] = "swap" /\ s[1][2] = Cur BY <3>a, RollAt
      <3>5. Starting(s) BY <2>1, <3>1, <3>3, <3>4, ContinuesTo
      <3>6. CASE op' = Idle BY <2>3, <3>6, HeldIdle
      <3>7. CASE op' # Idle
        <4>1. op'.todo = s /\ op'.pc = "swap" /\ s # <<>> BY <3>5, <3>7, <3>b DEF Starting
        <4>2. s \in Lists BY <3>3 DEF Runnable
        <4>3. Head(s) = s[1] BY <4>1, <4>2, Listed
        <4>4. Cur' = Cur BY <4>1, <4>3, <3>b DEF Cur
        <4>5. J' = J /\ \A n : Kind(Cur, n)' = Kind(Cur, n) BY <4>4, <2>1 DEF J, Kind
        <4>6. /\ Kind(Cur, Stg(J.tx))' = Kind(Cur, Stg(J.tx)) /\ Kind(Cur, Rmv(J.tx))' = Kind(Cur, Rmv(J.tx))
              /\ Kind(Cur, Live)' = Kind(Cur, Live)
          BY <2>1, <4>4, <4>5 DEF Kind
        <4>7. /\ op'.pc \notin Before \cup Filed \cup Open \cup Unretired \cup After
              /\ op'.pc \notin {"live", "restore", "unpublish", "examine", "excise", "restate", "erase",
                                "erased", "retiretree"}
          BY <4>1, SMT DEF Before, Filed, Open, Unretired, After
        <4>8. Held' BY <2>1, <2>2, <4>4, <4>5, <4>6, <4>7, <1>r, SMT DEF Held
        <4> QED BY <2>3, <4>8
      <3> QED BY <3>6, <3>7
    <2> QED BY <2>1, <2>4, <2>5
  <1>7. CASE RolledBack
    <2>1. op.pc = "rolled" /\ UNCHANGED <<marker, snap>> /\ Goto("tidystate")
          /\ journal' = [journal EXCEPT ![Cur].phase = "rolledback"]
      BY <1>7 DEF RolledBack, At, SetJournal
    <2>2. /\ \A e \in Edition \ {Cur} : journal'[e] = journal[e]
          /\ journal'[Cur].phase = "rolledback"
      <3>1. journal \in [Edition -> Journals] BY DEF Types
      <3> QED BY <2>1, <3>1, <1>0 DEF Journals, Entries
    <2>3. marker[Cur].present => Kind(Cur, Live) \in Good BY <2>1, <1>r
    <2>4. Kept' BY <2>1, <2>2, <2>3, KeptCur DEF Kind
    <2>5. Held' BY <2>1, <1>h
    <2> QED BY <2>4, <2>5
  <1>8. CASE TidySwap
    <2>1. op.pc = "tidyswap" /\ UNCHANGED <<marker, snap, journal>> /\ (Goto("tidydrop") \/ Goto("tidystate"))
      BY <1>8 DEF TidySwap, At
    <2> QED BY <2>1, <1>h, KeptSame
  <1>9. CASE TidyDrop
    <2>1. op.pc = "tidydrop" /\ UNCHANGED <<marker, snap, journal>> /\ Goto("tidystate")
      BY <1>9 DEF TidyDrop, At
    <2> QED BY <2>1, <1>h, KeptSame
  <1>10. CASE TidyState
    <2>1. op.pc = "tidystate" /\ UNCHANGED <<marker, journal>> /\ Goto("dropjournal")
          /\ snap' = [snap EXCEPT ![Cur][<<"staging", J.tx>>] = NoSnap, ![Cur][<<"removing", J.tx>>] = NoSnap]
      BY <1>10 DEF TidyState, At
    <2>2. /\ \A e \in Edition \ {Cur} : snap'[e] = snap[e]
          /\ snap'[Cur][Live] = snap[Cur][Live]
      BY <2>1, <1>0, <1>p, Named DEF Types
    <2>3. Kept' BY <2>1, <2>2, <1>0, <1>p, <1>k, KeptCur DEF Kind, J, InstalledMarker
    <2>4. Held' BY <2>1, <1>h
    <2> QED BY <2>3, <2>4
  <1>11. CASE DropJournal
    <2>1. op.pc = "dropjournal" /\ UNCHANGED <<build, marker, snap>> /\ Done /\ op # Idle
          /\ journal' = [journal EXCEPT ![Cur] = NoEntry]
      BY <1>11, <1>0 DEF DropJournal, At, world
    <2>2. /\ journal'[Cur].phase = "none"
          /\ \A e \in Edition \ {Cur} : journal'[e] = journal[e]
      BY <2>1, <1>0 DEF Types, NoEntry
    <2>3. Kept' BY <2>1, <2>2, <1>0, <1>p, <1>k, KeptCur DEF Kind, J, InstalledMarker
    <2>4. Starting(Tail(op.todo)) BY <2>1, DoneTo
    <2> QED BY <2>1, <2>3, <2>4, <1>b, <1>s, BackHeld
  <1>12. CASE Swap
    <2>1. /\ op.pc = "swap" /\ UNCHANGED <<build, marker, snap, journal>> /\ op # Idle
          /\ Done \/ Goto("swaproot") \/ Goto("swapclean")
      BY <1>12, <1>0 DEF Swap, At, world, disk
    <2>2. CASE Done
      <3>1. Starting(Tail(op.todo)) BY <2>1, <2>2, DoneTo
      <3>2. Kept' BY <2>1, KeptSame
      <3> QED BY <2>1, <3>1, <3>2, <1>b, <1>s, BackHeld
    <2>3. CASE Goto("swaproot") BY <2>1, <2>3, <1>i, <1>q
    <2>4. CASE Goto("swapclean") BY <2>1, <2>4, <1>i, <1>q
    <2> QED BY <2>1, <2>2, <2>3, <2>4
  <1>13. CASE SwapRoot
    <2>1. op.pc = "swaproot" /\ UNCHANGED <<marker, snap, journal>> /\ Goto("swaprename") BY <1>13 DEF SwapRoot, At
    <2> QED BY <2>1, <1>i, <1>q
  <1>14. CASE SwapRename
    <2>1. op.pc = "swaprename" /\ UNCHANGED <<marker, snap, journal>> /\ Goto("swapclean") BY <1>14 DEF SwapRename, At
    <2> QED BY <2>1, <1>i, <1>q
  <1>15. CASE SwapClean
    <2>1. op.pc = "swapclean" /\ UNCHANGED <<marker, snap, journal>> /\ Goto("swapdrop") BY <1>15 DEF SwapClean, At
    <2> QED BY <2>1, <1>i, <1>q
  <1>16. CASE SwapDrop
    <2>1. op.pc = "swapdrop" /\ UNCHANGED <<build, marker, snap, journal>> /\ Done /\ op # Idle
      BY <1>16, <1>0 DEF SwapDrop, At, world
    <2>2. Starting(Tail(op.todo)) BY <2>1, DoneTo
    <2>3. Kept' BY <2>1, KeptSame
    <2> QED BY <2>1, <2>2, <2>3, <1>b, <1>s, BackHeld
  <1> QED BY <1>1, <1>2, <1>3, <1>4, <1>5, <1>6, <1>7, <1>8, <1>9, <1>10, <1>11, <1>12, <1>13,
             <1>14, <1>15, <1>16 DEF Recovers


\* A task of the list begins, or the command ends.
Restarts == op' = Idle \/ op'.pc = Head(op'.todo)[1]

LEMMA Restarting ==
  ASSUME Types
  PROVE /\ \A z, w : Continues(z, w) => Restarts
        /\ Done => Restarts
        /\ \A z : Instead(z) => Restarts
        /\ \A code : Abort(code) \/ Ends(code) => Restarts
        /\ Unmarked => Restarts
  <1>1. ASSUME NEW z, NEW w, Continues(z, w) PROVE Restarts
    <2>1. CASE z = <<>> BY <1>1, <2>1 DEF Continues, Ends, Restarts
    <2>2. CASE z # <<>>
      <3>1. op' = [NextTask(z) EXCEPT !.worst = w] BY <1>1, <2>2 DEF Continues
      <3>2. op'.todo = z /\ op'.pc = Head(z)[1] BY <3>1 DEF NextTask, Types, Jobs
      <3> QED BY <3>2 DEF Restarts
    <2> QED BY <2>1, <2>2
  <1>2. Done => Restarts BY <1>1 DEF Done, Runs
  <1>3. ASSUME NEW z, Instead(z) PROVE Restarts BY <1>1, <1>3 DEF Instead, Runs
  <1>4. ASSUME NEW code, Abort(code) \/ Ends(code) PROVE Restarts
    BY <1>1, <1>4 DEF Abort, Ends, Restarts
  <1>5. Unmarked => Restarts BY <1>3 DEF Unmarked
  <1> QED BY <1>1, <1>2, <1>3, <1>4, <1>5

\* What follows a step past the recovery has nothing to hold.
LEMMA EndHeld ==
  ASSUME Types, Control, Midway, Types', Control', Midway', Restarts, op.pc \notin Recovering \cup {"idle"} \cup Opens,
         \A e \in Edition : journal'[e].phase = "open" => journal[e].phase = "open"
  PROVE Held'
  <1>1. \A e \in Edition : journal'[e].phase # "open" BY TaskKind, Quiet
  <1>2. CASE op' = Idle BY <1>2, HeldIdle
  <1>3. CASE op' # Idle
    <2>1. op'.todo \in Lists /\ op'.todo # <<>> BY <1>3 DEF Control, Runnable
    <2>2. op'.pc \in Tasks BY <1>3, <2>1, Listed DEF Restarts
    <2> QED BY <1>1, <2>2, HeldShut
  <1> QED BY <1>2, <1>3

\* Another step of a task past the recovery.
LEMMA TaskHeld ==
  ASSUME Types, Control, op.pc # "idle", op.todo[1][1] \notin Backs, NEW q, op'.todo = op.todo, op'.pc = q,
         q \notin Recovering,
         q \in Before => Kind(Cur, Rmv(T))' = "none" /\ (op'.was.version # 0 => Kind(Cur, Live)' \in Good),
         q \in Filed => Kind(Cur, Stg(T))' = "full",
         q \in Open => J'.tx = T',
         q \in Unretired => Kind(Cur, Rmv(T))' = "none",
         q = "live" => J'.prev = 0 \/ Kind(Cur, Rmv(T))' \in Good,
         q \in After => Kind(Cur, Live)' = "full",
         q \in {"examine", "excise", "restate"} => Kind(Cur, Live)' \in Good,
         q \in {"erase", "erased"} => ~marker'[Cur].present,
         q = "retiretree" => \A e \in Edition : ~marker'[e].present
  PROVE Held'
  <1>1. ~(Len(op'.todo) > 1 /\ op'.todo[2][1] = "rolled") BY Pending DEF Backs
  <1>2. q \notin {"restore", "unpublish", "unretire", "values", "state", "rolled"} BY SMT DEF Recovering
  <1>3. ~RollingBack' BY <1>1, <1>2 DEF RollingBack
  <1>4. Cur' = Cur BY DEF Cur
  <1> QED BY <1>2, <1>3, <1>4, SMT DEF Held, Restored

\* From a step to one that holds no more.
SameHold(p, q) ==
  /\ (q \in Before => p \in Before) /\ (q \in Filed => p \in Filed) /\ (q \in Open => p \in Open)
  /\ (q \in Unretired => p \in Unretired) /\ (q = "live" => p = "live") /\ (q \in After => p \in After)
  /\ (q \in {"examine", "excise", "restate"} => p \in {"examine", "excise", "restate"})
  /\ q \notin Recovering \cup {"erase", "erased", "retiretree"}

LEMMA SameHeld ==
  ASSUME Types, Control, Midway, Held, op.pc \notin Recovering \cup {"idle"}, NEW q, op'.todo = op.todo, op'.pc = q,
         op'.tx = op.tx, op'.was = op.was, UNCHANGED <<snap, journal>>, SameHold(op.pc, q)
  PROVE Held'
  <1>1. op.pc # "idle" /\ op.todo[1][1] \notin Backs /\ q \notin Recovering BY TaskKind DEF SameHold
  <1>2. Cur' = Cur /\ T' = T /\ J' = J BY DEF Cur, T, J
  <1>3. /\ Kind(Cur, Rmv(T))' = Kind(Cur, Rmv(T)) /\ Kind(Cur, Live)' = Kind(Cur, Live)
        /\ Kind(Cur, Stg(T))' = Kind(Cur, Stg(T))
    BY <1>2 DEF Kind
  <1>4. /\ q \in Before => Kind(Cur, Rmv(T))' = "none" /\ (op'.was.version # 0 => Kind(Cur, Live)' \in Good)
        /\ q \in Filed => Kind(Cur, Stg(T))' = "full"
        /\ q \in Open => J'.tx = T'
        /\ q \in Unretired => Kind(Cur, Rmv(T))' = "none"
        /\ q = "live" => J'.prev = 0 \/ Kind(Cur, Rmv(T))' \in Good
        /\ q \in After => Kind(Cur, Live)' = "full"
        /\ q \in {"examine", "excise", "restate"} => Kind(Cur, Live)' \in Good
    BY <1>2, <1>3 DEF Held, SameHold
  <1>5. q \notin {"erase", "erased", "retiretree"} BY DEF SameHold
  <1> QED BY <1>1, <1>4, <1>5, TaskHeld

LEMMA GotoHeld ==
  ASSUME Types, Control, Midway, Held, op.pc \notin Recovering \cup {"idle"}, NEW q, Goto(q),
         UNCHANGED <<snap, journal>>, SameHold(op.pc, q)
  PROVE Held'
  <1>1. op'.todo = op.todo /\ op'.pc = q /\ op'.tx = op.tx /\ op'.was = op.was BY DEF Goto, Types, Jobs
  <1> QED BY <1>1, SameHeld

LEMMA GotoStays ==
  ASSUME Types, NEW q, Goto(q)
  PROVE op'.todo = op.todo /\ op'.pc = q /\ Cur' = Cur /\ T' = T /\ op'.was = op.was /\ op'.seen = op.seen
  BY DEF Goto, Types, Jobs, Cur, T

LEMMA EnablesHeld ==
  ASSUME Types, Control, Midway, Kept, Held, Types', Control', Midway', Enables
  PROVE Kept' /\ Held'
  <1>0. /\ Cur \in Edition /\ (op.pc # "idle" => op # Idle) /\ J \in Journals
        /\ marker[Cur] \in Marked /\ op.was \in Marked
        /\ op.pc \in Stated => T \in Tx
    BY Ids, Running DEF Midway, Types, Jobs
  <1>k. {"enable", "tree", "install", "reinstall", "adopt", "adopted", "resume", "begin", "replace", "payload", "upgrade"}
          \cap (Recovering \cup {"idle"} \cup Opens) = {}
    BY SMT DEF Recovering, Opens
  <1>c. /\ KeptAt(Cur)
        /\ J.phase = "open" /\ J.prev # 0 =>
             \/ Kind(Cur, Rmv(J.tx)) \in Good
             \/ /\ Kind(Cur, Rmv(J.tx)) = "none" /\ Kind(Cur, Live) \in Good
                /\ Kind(Cur, Stg(J.tx)) # "none"
        /\ InstalledMarker(Cur) /\ J.phase # "open" => Kind(Cur, Live) \in Good
    BY <1>0 DEF Kept, KeptAt, J
  <1>o. op.pc \in Open => J.phase = "open" BY DEF Midway, Phased
  <1>n. /\ \A t \in Tx : Stg(t) \in Names /\ Rmv(t) \in Names /\ Stg(t) # Live /\ Rmv(t) # Live /\ Stg(t) # Rmv(t)
        /\ Live \in Names
    BY Named DEF Stg, Rmv
  \* A step of the transaction, and its id.
  <1>t. op.pc \in Whole \cup Shared => /\ T \in Tx /\ op.todo[1][1] \notin Backs /\ op.pc # "idle"
                                       /\ op.pc \notin Recovering
    <2>1. op.pc \in Whole \cup Shared => op.pc # "idle" /\ op.pc \notin Recovering
      BY SMT DEF Whole, Shared, Recovering
    <2>2. op.pc \in Whole \cup Shared => op.pc \in Stated BY DEF Stated
    <2> QED BY <2>1, <2>2, <1>0, TaskKind
  <1>1. CASE Enable
    <2>1. op.pc = "enable" /\ UNCHANGED <<marker, snap, journal>> BY <1>1 DEF Enable, At, disk
    <2> DEFINE s == (IF InstalledMarker(Cur) THEN <<<<"upgrade", Cur>>>>
                  ELSE <<<<"tree", Cur>>, <<"install", Cur>>>>) \o Tail(op.todo)
               f == ~op.user /\ ~InstalledMarker(Cur)
    <2>2. op' = [NextTask(s) EXCEPT !.fresh = f] BY <1>1 DEF Enable
    <2> HIDE DEF s, f
    <2>3. Restarts BY <2>2 DEF Restarts, NextTask, Types, Jobs
    <2> QED BY <2>1, <2>3, <1>k, EndHeld, KeptSame
  <1>2. CASE Tree
    <2>1. op.pc = "tree" /\ UNCHANGED <<marker, snap, journal>> /\ Restarts
      BY <1>2, Restarting DEF Tree, At, world, disk
    <2> QED BY <2>1, <1>k, EndHeld, KeptSame
  <1>3. CASE Install
    <2>1. op.pc = "install" /\ UNCHANGED <<marker, snap, journal>> /\ Restarts
      BY <1>3, Restarting DEF Install, At, world, disk
    <2> QED BY <2>1, <1>k, EndHeld, KeptSame
  <1>4. CASE Reinstall
    <2>1. op.pc = "reinstall" /\ UNCHANGED <<marker, snap, journal>> /\ Restarts
      BY <1>4, Restarting DEF Reinstall, At, world, disk
    <2> QED BY <2>1, <1>k, EndHeld, KeptSame
  <1>5. CASE Adopt
    <2>1. op.pc = "adopt" /\ UNCHANGED journal BY <1>5 DEF Adopt, At
    <2>0. \A e \in Edition : journal[e].phase # "open" BY <2>1, <1>k, TaskKind, Quiet
    <2>2. CASE UNCHANGED <<marker, snap>> /\ (Unmarked \/ Abort("refused"))
      <3>1. Restarts BY <2>2, Restarting
      <3> QED BY <2>1, <2>2, <3>1, <1>k, EndHeld, KeptSame
    <2>3. CASE /\ snap' = [snap EXCEPT ![Cur][Live].kind = IF snap[Cur][Live].kind = "old" THEN "adopted" ELSE @]
               /\ marker' = [marker EXCEPT ![Cur] =
                    [present |-> TRUE, state |-> "", version |-> build, orig |-> snap[Cur][Live].orig]]
               /\ Goto("adopted")
      <3>1. /\ \A e \in Edition \ {Cur} : marker'[e] = marker[e] /\ snap'[e] = snap[e]
            /\ marker'[Cur].state = ""
        BY <2>3, <1>0 DEF Types
      <3>2. Kept' BY <2>0, <2>1, <3>1, <1>0, KeptCur
      <3>3. op'.todo = op.todo /\ op'.pc = "adopted" BY <2>3, GotoStays
      <3>4. /\ "adopted" \notin Recovering \cup Before \cup Filed \cup Open \cup Unretired \cup After
            /\ op.pc # "idle" /\ op.pc \notin Recovering
        BY <2>1, <1>k, SMT DEF Recovering, Before, Filed, Open, Unretired, After
      <3>5. op.todo[1][1] \notin Backs BY <3>4, TaskKind
      <3> QED BY <3>2, <3>3, <3>4, <3>5, TaskHeld
    <2> QED BY <1>5, <2>2, <2>3 DEF Adopt, SetMarker
  <1>6. CASE Adopted
    <2>1. op.pc = "adopted" /\ UNCHANGED <<snap, journal>> /\ Restarts
          /\ marker' = [marker EXCEPT ![Cur].state = "prepared"]
      BY <1>6, Restarting DEF Adopted, At
    <2>0. \A e \in Edition : journal[e].phase # "open" BY <2>1, <1>k, TaskKind, Quiet
    <2>2. /\ \A e \in Edition \ {Cur} : marker'[e] = marker[e]
          /\ marker'[Cur].state = "prepared"
      <3>1. marker \in [Edition -> Marked] BY DEF Types
      <3> QED BY <2>1, <3>1, <1>0 DEF Marked, Markers
    <2>3. Kept' BY <2>0, <2>1, <2>2, <1>0, KeptCur
    <2> QED BY <2>1, <2>3, <1>k, EndHeld
  <1>7. CASE Resume
    <2>1. op.pc = "resume" /\ UNCHANGED <<marker, snap, journal>> /\ Restarts
      BY <1>7, Restarting DEF Resume, At, world, disk
    <2> QED BY <2>1, <1>k, EndHeld, KeptSame
  <1>v. ASSUME NEW b \in BOOLEAN, Starts(b), op.pc \in {"begin", "replace", "upgrade"}, UNCHANGED <<marker, snap, journal>>,
               marker[Cur].present => marker[Cur].state = "installed"
        PROVE Kept' /\ Held'
    <2>1. op' = [op EXCEPT !.pc = "payload", !.tx = NewTx, !.seen = profile[Cur],
                           !.was = marker[Cur], !.inplace = b]
      BY <1>v DEF Starts
    <2>2. op'.todo = op.todo /\ op'.pc = "payload" /\ op'.tx = NewTx /\ op'.was = marker[Cur] /\ Cur' = Cur
      BY <2>1 DEF Types, Jobs, Cur
    <2>3. op.pc \notin Recovering \cup {"idle"} \cup Opens BY <1>v, <1>k
    <2>4. op.todo[1][1] \notin Backs /\ \A e \in Edition : journal[e].phase # "open" BY <2>3, TaskKind, Quiet
    <2>5. NewTx \in Tx /\ NewTx \notin Used BY <1>v, Fresh DEF Starts
    <2> DEFINE t == NewTx
               r == Rmv(NewTx)
    <2>6. r \in Names /\ r[2] = t BY <2>5, <1>n DEF Rmv
    <2>7. snap[Cur][r].kind = "none"
      <3> SUFFICES ASSUME snap[Cur][r].kind # "none" PROVE FALSE OBVIOUS
      <3> DEFINE has == {m \in Names : snap[Cur][m].kind # "none"}
      <3>1. r \in has BY <2>6
      <3>2. r[2] \in {n[2] : n \in has} BY <3>1
      <3> HIDE DEF has
      <3>3. r[2] \in Used BY <3>2, <1>0 DEF Used, has
      <3> QED BY <2>5, <2>6, <3>3
    <2>8. T' = t BY <2>2 DEF T
    <2>9. Kind(Cur, Rmv(T))' = "none" BY <1>v, <2>2, <2>7, <2>8 DEF Kind, Rmv
    <2>10. op'.was.version # 0 => Kind(Cur, Live)' \in Good
      <3>a. \A m \in Marked : m.version # 0 => m.present
        <4> SUFFICES ASSUME NEW m \in Marked, ~m.present PROVE m.version = 0 OBVIOUS
        <4>1. m = NoMarker BY DEF Marked
        <4>2. NoMarker.version = 0 BY DEF NoMarker
        <4> QED BY <4>1, <4>2
      <3>0. marker[Cur].version # 0 => marker[Cur].present BY <1>0, <3>a, Zenon
      <3>1. op'.was.version # 0 => marker[Cur].present BY <2>2, <3>0
      <3>2. op'.was.version # 0 => Kind(Cur, Live) \in Good BY <3>1, <1>v, <1>c, <1>0, <2>4 DEF InstalledMarker, J
      <3> QED BY <3>2, <1>v, <2>2 DEF Kind
    <2>11. "payload" \notin Recovering \cup Filed \cup Open \cup Unretired \cup After
      BY SMT DEF Recovering, Filed, Open, Unretired, After
    <2>12. Held' BY <2>2, <2>3, <2>4, <2>9, <2>10, <2>11, TaskHeld
    <2> QED BY <1>v, <2>12, KeptSame
  <1>8. CASE Begin
    <2>1. /\ op.pc \in {"begin", "replace"} /\ UNCHANGED <<marker, snap, journal>>
          /\ \/ Done \/ Abort("refused")
             \/ Starts(FALSE) /\ (marker[Cur].present => marker[Cur].state = "installed")
      BY <1>8 DEF Begin, At, disk
    <2>2. CASE Done \/ Abort("refused")
      <3>1. Restarts BY <2>2, Restarting
      <3> QED BY <2>1, <3>1, <1>k, EndHeld, KeptSame
    <2>3. CASE Starts(FALSE) /\ (marker[Cur].present => marker[Cur].state = "installed")
      BY <2>1, <2>3, <1>v
    <2> QED BY <2>1, <2>2, <2>3
  <1>w. ASSUME op.pc \in {"payload", "deploy"}, Goto(AfterSwap), UNCHANGED <<marker, snap, journal>>
        PROVE Kept' /\ Held'
    <2>1. AfterSwap \in {"commitswap", "stage"} BY DEF AfterSwap
    <2>2. SameHold(op.pc, AfterSwap) /\ op.pc \notin Recovering \cup {"idle"}
      BY <1>w, <2>1, SMT DEF SameHold, Before, Filed, Open, Unretired, After, Recovering
    <2> QED BY <1>w, <2>2, GotoHeld, KeptSame
  \* Steps that touch none of the three.
  <1>g. ASSUME NEW q, Goto(q), op.pc \notin Recovering \cup {"idle"}, UNCHANGED <<marker, snap, journal>>,
               SameHold(op.pc, q)
        PROVE Kept' /\ Held'
    BY <1>g, GotoHeld, KeptSame
  \* While the journal is open only what the transaction replaced counts.
  <1>m. ASSUME NEW q, Goto(q), op.pc \in Open, UNCHANGED <<snap, journal>>, SameHold(op.pc, q),
               \A e \in Edition \ {Cur} : marker'[e] = marker[e]
        PROVE Kept' /\ Held'
    <2>1. op.pc \notin Recovering \cup {"idle"} BY <1>m, SMT DEF Open, Recovering
    <2>2. Held' BY <1>m, <2>1, GotoHeld
    <2>3. Kept' BY <1>m, <1>o, <1>c, KeptCur DEF J, Kind
    <2> QED BY <2>2, <2>3
  <1>9. CASE Ensure
    <2>1. op.pc = "payload" /\ UNCHANGED <<marker, snap, journal>> /\ (Goto(AfterSwap) \/ Goto("swapjournal"))
      BY <1>9 DEF Ensure, At
    <2>2. SameHold("payload", "swapjournal") /\ "payload" \notin Recovering \cup {"idle"}
      BY SMT DEF SameHold, Before, Filed, Open, Unretired, After, Recovering
    <2>3. CASE Goto(AfterSwap) BY <2>1, <2>3, <1>w
    <2>4. CASE Goto("swapjournal") BY <2>1, <2>2, <2>4, <1>g
    <2> QED BY <2>1, <2>3, <2>4
  <1>10. CASE SwapJournal
    <2>1. op.pc = "swapjournal" /\ UNCHANGED <<marker, snap, journal>> /\ Goto("aside") BY <1>10 DEF SwapJournal, At, disk
    <2>2. SameHold("swapjournal", "aside") /\ "swapjournal" \notin Recovering \cup {"idle"}
      BY SMT DEF SameHold, Before, Filed, Open, Unretired, After, Recovering
    <2> QED BY <2>1, <2>2, <1>g
  <1>11. CASE Aside
    <2>1. op.pc = "aside" /\ UNCHANGED <<marker, snap, journal>> /\ Goto("deploy") BY <1>11 DEF Aside, At, disk
    <2>2. SameHold("aside", "deploy") /\ "aside" \notin Recovering \cup {"idle"}
      BY SMT DEF SameHold, Before, Filed, Open, Unretired, After, Recovering
    <2> QED BY <2>1, <2>2, <1>g
  <1>12. CASE Deploy
    <2>1. op.pc = "deploy" /\ UNCHANGED <<marker, snap, journal>> /\ Goto(AfterSwap) BY <1>12 DEF Deploy, At
    <2> QED BY <2>1, <1>w
  <1>13. CASE Stage
    <2> DEFINE c == Cur
               g == Stg(T)
               s == [kind |-> "full", before |-> op.seen, orig |-> OriginalPresent(op.seen, op.was)]
    <2>1. op.pc = "stage" /\ UNCHANGED <<marker, journal>> /\ Goto("journal") /\ snap' = [snap EXCEPT ![c][g] = s]
      BY <1>13 DEF Stage, At, Stg
    <2>2. op'.todo = op.todo /\ op'.pc = "journal" /\ Cur' = Cur /\ T' = T /\ op'.was = op.was BY <2>1, GotoStays
    <2>3. op.pc \in Whole /\ op.pc \notin Opens BY <2>1, SMT DEF Whole, Opens
    <2>4. T \in Tx /\ op.todo[1][1] \notin Backs /\ op.pc # "idle" BY <2>3, <1>t
    <2>5. \A e \in Edition : journal[e].phase # "open" BY <2>3, <2>4, Quiet
    <2>6. /\ c \in Edition /\ g \in Names /\ Rmv(T) \in Names /\ Live \in Names /\ g # Live /\ Rmv(T) # g
          /\ s.kind = "full"
      BY <1>0, <1>n, <2>4
    <2>7. /\ \A e \in Edition \ {c} : snap'[e] = snap[e]
          /\ snap'[c][Rmv(T)] = snap[c][Rmv(T)] /\ snap'[c][Live] = snap[c][Live]
          /\ snap'[c][g].kind = "full"
      <3> HIDE DEF c, g, s
      <3> QED BY <2>1, <2>6 DEF Types
    <2>8. Kept' BY <2>1, <2>5, <2>7, <1>0, <1>c, KeptCur DEF J, Kind, InstalledMarker
    <2>9. /\ Kind(Cur, Stg(T))' = "full" /\ Kind(Cur, Rmv(T))' = "none"
          /\ (op'.was.version # 0 => Kind(Cur, Live)' \in Good)
      <3>1. Kind(Cur, Rmv(T)) = "none" /\ (op.was.version # 0 => Kind(Cur, Live) \in Good)
        BY <2>1, SMT DEF Held, Before
      <3> QED BY <2>2, <2>7, <3>1 DEF Kind, Stg, Rmv
    <2>10. "journal" \notin Recovering \cup Open \cup Unretired \cup After
      BY SMT DEF Recovering, Open, Unretired, After
    <2>11. Held' BY <2>2, <2>4, <2>9, <2>10, TaskHeld
    <2> QED BY <2>8, <2>11
  <1>14. CASE OpenJournal
    <2>1. /\ op.pc = "journal" /\ UNCHANGED <<marker, snap>> /\ Goto("publish")
          /\ journal' = [journal EXCEPT ![Cur] = Opened(T, op.was)]
      BY <1>14 DEF OpenJournal, At
    <2>2. op'.todo = op.todo /\ op'.pc = "publish" /\ Cur' = Cur /\ T' = T /\ op'.was = op.was BY <2>1, GotoStays
    <2>3. op.pc \in Whole BY <2>1, SMT DEF Whole
    <2>4. T \in Tx /\ op.todo[1][1] \notin Backs /\ op.pc # "idle" BY <2>3, <1>t
    <2>5. /\ \A e \in Edition \ {Cur} : journal'[e] = journal[e]
          /\ journal'[Cur].tx = T /\ journal'[Cur].prev = op.was.version /\ journal'[Cur].phase = "open"
      BY <2>1, <1>0 DEF Types, Opened
    <2>6. /\ Kind(Cur, Rmv(T)) = "none" /\ (op.was.version # 0 => Kind(Cur, Live) \in Good)
          /\ Kind(Cur, Stg(T)) = "full"
      BY <2>1, SMT DEF Held, Before, Filed
    <2>7. Kept' BY <2>1, <2>5, <2>6, <1>0, KeptCur DEF Kind
    <2>8. Kind(Cur, Rmv(T))' = "none" /\ Kind(Cur, Stg(T))' = "full" BY <2>1, <2>2, <2>6 DEF Kind, Stg, Rmv
    <2>9. J'.tx = T' BY <2>2, <2>5 DEF J
    <2>10. "publish" \notin Recovering \cup Before \cup After BY SMT DEF Recovering, Before, After
    <2>11. Held' BY <2>2, <2>4, <2>8, <2>9, <2>10, TaskHeld
    <2> QED BY <2>7, <2>11
  <1>15. CASE Publish
    <2>1. op.pc = "publish" /\ UNCHANGED <<snap, journal>> /\ Goto("prepared") BY <1>15 DEF Publish, At
    <2>2. \A e \in Edition \ {Cur} : marker'[e] = marker[e] BY <1>15 DEF Publish, SetMarker, Types
    <2>3. SameHold("publish", "prepared") /\ "publish" \in Open
      BY SMT DEF SameHold, Before, Filed, Open, Unretired, After, Recovering
    <2> QED BY <2>1, <2>2, <2>3, <1>m
  <1>16. CASE Prepared
    <2>1. op.pc = "prepared" /\ UNCHANGED <<snap, journal>> /\ Goto("retire") BY <1>16 DEF Prepared, At
    <2>2. \A e \in Edition \ {Cur} : marker'[e] = marker[e] BY <1>16 DEF Prepared, SetMarker, Types
    <2>3. SameHold("prepared", "retire") /\ "prepared" \in Open
      BY SMT DEF SameHold, Before, Filed, Open, Unretired, After, Recovering
    <2> QED BY <2>1, <2>2, <2>3, <1>m
  <1>17. CASE Retire
    <2>1. op.pc = "retire" /\ UNCHANGED <<marker, journal>> /\ Goto("live")
          /\ snap' = IF snap[Cur][Live].kind = "none" THEN snap
                     ELSE [snap EXCEPT ![Cur] = Moved(@, Live, <<"removing", T>>, NoSnap)]
      BY <1>17 DEF Retire, At
    <2>2. op'.todo = op.todo /\ op'.pc = "live" /\ Cur' = Cur /\ T' = T /\ J' = J BY <2>1, GotoStays DEF J
    <2>3. op.pc \in Whole /\ op.pc \in Open BY <2>1, SMT DEF Whole, Open
    <2>4. T \in Tx /\ op.todo[1][1] \notin Backs /\ op.pc # "idle" BY <2>3, <1>t
    <2>5. J.tx = T /\ Kind(Cur, Stg(T)) = "full" /\ Kind(Cur, Rmv(T)) = "none"
      BY <2>1, SMT DEF Held, Open, Filed, Unretired
    <2>6. J.prev # 0 => Kind(Cur, Live) \in Good BY <2>3, <2>5, <1>o, <1>c DEF Good
    <2> DEFINE c == Cur
               g == Stg(T)
               r == Rmv(T)
    <2>7. c \in Edition /\ g \in Names /\ r \in Names /\ Live \in Names /\ g # Live /\ r # g /\ r # Live
      BY <1>0, <1>n, <2>4
    <2>8. /\ \A e \in Edition \ {c} : snap'[e] = snap[e]
          /\ snap'[c][g] = snap[c][g]
          /\ J.prev # 0 => snap'[c][r].kind \in Good
      <3>1. CASE snap[c][Live].kind = "none"
        <4>1. snap' = snap /\ J.prev = 0 BY <2>1, <2>6, <3>1 DEF Kind, Good
        <4> QED BY <4>1
      <3>2. CASE snap[c][Live].kind # "none"
        <4>1. snap' = [snap EXCEPT ![c] = Moved(@, Live, r, NoSnap)] BY <2>1, <3>2 DEF Rmv
        <4>2. J.prev # 0 => snap[c][Live].kind \in Good BY <2>6 DEF Kind
        <4> HIDE DEF c, g, r
        <4> QED BY <2>7, <4>1, <4>2 DEF Types, Moved
      <3> QED BY <3>1, <3>2
    <2>9. Kind(Cur, Stg(T))' = "full" /\ (J'.prev = 0 \/ Kind(Cur, Rmv(T))' \in Good)
      BY <2>2, <2>5, <2>8 DEF Kind, Stg, Rmv
    <2>10. "live" \notin Recovering \cup Before \cup Unretired \cup After BY SMT DEF Recovering, Before, Unretired, After
    <2>11. J'.tx = T' BY <2>2, <2>5
    <2>12. Held' BY <2>2, <2>4, <2>9, <2>10, <2>11, TaskHeld
    <2>13. Kept' BY <2>1, <2>3, <2>5, <2>8, <1>o, KeptCur DEF J
    <2> QED BY <2>12, <2>13
  <1>18. CASE GoLive
    <2>1. op.pc = "live" /\ UNCHANGED <<marker, journal>> /\ Goto("write")
          /\ snap' = [snap EXCEPT ![Cur] = Moved(@, <<"staging", T>>, Live, NoSnap)]
      BY <1>18 DEF GoLive, At
    <2>2. op'.todo = op.todo /\ op'.pc = "write" /\ Cur' = Cur /\ T' = T /\ J' = J BY <2>1, GotoStays DEF J
    <2>3. op.pc \in Whole /\ op.pc \in Open BY <2>1, SMT DEF Whole, Open
    <2>4. T \in Tx /\ op.todo[1][1] \notin Backs /\ op.pc # "idle" BY <2>3, <1>t
    <2>5. /\ J.tx = T /\ Kind(Cur, Stg(T)) = "full"
          /\ J.prev = 0 \/ Kind(Cur, Rmv(T)) \in Good
      BY <2>1, SMT DEF Held, Open, Filed
    <2> DEFINE c == Cur
               g == Stg(T)
               r == Rmv(T)
    <2>7. c \in Edition /\ g \in Names /\ r \in Names /\ Live \in Names /\ g # Live /\ r # g /\ r # Live
      BY <1>0, <1>n, <2>4
    <2>8. /\ \A e \in Edition \ {c} : snap'[e] = snap[e]
          /\ snap'[c][Live] = snap[c][g]
          /\ snap'[c][r] = snap[c][r]
      <3>1. snap' = [snap EXCEPT ![c] = Moved(@, g, Live, NoSnap)] BY <2>1 DEF Stg
      <3> HIDE DEF c, g, r
      <3> QED BY <2>7, <3>1 DEF Types, Moved
    <2>9. Kind(Cur, Live)' = "full" BY <2>2, <2>5, <2>8 DEF Kind
    <2>10. "write" \notin Recovering \cup Before \cup Unretired \cup Filed /\ "write" # "live"
      BY SMT DEF Recovering, Before, Unretired, Filed
    <2>11. J'.tx = T' BY <2>2, <2>5
    <2>12. Held' BY <2>2, <2>4, <2>9, <2>10, <2>11, TaskHeld
    <2>13. Kept' BY <2>1, <2>3, <2>5, <2>8, <1>o, KeptCur DEF J, Kind
    <2> QED BY <2>12, <2>13
  <1>19. CASE Write
    <2>1. op.pc = "write" /\ UNCHANGED <<marker, snap, journal>> /\ (Goto("installed") \/ Goto("undo")) BY <1>19 DEF Write, At, disk, Replaced
    <2>2. SameHold("write", "installed") /\ SameHold("write", "undo") /\ "write" \notin Recovering \cup {"idle"}
      BY SMT DEF SameHold, Before, Filed, Open, Unretired, After, Recovering
    <2> QED BY <2>1, <2>2, <1>g
  <1>20. CASE MarkInstalled
    <2>1. op.pc = "installed" /\ UNCHANGED <<snap, journal>> /\ Goto("verify") BY <1>20 DEF MarkInstalled, At
    <2>2. \A e \in Edition \ {Cur} : marker'[e] = marker[e] BY <1>20 DEF MarkInstalled, SetMarker, Types
    <2>3. SameHold("installed", "verify") /\ "installed" \in Open
      BY SMT DEF SameHold, Before, Filed, Open, Unretired, After, Recovering
    <2> QED BY <2>1, <2>2, <2>3, <1>m
  <1>21. CASE Verify
    <2>1. op.pc = "verify" /\ UNCHANGED <<marker, snap, journal>> /\ (Goto("commit") \/ Goto("undo")) BY <1>21 DEF Verify, At, disk
    <2>2. SameHold("verify", "commit") /\ SameHold("verify", "undo") /\ "verify" \notin Recovering \cup {"idle"}
      BY SMT DEF SameHold, Before, Filed, Open, Unretired, After, Recovering
    <2> QED BY <2>1, <2>2, <1>g
  <1>22. CASE Commit
    <2>1. /\ op.pc = "commit" /\ UNCHANGED <<marker, snap>> /\ Goto("finish")
          /\ journal' = [journal EXCEPT ![Cur].phase = "committed"]
      BY <1>22 DEF Commit, At, SetJournal
    <2>2. op'.todo = op.todo /\ op'.pc = "finish" BY <2>1, GotoStays
    <2>3. op.pc \in Whole BY <2>1, SMT DEF Whole
    <2>4. op.todo[1][1] \notin Backs /\ op.pc # "idle" BY <2>3, <1>t
    <2>5. /\ \A e \in Edition \ {Cur} : journal'[e] = journal[e]
          /\ journal'[Cur].phase = "committed"
      <3>1. journal \in [Edition -> Journals] BY DEF Types
      <3> QED BY <2>1, <3>1, <1>0 DEF Journals, Entries
    <2>6. Kind(Cur, Live) = "full" BY <2>1, SMT DEF Held, After
    <2>7. Kept' BY <2>1, <2>5, <2>6, <1>0, KeptCur DEF Kind, Good
    <2>8. "finish" \notin Recovering \cup Before \cup Filed \cup Open \cup Unretired \cup After
      BY SMT DEF Recovering, Before, Filed, Open, Unretired, After
    <2>9. Held' BY <2>2, <2>4, <2>8, TaskHeld
    <2> QED BY <2>7, <2>9
  <1>23. CASE Finish
    <2>1. op.pc = "finish" /\ UNCHANGED <<marker, snap, journal>> /\ Goto("finishswap") BY <1>23 DEF Finish, At, disk
    <2>2. SameHold("finish", "finishswap") /\ "finish" \notin Recovering \cup {"idle"}
      BY SMT DEF SameHold, Before, Filed, Open, Unretired, After, Recovering
    <2> QED BY <2>1, <2>2, <1>g
  <1>24. CASE FinishSwap
    <2>1. op.pc = "finishswap" /\ UNCHANGED <<marker, snap, journal>> BY <1>24 DEF FinishSwap, At
    <2>0. op.pc \notin Recovering \cup {"idle"} \cup Opens BY <2>1, SMT DEF Recovering, Opens
    <2>2. CASE Done
      <3>1. Restarts BY <2>2, Restarting
      <3> QED BY <2>0, <2>1, <3>1, EndHeld, KeptSame
    <2>3. CASE Goto("finishstate")
      <3>1. SameHold("finishswap", "finishstate")
        BY SMT DEF SameHold, Before, Filed, Open, Unretired, After, Recovering
      <3> QED BY <2>0, <2>1, <2>3, <3>1, <1>g
    <2>4. IF op.inplace THEN Done ELSE Goto("finishstate") BY <1>24 DEF FinishSwap
    <2> QED BY <2>2, <2>3, <2>4
  \* A directory of a transaction that is not open is emptied.
  <1>e. ASSUME NEW q \in {"finishjournal", "undoroot"}, Goto(q), op.pc \in {"finishstate", "undo"},
               UNCHANGED <<marker, journal>>, J.phase # "open", NEW n \in {Stg(T), Rmv(T)},
               snap' = [snap EXCEPT ![Cur][n] = NoSnap]
        PROVE Kept' /\ Held'
    <2>1. op.pc \in Whole \cup Shared BY <1>e, SMT DEF Whole, Shared
    <2>2. T \in Tx /\ op.todo[1][1] \notin Backs /\ op.pc # "idle" BY <2>1, <1>t
    <2>3. n \in Names /\ n # Live BY <2>2, <1>n
    <2>4. /\ \A e \in Edition \ {Cur} : snap'[e] = snap[e]
          /\ snap'[Cur][Live] = snap[Cur][Live]
      BY <1>e, <1>0, <1>n, <2>3 DEF Types
    <2>5. Kept' BY <1>e, <2>4, <1>c, KeptCur DEF J, Kind, InstalledMarker
    <2>6. op'.todo = op.todo /\ op'.pc = q BY <1>e, GotoStays
    <2>7. q \notin Recovering \cup Before \cup Filed \cup Open \cup Unretired \cup After
          /\ q \notin {"live", "examine", "excise", "restate", "erase", "erased", "retiretree"}
      BY <1>e, SMT DEF Recovering, Before, Filed, Open, Unretired, After
    <2>8. Held' BY <2>2, <2>6, <2>7, TaskHeld
    <2> QED BY <2>5, <2>8
  <1>25. CASE FinishState
    <2> DEFINE n == Rmv(T)
    <2>1. op.pc = "finishstate" /\ UNCHANGED <<marker, journal>> /\ Goto("finishjournal")
          /\ snap' = [snap EXCEPT ![Cur][n] = NoSnap]
      BY <1>25 DEF FinishState, At, Rmv
    <2>2. J.phase # "open" BY <2>1, SMT DEF Midway, Phased, Finishes
    <2>3. n \in {Stg(T), Rmv(T)} OBVIOUS
    <2> HIDE DEF n
    <2> QED BY <2>1, <2>2, <2>3, <1>e
  <1>26. CASE FinishJournal
    <2>1. op.pc = "finishjournal" /\ UNCHANGED <<marker, snap>> /\ Restarts /\ journal' = [journal EXCEPT ![Cur] = NoEntry]
      BY <1>26, Restarting DEF FinishJournal, At
    <2>0. op.pc \notin Recovering \cup {"idle"} \cup Opens BY <2>1, SMT DEF Recovering, Opens
    <2>2. J.phase # "open" BY <2>1, SMT DEF Midway, Phased, Finishes
    <2>3. /\ \A e \in Edition \ {Cur} : journal'[e] = journal[e]
          /\ journal'[Cur].phase = "none"
      BY <2>1, <1>0 DEF Types, NoEntry
    <2>4. Kept' BY <2>1, <2>2, <2>3, <1>c, <1>0, KeptCur DEF J, Kind, InstalledMarker
    <2>5. \A e \in Edition : journal'[e].phase = "open" => journal[e].phase = "open" BY <2>3, <1>0
    <2> QED BY <2>0, <2>1, <2>4, <2>5, EndHeld
  <1>27. CASE Undo
    <2>1. /\ op.pc = "undo" /\ UNCHANGED <<marker, journal>>
          /\ \/ J.phase # "open" /\ Goto("undoroot") /\ snap' = [snap EXCEPT ![Cur][<<"staging", T>>] = NoSnap]
             \/ /\ op' = [op EXCEPT !.todo = <<<<"recover", Cur>>>>, !.pc = "recover", !.undoing = TRUE]
                /\ UNCHANGED snap
      BY <1>27 DEF Undo, At, J
    <2>2. CASE J.phase # "open" /\ Goto("undoroot") /\ snap' = [snap EXCEPT ![Cur][<<"staging", T>>] = NoSnap]
      <3> DEFINE n == Stg(T)
      <3>1. snap' = [snap EXCEPT ![Cur][n] = NoSnap] /\ n \in {Stg(T), Rmv(T)} BY <2>2 DEF Stg
      <3> HIDE DEF n
      <3> QED BY <2>1, <2>2, <3>1, <1>e
    <2>3. CASE /\ op' = [op EXCEPT !.todo = <<<<"recover", Cur>>>>, !.pc = "recover", !.undoing = TRUE]
               /\ UNCHANGED snap
      <3>1. op'.todo = <<<<"recover", Cur>>>> /\ op'.pc = "recover" BY <2>3 DEF Types, Jobs
      <3>2. Len(op'.todo) = 1 BY <3>1, SMT
      <3>3. ~RollingBack' /\ op'.pc \in Tasks BY <3>1, <3>2, SMT DEF RollingBack, Tasks
      <3> QED BY <2>1, <2>3, <3>3, HeldBegin, KeptSame
    <2> QED BY <2>1, <2>2, <2>3
  <1>28. CASE UndoRoot
    <2>1. op.pc = "undoroot" /\ UNCHANGED <<marker, snap, journal>> /\ Goto("undoname") BY <1>28 DEF UndoRoot, At, disk
    <2>2. SameHold("undoroot", "undoname") /\ "undoroot" \notin Recovering \cup {"idle"}
      BY SMT DEF SameHold, Before, Filed, Open, Unretired, After, Recovering
    <2> QED BY <2>1, <2>2, <1>g
  <1>29. CASE UndoName
    <2>1. op.pc = "undoname" /\ UNCHANGED <<marker, snap, journal>> /\ Goto("undoclean") BY <1>29 DEF UndoName, At, disk
    <2>2. SameHold("undoname", "undoclean") /\ "undoname" \notin Recovering \cup {"idle"}
      BY SMT DEF SameHold, Before, Filed, Open, Unretired, After, Recovering
    <2> QED BY <2>1, <2>2, <1>g
  <1>30. CASE UndoClean
    <2>1. op' = Idle /\ UNCHANGED <<marker, snap, journal>> BY <1>30 DEF UndoClean, Ends
    <2> QED BY <2>1, HeldIdle, KeptSame
  <1>31. CASE Upgrade
    <2>1. /\ op.pc = "upgrade" /\ UNCHANGED <<marker, snap, journal>>
          /\ Starts(TRUE) \/ Instead(<<<<"reinstall", Cur>>>>) \/ Abort("confirm")
      BY <1>31 DEF Upgrade, At, disk
    <2>2. CASE Starts(TRUE)
      <3>1. op.todo[1][1] = "upgrade" BY <2>1, TaskOf
      <3>2. marker[Cur].state = "installed" BY <2>1, <3>1, <1>k, TaskKind
      <3> QED BY <2>1, <2>2, <3>2, <1>v
    <2>3. CASE Instead(<<<<"reinstall", Cur>>>>) \/ Abort("confirm")
      <3>1. Restarts BY <2>3, Restarting
      <3> QED BY <2>1, <3>1, <1>k, EndHeld, KeptSame
    <2> QED BY <2>1, <2>2, <2>3
  <1>32. CASE CommitSwap
    <2>1. op.pc = "commitswap" /\ UNCHANGED <<marker, snap, journal>> /\ Goto("version") BY <1>32 DEF CommitSwap, At, disk
    <2>2. SameHold("commitswap", "version") /\ "commitswap" \notin Recovering \cup {"idle"}
      BY SMT DEF SameHold, Before, Filed, Open, Unretired, After, Recovering
    <2> QED BY <2>1, <2>2, <1>g
  <1>33. CASE Version
    <2>1. op.pc = "version" /\ UNCHANGED <<snap, journal>> /\ Goto("finish")
          /\ marker' = [marker EXCEPT ![Cur].version = build]
      BY <1>33 DEF Version, At
    <2>2. /\ \A e \in Edition \ {Cur} : marker'[e] = marker[e]
          /\ marker'[Cur].present = marker[Cur].present /\ marker'[Cur].state = marker[Cur].state
      <3>1. marker \in [Edition -> Marked] BY DEF Types
      <3> QED BY <2>1, <3>1, <1>0 DEF Marked, Markers
    <2>3. SameHold("version", "finish") /\ "version" \notin Recovering \cup {"idle"}
      BY SMT DEF SameHold, Before, Filed, Open, Unretired, After, Recovering
    <2>4. Held' BY <2>1, <2>3, GotoHeld
    <2>5. Kept' BY <2>1, <2>2, <1>c, KeptCur DEF J, Kind, InstalledMarker
    <2> QED BY <2>4, <2>5
  <1> QED BY <1>1, <1>2, <1>3, <1>4, <1>5, <1>6, <1>7, <1>8, <1>9, <1>10, <1>11, <1>12, <1>13, <1>14, <1>15, <1>16, <1>17, <1>18, <1>19, <1>20, <1>21, <1>22, <1>23, <1>24, <1>25, <1>26, <1>27, <1>28, <1>29, <1>30, <1>31, <1>32, <1>33 DEF Enables


LEMMA RemovesHeld ==
  ASSUME Types, Control, Midway, Kept, Held, Types', Control', Midway', Removes
  PROVE Kept' /\ Held'
  <1> DEFINE all == {"uninstall", "examine", "excise", "restate", "forget", "erase", "erased", "cleanup", "cleanpayload"}
  <1>0. Cur \in Edition /\ marker[Cur] \in Marked /\ marker \in [Edition -> Marked]
    BY Running DEF Types
  <1>k. all \cap (Recovering \cup {"idle"} \cup Opens) = {} BY SMT DEF Recovering, Opens
  <1>q. all \cap (Recovering \cup Before \cup Filed \cup Open \cup Unretired \cup After \cup {"live", "retiretree"}) = {}
    BY SMT DEF Recovering, Before, Filed, Open, Unretired, After
  <1>u. op.pc \in all => /\ op.pc # "idle" /\ op.pc \notin Recovering \cup {"idle"} \cup Opens
                         /\ op.todo[1][1] \notin Backs /\ \A e \in Edition : journal[e].phase # "open"
    BY <1>k, TaskKind, Quiet
  <1>h. /\ InstalledMarker(Cur) /\ J.phase # "open" => Kind(Cur, Live) \in Good
        /\ op.pc \in {"examine", "excise", "restate"} => Kind(Cur, Live) \in Good
        /\ op.pc \in {"erase", "erased"} => ~marker[Cur].present
    BY <1>0 DEF Kept, KeptAt, J, Held
  \* A step of this task that touches none of the three.
  <1>g. ASSUME NEW p \in all, op.pc = p, NEW q \in all \ {"erase", "erased"}, op'.todo = op.todo, op'.pc = q,
               UNCHANGED <<marker, snap, journal>>,
               q \in {"examine", "excise", "restate"} => p \in {"examine", "excise", "restate"}
        PROVE Kept' /\ Held'
    <2>1. Cur' = Cur BY <1>g DEF Cur
    <2>2. q \in {"examine", "excise", "restate"} => Kind(Cur, Live)' \in Good BY <1>g, <1>h, <2>1 DEF Kind
    <2>3. Held' BY <1>g, <1>q, <1>u, <2>2, TaskHeld
    <2> QED BY <1>g, <2>3, KeptSame
  <1>e. ASSUME op.pc \in all, Restarts, UNCHANGED <<snap, journal>>, Kept' PROVE Kept' /\ Held'
    BY <1>e, <1>u, EndHeld
  <1>1. CASE Uninstalls
    <2>1. /\ op.pc = "uninstall" /\ UNCHANGED <<snap, journal>>
          /\ \/ (Done \/ Abort("refused")) /\ UNCHANGED marker
             \/ /\ Kind(Cur, Live) \in Good
                /\ marker' = [marker EXCEPT ![Cur].state = "removing"]
                /\ op' = [op EXCEPT !.pc = "examine", !.was = marker[Cur]]
      BY <1>1 DEF Uninstalls, At, Kind, Good
    <2>2. CASE (Done \/ Abort("refused")) /\ UNCHANGED marker BY <2>1, <2>2, <1>e, Restarting, KeptSame
    <2>3. CASE /\ Kind(Cur, Live) \in Good
               /\ marker' = [marker EXCEPT ![Cur].state = "removing"]
               /\ op' = [op EXCEPT !.pc = "examine", !.was = marker[Cur]]
      <3>1. op'.todo = op.todo /\ op'.pc = "examine" /\ Cur' = Cur BY <2>3 DEF Types, Jobs, Cur
      <3>2. /\ \A e \in Edition \ {Cur} : marker'[e] = marker[e]
            /\ marker'[Cur].state = "removing"
        BY <2>3, <1>0 DEF Marked, Markers
      <3>3. Kept' BY <2>1, <3>2, <1>u, <1>0, KeptCur
      <3>4. Kind(Cur, Live)' \in Good BY <2>1, <2>3, <3>1 DEF Kind
      <3>5. Held' BY <2>1, <3>1, <3>4, <1>q, <1>u, TaskHeld
      <3> QED BY <3>3, <3>5
    <2> QED BY <2>1, <2>2, <2>3
  <1>2. CASE Examine
    <2>1. /\ op.pc = "examine" /\ UNCHANGED <<marker, snap, journal>>
          /\ \/ Goto("forget") \/ Goto("restate")
             \/ op' = [op EXCEPT !.seen = profile[Cur], !.pc = "excise"]
      BY <1>2 DEF Examine, At, disk
    <2>2. CASE Goto("forget") BY <2>1, <2>2, <1>g, GotoStays
    <2>3. CASE Goto("restate") BY <2>1, <2>3, <1>g, GotoStays
    <2>4. CASE op' = [op EXCEPT !.seen = profile[Cur], !.pc = "excise"]
      <3>1. op'.todo = op.todo /\ op'.pc = "excise" BY <2>4 DEF Types, Jobs
      <3> QED BY <2>1, <3>1, <1>g
    <2> QED BY <2>1, <2>2, <2>3, <2>4
  <1>3. CASE Excise
    <2>1. /\ op.pc = "excise" /\ UNCHANGED <<marker, snap, journal>>
          /\ Goto("forget") \/ Goto("restate")
      BY <1>3 DEF Excise, At, Replaced
    <2> QED BY <2>1, <1>g, GotoStays
  <1>4. CASE Restate
    <2>1. op.pc = "restate" /\ UNCHANGED <<snap, journal>> /\ Restarts
          /\ marker' = [marker EXCEPT ![Cur].state = op.was.state]
      BY <1>4, Restarting DEF Restate, At
    <2>2. \A e \in Edition \ {Cur} : marker'[e] = marker[e] BY <2>1, <1>0
    <2>3. snap'[Cur][Live].kind \in Good BY <2>1, <1>h DEF Kind
    <2>4. Kept' BY <2>1, <2>2, <2>3, <1>u, <1>0, KeptCur
    <2> QED BY <2>1, <2>4, <1>e
  <1>5. CASE Forget
    <2>1. op.pc = "forget" /\ UNCHANGED <<snap, journal>> /\ Goto("erase") /\ marker' = [marker EXCEPT ![Cur] = NoMarker]
      BY <1>5 DEF Forget, At, SetMarker
    <2>2. /\ \A e \in Edition \ {Cur} : marker'[e] = marker[e]
          /\ ~marker'[Cur].present
      BY <2>1, <1>0 DEF NoMarker
    <2>3. Kept' BY <2>1, <2>2, <1>u, <1>0, KeptCur
    <2>4. Held' BY <2>1, <2>2, <1>q, <1>u, GotoStays, TaskHeld
    <2> QED BY <2>3, <2>4
  \* The recovery files of a host without a marker go.
  <1>v. ASSUME op.pc \in {"erase", "erased"}, NEW q \in {"erased", "cleanup"}, Goto(q), UNCHANGED <<marker, journal>>,
               \A e \in Edition \ {Cur} : snap'[e] = snap[e]
        PROVE Kept' /\ Held'
    <2>1. ~marker'[Cur].present BY <1>v, <1>h
    <2>2. Kept' BY <1>v, <2>1, <1>u, <1>0, KeptCur
    <2>3. op'.todo = op.todo /\ op'.pc = q BY <1>v, GotoStays
    <2>4. Held' BY <1>v, <2>1, <2>3, <1>q, <1>u, TaskHeld
    <2> QED BY <2>2, <2>4
  <1>6. CASE Erase
    <2>1. op.pc = "erase" /\ UNCHANGED <<marker, journal>> /\ Goto("erased")
          /\ snap' = [snap EXCEPT ![Cur][Live].kind = "torn"]
      BY <1>6 DEF Erase, At
    <2>2. \A e \in Edition \ {Cur} : snap'[e] = snap[e] BY <2>1, <1>0 DEF Types
    <2> QED BY <2>1, <2>2, <1>v
  <1>7. CASE Erased
    <2>1. op.pc = "erased" /\ UNCHANGED <<marker, journal>> /\ Goto("cleanup")
          /\ snap' = [snap EXCEPT ![Cur][Live] = NoSnap]
      BY <1>7 DEF Erased, At
    <2>2. \A e \in Edition \ {Cur} : snap'[e] = snap[e] BY <2>1, <1>0 DEF Types
    <2> QED BY <2>1, <2>2, <1>v
  <1>8. CASE Cleanup
    <2>1. op.pc = "cleanup" /\ UNCHANGED <<marker, snap, journal>> /\ Goto("cleanpayload") BY <1>8 DEF Cleanup, At
    <2> QED BY <2>1, <1>g, GotoStays
  <1>9. CASE CleanPayload
    <2>1. op.pc = "cleanpayload" /\ UNCHANGED <<marker, snap, journal>> /\ Restarts
      BY <1>9, Restarting DEF CleanPayload, At
    <2> QED BY <2>1, <1>e, KeptSame
  <1> QED BY <1>1, <1>2, <1>3, <1>4, <1>5, <1>6, <1>7, <1>8, <1>9 DEF Removes

LEMMA TidiesHeld ==
  ASSUME Types, Control, Midway, Kept, Held, Types', Control', Midway', Tidies
  PROVE Kept' /\ Held'
  <1> DEFINE all == {"repair", "strip", "stripped", "modules", "leftovers", "swept", "wipe", "retiretree"}
  <1>k. all \cap (Recovering \cup {"idle"} \cup Opens) = {} BY SMT DEF Recovering, Opens
  <1>q. all \cap (Recovering \cup Before \cup Filed \cup Open \cup Unretired \cup After
                   \cup {"live", "examine", "excise", "restate", "erase", "erased"}) = {}
    BY SMT DEF Recovering, Before, Filed, Open, Unretired, After
  <1>u. op.pc \in all => /\ op.pc # "idle" /\ op.pc \notin Recovering \cup {"idle"} \cup Opens
                         /\ op.todo[1][1] \notin Backs /\ \A e \in Edition : journal[e].phase # "open"
    BY <1>k, TaskKind, Quiet
  <1>e. ASSUME op.pc \in all, Restarts, UNCHANGED <<marker, snap, journal>> PROVE Kept' /\ Held'
    BY <1>e, <1>u, EndHeld, KeptSame
  <1>1. CASE Repair
    <2>1. op.pc = "repair" /\ UNCHANGED <<marker, snap, journal>> /\ Restarts
      BY <1>1, Restarting DEF Repair, At, disk
    <2> QED BY <2>1, <1>e
  <1>2. CASE ReadStrip
    <2>1. /\ op.pc = "strip" /\ UNCHANGED <<marker, snap, journal>>
          /\ Done \/ op' = [op EXCEPT !.seen = profile[Cur], !.pc = "stripped"]
      BY <1>2 DEF ReadStrip, At, disk
    <2>2. CASE Done BY <2>1, <2>2, <1>e, Restarting
    <2>3. CASE op' = [op EXCEPT !.seen = profile[Cur], !.pc = "stripped"]
      <3>1. op'.todo = op.todo /\ op'.pc = "stripped" BY <2>3 DEF Types, Jobs
      <3>2. Held' BY <2>1, <3>1, <1>q, <1>u, TaskHeld
      <3> QED BY <2>1, <3>2, KeptSame
    <2> QED BY <2>1, <2>2, <2>3
  <1>3. CASE StripBlocks
    <2>1. op.pc = "stripped" /\ UNCHANGED <<marker, snap, journal>> /\ Restarts
      BY <1>3, Restarting DEF StripBlocks, At, Replaced
    <2> QED BY <2>1, <1>e
  <1>4. CASE Modules
    <2>1. op.pc = "modules" /\ UNCHANGED <<marker, snap, journal>> /\ Restarts BY <1>4, Restarting DEF Modules, At
    <2> QED BY <2>1, <1>e
  <1>5. CASE Leftovers
    <2>1. op.pc = "leftovers" /\ UNCHANGED <<marker, snap, journal>> /\ Restarts BY <1>5, Restarting DEF Leftovers, At
    <2> QED BY <2>1, <1>e
  <1>6. CASE Swept
    <2>1. op.pc = "swept" /\ UNCHANGED <<marker, snap, journal>> /\ Restarts BY <1>6, Restarting DEF Swept, At, disk
    <2> QED BY <2>1, <1>e
  <1>7. CASE Wipe
    <2>1. op.pc = "wipe" /\ UNCHANGED <<snap, journal>> /\ Goto("retiretree") /\ marker' = [e \in Edition |-> NoMarker]
      BY <1>7 DEF Wipe, At
    <2>2. \A e \in Edition : ~marker'[e].present BY <2>1 DEF NoMarker
    <2>3. \A e \in Edition : journal'[e].phase # "open" BY <2>1, <1>u
    <2>4. Kept' BY <2>2, <2>3 DEF Kept, KeptAt, InstalledMarker
    <2>5. Held' BY <2>1, <2>2, <1>q, <1>u, GotoStays, TaskHeld
    <2> QED BY <2>4, <2>5
  <1>8. CASE RetireTree
    <2>1. /\ op.pc = "retiretree" /\ UNCHANGED marker /\ Restarts
          /\ journal' = [e \in Edition |-> NoEntry] \/ UNCHANGED journal
      BY <1>8, Restarting DEF RetireTree, At
    <2>2. \A e \in Edition : ~marker'[e].present BY <2>1 DEF Held
    <2>3. \A e \in Edition : journal'[e].phase # "open" BY <2>1, <1>u DEF NoEntry
    <2>4. Kept' BY <2>2, <2>3 DEF Kept, KeptAt, InstalledMarker
    <2>5. Held' BY <2>1, <2>3, <1>u, EndHeld
    <2> QED BY <2>4, <2>5
  <1> QED BY <1>1, <1>2, <1>3, <1>4, <1>5, <1>6, <1>7, <1>8 DEF Tidies

LEMMA SameHeldKept ==
  ASSUME Kept, Held, UNCHANGED <<op, marker, snap, journal>>
  PROVE Kept' /\ Held'
  <1>1. Cur' = Cur /\ T' = T /\ J' = J BY DEF Cur, T, J
  <1>2. (RollingBack' <=> RollingBack) /\ (Restored' <=> Restored) BY DEF RollingBack, Restored
  <1>3. Recovery' = Recovery BY <1>1 DEF Recovery, Published, Staged
  <1>4. \A n : Kind(Cur, n)' = Kind(Cur, n) BY <1>1 DEF Kind
  <1>5. Held' BY <1>1, <1>2, <1>3, <1>4 DEF Held, Kind
  <1> QED BY <1>5, KeptSame

LEMMA CommandHeld ==
  ASSUME Types, Control, Kept, NEW cmd \in Commands \ {"none"}, NEW e \in Edition, NEW user \in BOOLEAN,
         cmd = "repair" => user, cmd = "repairall" => ~user,
         Command(cmd, e, user), cmd = "clean" <=> build = 0
  PROVE Kept' /\ Held'
  <1> DEFINE s == Todo(cmd, e)
  <1>1. Runnable(cmd, user, s) /\ s # <<>> /\ Plainly(s) /\ RecoversAll(s) BY TodoRuns
  <1>2. op'.todo = s /\ op'.pc = s[1][1] /\ UNCHANGED disk BY CommandOp
  <1> HIDE DEF s
  <1>3. s \in Lists BY <1>1 DEF Runnable
  <1>4. Len(s) \in Nat /\ Len(s) >= 1 /\ s[1][1] \in Tasks BY <1>1, <1>3, Listed
  <1>5. s[1][1] # "rolled" /\ (Len(s) > 1 => s[2][1] # "rolled") BY <1>1, <1>4, SMT DEF Plainly
  <1>6. ~RollingBack' BY <1>2, <1>4, <1>5, SMT DEF RollingBack, Tasks
  <1>7. op'.pc \in Tasks \cup {"idle"} BY <1>2, <1>4
  <1>8. UNCHANGED <<marker, snap, journal>> BY <1>2 DEF disk
  <1> QED BY <1>6, <1>7, <1>8, HeldBegin, KeptSame

LEMMA FailHeld ==
  ASSUME Types, Control, Midway, Kept, Held, Types', Control', Midway', Fail
  PROVE Kept' /\ Held'
  <1>0. (op.pc # "idle" => op # Idle) /\ UNCHANGED <<build, marker, snap, journal>> BY Running DEF Fail, disk
  <1>1. CASE op.pc \in Undoes /\ Goto("undo")
    <2>1. SameHold(op.pc, "undo") /\ op.pc \notin Recovering \cup {"idle"}
      BY <1>1, SMTT(60) DEF Undoes, SameHold, Before, Filed, Open, Unretired, After, Recovering
    <2> QED BY <1>0, <1>1, <2>1, GotoHeld, KeptSame
  <1>2. CASE op.pc = "excise" /\ Goto("restate")
    <2>1. SameHold("excise", "restate") /\ "excise" \notin Recovering \cup {"idle"}
      BY SMT DEF SameHold, Before, Filed, Open, Unretired, After, Recovering
    <2> QED BY <1>0, <1>2, <2>1, GotoHeld, KeptSame
  <1>3. CASE op.pc \in Finishes \cup {"stripped"} /\ Done
    <2>1. op.pc \notin Recovering \cup {"idle"} \cup Opens BY <1>3, SMT DEF Finishes, Recovering, Opens
    <2> QED BY <1>0, <1>3, <2>1, Restarting, EndHeld, KeptSame
  <1>4. CASE op.pc \in Reports /\ Abort("failed")
    <2>1. op.pc # "idle" BY <1>4, SMT DEF Reports, Recovering
    <2>2. CASE op.pc \in Recovering
      <3>1. op' = Idle BY <1>0, <1>4, <2>1, <2>2, AbortTo DEF Codes
      <3> QED BY <1>0, <3>1, HeldIdle, KeptSame
    <2>3. CASE op.pc = "undo"
      <3>1. op.todo[1][1] \in {"begin", "replace", "upgrade"} BY <2>3, TaskOf DEF Shared
      <3>2. op.cmd \notin {"clean", "sweep"} BY <1>0, <2>1, <3>1, Follow
      <3>3. op' = Idle BY <1>4, <3>2 DEF Abort, Ends
      <3> QED BY <1>0, <3>3, HeldIdle, KeptSame
    <2>4. CASE op.pc \notin Recovering \cup {"undo"}
      <3>1. op.pc \notin Opens BY <1>4, <2>4, SMT DEF Reports, Opens
      <3> QED BY <1>0, <1>4, <2>1, <2>4, <3>1, Restarting, EndHeld, KeptSame
    <2> QED BY <2>2, <2>3, <2>4
  <1> QED BY <1>1, <1>2, <1>3, <1>4 DEF Fail

LEMMA WorldHeld ==
  ASSUME Types, Control, Midway, Kept, Held, Types', Control', Midway', World
  PROVE Kept' /\ Held'
  <1>0. Order[1] \in Edition BY Somebody
  <1>1. CASE UserCommand
    <2>1. PICK e \in Edition, cmd \in {"enable", "disable", "repair", "sweep"} : Command(cmd, e, TRUE)
      BY <1>1 DEF UserCommand
    <2>2. build # 0 /\ cmd \in Commands \ {"none"} /\ cmd \notin {"clean", "repairall"}
      BY <1>1 DEF UserCommand, Commands
    <2> QED BY <2>1, <2>2, CommandHeld
  <1>2. CASE SweepStart BY <1>2, SameHeldKept DEF SweepStart, disk
  <1>3. CASE BackgroundEnable
    <2>1. PICK e \in targets : Command("enable", e, FALSE) BY <1>3 DEF BackgroundEnable
    <2>2. build # 0 /\ e \in Edition BY <1>3 DEF BackgroundEnable, Types
    <2> QED BY <2>1, <2>2, CommandHeld DEF Commands
  <1>4. CASE BackgroundRepair
    <2>1. build # 0 /\ Command("repairall", Order[1], FALSE) BY <1>4 DEF BackgroundRepair
    <2> QED BY <1>0, <2>1, CommandHeld DEF Commands
  <1>5. CASE OrphanClean
    <2>1. build = 0 /\ Command("clean", Order[1], TRUE) BY <1>5 DEF OrphanClean
    <2> QED BY <1>0, <2>1, CommandHeld DEF Commands
  <1>6. CASE NewBuild BY <1>6, SameHeldKept DEF NewBuild, disk
  <1>7. CASE Remove BY <1>7, SameHeldKept DEF Remove, disk
  <1>8. CASE Edit BY <1>8, SameHeldKept DEF Edit
  <1>9. CASE Crash
    <2>1. op' = Idle /\ UNCHANGED <<marker, snap, journal>> BY <1>9 DEF Crash, disk
    <2> QED BY <2>1, HeldIdle, KeptSame
  <1>10. CASE Fail BY <1>10, FailHeld
  <1> QED BY <1>1, <1>2, <1>3, <1>4, <1>5, <1>6, <1>7, <1>8, <1>9, <1>10 DEF World

\* Every step keeps the recovery files that are needed.
LEMMA HeldStep ==
  ASSUME Types, Control, Midway, Kept, Held, [Next]_vars
  PROVE Types' /\ Control' /\ Midway' /\ Kept' /\ Held'
  <1>1. Types' /\ Control' /\ Midway' BY MidwayStep
  <1>2. CASE Recovers BY <1>1, <1>2, RecoversHeld
  <1>3. CASE Enables BY <1>1, <1>3, EnablesHeld
  <1>4. CASE Removes BY <1>1, <1>4, RemovesHeld
  <1>5. CASE Tidies BY <1>1, <1>5, TidiesHeld
  <1>6. CASE World BY <1>1, <1>6, WorldHeld
  <1>7. CASE UNCHANGED vars
    <2>1. UNCHANGED <<op, marker, snap, journal>> BY <1>7 DEF vars, disk
    <2> QED BY <1>1, <2>1, SameHeldKept
  <1> QED BY <1>1, <1>2, <1>3, <1>4, <1>5, <1>6, <1>7 DEF Next

LEMMA HeldInit ==
  ASSUME Init
  PROVE Kept /\ Held
  <1>1. PICK old \in SUBSET Edition :
       /\ marker = [e \in Edition |-> IF e \in old
                      THEN [present |-> TRUE, state |-> "installed", version |-> Legacy,
                            orig |-> Start[e].present]
                      ELSE NoMarker]
       /\ snap = [e \in Edition |-> [n \in Names |->
                    IF n = Live /\ e \in old
                      THEN [kind |-> "old", orig |-> Start[e].present,
                            before |-> [present |-> TRUE, text |-> Start[e].text, block |-> "none"]]
                      ELSE NoSnap]]
    BY DEF Init
  <1>2. Live \in Names BY Named
  <1>3. \A e \in Edition : journal[e].phase = "none" BY DEF Init, NoEntry
  <1>4. \A e \in Edition : InstalledMarker(e) => e \in old BY <1>1 DEF InstalledMarker, NoMarker
  <1>5. \A e \in old : Kind(e, Live) = "old" BY <1>1, <1>2 DEF Kind
  <1>6. Kept BY <1>3, <1>4, <1>5 DEF Kept, KeptAt, Good
  <1>7. op.pc = "idle" /\ Len(op.todo) = 0 BY SMT DEF Init, Idle
  <1>8. ~RollingBack BY <1>7, SMT DEF RollingBack
  <1>9. "idle" \notin Before \cup Filed \cup Open \cup Unretired \cup After
    BY SMT DEF Before, Filed, Open, Unretired, After
  <1>10. Held BY <1>7, <1>8, <1>9, SMT DEF Held, Restored
  <1> QED BY <1>6, <1>10


-----------------------------------------------------------------------------
\* The types that hold in every state, the bound on the ids apart.
LEMMA TypesOK ==
  ASSUME Types, Control, Midway, IdLeft
  PROVE TypeOK
  <1>1. Files \subseteq Contents /\ Marked \subseteq Markers /\ Journals \subseteq Entries
    BY DEF Files, Marked, Journals
  <1>2. Saved \subseteq Snapshots BY <1>1 DEF Saved, Snapshots
  <1>3. op.cmd \in Commands /\ op.seen \in Contents /\ op.was \in Markers /\ op.tx \in Tx \cup {NoTx}
    BY <1>1 DEF Types, Jobs
  <1>4. /\ profile \in [Edition -> Contents] /\ marker \in [Edition -> Markers]
        /\ snap \in [Edition -> [Names -> Snapshots]] /\ journal \in [Edition -> Entries] /\ swap \in Entries
    BY <1>1, <1>2 DEF Types
  <1>5. ASSUME At("payload") PROVE swap.phase = "none"
    <2>1. op.pc = "payload" BY <1>5 DEF At
    <2>2. op.todo[1][1] \in {"begin", "replace", "upgrade"} BY <2>1, TaskOf DEF Shared
    <2>3. "payload" \notin Swaps BY SMT DEF Swaps, Shared, Whole
    <2> QED BY <2>1, <2>2, <2>3, Quiet DEF Backs
  <1> QED BY <1>3, <1>4, <1>5 DEF Types, TypeOK

\* As long as an id is left (IdLeft, the bound of the model on temporary names:
\* NewTx has no value without one) the variables keep their types, and no swap
\* of the payload is open where PayloadSwap::ensure starts another.
THEOREM TypesHold == Spec => [](IdLeft => TypeOK)
  <1>1. Init => Types /\ Control /\ Midway BY Starting0
  <1>2. Types /\ Control /\ Midway /\ [Next]_vars => (Types /\ Control /\ Midway)' BY MidwayStep
  <1>3. Types /\ Control /\ Midway => (IdLeft => TypeOK) BY TypesOK
  <1> QED BY <1>1, <1>2, <1>3, PTL DEF Spec

\* The marker of an adapter that says installed has its recovery files beside
\* it, whatever interrupted installations and recoveries came before, unless
\* a journal that is still open says where they are: uninstall, which refuses to
\* work without them (powershell.rs, uninstall), can do its work.
THEOREM Removable == Spec => []InstalledIsRemovable
  <1> DEFINE I == Types /\ Control /\ Midway /\ Kept /\ Held
  <1>1. Init => I BY Starting0, HeldInit
  <1>2. I /\ [Next]_vars => I' BY HeldStep
  <1>3. I => InstalledIsRemovable BY DEF Kept, KeptAt, Kind, Good, InstalledIsRemovable
  <1> HIDE DEF I
  <1> QED BY <1>1, <1>2, <1>3, PTL DEF Spec


-----------------------------------------------------------------------------
(* A command in the background.                                             *)

\* The tasks that a background command of an installed host may have; none
\* of them writes a profile.
Calmly == {"recover", "swap", "rolled", "enable", "upgrade", "tree", "repair", "modules", "leftovers"}
Calm ==
  ~op.user /\ ~op.fresh =>
    /\ \A i \in 1..Len(op.todo) : op.todo[i][1] \in Calmly
    /\ op.pc = "undo" \/ op.undoing => \A e \in Edition : journal[e].phase # "open"
    /\ op.pc # "restore"

\* The command is the same one.
Stays == op' = Idle \/ (op'.user = op.user /\ op'.fresh = op.fresh)

LEMMA Staying ==
  ASSUME Types
  PROVE /\ \A z, w : Continues(z, w) => Stays
        /\ Done => Stays
        /\ \A z : Instead(z) => Stays
        /\ \A code : Abort(code) \/ Ends(code) => Stays
        /\ Unmarked => Stays
        /\ \A q : Goto(q) => Stays
        /\ \A b : Starts(b) => Stays
  <1>1. ASSUME NEW z, NEW w, Continues(z, w) PROVE Stays
    <2>1. CASE z = <<>> BY <1>1, <2>1 DEF Continues, Ends, Stays
    <2>2. CASE z # <<>>
      <3>1. op' = [NextTask(z) EXCEPT !.worst = w] BY <1>1, <2>2 DEF Continues
      <3>2. op'.user = op.user /\ op'.fresh = op.fresh BY <3>1 DEF NextTask, Types, Jobs
      <3> QED BY <3>2 DEF Stays
    <2> QED BY <2>1, <2>2
  <1>2. Done => Stays BY <1>1 DEF Done, Runs
  <1>3. ASSUME NEW z, Instead(z) PROVE Stays BY <1>1, <1>3 DEF Instead, Runs
  <1>4. ASSUME NEW code, Abort(code) \/ Ends(code) PROVE Stays BY <1>1, <1>4 DEF Abort, Ends, Stays
  <1>5. Unmarked => Stays BY <1>3 DEF Unmarked
  <1>6. ASSUME NEW q, Goto(q) PROVE Stays BY <1>6 DEF Goto, Stays, Types, Jobs
  <1>7. ASSUME NEW b, Starts(b) PROVE Stays BY <1>7 DEF Starts, Stays, Types, Jobs
  <1> QED BY <1>1, <1>2, <1>3, <1>4, <1>5, <1>6, <1>7

LEMMA CalmIdle ==
  ASSUME op' = Idle
  PROVE Calm'
  <1>1. op'.user BY DEF Idle
  <1> QED BY <1>1 DEF Calm

\* Another step of the task.
LEMMA CalmGoto ==
  ASSUME Types, Calm, NEW q, Goto(q), q # "restore",
         \A e \in Edition : journal'[e].phase = "open" => journal[e].phase = "open",
         q = "undo" => \A e \in Edition : journal[e].phase # "open"
  PROVE Calm'
  <1>1. op'.todo = op.todo /\ op'.pc = q /\ op'.undoing = op.undoing /\ op'.user = op.user /\ op'.fresh = op.fresh
    BY DEF Goto, Types, Jobs
  <1> QED BY <1>1 DEF Calm

\* The next task.
LEMMA CalmNext ==
  ASSUME Types', Control', Calm, NEW s, Starting(s),
         \A e \in Edition : journal'[e].phase = "open" => journal[e].phase = "open",
         ~op.user /\ ~op.fresh => \A i \in 1..Len(s) : s[i][1] \in Calmly
  PROVE Calm'
  <1>1. CASE op' = Idle BY <1>1, CalmIdle
  <1>2. CASE op' # Idle
    <2>1. /\ s # <<>> /\ op'.todo = s /\ op'.pc = s[1][1] /\ op'.user = op.user
          /\ op'.undoing = op.undoing /\ op'.fresh = op.fresh
      BY <1>2 DEF Starting
    <2>2. s \in Lists BY <1>2, <2>1 DEF Control, Runnable
    <2>3. op'.pc \in Tasks BY <2>1, <2>2, Listed
    <2>4. op'.pc \notin {"undo", "restore"} BY <2>3, SMT DEF Tasks
    <2> QED BY <2>1, <2>4 DEF Calm
  <1> QED BY <1>1, <1>2

LEMMA CalmTail ==
  ASSUME Types, Control, Types', Control', Calm, op.pc # "idle", Starting(Tail(op.todo)),
         \A e \in Edition : journal'[e].phase = "open" => journal[e].phase = "open"
  PROVE Calm'
  <1> DEFINE s == Tail(op.todo)
  <1>1. op.todo \in Lists /\ op.todo # <<>> BY Running
  <1>2. Len(s) \in Nat /\ \A i \in 1..Len(s) : i + 1 \in 1..Len(op.todo) /\ s[i] = op.todo[i + 1]
    BY <1>1, Listed, SMT DEF Lists
  <1> HIDE DEF s
  <1>3. ~op.user /\ ~op.fresh => \A i \in 1..Len(s) : s[i][1] \in Calmly BY <1>2 DEF Calm
  <1> QED BY <1>3, CalmNext DEF s

\* A step that no calm command takes.
LEMMA CalmNot ==
  ASSUME Types, Control, Calm, Stays, op.pc # "idle", op.todo[1][1] \notin Calmly
  PROVE Calm'
  <1>1. CASE op' = Idle BY <1>1, CalmIdle
  <1>2. CASE op' # Idle
    <2>1. op.todo \in Lists /\ op.todo # <<>> BY Running
    <2>2. 1 \in 1..Len(op.todo) BY <2>1, Listed
    <2>3. op.user \/ op.fresh BY <2>2 DEF Calm
    <2> QED BY <1>2, <2>3 DEF Stays, Calm
  <1> QED BY <1>1, <1>2

LEMMA RecoversCalm ==
  ASSUME Types, Control, Midway, Calm, Types', Control', Midway', Recovers
  PROVE Calm'
  <1>0. /\ Cur \in Edition /\ (op.pc # "idle" => op # Idle) /\ journal \in [Edition -> Journals]
    BY Running DEF Types
  <1>g. ASSUME NEW q, Goto(q), q \notin {"restore", "undo"}, UNCHANGED journal PROVE Calm'
    BY <1>g, CalmGoto
  <1>d. ASSUME op.pc # "idle", UNCHANGED build, Done \/ (\E code \in Codes : Abort(code)),
               \A e \in Edition : journal'[e].phase = "open" => journal[e].phase = "open"
        PROVE Calm'
    BY <1>d, <1>0, DoneTo, AbortTo, CalmTail
  <1>1. CASE Recover
    <2>1. op.pc = "recover" /\ UNCHANGED <<build, journal>> BY <1>1 DEF Recover, At, world, disk
    <2>2. \/ Done \/ Goto("tidyswap") \/ Goto("unpublish") \/ Abort("refused") \/ Abort("confirm")
          \/ /\ op' = [op EXCEPT !.seen = profile[Cur], !.pc = "restore"]
             /\ J.phase = "open" /\ (op.user \/ op.undoing)
      BY <1>1 DEF Recover
    <2>3. CASE Done \/ Abort("refused") \/ Abort("confirm") BY <2>1, <2>3, <1>d DEF Codes
    <2>4. CASE Goto("tidyswap") \/ Goto("unpublish") BY <2>1, <2>4, <1>g
    <2>5. CASE /\ op' = [op EXCEPT !.seen = profile[Cur], !.pc = "restore"]
               /\ J.phase = "open" /\ (op.user \/ op.undoing)
      <3>1. op.user \/ op.fresh BY <2>5, <1>0 DEF Calm, J
      <3>2. op'.user = op.user /\ op'.fresh = op.fresh BY <2>5 DEF Types, Jobs
      <3> QED BY <3>1, <3>2 DEF Calm
    <2> QED BY <2>2, <2>3, <2>4, <2>5
  <1>2. CASE Restore
    <2>1. /\ op.pc = "restore" /\ UNCHANGED <<build, journal>>
          /\ Goto("unpublish") \/ Abort("refused")
      BY <1>2 DEF Restore, At, world, Replaced
    <2>2. CASE Goto("unpublish") BY <2>1, <2>2, <1>g
    <2>3. CASE Abort("refused") BY <2>1, <2>3, <1>d DEF Codes
    <2> QED BY <2>1, <2>2, <2>3
  <1>3. CASE Unpublish BY <1>3, <1>g DEF Unpublish
  <1>4. CASE Unretire BY <1>4, <1>g DEF Unretire
  <1>5. CASE RestoreValues BY <1>5, <1>g DEF RestoreValues
  <1>6. CASE RestoreState
    <2>1. /\ op.pc = "state" /\ UNCHANGED <<build, journal>>
          /\ Goto("rolled") \/ Instead(<<<<"swap", Cur>>, <<"rolled", Cur>>>>)
      BY <1>6 DEF RestoreState, At, world
    <2>2. CASE Goto("rolled") BY <2>1, <2>2, <1>g
    <2>3. CASE Instead(<<<<"swap", Cur>>, <<"rolled", Cur>>>>)
      <3> DEFINE r == Tail(op.todo)
                 s == RollList(Cur, Tail(op.todo))
      <3>1. op # Idle /\ op.todo \in Lists /\ op.todo # <<>> BY <2>1, <1>0, Running
      <3>2. Runnable(op.cmd, op.user, r) /\ Plainly(r)
        BY <2>1, <1>0, <3>1, TaskOf, RestRuns DEF Control
      <3>3. /\ Runnable(op.cmd, op.user, s)
            /\ s[1][1] = "swap" /\ s[2][1] = "rolled" /\ Len(s) = Len(r) + 2
            /\ \A i \in 1..Len(r) : s[i + 2] = r[i]
        <4> DEFINE c == op.cmd
                   u == op.user
                   e == Cur
        <4>1. Runnable(c, u, r) /\ Plainly(r) /\ e \in Edition BY <3>2, <1>0
        <4> HIDE DEF c, u, e, r, s
        <4>2. Runnable(c, u, RollList(e, r)) BY <4>1, RollsOn
        <4>3. s = RollList(e, r) BY DEF s, e, r
        <4>4. r \in Lists BY <4>1 DEF Runnable
        <4>5. /\ RollList(e, r)[1][1] = "swap" /\ RollList(e, r)[2][1] = "rolled"
              /\ Len(RollList(e, r)) = Len(r) + 2
              /\ \A i \in 1..Len(r) : RollList(e, r)[i + 2] = r[i]
          BY <4>1, <4>4, RollAt
        <4> QED BY <4>2, <4>3, <4>5 DEF c, u
      <3>4. op.worst \in BOOLEAN /\ Continues(s, op.worst) BY <2>3 DEF Types, Jobs, Instead, Runs, RollList
      <3>5. Len(r) \in Nat /\ \A i \in 1..Len(r) : i + 1 \in 1..Len(op.todo) /\ r[i] = op.todo[i + 1]
        BY <3>1, Listed, SMT DEF Lists
      <3> HIDE DEF s, r
      <3>6. Starting(s) BY <2>1, <3>1, <3>3, <3>4, ContinuesTo
      <3>7. \A i \in 1..Len(s) : i = 1 \/ i = 2 \/ (i - 2 \in 1..Len(r) /\ s[i] = r[i - 2])
        BY <3>3, <3>5
      <3>8. ~op.user /\ ~op.fresh => \A i \in 1..Len(r) : r[i][1] \in Calmly BY <3>5 DEF Calm
      <3>9. "swap" \in Calmly /\ "rolled" \in Calmly BY DEF Calmly
      <3>10. ~op.user /\ ~op.fresh => \A i \in 1..Len(s) : s[i][1] \in Calmly
        <4> SUFFICES ASSUME ~op.user, ~op.fresh, NEW i \in 1..Len(s) PROVE s[i][1] \in Calmly OBVIOUS
        <4>1. CASE i = 1 BY <4>1, <3>3, <3>9
        <4>2. CASE i = 2 BY <4>2, <3>3, <3>9
        <4>3. CASE i - 2 \in 1..Len(r) /\ s[i] = r[i - 2] BY <4>3, <3>8
        <4> QED BY <3>7, <4>1, <4>2, <4>3
      <3> QED BY <2>1, <3>6, <3>10, CalmNext
    <2> QED BY <2>1, <2>2, <2>3
  <1>7. CASE RolledBack
    <2>1. Goto("tidystate") /\ journal' = [journal EXCEPT ![Cur].phase = "rolledback"]
      BY <1>7 DEF RolledBack, SetJournal
    <2>2. \A e \in Edition : journal'[e].phase = "open" => journal[e].phase = "open"
      BY <2>1, <1>0 DEF Journals, Entries
    <2> QED BY <2>1, <2>2, CalmGoto
  <1>8. CASE TidySwap BY <1>8, <1>g DEF TidySwap
  <1>9. CASE TidyDrop BY <1>9, <1>g DEF TidyDrop
  <1>10. CASE TidyState BY <1>10, <1>g DEF TidyState
  <1>11. CASE DropJournal
    <2>1. op.pc = "dropjournal" /\ UNCHANGED build /\ Done /\ journal' = [journal EXCEPT ![Cur] = NoEntry]
      BY <1>11 DEF DropJournal, At, world
    <2>2. \A e \in Edition : journal'[e].phase = "open" => journal[e].phase = "open"
      BY <2>1, <1>0 DEF NoEntry
    <2> QED BY <2>1, <2>2, <1>d
  <1>12. CASE Swap
    <2>1. op.pc = "swap" /\ UNCHANGED <<build, journal>> /\ (Done \/ Goto("swaproot") \/ Goto("swapclean"))
      BY <1>12 DEF Swap, At, world, disk
    <2>2. CASE Done BY <2>1, <2>2, <1>d
    <2>3. CASE Goto("swaproot") \/ Goto("swapclean") BY <2>1, <2>3, <1>g
    <2> QED BY <2>1, <2>2, <2>3
  <1>13. CASE SwapRoot BY <1>13, <1>g DEF SwapRoot
  <1>14. CASE SwapRename BY <1>14, <1>g DEF SwapRename
  <1>15. CASE SwapClean BY <1>15, <1>g DEF SwapClean
  <1>16. CASE SwapDrop
    <2>1. op.pc = "swapdrop" /\ UNCHANGED <<build, journal>> /\ Done BY <1>16 DEF SwapDrop, At, world
    <2> QED BY <2>1, <1>d
  <1> QED BY <1>1, <1>2, <1>3, <1>4, <1>5, <1>6, <1>7, <1>8, <1>9, <1>10, <1>11, <1>12, <1>13,
             <1>14, <1>15, <1>16 DEF Recovers

\* A step of a transaction: a calm one belongs to an upgrade.
LEMMA SharedCalm ==
  ASSUME Types, Control, Midway, Calm, op.pc \in Shared \cup {"commitswap", "version"}, NEW q, Goto(q),
         q # "restore", UNCHANGED journal, q = "undo" => op.pc # "undo"
  PROVE Calm'
  <1>1. op.pc \notin Recovering \cup {"idle"} /\ op.pc # "idle" BY SMT DEF Shared, Recovering
  <1>2. op.todo[1][1] \in {"begin", "replace", "upgrade"} /\ op.todo[1][1] \notin Backs
    BY <1>1, TaskOf DEF Backs
  <1>3. op.pc # "undo" => op.pc \notin Opens BY SMT DEF Shared, Opens
  <1>4. q = "undo" => \A e \in Edition : journal[e].phase # "open" BY <1>1, <1>2, <1>3, Quiet
  <1> QED BY <1>4, CalmGoto

LEMMA EnablesCalm ==
  ASSUME Types, Control, Midway, Calm, Types', Control', Midway', Enables
  PROVE Calm'
  <1>0. /\ Cur \in Edition /\ (op.pc # "idle" => op # Idle) /\ journal \in [Edition -> Journals]
    BY Running DEF Types
  <1>d. ASSUME op.pc # "idle", UNCHANGED <<build, journal>>, Done \/ (\E code \in Codes : Abort(code)) PROVE Calm'
    BY <1>d, <1>0, DoneTo, AbortTo, CalmTail
  <1>n. ASSUME op.pc \in {"install", "reinstall", "adopt", "adopted", "resume", "begin", "replace"} \cup Whole, Stays
        PROVE Calm'
    <2>1. op.pc # "idle" BY <1>n, SMT DEF Whole
    <2>2. op.todo[1][1] \in {"install", "reinstall", "adopt", "resume", "begin", "replace"}
      BY <1>n, <2>1, TaskOf
    <2>3. op.todo[1][1] \notin Calmly BY <2>2, SMT DEF Calmly
    <2> QED BY <1>n, <2>1, <2>3, CalmNot
  <1>1. CASE Enable
    <2>1. op.pc = "enable" /\ UNCHANGED <<build, journal>> BY <1>1 DEF Enable, At, disk, world
    <2>2. op' = [NextTask((IF InstalledMarker(Cur) THEN <<<<"upgrade", Cur>>>>
                           ELSE <<<<"tree", Cur>>, <<"install", Cur>>>>) \o Tail(op.todo))
                   EXCEPT !.fresh = ~op.user /\ ~InstalledMarker(Cur)]
      BY <1>1 DEF Enable
    <2>3. op'.user = op.user /\ op'.fresh = (~op.user /\ ~InstalledMarker(Cur))
      BY <2>2 DEF NextTask, Types, Jobs
    <2>4. CASE op.user \/ ~InstalledMarker(Cur) BY <2>3, <2>4 DEF Calm
    <2>5. CASE InstalledMarker(Cur)
      <3> DEFINE r == Tail(op.todo)
                 s == <<<<"upgrade", Cur>>>> \o r
      <3>1. op # Idle /\ op.todo \in Lists /\ op.todo # <<>> /\ op.todo[1][1] = "enable"
        BY <2>1, <1>0, Running, TaskOf
      <3>2. Runnable(op.cmd, op.user, r) /\ \A i \in 1..Len(r) : r[i][1] \in Later(op.user, "enable")
        BY <3>1, RestRuns DEF Control
      <3>3. \A i \in 1..Len(r) : r[i][1] \in Calmly BY <3>2, SMT DEF Later, Calmly
      <3>4. r \in Lists BY <3>2 DEF Runnable
      <3>5. op'.todo = s /\ op'.pc = Head(s)[1] /\ op'.undoing = op.undoing
        BY <2>2, <2>5 DEF NextTask, Types, Jobs
      <3> HIDE DEF r
      <3>6. Head(s) = <<"upgrade", Cur>> /\ Len(s) = Len(r) + 1 /\ Len(r) \in Nat /\ s[1] = <<"upgrade", Cur>>
            /\ \A i \in 1..Len(r) : s[i + 1] = r[i]
        BY <3>4, <1>0, SMT DEF Lists, Tasks
      <3> HIDE DEF s
      <3>7. \A i \in 1..Len(s) : i = 1 \/ (i - 1 \in 1..Len(r) /\ s[i] = r[i - 1]) BY <3>6
      <3>8. \A i \in 1..Len(s) : s[i][1] \in Calmly
        <4> SUFFICES ASSUME NEW i \in 1..Len(s) PROVE s[i][1] \in Calmly OBVIOUS
        <4>1. CASE i = 1 BY <4>1, <3>6 DEF Calmly
        <4>2. CASE i - 1 \in 1..Len(r) /\ s[i] = r[i - 1] BY <4>2, <3>3
        <4> QED BY <3>7, <4>1, <4>2
      <3>9. op'.pc = "upgrade" BY <3>5, <3>6
      <3>10. ~op.undoing BY <2>1, <3>1, Quiet DEF Backs
      <3> QED BY <3>5, <3>8, <3>9, <3>10 DEF Calm
    <2> QED BY <2>4, <2>5
  <1>2. CASE Tree
    <2>1. op.pc = "tree" /\ UNCHANGED <<build, journal>> /\ Done BY <1>2 DEF Tree, At, world
    <2> QED BY <2>1, <1>d
  <1>3. CASE Install BY <1>3, <1>n, Staying DEF Install, At
  <1>4. CASE Reinstall BY <1>4, <1>n, Staying DEF Reinstall, At
  <1>5. CASE Adopt BY <1>5, <1>n, Staying DEF Adopt, At
  <1>6. CASE Adopted BY <1>6, <1>n, Staying DEF Adopted, At
  <1>7. CASE Resume BY <1>7, <1>n, Staying DEF Resume, At
  <1>8. CASE Begin
    <2>1. op.pc \in {"begin", "replace"} /\ (Done \/ Abort("refused") \/ Starts(FALSE)) BY <1>8 DEF Begin
    <2> QED BY <2>1, <1>n, Staying
  <1>s. Shared = {"payload", "swapjournal", "aside", "deploy", "finish", "finishswap",
                  "undo", "undoroot", "undoname", "undoclean"}
    BY DEF Shared
  <1>9. CASE Ensure
    <2>1. op.pc = "payload" /\ UNCHANGED journal /\ (Goto(AfterSwap) \/ Goto("swapjournal")) BY <1>9 DEF Ensure, At
    <2>2. AfterSwap \notin {"restore", "undo"} BY DEF AfterSwap
    <2> QED BY <2>1, <2>2, <1>s, SharedCalm
  <1>10. CASE SwapJournal BY <1>10, <1>s, SharedCalm DEF SwapJournal, At
  <1>11. CASE Aside BY <1>11, <1>s, SharedCalm DEF Aside, At
  <1>12. CASE Deploy
    <2>1. op.pc = "deploy" /\ UNCHANGED journal /\ Goto(AfterSwap) BY <1>12 DEF Deploy, At
    <2>2. AfterSwap \notin {"restore", "undo"} BY DEF AfterSwap
    <2> QED BY <2>1, <2>2, <1>s, SharedCalm
  <1>w. Whole = {"stage", "journal", "publish", "prepared", "retire", "live", "write",
                 "installed", "verify", "commit", "finishstate", "finishjournal"}
    BY DEF Whole
  <1>13. CASE Stage BY <1>13, <1>w, <1>n, Staying DEF Stage, At
  <1>14. CASE OpenJournal BY <1>14, <1>w, <1>n, Staying DEF OpenJournal, At
  <1>15. CASE Publish BY <1>15, <1>w, <1>n, Staying DEF Publish, At
  <1>16. CASE Prepared BY <1>16, <1>w, <1>n, Staying DEF Prepared, At
  <1>17. CASE Retire BY <1>17, <1>w, <1>n, Staying DEF Retire, At
  <1>18. CASE GoLive BY <1>18, <1>w, <1>n, Staying DEF GoLive, At
  <1>19. CASE Write BY <1>19, <1>w, <1>n, Staying DEF Write, At, Replaced
  <1>20. CASE MarkInstalled BY <1>20, <1>w, <1>n, Staying DEF MarkInstalled, At
  <1>21. CASE Verify
    <2>1. op.pc = "verify" /\ (\E q : Goto(q)) BY <1>21 DEF Verify, At
    <2> QED BY <2>1, <1>w, <1>n, Staying
  <1>22. CASE Commit BY <1>22, <1>w, <1>n, Staying DEF Commit, At
  <1>23. CASE Finish BY <1>23, <1>s, SharedCalm DEF Finish, At
  <1>24. CASE FinishSwap
    <2>1. op.pc = "finishswap" /\ UNCHANGED <<build, journal>> /\ (Done \/ Goto("finishstate"))
      BY <1>24 DEF FinishSwap, At, world
    <2>2. CASE Done BY <2>1, <2>2, <1>d
    <2>3. CASE Goto("finishstate") BY <2>1, <2>3, <1>s, SharedCalm
    <2> QED BY <2>1, <2>2, <2>3
  <1>25. CASE FinishState BY <1>25, <1>w, <1>n, Staying DEF FinishState, At
  <1>26. CASE FinishJournal BY <1>26, <1>w, <1>n, Staying DEF FinishJournal, At
  <1>27. CASE Undo
    <2>1. /\ op.pc = "undo" /\ UNCHANGED journal
          /\ \/ Goto("undoroot")
             \/ op' = [op EXCEPT !.todo = <<<<"recover", Cur>>>>, !.pc = "recover", !.undoing = TRUE]
      BY <1>27 DEF Undo, At
    <2>2. CASE Goto("undoroot") BY <2>1, <2>2, <1>s, SharedCalm
    <2>3. CASE op' = [op EXCEPT !.todo = <<<<"recover", Cur>>>>, !.pc = "recover", !.undoing = TRUE]
      <3>1. op'.todo = <<<<"recover", Cur>>>> /\ op'.pc = "recover" /\ op'.user = op.user /\ op'.fresh = op.fresh
        BY <2>3 DEF Types, Jobs
      <3>2. \A i \in 1..Len(op'.todo) : op'.todo[i][1] \in Calmly BY <3>1, SMT DEF Calmly
      <3> QED BY <2>1, <3>1, <3>2 DEF Calm
    <2> QED BY <2>1, <2>2, <2>3
  <1>28. CASE UndoRoot BY <1>28, <1>s, SharedCalm DEF UndoRoot, At
  <1>29. CASE UndoName BY <1>29, <1>s, SharedCalm DEF UndoName, At
  <1>30. CASE UndoClean BY <1>30, CalmIdle DEF UndoClean, Ends
  <1>31. CASE Upgrade
    <2>1. /\ op.pc = "upgrade" /\ UNCHANGED <<build, journal>>
          /\ Starts(TRUE) \/ (op.user /\ Instead(<<<<"reinstall", Cur>>>>)) \/ Abort("confirm")
      BY <1>31 DEF Upgrade, At, disk, world
    <2>2. CASE Starts(TRUE)
      <3>1. /\ op'.todo = op.todo /\ op'.pc = "payload" /\ op'.undoing = op.undoing
            /\ op'.user = op.user /\ op'.fresh = op.fresh
        BY <2>2 DEF Starts, Types, Jobs
      <3> QED BY <2>1, <3>1 DEF Calm
    <2>3. CASE op.user /\ Instead(<<<<"reinstall", Cur>>>>)
      <3>1. Stays BY <2>3, Staying
      <3>2. op' = Idle \/ op'.user BY <2>3, <3>1 DEF Stays
      <3> QED BY <3>2, CalmIdle DEF Calm
    <2>4. CASE Abort("confirm") BY <2>1, <2>4, <1>d DEF Codes
    <2> QED BY <2>1, <2>2, <2>3, <2>4
  <1>32. CASE CommitSwap BY <1>32, SharedCalm DEF CommitSwap, At
  <1>33. CASE Version BY <1>33, SharedCalm DEF Version, At
  <1> QED BY <1>1, <1>2, <1>3, <1>4, <1>5, <1>6, <1>7, <1>8, <1>9, <1>10, <1>11, <1>12, <1>13, <1>14, <1>15, <1>16, <1>17, <1>18, <1>19, <1>20, <1>21, <1>22, <1>23, <1>24, <1>25, <1>26, <1>27, <1>28, <1>29, <1>30, <1>31, <1>32, <1>33 DEF Enables

LEMMA RemovesCalm ==
  ASSUME Types, Control, Calm, Removes
  PROVE Calm'
  <1>1. op.pc \in {"uninstall", "examine", "excise", "restate", "forget", "erase", "erased", "cleanup", "cleanpayload"}
    BY DEF Removes, Uninstalls, Examine, Excise, Restate, Forget, Erase, Erased, Cleanup, CleanPayload, At
  <1>2. op.pc # "idle" /\ op.todo[1][1] = "uninstall" BY <1>1, TaskOf
  <1>3. op.todo[1][1] \notin Calmly BY <1>2, SMT DEF Calmly
  <1>4. Stays
    <2>1. CASE Uninstalls
      <3>1. Done \/ Abort("refused") \/ op' = [op EXCEPT !.pc = "examine", !.was = marker[Cur]]
        BY <2>1 DEF Uninstalls
      <3> QED BY <3>1, Staying DEF Stays, Types, Jobs
    <2>2. CASE Examine
      <3>1. Goto("forget") \/ Goto("restate") \/ op' = [op EXCEPT !.seen = profile[Cur], !.pc = "excise"]
        BY <2>2 DEF Examine
      <3> QED BY <3>1, Staying DEF Stays, Types, Jobs
    <2>3. CASE Excise BY <2>3, Staying DEF Excise, Replaced
    <2>4. CASE Restate BY <2>4, Staying DEF Restate
    <2>5. CASE Forget BY <2>5, Staying DEF Forget
    <2>6. CASE Erase BY <2>6, Staying DEF Erase
    <2>7. CASE Erased BY <2>7, Staying DEF Erased
    <2>8. CASE Cleanup BY <2>8, Staying DEF Cleanup
    <2>9. CASE CleanPayload BY <2>9, Staying DEF CleanPayload
    <2> QED BY <2>1, <2>2, <2>3, <2>4, <2>5, <2>6, <2>7, <2>8, <2>9 DEF Removes
  <1> QED BY <1>2, <1>3, <1>4, CalmNot

LEMMA TidiesCalm ==
  ASSUME Types, Control, Midway, Calm, Types', Control', Tidies
  PROVE Calm'
  <1>0. /\ Cur \in Edition /\ (op.pc # "idle" => op # Idle) BY Running
  <1>d. ASSUME op.pc # "idle", UNCHANGED <<build, journal>>, Done PROVE Calm'
    BY <1>d, <1>0, DoneTo, CalmTail
  <1>n. ASSUME op.pc \in {"strip", "stripped", "swept", "wipe", "retiretree"}, Stays PROVE Calm'
    <2>1. op.todo[1][1] \in {"strip", "swept", "wipe"} /\ op.pc # "idle" BY <1>n, TaskOf
    <2>2. op.todo[1][1] \notin Calmly BY <2>1, SMT DEF Calmly
    <2> QED BY <1>n, <2>1, <2>2, CalmNot
  <1>1. CASE Repair
    <2>1. /\ op.pc = "repair" /\ UNCHANGED <<build, journal>>
          /\ \/ Done
             \/ /\ op.user
                /\ Instead(<<<<"reinstall", Cur>>>>) \/ Instead(<<<<"strip", Cur>>>>)
      BY <1>1 DEF Repair, At, world, disk
    <2>2. CASE Done BY <2>1, <2>2, <1>d
    <2>3. CASE op.user /\ (Instead(<<<<"reinstall", Cur>>>>) \/ Instead(<<<<"strip", Cur>>>>))
      <3>1. Stays BY <2>3, Staying
      <3>2. op' = Idle \/ op'.user BY <2>3, <3>1 DEF Stays
      <3> QED BY <3>2, CalmIdle DEF Calm
    <2> QED BY <2>1, <2>2, <2>3
  <1>2. CASE ReadStrip
    <2>1. op.pc = "strip" /\ (Done \/ op' = [op EXCEPT !.seen = profile[Cur], !.pc = "stripped"])
      BY <1>2 DEF ReadStrip, At
    <2>2. Stays BY <2>1, Staying DEF Stays, Types, Jobs
    <2> QED BY <2>1, <2>2, <1>n
  <1>3. CASE StripBlocks BY <1>3, <1>n, Staying DEF StripBlocks, At, Replaced
  <1>4. CASE Modules
    <2>1. op.pc = "modules" /\ UNCHANGED <<build, journal>> /\ Done BY <1>4 DEF Modules, At, world
    <2> QED BY <2>1, <1>d
  <1>5. CASE Leftovers
    <2>1. op.pc = "leftovers" /\ UNCHANGED <<build, journal>> /\ Done BY <1>5 DEF Leftovers, At, world
    <2> QED BY <2>1, <1>d
  <1>6. CASE Swept
    <2>1. op.pc = "swept" /\ (Done \/ Instead(Both("strip") \o <<<<"wipe", Cur>>>>)) BY <1>6 DEF Swept, At
    <2> QED BY <2>1, <1>n, Staying
  <1>7. CASE Wipe BY <1>7, <1>n, Staying DEF Wipe, At
  <1>8. CASE RetireTree BY <1>8, <1>n, Staying DEF RetireTree, At
  <1> QED BY <1>1, <1>2, <1>3, <1>4, <1>5, <1>6, <1>7, <1>8 DEF Tidies

LEMMA CalmSame ==
  ASSUME Calm, UNCHANGED <<op, journal>>
  PROVE Calm'
  BY DEF Calm

\* All the tasks of a list are calm.
CalmLists == Seq(Calmly \X Edition)

LEMMA BothCalm ==
  ASSUME NEW t \in Calmly
  PROVE Both(t) \in CalmLists
  <1>1. Len(Order) \in Nat /\ \A i \in 1..Len(Order) : Order[i] \in Edition BY PowerShellAssumption, SMT
  <1>2. [i \in 1..Len(Order) |-> <<t, Order[i]>>] \in [1..Len(Order) -> Calmly \X Edition] BY <1>1
  <1> QED BY <1>1, <1>2, SeqDef DEF Both, CalmLists

LEMMA TodoCalm ==
  ASSUME NEW cmd \in {"enable", "repairall"}, NEW e \in Edition
  PROVE \A i \in 1..Len(Todo(cmd, e)) : Todo(cmd, e)[i][1] \in Calmly
  <1>1. RecoverAll \in CalmLists
    <2>1. Both("recover") \in CalmLists BY BothCalm DEF Calmly
    <2>2. <<<<"swap", Order[1]>>>> \in CalmLists BY Somebody, SMT DEF Calmly, CalmLists
    <2> QED BY <2>1, <2>2, SMT DEF RecoverAll, HostsOnly, CalmLists
  <1>2. Both("repair") \in CalmLists BY BothCalm DEF Calmly
  <1>3. /\ Prunes(e) \in CalmLists /\ <<<<"enable", e>>>> \in CalmLists
        /\ <<<<"modules", e>>, <<"tree", e>>, <<"leftovers", e>>>> \in CalmLists
    BY SMT DEF Prunes, Calmly, CalmLists
  <1> DEFINE s == Todo(cmd, e)
  <1>4. CASE cmd = "enable"
    <2>1. s = RecoverAll \o (<<<<"enable", e>>>> \o Prunes(e)) BY <1>4 DEF Todo
    <2> DEFINE x == RecoverAll
               y == <<<<"enable", e>>>>
               z == Prunes(e)
    <2>2. s = x \o (y \o z) /\ x \in CalmLists /\ y \in CalmLists /\ z \in CalmLists BY <2>1, <1>1, <1>3
    <2> HIDE DEF s, x, y, z
    <2>3. s \in CalmLists BY <2>2, SMT DEF CalmLists
    <2> QED BY <2>3, SMT DEF CalmLists, s
  <1>5. CASE cmd = "repairall"
    <2>1. s = RecoverAll \o (Both("repair") \o <<<<"modules", e>>, <<"tree", e>>, <<"leftovers", e>>>>)
      BY <1>5 DEF Todo
    <2> DEFINE x == RecoverAll
               y == Both("repair")
               z == <<<<"modules", e>>, <<"tree", e>>, <<"leftovers", e>>>>
    <2>2. s = x \o (y \o z) /\ x \in CalmLists /\ y \in CalmLists /\ z \in CalmLists
      BY <2>1, <1>1, <1>2, <1>3
    <2> HIDE DEF s, x, y, z
    <2>3. s \in CalmLists BY <2>2, SMT DEF CalmLists
    <2> QED BY <2>3, SMT DEF CalmLists, s
  <1> QED BY <1>4, <1>5

LEMMA CommandCalm ==
  ASSUME Types, Control, NEW cmd \in Commands \ {"none"}, NEW e \in Edition, NEW user \in BOOLEAN,
         cmd = "repair" => user, cmd = "repairall" => ~user, ~user => cmd \in {"enable", "repairall"},
         Command(cmd, e, user), cmd = "clean" <=> build = 0
  PROVE Calm'
  <1> DEFINE s == Todo(cmd, e)
  <1>1. op'.todo = s /\ op'.pc = s[1][1] /\ ~op'.undoing /\ op'.user = user /\ s # <<>> /\ op = Idle
    BY CommandOp
  <1>2. Runnable(cmd, user, s) BY TodoRuns
  <1>3. CASE user BY <1>1, <1>3 DEF Calm
  <1>4. CASE ~user
    <2>1. \A i \in 1..Len(s) : s[i][1] \in Calmly BY <1>4, TodoCalm
    <2> HIDE DEF s
    <2>2. s \in Lists BY <1>2 DEF Runnable
    <2>3. s[1][1] \in Tasks BY <1>1, <2>2, Listed
    <2>4. op'.pc \notin {"undo", "restore"} BY <1>1, <2>3, SMT DEF Tasks
    <2> QED BY <1>1, <2>1, <2>4 DEF Calm
  <1> QED BY <1>3, <1>4

LEMMA FailCalm ==
  ASSUME Types, Control, Midway, Calm, Types', Control', Fail
  PROVE Calm'
  <1>0. (op.pc # "idle" => op # Idle) /\ UNCHANGED <<build, journal>> BY Running DEF Fail, disk
  <1>1. CASE op.pc \in Undoes /\ Goto("undo")
    <2>1. op.pc # "idle" /\ op.pc \in Shared \cup Whole /\ op.pc \notin Recovering /\ op.pc # "undo"
      BY <1>1, SMTT(60) DEF Undoes, Shared, Whole, Recovering
    <2>2. CASE op.pc \in Shared BY <1>0, <1>1, <2>1, <2>2, SharedCalm
    <2>3. CASE op.pc \in Whole
      <3>1. op.todo[1][1] \in {"begin", "replace"} BY <2>1, <2>3, TaskOf
      <3>2. op.todo[1][1] \notin Calmly BY <3>1, SMT DEF Calmly
      <3> QED BY <1>1, <2>1, <3>2, Staying, CalmNot
    <2> QED BY <2>1, <2>2, <2>3
  <1>2. CASE op.pc = "excise" /\ Goto("restate") BY <1>0, <1>2, CalmGoto
  <1>3. CASE op.pc \in Finishes \cup {"stripped"} /\ Done
    <2>1. op.pc # "idle" BY <1>3, SMT DEF Finishes
    <2> QED BY <1>0, <1>3, <2>1, DoneTo, CalmTail
  <1>4. CASE op.pc \in Reports /\ Abort("failed")
    <2>1. op.pc # "idle" BY <1>4, SMT DEF Reports, Recovering
    <2> QED BY <1>0, <1>4, <2>1, AbortTo, CalmTail DEF Codes
  <1> QED BY <1>1, <1>2, <1>3, <1>4 DEF Fail

LEMMA WorldCalm ==
  ASSUME Types, Control, Midway, Calm, Types', Control', World
  PROVE Calm'
  <1>0. Order[1] \in Edition BY Somebody
  <1>1. CASE UserCommand
    <2>1. PICK e \in Edition, cmd \in {"enable", "disable", "repair", "sweep"} : Command(cmd, e, TRUE)
      BY <1>1 DEF UserCommand
    <2>2. build # 0 /\ cmd \in Commands \ {"none"} /\ cmd \notin {"clean", "repairall"}
      BY <1>1 DEF UserCommand, Commands
    <2> QED BY <2>1, <2>2, CommandCalm
  <1>2. CASE SweepStart BY <1>2, CalmSame DEF SweepStart, disk
  <1>3. CASE BackgroundEnable
    <2>1. PICK e \in targets : Command("enable", e, FALSE) BY <1>3 DEF BackgroundEnable
    <2>2. build # 0 /\ e \in Edition BY <1>3 DEF BackgroundEnable, Types
    <2> QED BY <2>1, <2>2, CommandCalm DEF Commands
  <1>4. CASE BackgroundRepair
    <2>1. build # 0 /\ Command("repairall", Order[1], FALSE) BY <1>4 DEF BackgroundRepair
    <2> QED BY <1>0, <2>1, CommandCalm DEF Commands
  <1>5. CASE OrphanClean
    <2>1. build = 0 /\ Command("clean", Order[1], TRUE) BY <1>5 DEF OrphanClean
    <2> QED BY <1>0, <2>1, CommandCalm DEF Commands
  <1>6. CASE NewBuild BY <1>6, CalmSame DEF NewBuild, disk
  <1>7. CASE Remove BY <1>7, CalmSame DEF Remove, disk
  <1>8. CASE Edit BY <1>8, CalmSame DEF Edit
  <1>9. CASE Crash BY <1>9, CalmIdle DEF Crash
  <1>10. CASE Fail BY <1>10, FailCalm
  <1> QED BY <1>1, <1>2, <1>3, <1>4, <1>5, <1>6, <1>7, <1>8, <1>9, <1>10 DEF World

LEMMA CalmStep ==
  ASSUME Types, Control, Midway, Calm, [Next]_vars
  PROVE Calm'
  <1>1. Types' /\ Control' /\ Midway' BY MidwayStep
  <1>2. CASE Recovers BY <1>1, <1>2, RecoversCalm
  <1>3. CASE Enables BY <1>1, <1>3, EnablesCalm
  <1>4. CASE Removes BY <1>4, RemovesCalm
  <1>5. CASE Tidies BY <1>1, <1>5, TidiesCalm
  <1>6. CASE World BY <1>1, <1>6, WorldCalm
  <1>7. CASE UNCHANGED vars
    <2>1. UNCHANGED <<op, journal>> BY <1>7 DEF vars, disk
    <2> QED BY <2>1, CalmSame
  <1> QED BY <1>2, <1>3, <1>4, <1>5, <1>6, <1>7 DEF Next

LEMMA Counted ==
  ASSUME [Next]_vars
  PROVE edits' = edits \/ edits' = edits + 1
  <1>1. CASE Recovers
    BY <1>1 DEF Recovers, Recover, Restore, Unpublish, Unretire, RestoreValues, RestoreState, RolledBack,
                TidySwap, TidyDrop, TidyState, DropJournal, Swap, SwapRoot, SwapRename, SwapClean, SwapDrop,
                world
  <1>2. CASE Enables
    BY <1>2 DEF Enables, Enable, Tree, Install, Reinstall, Adopt, Adopted, Resume, Begin, Ensure, SwapJournal,
                Aside, Deploy, Stage, OpenJournal, Publish, Prepared, Retire, GoLive, Write, MarkInstalled,
                Verify, Commit, Finish, FinishSwap, FinishState, FinishJournal, Undo, UndoRoot, UndoName,
                UndoClean, Upgrade, CommitSwap, Version, world
  <1>3. CASE Removes
    BY <1>3 DEF Removes, Uninstalls, Examine, Excise, Restate, Forget, Erase, Erased, Cleanup, CleanPayload, world
  <1>4. CASE Tidies
    BY <1>4 DEF Tidies, Repair, ReadStrip, StripBlocks, Modules, Leftovers, Swept, Wipe, RetireTree, world
  <1>5. CASE World
    BY <1>5 DEF World, UserCommand, SweepStart, BackgroundEnable, BackgroundRepair, OrphanClean, Command,
                NewBuild, Remove, Edit, Crash, Fail
  <1>6. CASE UNCHANGED vars BY <1>6 DEF vars
  <1> QED BY <1>1, <1>2, <1>3, <1>4, <1>5, <1>6 DEF Next

\* The steps that write a profile, besides the user's.
LEMMA Writers ==
  ASSUME Next, profile' # profile
  PROVE op.pc \in {"restore", "write", "excise", "stripped"} \/ edits' = edits + 1
  <1>1. CASE Recovers
    BY <1>1 DEF Recovers, Recover, Restore, Unpublish, Unretire, RestoreValues, RestoreState, RolledBack,
                TidySwap, TidyDrop, TidyState, DropJournal, Swap, SwapRoot, SwapRename, SwapClean, SwapDrop,
                disk, At
  <1>2. CASE Enables
    BY <1>2 DEF Enables, Enable, Tree, Install, Reinstall, Adopt, Adopted, Resume, Begin, Ensure, SwapJournal,
                Aside, Deploy, Stage, OpenJournal, Publish, Prepared, Retire, GoLive, Write, MarkInstalled,
                Verify, Commit, Finish, FinishSwap, FinishState, FinishJournal, Undo, UndoRoot, UndoName,
                UndoClean, Upgrade, CommitSwap, Version, disk, At
  <1>3. CASE Removes
    BY <1>3 DEF Removes, Uninstalls, Examine, Excise, Restate, Forget, Erase, Erased, Cleanup, CleanPayload,
                disk, At
  <1>4. CASE Tidies
    BY <1>4 DEF Tidies, Repair, ReadStrip, StripBlocks, Modules, Leftovers, Swept, Wipe, RetireTree, disk, At
  <1>5. CASE World
    BY <1>5 DEF World, UserCommand, SweepStart, BackgroundEnable, BackgroundRepair, OrphanClean, Command,
                NewBuild, Remove, Edit, Crash, Fail, disk
  <1> QED BY <1>1, <1>2, <1>3, <1>4, <1>5 DEF Next

\* "A background run ... must never write the user's profile.ps1" (adapters/mod.rs,
\* set_integration): the enable of the upgrade sweep and the repair at
\* a start write no profile, whatever they have to recover first and wherever
\* they fail, but that of a host that had no installation when the enable looked.
THEOREM BackgroundIsCalm == Spec => BackgroundKeepsProfile
  <1> DEFINE I == Types /\ Control /\ Midway /\ Calm /\ edits \in Nat
             A == op # Idle /\ ~op.user /\ profile' # profile => op.fresh \/ edits' # edits
  <1>1. Init => I
    <2>1. Init => Calm /\ edits \in Nat BY DEF Init, Idle, Calm
    <2> QED BY <2>1, Starting0
  <1>2. I /\ [Next]_vars => I'
    <2> SUFFICES ASSUME I, [Next]_vars PROVE I' OBVIOUS
    <2>1. (Types /\ Control /\ Midway /\ Calm)' BY MidwayStep, CalmStep
    <2>2. edits' \in Nat
      <3>1. edits' = edits \/ edits' = edits + 1 BY Counted
      <3> QED BY <3>1
    <2> QED BY <2>1, <2>2
  <1>3. I /\ [Next]_vars => [A]_vars
    <2> SUFFICES ASSUME I, Next, op # Idle, ~op.user, profile' # profile, ~op.fresh, edits' = edits PROVE FALSE
      OBVIOUS
    <2>1. op.pc \in {"restore", "write", "excise", "stripped"} BY Writers
    <2>2. op.pc # "restore" BY DEF Calm
    <2>3. op.pc # "idle" /\ op.todo \in Lists /\ op.todo # <<>> BY <2>1, Running
    <2>4. op.todo[1][1] \in {"begin", "replace", "uninstall", "strip"}
      <3>1. "write" \in Whole BY DEF Whole
      <3> QED BY <2>1, <2>2, <2>3, <3>1, TaskOf
    <2>5. 1 \in 1..Len(op.todo) BY <2>3, Listed
    <2>6. op.todo[1][1] \in Calmly BY <2>5 DEF Calm
    <2> QED BY <2>4, <2>6, SMT DEF Calmly
  <1> HIDE DEF I
  <1>4. Spec => [][A]_vars BY <1>1, <1>2, <1>3, PTL DEF Spec
  <1> QED BY <1>4 DEF BackgroundKeepsProfile

===============================================================================
