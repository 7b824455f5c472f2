-------------------------- MODULE EnterPipelineProofs --------------------------
(***************************************************************************)
(* Theorems about the Enter pipeline, for any windows and texts, any number *)
(* of events, and any interleaving of the hook, the worker, the desktop and *)
(* the pause.                                                               *)
(***************************************************************************)
EXTENDS EnterPipeline, TLAPS

-----------------------------------------------------------------------------
(* The two flags of the keyboard hook.  Nothing here depends on what the    *)
(* worker does beyond the fact that its replays are not counted and touch   *)
(* no flag.                                                                 *)

\* While the hook has not come back with a wrong view of the key: its ENTER_DOWN
\* is the key itself, SUPPRESS_ENTER_UP is only set on a press the application
\* did not get, both are clear without a press, and a pause leaves neither.
Balanced ==
  /\ hook.live => (hook.down <=> key.down)
  /\ hook.live /\ hook.suppress => ~key.app
  /\ ~hook.down => ~hook.suppress
  /\ ~key.down => ~key.app

HookRecord == [installed : BOOLEAN, live : BOOLEAN, down : BOOLEAN, suppress : BOOLEAN]
KeyRecord  == [down : BOOLEAN, app : BOOLEAN]
FlagType   == hook \in HookRecord /\ key \in KeyRecord
Removed    == ~hook.installed /\ ~hook.live /\ ~hook.down /\ ~hook.suppress

HookInv ==
  /\ FlagType
  /\ paused \/ ~hook.installed => Removed
  /\ missed \/ Balanced
  /\ lost => missed

-----------------------------------------------------------------------------
\* The variables the invariant is about.
flags == <<hook, key, paused, missed, lost>>

LEMMA InitHookInv == Init => HookInv
<1> SUFFICES ASSUME Init PROVE HookInv
  OBVIOUS
<1>1. FlagType
  BY DEF Init, FlagType, HookRecord, KeyRecord
<1>2. Removed \/ ~paused
  BY DEF Init, Removed
<1>3. ~hook.down /\ ~hook.suppress /\ ~key.down /\ ~key.app /\ ~lost
  BY DEF Init
<1>4. hook.installed \/ Removed
  BY DEF Init, Removed
<1> QED
  BY <1>1, <1>2, <1>3, <1>4 DEF HookInv, Balanced

\* An Enter that goes down.
LEMMA DownKeepsHookInv == HookInv /\ (Ask \/ Pass \/ Repeat \/ DownUnhooked) => HookInv'
<1> SUFFICES ASSUME HookInv, Ask \/ Pass \/ Repeat \/ DownUnhooked
             PROVE  HookInv'
  OBVIOUS
<1> USE DEF FlagType, HookRecord, KeyRecord
<1>1. CASE Ask
  <2>1. FlagType'
    BY <1>1 DEF HookInv, Ask, Flags
  <2>2. /\ hook'.installed = hook.installed /\ hook'.live = hook.live
        /\ hook'.down /\ hook'.suppress
    BY <1>1 DEF HookInv, Ask, Flags
  <2>3. key'.down /\ key'.app = key.app
    BY <1>1 DEF HookInv, Ask
  <2> QED
    BY <1>1, <2>1, <2>2, <2>3 DEF Ask, HookInv, Balanced, Removed
<1>2. CASE Pass
  <2>1. FlagType'
    BY <1>2 DEF HookInv, Pass, Flags
  <2>2. /\ hook'.installed = hook.installed /\ hook'.live = hook.live
        /\ hook'.down /\ hook'.suppress = hook.suppress
    BY <1>2 DEF HookInv, Pass, Flags
  <2>3. key'.down /\ key'.app
    BY <1>2 DEF HookInv, Pass
  <2> QED
    BY <1>2, <2>1, <2>2, <2>3 DEF Pass, HookInv, Balanced, Removed
<1>3. CASE Repeat
  BY <1>3 DEF Repeat, HookInv, Balanced, Removed
<1>4. CASE DownUnhooked
  BY <1>4 DEF DownUnhooked, HookInv, Balanced, Removed
<1> QED
  BY <1>1, <1>2, <1>3, <1>4

\* The release, and what installs or removes the hook.
LEMMA HookChangesKeepHookInv ==
  HookInv /\ (Release \/ Pause \/ LoseHook \/ Rearm) => HookInv'
<1> SUFFICES ASSUME HookInv, Release \/ Pause \/ LoseHook \/ Rearm
             PROVE  HookInv'
  OBVIOUS
<1> USE DEF FlagType, HookRecord, KeyRecord
<1>1. CASE Release /\ hook.live
  <2>1. FlagType'
    <3>1. hook' \in HookRecord
      BY <1>1 DEF HookInv, Release, Released, Flags
    <3>2. (key.app /\ hook.suppress) \in BOOLEAN
      OBVIOUS
    <3>3. key' = [down |-> FALSE, app |-> key.app /\ hook.suppress]
      BY <1>1 DEF Release
    <3>4. key' \in KeyRecord
      BY <3>2, <3>3
    <3> QED
      BY <3>1, <3>4
  <2>2. /\ hook'.installed = hook.installed /\ hook'.live = hook.live
        /\ ~hook'.down /\ ~hook'.suppress
    BY <1>1 DEF HookInv, Release, Released, Flags
  <2>3. ~key'.down /\ (key'.app <=> key.app /\ hook.suppress)
    BY <1>1 DEF HookInv, Release
  <2> QED
    BY <1>1, <2>1, <2>2, <2>3 DEF Release, HookInv, Balanced, Removed, observers
<1>2. CASE Release /\ ~hook.live
  <2>1. key' = [down |-> FALSE, app |-> FALSE] /\ hook' = hook
    BY <1>2 DEF Release
  <2>2. FlagType' /\ ~key'.down /\ ~key'.app
    BY <2>1 DEF HookInv
  <2> QED
    BY <1>2, <2>1, <2>2 DEF Release, HookInv, Balanced, Removed, observers
<1>3. CASE Pause /\ ~paused
  <2>1. hook' = RemoveHook /\ key' = key
    BY <1>3 DEF Pause
  <2>2. FlagType' /\ Removed'
    BY <2>1 DEF HookInv, RemoveHook, Removed
  <2> QED
    BY <1>3, <2>1, <2>2 DEF Pause, HookInv, Balanced, Removed
<1>4. CASE Pause /\ paused
  <2>1. PICK armed \in BOOLEAN :
          /\ hook' = [hook EXCEPT !.installed = armed, !.live = armed]
          /\ missed' = (missed \/ (armed /\ key.down))
    BY <1>4 DEF Pause
  <2>2. FlagType'
    BY <1>4, <2>1 DEF HookInv, Pause
  <2>3. /\ hook'.installed = armed /\ hook'.live = armed
        /\ ~hook'.down /\ ~hook'.suppress
    BY <1>4, <2>1 DEF HookInv, Removed
  <2> QED
    BY <1>4, <2>1, <2>2, <2>3 DEF Pause, HookInv, Balanced, Removed
<1>5. CASE LoseHook
  <2>1. FlagType'
    BY <1>5 DEF HookInv, LoseHook
  <2>2. /\ hook'.installed = hook.installed /\ ~hook'.live
        /\ hook'.down = hook.down /\ hook'.suppress = hook.suppress
    BY <1>5 DEF HookInv, LoseHook
  <2> QED
    BY <1>5, <2>1, <2>2 DEF LoseHook, HookInv, Balanced, Removed, observers
<1>6. CASE Rearm
  <2>1. FlagType'
    BY <1>6 DEF HookInv, Rearm
  <2>2. /\ hook'.installed /\ hook'.live
        /\ hook'.down = hook.down /\ hook'.suppress = hook.suppress
    BY <1>6 DEF HookInv, Rearm
  <2> QED
    BY <1>6, <2>1, <2>2 DEF Rearm, HookInv, Balanced, Removed
<1>7. paused \/ ~paused
  OBVIOUS
<1> QED
  BY <1>1, <1>2, <1>3, <1>4, <1>5, <1>6, <1>7

\* The desktop touches neither the hook nor the key.
LEMMA DesktopKeepsFlags ==
  (\/ \E t \in Texts : Type(t) \/ \E w \in Window : Edit(w, t)
   \/ \E w \in Window : Refocus(w) \/ Switch(w)) => UNCHANGED flags
BY DEF Type, Edit, Refocus, Switch, flags

\* Nor does the worker, but for the replay, which the hook lets through.
LEMMA WorkKeepsFlags == Work /\ ~Replay => UNCHANGED flags
<1> USE DEF flags, Works, observers
<1>1. PublishWindow \/ Arm \/ SetDiscovery \/ Take \/ Begin \/ Focus => UNCHANGED flags
  BY DEF PublishWindow, Arm, SetDiscovery, Take, Begin, Focus
<1>2. Gate \/ Resolve \/ Check \/ Recheck \/ HandBack => UNCHANGED flags
  BY DEF Gate, Resolve, Check, Recheck, HandBack
<1>3. Write \/ Navigate \/ Open \/ Warn \/ Escape \/ Notify => UNCHANGED flags
  BY DEF Write, Navigate, Open, Warn, Escape, Notify
<1> QED
  BY <1>1, <1>2, <1>3 DEF Work

LEMMA UnchangedKeepsHookInv == HookInv /\ UNCHANGED flags => HookInv'
BY DEF HookInv, FlagType, Balanced, Removed, flags

LEMMA ReplayKeepsHookInv == HookInv /\ Replay => HookInv'
<1> SUFFICES ASSUME HookInv, Replay PROVE HookInv'
  OBVIOUS
<1>1. CASE key' = key
  BY <1>1, UnchangedKeepsHookInv DEF Replay, flags, observers
<1>2. CASE key' = [key EXCEPT !.app = FALSE]
  <2>1. FlagType' /\ key'.down = key.down /\ ~key'.app
    BY <1>2 DEF HookInv, FlagType, HookRecord, KeyRecord, Replay
  <2> QED
    BY <2>1 DEF HookInv, Balanced, Removed, Replay, observers
<1> QED
  BY <1>1, <1>2 DEF Replay

LEMMA StepKeepsHookInv == HookInv /\ [Next]_vars => HookInv'
<1> SUFFICES ASSUME HookInv, [Next]_vars PROVE HookInv'
  OBVIOUS
<1>1. CASE Hook
  BY <1>1, DownKeepsHookInv, HookChangesKeepHookInv DEF Hook
<1>2. CASE Work
  BY <1>2, WorkKeepsFlags, ReplayKeepsHookInv, UnchangedKeepsHookInv
<1>3. CASE \/ \E t \in Texts : Type(t) \/ \E w \in Window : Edit(w, t)
           \/ \E w \in Window : Refocus(w) \/ Switch(w)
  BY <1>3, DesktopKeepsFlags, UnchangedKeepsHookInv
<1>4. CASE Pause \/ LoseHook \/ Rearm
  BY <1>4, HookChangesKeepHookInv
<1>5. CASE UNCHANGED vars
  BY <1>5, UnchangedKeepsHookInv DEF vars, observers, flags
<1> QED
  BY <1>1, <1>2, <1>3, <1>4, <1>5 DEF Next

\* The flags stay balanced, as long as the hook has not come back with a wrong
\* view of the key (low_level_keyboard_proc, remove_hook, rearm_hook).
THEOREM HookFlagsBalanced == Spec => []HookInv
<1> QED
  BY InitHookInv, StepKeepsHookInv, PTL DEF Spec

\* A fresh press is swallowed only with a request for it: SUPPRESS_ENTER_UP
\* never outlives the press that set it (low_level_keyboard_proc).
THEOREM NoEnterLostUnasked == Spec => []SwallowedIsAsked
<1>1. HookInv => SwallowedIsAsked
  BY DEF HookInv, SwallowedIsAsked
<1> QED
  BY <1>1, HookFlagsBalanced, PTL

\* The application gets the release of every Enter whose press it got.
THEOREM EnterIsReleased == Spec => []NoStuckEnter
<1>1. HookInv => NoStuckEnter
  BY DEF HookInv, Balanced, NoStuckEnter
<1> QED
  BY <1>1, HookFlagsBalanced, PTL

\* No press is swallowed unasked and no release withheld, unless the hook came
\* back with a wrong view of the key.
THEOREM KeyStaysBalanced == Spec => []KeyBalanced
<1>1. SwallowedIsAsked /\ NoStuckEnter => KeyBalanced
  BY DEF KeyBalanced
<1> QED
  BY NoEnterLostUnasked, EnterIsReleased, <1>1, PTL

-----------------------------------------------------------------------------
(* Whatever the broker writes, opens or navigates to is what the user       *)
(* pressed Enter on.  The argument is the key generation: a request whose   *)
(* stamp is still the newest one is the last press, and a text that changes *)
(* without a new stamp was changed by something other than the keyboard.    *)

\* The request types without the bound on the number of events.
Posted == [window : Window, gen : Nat] \cup [discovery : BOOLEAN]
AnyWorker ==
  [pc : PCs, window : Window, gen : Nat, focus : Controls \cup {"any"},
   input : Texts, expect : Texts \cup {AnyText}, next : Sinks,
   how : {"dropped", "failed", "replayed", "acted", "refused"}, raced : BOOLEAN, inert : BOOLEAN]
Presses == [gen : Nat, text : Texts, steady : BOOLEAN, silent : BOOLEAN]

EnterType ==
  /\ fg \in Window /\ text \in [Window -> Texts] /\ control \in [Window -> Controls]
  /\ gen \in Nat /\ paused \in BOOLEAN
  /\ queue \in Seq(Posted) /\ worker \in AnyWorker /\ press \in Presses

\* A request that no counted key has followed is the last press, and its window
\* still shows what it showed then, unless that changed without a key, or the
\* worker has already translated it.
Fresh(window, stamp) ==
  /\ stamp <= gen
  /\ stamp = gen => /\ stamp = press.gen
                    /\ press.silent \/ text[window] = press.text \/ ~Starts(text[window])

QueueFresh  == \A i \in 1..Len(queue) :
                 queue[i] \in Requests => Fresh(queue[i].window, queue[i].gen)
WorkerFresh == Fresh(worker.window, worker.gen)

\* The sinks that act, what must have been read on the way to them, and what
\* still holds in one of them.
Acts == {"write", "open", "navigate"}
Resolved == worker.pc \in {"resolve"} \cup Acts => Starts(worker.input)
Looking  == worker.pc \in {"check", "recheck"} /\ worker.next \in Acts =>
              worker.expect = worker.input /\ Starts(worker.input)
Looked   == worker.pc \in Acts /\ ~worker.raced =>
              /\ fg = worker.window /\ text[fg] = worker.input /\ gen = worker.gen

ActsInv == EnterType /\ QueueFresh /\ WorkerFresh /\ Resolved /\ Looking /\ Looked

-----------------------------------------------------------------------------
(* The fields the helpers of the worker change.                             *)

LEMMA IdleFields ==
  ASSUME worker \in AnyWorker, NEW h \in {"dropped", "failed", "replayed", "acted", "refused"}
  PROVE  /\ Idle(h) \in AnyWorker /\ Idle(h).pc = "idle"
         /\ Idle(h).window = worker.window /\ Idle(h).gen = worker.gen
BY DEF Idle, AnyWorker, PCs

LEMMA GoToFields ==
  ASSUME worker \in AnyWorker, NEW p \in PCs
  PROVE  /\ GoTo(p) \in AnyWorker /\ GoTo(p).pc = p
         /\ GoTo(p).window = worker.window /\ GoTo(p).gen = worker.gen
         /\ GoTo(p).input = worker.input /\ GoTo(p).next = worker.next
         /\ GoTo(p).expect = worker.expect
BY DEF GoTo, AnyWorker

LEMMA GiveBackFields ==
  ASSUME worker \in AnyWorker, NEW c \in Controls \cup {"any"}
  PROVE  /\ GiveBack(c) \in AnyWorker /\ GiveBack(c).pc = "giveBack"
         /\ GiveBack(c).window = worker.window /\ GiveBack(c).gen = worker.gen
BY DEF GiveBack, AnyWorker, PCs

LEMMA CheckedFields ==
  ASSUME NEW w \in AnyWorker, NEW sink \in Sinks, NEW e \in Texts \cup {AnyText}
  PROVE  /\ Checked(w, sink, e) \in AnyWorker
         /\ Checked(w, sink, e).pc \in {"check", "recheck"}
         /\ Checked(w, sink, e).next = sink /\ Checked(w, sink, e).expect = e
         /\ Checked(w, sink, e).input = w.input
         /\ Checked(w, sink, e).window = w.window /\ Checked(w, sink, e).gen = w.gen
BY DEF Checked, AnyWorker, PCs

LEMMA RaceFields ==
  ASSUME worker \in AnyWorker, Race
  PROVE  /\ worker' \in AnyWorker /\ worker'.pc = worker.pc
         /\ worker'.window = worker.window /\ worker'.gen = worker.gen
         /\ worker'.input = worker.input /\ worker'.next = worker.next
         /\ worker'.expect = worker.expect
         /\ worker.pc \in Acts => worker'.raced
<1>1. PICK b \in BOOLEAN : b = (worker.raced \/ worker.pc \in Sinks)
  OBVIOUS
<1>2. worker' = [worker EXCEPT !.raced = b]
  BY <1>1 DEF Race
<1>3. worker.pc \in Acts => b
  BY <1>1 DEF Acts, Sinks
<1> QED
  BY <1>2, <1>3 DEF AnyWorker

-----------------------------------------------------------------------------
(* Requests stay fresh, or grow old.                                        *)

\* A counted key: every request made before it is an older generation.
LEMMA Aged ==
  ASSUME ActsInv, gen' = gen + 1, queue' = queue,
         worker'.window = worker.window, worker'.gen = worker.gen
  PROVE  QueueFresh' /\ WorkerFresh'
<1>1. ASSUME NEW w, NEW s, s <= gen, s \in Nat PROVE s <= gen' /\ s # gen'
  BY <1>1 DEF ActsInv, EnterType
<1>2. WorkerFresh'
  BY <1>1 DEF ActsInv, EnterType, AnyWorker, WorkerFresh, Fresh
<1>3. QueueFresh'
  <2> SUFFICES ASSUME NEW i \in 1..Len(queue), queue[i] \in Requests
               PROVE  Fresh(queue[i].window, queue[i].gen)'
    BY DEF QueueFresh
  <2>1. queue[i].gen <= gen /\ queue[i].gen \in Nat
    BY DEF ActsInv, QueueFresh, Fresh, Requests
  <2> QED
    BY <1>1, <2>1 DEF Fresh
<1> QED
  BY <1>2, <1>3

\* No counted key: the texts stand, or their change is noted in the press.
LEMMA Kept ==
  ASSUME ActsInv, gen' = gen, queue' = queue,
         worker'.window = worker.window, worker'.gen = worker.gen,
         press'.gen = press.gen, press'.text = press.text,
         press.silent => press'.silent, press'.silent \/ text' = text
  PROVE  QueueFresh' /\ WorkerFresh'
BY DEF ActsInv, QueueFresh, WorkerFresh, Fresh

LEMMA DisturbFields ==
  ASSUME press \in Presses, NEW b \in BOOLEAN, Disturb(b)
  PROVE  /\ press' \in Presses /\ press'.gen = press.gen /\ press'.text = press.text
         /\ press'.silent <=> (press.silent \/ b)
<1>1. PICK s \in BOOLEAN : s = (press.silent \/ b)
  OBVIOUS
<1>2. press' = [press EXCEPT !.steady = FALSE, !.silent = s]
  BY <1>1 DEF Disturb
<1> QED
  BY <1>1, <1>2 DEF Presses

\* A race spoils what was looked at, and touches nothing else.
LEMMA RaceKeeps == ASSUME ActsInv, Race PROVE Resolved' /\ Looking' /\ Looked'
BY RaceFields DEF ActsInv, EnterType, Resolved, Looking, Looked

-----------------------------------------------------------------------------
(* The hook, the desktop and the window thread.                             *)

\* What every one of these steps leaves to be shown.
LEMMA FromParts ==
  ASSUME ActsInv, EnterType', QueueFresh', WorkerFresh', Resolved', Looking', Looked'
  PROVE  ActsInv'
BY DEF ActsInv

LEMMA AskKeeps == ActsInv /\ Ask => ActsInv'
<1> SUFFICES ASSUME ActsInv, Ask PROVE ActsInv'
  OBVIOUS
<1>1. worker \in AnyWorker /\ Race /\ gen \in Nat /\ fg \in Window /\ queue \in Seq(Posted)
  BY DEF ActsInv, EnterType, Ask
<1> DEFINE request == [window |-> fg, gen |-> gen + 1]
<1>2. request \in Posted /\ request.window = fg /\ request.gen = gen + 1
  BY <1>1 DEF Posted
<1>3. queue' = Append(queue, request)
  BY DEF Ask, Stamp
<1>4. press' = [gen |-> gen + 1, text |-> text[fg], steady |-> TRUE, silent |-> FALSE]
      /\ gen' = gen + 1 /\ text' = text /\ fg' = fg /\ control' = control /\ paused' = paused
  BY DEF Ask, desktop
<1>5. press' \in Presses /\ press'.gen = gen + 1 /\ press'.text = text[fg]
  BY <1>1, <1>4 DEF Presses, ActsInv, EnterType
<1>6. EnterType'
  BY <1>1, <1>2, <1>3, <1>4, <1>5, RaceFields DEF ActsInv, EnterType
<1>7. WorkerFresh'
  BY <1>1, <1>4, RaceFields DEF ActsInv, WorkerFresh, Fresh, AnyWorker
<1>8. QueueFresh'
  <2> SUFFICES ASSUME NEW i \in 1..Len(queue'), queue'[i] \in Requests
               PROVE  Fresh(queue[i].window, queue[i].gen)'
    BY DEF QueueFresh
  <2>1. CASE i \in 1..Len(queue)
    <3>1. queue'[i] = queue[i]
      BY <1>1, <1>2, <1>3, <2>1
    <3>2. queue[i].gen <= gen /\ queue[i].gen \in Nat
      BY <2>1, <3>1 DEF ActsInv, QueueFresh, Fresh, Requests
    <3> QED
      BY <1>1, <1>4, <3>1, <3>2 DEF Fresh
  <2>2. CASE i = Len(queue) + 1
    <3>1. queue'[i] = request
      BY <1>1, <1>2, <1>3, <2>2
    <3> QED
      BY <1>1, <1>2, <1>4, <1>5, <3>1 DEF Fresh
  <2> QED
    BY <1>1, <1>2, <1>3, <2>1, <2>2
<1> QED
  BY <1>1, <1>6, <1>7, <1>8, RaceKeeps, FromParts

LEMMA HookKeeps == ActsInv /\ (Pass \/ Repeat \/ DownUnhooked \/ Release) => ActsInv'
<1> SUFFICES ASSUME ActsInv, Pass \/ Repeat \/ DownUnhooked \/ Release
             PROVE  ActsInv'
  OBVIOUS
<1>1. worker \in AnyWorker /\ press \in Presses /\ gen \in Nat
  BY DEF ActsInv, EnterType
<1>2. CASE Pass
  <2>1. press' \in Presses /\ gen' = gen + 1 /\ queue' = queue /\ Race
    BY <1>1, <1>2, DisturbFields DEF Pass
  <2>2. EnterType'
    BY <1>1, <1>2, <2>1, RaceFields DEF Pass, ActsInv, EnterType, desktop
  <2> QED
    BY <1>1, <2>1, <2>2, Aged, RaceFields, RaceKeeps, FromParts
<1>3. CASE Repeat
  <2>1. press' \in Presses /\ gen' = gen + 1 /\ queue' = queue /\ Race
    BY <1>1, <1>3, DisturbFields DEF Repeat
  <2>2. EnterType'
    BY <1>1, <1>3, <2>1, RaceFields DEF Repeat, ActsInv, EnterType, desktop
  <2> QED
    BY <1>1, <2>1, <2>2, Aged, RaceFields, RaceKeeps, FromParts
<1>4. CASE DownUnhooked
  <2>1. gen' = gen /\ queue' = queue /\ Race /\ Disturb(TRUE)
    BY <1>4 DEF DownUnhooked
  <2>2. EnterType'
    BY <1>1, <1>4, <2>1, DisturbFields, RaceFields DEF DownUnhooked, ActsInv, EnterType, desktop
  <2> QED
    BY <1>1, <2>1, <2>2, DisturbFields, Kept, RaceFields, RaceKeeps, FromParts
<1>5. CASE Release
  BY <1>5 DEF Release, desktop, observers, ActsInv, EnterType, QueueFresh, WorkerFresh,
              Fresh, Resolved, Looking, Looked
<1> QED
  BY <1>2, <1>3, <1>4, <1>5

\* Typed under a live hook a text gets a new stamp; otherwise its change is noted.
LEMMA TypeKeeps == ASSUME ActsInv, NEW t \in Texts, Type(t) PROVE ActsInv'
<1>1. worker \in AnyWorker /\ press \in Presses /\ gen \in Nat /\ Race /\ queue' = queue
  BY DEF ActsInv, EnterType, Type
<1>2. /\ press' \in Presses /\ press'.gen = press.gen /\ press'.text = press.text
      /\ press.silent \/ ~hook.live => press'.silent
  <2>1. PICK b \in BOOLEAN : b = ~hook.live
    OBVIOUS
  <2>2. Disturb(b)
    BY <2>1 DEF Type
  <2> QED
    BY <1>1, <2>1, <2>2, DisturbFields
<1>3. EnterType'
  BY <1>1, <1>2, RaceFields DEF Type, ActsInv, EnterType
<1>4. QueueFresh' /\ WorkerFresh'
  <2>1. CASE hook.live
    BY <1>1, <2>1, Aged, RaceFields DEF Type
  <2>2. CASE ~hook.live
    BY <1>1, <1>2, <2>2, Kept, RaceFields DEF Type
  <2> QED
    BY <2>1, <2>2
<1> QED
  BY <1>1, <1>3, <1>4, RaceKeeps, FromParts

LEMMA DesktopKeeps ==
  ASSUME ActsInv, NEW w \in Window,
         (\E t \in Texts : Edit(w, t)) \/ Refocus(w) \/ Switch(w)
  PROVE  ActsInv'
<1>1. worker \in AnyWorker /\ press \in Presses /\ Race /\ queue' = queue /\ gen' = gen
  BY DEF ActsInv, EnterType, Edit, Refocus, Switch
<1>2. Disturb(TRUE) \/ (Disturb(FALSE) /\ text' = text)
  BY DEF Edit, Refocus, Switch
<1>3. /\ press' \in Presses /\ press'.gen = press.gen /\ press'.text = press.text
      /\ press.silent => press'.silent
      /\ press'.silent \/ text' = text
  BY <1>1, <1>2, DisturbFields
<1>4. fg' \in Window /\ text' \in [Window -> Texts] /\ control' \in [Window -> Controls]
      /\ paused' = paused
  BY DEF ActsInv, EnterType, Edit, Refocus, Switch, Controls
<1>5. EnterType'
  BY <1>1, <1>3, <1>4, RaceFields DEF ActsInv, EnterType
<1> QED
  BY <1>1, <1>3, <1>5, Kept, RaceFields, RaceKeeps, FromParts

\* A message about discovery is not a request.
LEMMA PauseKeeps == ActsInv /\ Pause => ActsInv'
<1> SUFFICES ASSUME ActsInv, Pause PROVE ActsInv'
  OBVIOUS
<1> DEFINE message == [discovery |-> paused]
<1>1. message \in Posted /\ message \notin Requests /\ queue \in Seq(Posted)
  BY DEF Posted, Requests, ActsInv, EnterType
<1>2. queue' = Append(queue, message) \/ queue' = queue
  BY DEF Pause
<1>3. UNCHANGED <<fg, text, control, gen, worker, press>> /\ paused' \in BOOLEAN
  BY DEF Pause, desktop
<1>4. EnterType'
  BY <1>1, <1>2, <1>3 DEF ActsInv, EnterType
<1>5. QueueFresh'
  <2> SUFFICES ASSUME NEW i \in 1..Len(queue'), queue'[i] \in Requests
               PROVE  Fresh(queue[i].window, queue[i].gen)'
    BY DEF QueueFresh
  <2>1. i \in 1..Len(queue) /\ queue'[i] = queue[i]
    BY <1>1, <1>2
  <2> QED
    BY <1>3, <2>1 DEF ActsInv, QueueFresh, Fresh
<1> QED
  BY <1>3, <1>4, <1>5 DEF ActsInv, WorkerFresh, Fresh, Resolved, Looking, Looked

-----------------------------------------------------------------------------
(* The worker.                                                              *)

\* A step of the worker alone leaves the requests as fresh as they were.
LEMMA WorkerAlone ==
  ASSUME ActsInv, UNCHANGED <<fg, text, control, gen, paused, queue, press>>,
         worker' \in AnyWorker, worker'.window = worker.window, worker'.gen = worker.gen,
         Resolved', Looking', Looked'
  PROVE  ActsInv'
<1>1. EnterType'
  BY DEF ActsInv, EnterType
<1> QED
  BY <1>1, Kept, FromParts

\* Where the worker neither looks nor acts, nothing has to be known.
LEMMA Elsewhere ==
  ASSUME ActsInv, UNCHANGED <<fg, text, control, gen, paused, queue, press>>,
         worker' \in AnyWorker, worker'.window = worker.window, worker'.gen = worker.gen,
         worker'.pc \notin {"resolve", "check", "recheck"} \cup Acts
  PROVE  ActsInv'
BY WorkerAlone DEF Resolved, Looking, Looked

\* A look may lead to an act only with the slash text that was read.
LEMMA LookAhead ==
  ASSUME ActsInv, UNCHANGED <<fg, text, control, gen, paused, queue, press>>,
         NEW w \in AnyWorker, w.window = worker.window, w.gen = worker.gen,
         NEW sink \in Sinks, NEW e \in Texts \cup {AnyText},
         worker' = Checked(w, sink, e),
         sink \in Acts => e = w.input /\ Starts(w.input)
  PROVE  ActsInv'
<1>1. /\ worker' \in AnyWorker /\ worker'.pc \in {"check", "recheck"}
      /\ worker'.next = sink /\ worker'.expect = e /\ worker'.input = w.input
      /\ worker'.window = worker.window /\ worker'.gen = worker.gen
  BY CheckedFields
<1> QED
  BY <1>1, WorkerAlone DEF Resolved, Looking, Looked, Acts

LEMMA TakeKeeps == ActsInv /\ Take => ActsInv'
<1> SUFFICES ASSUME ActsInv, Take PROVE ActsInv'
  OBVIOUS
<1> DEFINE r == Head(queue)
<1>1. queue \in Seq(Posted) /\ queue # <<>> /\ r \in Requests /\ r = queue[1]
  BY DEF ActsInv, EnterType, Take
<1>2. r.window \in Window /\ r.gen \in Nat
  BY <1>1 DEF Requests
<1>3. /\ worker' \in AnyWorker /\ worker'.window = r.window /\ worker'.gen = r.gen
      /\ worker'.pc \in {"giveBack", "begin"}
  <2>1. PICK p \in {"giveBack", "begin"} :
          worker' = [worker EXCEPT
                       !.pc = p, !.window = r.window, !.gen = r.gen, !.focus = "any",
                       !.expect = AnyText, !.how = "dropped", !.raced = FALSE, !.inert = FALSE]
    BY DEF Take
  <2> QED
    BY <1>2, <2>1 DEF ActsInv, EnterType, AnyWorker, PCs
<1>4. UNCHANGED <<fg, text, control, gen, paused, press>> /\ queue' = Tail(queue)
  BY DEF Take, desktop, observers
<1>5. EnterType'
  BY <1>1, <1>3, <1>4 DEF ActsInv, EnterType
<1>6. Fresh(r.window, r.gen)
  BY <1>1 DEF ActsInv, QueueFresh
<1>7. WorkerFresh'
  BY <1>3, <1>4, <1>6 DEF WorkerFresh, Fresh
<1>8. QueueFresh'
  <2> SUFFICES ASSUME NEW i \in 1..Len(queue'), queue'[i] \in Requests
               PROVE  Fresh(queue[i].window, queue[i].gen)'
    BY DEF QueueFresh
  <2>1. i + 1 \in 1..Len(queue) /\ queue'[i] = queue[i + 1]
    BY <1>1, <1>4
  <2> QED
    BY <1>4, <2>1 DEF ActsInv, QueueFresh, Fresh
<1> QED
  BY <1>3, <1>5, <1>7, <1>8, FromParts DEF Resolved, Looking, Looked, Acts

LEMMA SetDiscoveryKeeps == ActsInv /\ SetDiscovery => ActsInv'
<1> SUFFICES ASSUME ActsInv, SetDiscovery PROVE ActsInv'
  OBVIOUS
<1>1. queue \in Seq(Posted) /\ queue # <<>>
  BY DEF ActsInv, EnterType, SetDiscovery
<1>2. UNCHANGED <<fg, text, control, gen, paused, press, worker>> /\ queue' = Tail(queue)
  BY DEF SetDiscovery, desktop, observers
<1>3. EnterType'
  BY <1>1, <1>2 DEF ActsInv, EnterType
<1>4. QueueFresh'
  <2> SUFFICES ASSUME NEW i \in 1..Len(queue'), queue'[i] \in Requests
               PROVE  Fresh(queue[i].window, queue[i].gen)'
    BY DEF QueueFresh
  <2>1. i + 1 \in 1..Len(queue) /\ queue'[i] = queue[i + 1]
    BY <1>1, <1>2
  <2> QED
    BY <1>2, <2>1 DEF ActsInv, QueueFresh, Fresh
<1> QED
  BY <1>2, <1>3, <1>4 DEF ActsInv, WorkerFresh, Fresh, Resolved, Looking, Looked

\* What Works leaves alone, as the lemmas above ask for it.
LEMMA WorksAlone ==
  ASSUME NEW w, Works(w)
  PROVE  worker' = w /\ UNCHANGED <<fg, text, control, gen, paused, queue, press>>
BY DEF Works, desktop, observers

\* The steps up to the reading of the text.
LEMMA ApproachKeeps ==
  ActsInv /\ (PublishWindow \/ Arm \/ Begin \/ Focus \/ HandBack) => ActsInv'
<1> SUFFICES ASSUME ActsInv, PublishWindow \/ Arm \/ Begin \/ Focus \/ HandBack
             PROVE  ActsInv'
  OBVIOUS
<1>1. worker \in AnyWorker /\ control[fg] \in Controls /\ paused \in BOOLEAN
  BY DEF ActsInv, EnterType
<1>2. UNCHANGED <<fg, text, control, gen, paused, queue, press>>
  BY DEF PublishWindow, Arm, Begin, Focus, HandBack, Works, desktop, observers
<1>3. /\ worker' \in AnyWorker /\ worker'.window = worker.window /\ worker'.gen = worker.gen
      /\ worker'.pc \in {"started", "idle", "giveBack", "focus", "gate", "replay"}
  <2>1. CASE PublishWindow
    BY <1>1, <2>1, GoToFields DEF PublishWindow, Works, PCs
  <2>2. CASE Arm
    BY <1>1, <2>2, GoToFields DEF Arm, PCs
  <2>3. CASE Begin
    <3>1. worker' \in {Idle("dropped"), Idle("failed"), GiveBack("any"),
                       [GoTo("focus") EXCEPT !.inert = paused]}
      BY <2>3 DEF Begin, Works
    <3>2. LET w == [GoTo("focus") EXCEPT !.inert = paused] IN
            /\ w \in AnyWorker /\ w.pc = "focus"
            /\ w.window = worker.window /\ w.gen = worker.gen
      BY <1>1 DEF GoTo, AnyWorker, PCs
    <3>3. CASE worker' \in {Idle("dropped"), Idle("failed")}
      BY <1>1, <3>3, IdleFields
    <3>4. CASE worker' = GiveBack("any")
      BY <1>1, <3>4, GiveBackFields
    <3> QED
      BY <3>1, <3>2, <3>3, <3>4
  <2>4. CASE Focus
    <3>1. worker' \in {GiveBack("any"), [GoTo("gate") EXCEPT !.focus = control[fg]]}
      BY <2>4 DEF Focus, Works
    <3>2. LET w == [GoTo("gate") EXCEPT !.focus = control[fg]] IN
            /\ w \in AnyWorker /\ w.pc = "gate"
            /\ w.window = worker.window /\ w.gen = worker.gen
      BY <1>1 DEF GoTo, AnyWorker, PCs
    <3> QED
      BY <1>1, <3>1, <3>2, GiveBackFields
  <2>5. CASE HandBack
    <3>1. worker' \in {Idle("dropped"), Idle("failed"),
                       [GoTo("replay") EXCEPT !.expect = AnyText, !.raced = FALSE]}
      BY <2>5 DEF HandBack, Works
    <3>2. LET w == [GoTo("replay") EXCEPT !.expect = AnyText, !.raced = FALSE] IN
            /\ w \in AnyWorker /\ w.pc = "replay"
            /\ w.window = worker.window /\ w.gen = worker.gen
      BY <1>1 DEF GoTo, AnyWorker, PCs, Sinks
    <3> QED
      BY <1>1, <3>1, <3>2, IdleFields
  <2> QED
    BY <2>1, <2>2, <2>3, <2>4, <2>5
<1> QED
  BY <1>2, <1>3, Elsewhere DEF Acts

\* The text is read once, and only one that starts with a slash is resolved.
LEMMA GateKeeps == ActsInv /\ Gate => ActsInv'
<1> SUFFICES ASSUME ActsInv, Gate PROVE ActsInv'
  OBVIOUS
<1> DEFINE input == text[worker.window]
           read == [worker EXCEPT !.input = input]
<1>1. worker \in AnyWorker /\ worker.focus \in Controls \cup {"any"} /\ input \in Texts
  BY DEF ActsInv, EnterType, AnyWorker
<1>2. /\ read \in AnyWorker /\ read.input = input
      /\ read.window = worker.window /\ read.gen = worker.gen
  BY <1>1 DEF AnyWorker
<1>3. LET w == [read EXCEPT !.pc = "resolve"] IN
        /\ w \in AnyWorker /\ w.pc = "resolve" /\ w.input = input
        /\ w.window = worker.window /\ w.gen = worker.gen
  BY <1>1 DEF AnyWorker, PCs
<1>4. \/ Works(GiveBack(worker.focus))
      \/ Works([read EXCEPT !.pc = "resolve"]) /\ Starts(input)
      \/ Works(Checked(read, "replay", input))
      \/ Works(Checked(worker, "replay", AnyText))
  BY DEF Gate
<1>5. CASE Works(GiveBack(worker.focus))
  BY <1>1, <1>5, WorksAlone, GiveBackFields, Elsewhere DEF Acts
<1>6. CASE Works([read EXCEPT !.pc = "resolve"]) /\ Starts(input)
  <2>1. UNCHANGED <<fg, text, control, gen, paused, queue, press>>
        /\ worker' = [read EXCEPT !.pc = "resolve"]
    BY <1>6, WorksAlone
  <2> QED
    BY <1>3, <1>6, <2>1, WorkerAlone DEF Resolved, Looking, Looked, Acts
<1>7. CASE Works(Checked(read, "replay", input))
  <2>1. UNCHANGED <<fg, text, control, gen, paused, queue, press>>
        /\ worker' = Checked(read, "replay", input)
    BY <1>7, WorksAlone
  <2>2. "replay" \in Sinks \ Acts /\ input \in Texts \cup {AnyText}
    BY <1>1 DEF Acts, Sinks
  <2> QED
    BY ONLY ActsInv, <1>2, <2>1, <2>2, LookAhead
<1>8. CASE Works(Checked(worker, "replay", AnyText))
  BY <1>1, <1>8, WorksAlone, LookAhead DEF Acts, Sinks
<1> QED
  BY <1>4, <1>5, <1>6, <1>7, <1>8

LEMMA ResolveKeeps == ActsInv /\ Resolve => ActsInv'
<1> SUFFICES ASSUME ActsInv, Resolve PROVE ActsInv'
  OBVIOUS
<1>1. worker \in AnyWorker /\ worker.input \in Texts /\ Starts(worker.input)
  BY DEF ActsInv, EnterType, AnyWorker, Resolved, Resolve
<1>2. \/ Works(Idle("refused"))
      \/ \E sink \in Sinks : Works(Checked(worker, sink, worker.input))
  BY DEF Resolve, Sinks
<1>3. CASE Works(Idle("refused"))
  BY <1>1, <1>3, WorksAlone, IdleFields, Elsewhere DEF Acts
<1>4. CASE \E sink \in Sinks : Works(Checked(worker, sink, worker.input))
  BY <1>1, <1>4, WorksAlone, LookAhead
<1> QED
  BY <1>2, <1>3, <1>4

\* What is left of a request after a look that was refused, or was not answered.
With(how) == [worker EXCEPT !.how = how]

LEMMA WithFields ==
  ASSUME worker \in AnyWorker, NEW how \in Outcomes
  PROVE  /\ With(how) \in AnyWorker /\ With(how).how = how
         /\ With(how).window = worker.window /\ With(how).gen = worker.gen
         /\ With(how).input = worker.input
BY DEF With, Outcomes, AnyWorker

LEMMA OutcomesLeft == worker \in AnyWorker => worker.how \in Outcomes /\ Unanswered \in Outcomes
BY DEF AnyWorker, Outcomes, Unanswered

\* Whatever a refused look falls through to is looked at again.
LEMMA RefusedCases ==
  ASSUME NEW how \in Outcomes, worker.next \in Sinks
  PROVE  \/ worker.next = "navigate" /\ Refused(how) = Checked(With(how), "write", worker.input)
         \/ worker.next = "open" /\ Refused(how) = Checked(With(how), "warn", worker.input)
         \/ worker.next = "warn" /\ Refused(how) = Checked(With(how), "escape", worker.input)
         \/ /\ worker.next \notin {"navigate", "open", "warn"}
            /\ Refused(how) = Idle(how)
BY DEF Refused, With

LEMMA RefusedKeeps ==
  ASSUME ActsInv, worker.pc \in {"check", "recheck"}, NEW how \in Outcomes, Works(Refused(how))
  PROVE  ActsInv'
<1>1. worker \in AnyWorker /\ worker.input \in Texts /\ worker.next \in Sinks
  BY DEF ActsInv, EnterType, AnyWorker
<1>2. worker' = Refused(how) /\ UNCHANGED <<fg, text, control, gen, paused, queue, press>>
  BY WorksAlone
<1>3. ASSUME NEW sink \in {"write", "warn", "escape"},
             worker' = Checked(With(how), sink, worker.input),
             sink = "write" => Starts(worker.input)
      PROVE  ActsInv'
  <2>1. sink \in Sinks /\ (sink \in Acts => sink = "write")
    BY DEF Sinks, Acts
  <2> QED
    BY <1>1, <1>2, <1>3, <2>1, WithFields, LookAhead
<1>4. CASE worker.next = "navigate" /\ Refused(how) = Checked(With(how), "write", worker.input)
  <2>1. Starts(worker.input)
    BY <1>4 DEF ActsInv, Looking, Acts
  <2> QED
    BY <1>2, <1>3, <1>4, <2>1
<1>5. CASE Refused(how) = Idle(how)
  BY <1>1, <1>2, <1>5, IdleFields, Elsewhere DEF Acts, Outcomes
<1> QED
  BY <1>1, <1>2, <1>3, <1>4, <1>5, RefusedCases

\* The last look is what makes an act safe until something else moves.
LEMMA LookKeeps == ActsInv /\ (Check \/ Recheck) => ActsInv'
<1> SUFFICES ASSUME ActsInv, Check \/ Recheck PROVE ActsInv'
  OBVIOUS
<1>1. /\ worker \in AnyWorker /\ worker.input \in Texts /\ worker.next \in Sinks
      /\ worker.pc \in {"check", "recheck"}
  BY DEF ActsInv, EnterType, AnyWorker, Check, Recheck
<1>2. CASE Works(Refused(worker.how)) \/ Works(Refused(Unanswered))
  BY <1>1, <1>2, OutcomesLeft, RefusedKeeps
<1>3. CASE Check /\ Works(GoTo("recheck"))
  <2>1. Works(GoTo("recheck"))
    BY <1>3
  <2>2. /\ worker' \in AnyWorker /\ worker'.pc = "recheck"
        /\ worker'.window = worker.window /\ worker'.gen = worker.gen
        /\ worker'.input = worker.input /\ worker'.next = worker.next
        /\ worker'.expect = worker.expect
    BY <1>1, <2>1, WorksAlone, GoToFields DEF PCs
  <2>3. Looking'
    BY <1>1, <2>2 DEF ActsInv, Looking
  <2> QED
    BY <2>1, <2>2, <2>3, WorksAlone, WorkerAlone DEF Resolved, Looked, Acts
<1>4. CASE Recheck /\ Current /\ Works([GoTo(worker.next) EXCEPT !.raced = FALSE])
  <2>1. Works([GoTo(worker.next) EXCEPT !.raced = FALSE])
    BY <1>4
  <2>2. /\ worker' \in AnyWorker /\ worker'.pc = worker.next
        /\ worker'.window = worker.window /\ worker'.gen = worker.gen
        /\ worker'.input = worker.input
    <3>1. LET w == [GoTo(worker.next) EXCEPT !.raced = FALSE] IN
            /\ w \in AnyWorker /\ w.pc = worker.next
            /\ w.window = worker.window /\ w.gen = worker.gen /\ w.input = worker.input
      BY <1>1 DEF GoTo, AnyWorker, PCs
    <3> QED
      BY <2>1, <3>1, WorksAlone
  <2>3. worker.next \in Acts =>
          /\ Starts(worker.input)
          /\ fg = worker.window /\ text[fg] = worker.input /\ gen = worker.gen
    BY <1>1, <1>4, EnterAssumption DEF Current, ActsInv, Looking, Texts
  <2>4. Resolved' /\ Looking' /\ Looked'
    <3>1. worker'.pc \notin {"resolve", "check", "recheck"}
      BY <1>1, <2>2 DEF Sinks
    <3>2. UNCHANGED <<fg, text, gen>>
      BY <2>1, WorksAlone
    <3> QED
      BY <2>2, <2>3, <3>1, <3>2 DEF Resolved, Looking, Looked
  <2> QED
    BY <2>1, <2>2, <2>4, WorksAlone, WorkerAlone
<1> QED
  BY <1>2, <1>3, <1>4 DEF Check, Recheck

-----------------------------------------------------------------------------
(* The calls that act.                                                      *)

LEMMA ReplayKeeps == ActsInv /\ Replay => ActsInv'
<1> SUFFICES ASSUME ActsInv, Replay PROVE ActsInv'
  OBVIOUS
<1>1. worker \in AnyWorker /\ worker' \in {Idle("replayed"), Idle("failed")}
      /\ UNCHANGED <<fg, text, control, gen, paused, queue, press>>
  BY DEF ActsInv, EnterType, Replay, desktop, observers
<1> QED
  BY <1>1, IdleFields, Elsewhere DEF Acts

\* What Write leaves in the control is translated, as it was, or noted as changed.
LEMMA WriteKeeps == ActsInv /\ Write => ActsInv'
<1> SUFFICES ASSUME ActsInv, Write PROVE ActsInv'
  OBVIOUS
<1>1. /\ worker \in AnyWorker /\ worker.input \in Texts /\ Starts(worker.input)
      /\ worker.window \in Window /\ press \in Presses /\ text \in [Window -> Texts]
  BY DEF ActsInv, EnterType, AnyWorker, Write, Resolved, Acts
<1>2. /\ Translate(worker.input) \in Texts /\ ~Starts(Translate(worker.input))
  BY <1>1 DEF Translate, Texts, Starts
<1>3. UNCHANGED <<fg, control, gen, paused, queue>>
  BY DEF Write
<1>4. ASSUME NEW e \in Texts, worker' = Wrote(worker, e)
      PROVE  /\ worker' \in AnyWorker
             /\ worker'.window = worker.window /\ worker'.gen = worker.gen
             /\ Resolved' /\ Looking' /\ Looked'
  <2> DEFINE w == [worker EXCEPT !.how = "dropped"]
  <2>1. w \in AnyWorker /\ w.window = worker.window /\ w.gen = worker.gen
    BY <1>1 DEF AnyWorker
  <2>2. /\ worker' = Checked(w, "replay", e) /\ "replay" \in Sinks
        /\ e \in Texts \cup {AnyText}
    BY <1>4 DEF Wrote, Sinks
  <2> HIDE DEF w
  <2>3. /\ worker' \in AnyWorker /\ worker'.pc \in {"check", "recheck"}
        /\ worker'.next = "replay"
        /\ worker'.window = worker.window /\ worker'.gen = worker.gen
    BY ONLY <2>1, <2>2, CheckedFields
  <2> QED
    BY <2>3 DEF Resolved, Looking, Looked, Acts
<1>5. CASE /\ text' = [text EXCEPT ![worker.window] = Translate(worker.input)]
           /\ worker' = Wrote(worker, Translate(worker.input))
           /\ UNCHANGED press
  <2>1. EnterType'
    BY <1>1, <1>2, <1>3, <1>4, <1>5 DEF ActsInv, EnterType
  <2>2. ASSUME NEW w \in Window, NEW g, Fresh(w, g) PROVE Fresh(w, g)'
    <3>1. text'[w] = text[w] \/ ~Starts(text'[w])
      BY <1>1, <1>2, <1>5
    <3> QED
      BY <1>3, <1>5, <2>2, <3>1 DEF Fresh, Starts
  <2>3. WorkerFresh'
    <3>1. WorkerFresh' <=> Fresh(worker.window, worker.gen)'
      BY DEF WorkerFresh
    <3>2. worker'.window = worker.window /\ worker'.gen = worker.gen
      BY <1>2, <1>4, <1>5
    <3>3. Fresh(worker.window, worker.gen)
      BY DEF ActsInv, WorkerFresh
    <3>4. text'[worker.window] = text[worker.window] \/ ~Starts(text'[worker.window])
      BY <1>1, <1>2, <1>5
    <3> QED
      BY <1>3, <1>5, <3>2, <3>3, <3>4 DEF WorkerFresh, Fresh, Starts
  <2>4. QueueFresh'
    <3> SUFFICES ASSUME NEW i \in 1..Len(queue), queue[i] \in Requests
                 PROVE  Fresh(queue[i].window, queue[i].gen)'
      BY <1>3 DEF QueueFresh
    <3>1. Fresh(queue[i].window, queue[i].gen) /\ queue[i].window \in Window
      BY DEF ActsInv, QueueFresh, Requests
    <3>2. text'[queue[i].window] = text[queue[i].window] \/ ~Starts(text'[queue[i].window])
      BY <1>1, <1>2, <1>5, <3>1
    <3> QED
      BY <1>3, <1>5, <3>1, <3>2 DEF Fresh, Starts
  <2> QED
    BY <1>2, <1>4, <1>5, <2>1, <2>3, <2>4, FromParts
<1>6. CASE worker' = Wrote(worker, worker.input) /\ UNCHANGED <<text, press>>
  BY <1>1, <1>3, <1>4, <1>6, WorkerAlone
<1>7. CASE \E t \in Texts : /\ text' = [text EXCEPT ![worker.window] = t]
                            /\ worker' = Wrote(worker, worker.input)
                            /\ Disturb(TRUE)
  <2>1. /\ press' \in Presses /\ press'.gen = press.gen /\ press'.text = press.text
        /\ press'.silent
    BY <1>1, <1>7, DisturbFields
  <2>2. EnterType'
    BY <1>1, <1>3, <1>4, <1>7, <2>1 DEF ActsInv, EnterType
  <2> QED
    BY <1>1, <1>3, <1>4, <1>7, <2>1, <2>2, Kept, FromParts
<1> QED
  BY <1>5, <1>6, <1>7 DEF Write

LEMMA CallsKeep == ActsInv /\ (Navigate \/ Open \/ Warn \/ Escape \/ Notify) => ActsInv'
<1> SUFFICES ASSUME ActsInv, Navigate \/ Open \/ Warn \/ Escape \/ Notify
             PROVE  ActsInv'
  OBVIOUS
<1>1. /\ worker \in AnyWorker /\ worker.input \in Texts
      /\ worker.how \in {"dropped", "failed", "replayed", "acted", "refused"}
      /\ worker.pc = "navigate" => Starts(worker.input)
  BY DEF ActsInv, EnterType, AnyWorker, Resolved, Acts
<1>2. ASSUME NEW h \in {"acted", "refused"}
      PROVE  LET w == [worker EXCEPT !.how = h] IN
               /\ w \in AnyWorker /\ w.window = worker.window /\ w.gen = worker.gen
  BY <1>1 DEF AnyWorker
<1>3. CASE Works(Idle("acted")) \/ Works(Idle(worker.how)) \/ Works(Idle("refused"))
  BY <1>1, <1>3, WorksAlone, IdleFields, Elsewhere DEF Acts
<1>4. CASE Navigate /\ Works(Checked(worker, "write", worker.input))
  BY <1>1, <1>4, WorksAlone, LookAhead DEF Navigate, Sinks
<1>5. CASE Works(Checked([worker EXCEPT !.how = "acted"], "escape", worker.input))
  <2> DEFINE w == [worker EXCEPT !.how = "acted"]
  <2>1. w \in AnyWorker /\ w.window = worker.window /\ w.gen = worker.gen
    BY <1>2
  <2>2. worker' = Checked(w, "escape", worker.input)
        /\ UNCHANGED <<fg, text, control, gen, paused, queue, press>>
    BY <1>5, WorksAlone
  <2>3. "escape" \in Sinks \ Acts /\ worker.input \in Texts \cup {AnyText}
    BY <1>1 DEF Sinks, Acts
  <2> HIDE DEF w
  <2> QED
    BY ONLY ActsInv, <2>1, <2>2, <2>3, LookAhead
<1>6. CASE Works(Checked(worker, "warn", worker.input))
  BY <1>1, <1>6, WorksAlone, LookAhead DEF Sinks, Acts
<1>7. CASE Works(Checked([worker EXCEPT !.how = "refused"], "escape", worker.input))
  <2> DEFINE w == [worker EXCEPT !.how = "refused"]
  <2>1. w \in AnyWorker /\ w.window = worker.window /\ w.gen = worker.gen
    BY <1>2
  <2>2. worker' = Checked(w, "escape", worker.input)
        /\ UNCHANGED <<fg, text, control, gen, paused, queue, press>>
    BY <1>7, WorksAlone
  <2>3. "escape" \in Sinks \ Acts /\ worker.input \in Texts \cup {AnyText}
    BY <1>1 DEF Sinks, Acts
  <2> HIDE DEF w
  <2> QED
    BY ONLY ActsInv, <2>1, <2>2, <2>3, LookAhead
<1> QED
  BY <1>3, <1>4, <1>5, <1>6, <1>7 DEF Navigate, Open, Warn, Escape, Notify

-----------------------------------------------------------------------------
(* The theorems.                                                            *)

LEMMA InitActsInv == Init => ActsInv
<1> SUFFICES ASSUME Init PROVE ActsInv
  OBVIOUS
<1>1. PICK t \in Typed : text = [w \in Window |-> Plain(t)]
  BY DEF Init
<1>2. Plain(t) \in Texts
  BY <1>1 DEF Plain, Texts
<1>3. text \in [Window -> Texts] /\ text[fg] \in Texts
  BY <1>1, <1>2 DEF Init
<1>4. EnterType
  BY <1>3 DEF Init, EnterType, AnyWorker, Presses, PCs, Sinks, Controls
<1>5. worker.window = fg /\ worker.gen = 0 /\ worker.pc = "starting" /\ press.gen = 0
      /\ press.text = text[fg] /\ gen = 0 /\ queue = <<>>
  BY DEF Init
<1> QED
  BY <1>4, <1>5 DEF ActsInv, QueueFresh, WorkerFresh, Fresh, Resolved, Looking, Looked, Acts

LEMMA StepKeepsActsInv == ActsInv /\ [Next]_vars => ActsInv'
<1> SUFFICES ASSUME ActsInv, [Next]_vars PROVE ActsInv'
  OBVIOUS
<1>1. CASE Hook
  BY <1>1, AskKeeps, HookKeeps DEF Hook
<1>2. CASE Work
  BY <1>2, ApproachKeeps, TakeKeeps, SetDiscoveryKeeps, GateKeeps, ResolveKeeps, LookKeeps,
     ReplayKeeps, WriteKeeps, CallsKeep DEF Work
<1>3. CASE \E t \in Texts : Type(t) \/ \E w \in Window : Edit(w, t)
  BY <1>3, TypeKeeps, DesktopKeeps
<1>4. CASE \E w \in Window : Refocus(w) \/ Switch(w)
  BY <1>4, DesktopKeeps
<1>5. CASE Pause
  BY <1>5, PauseKeeps
<1>6. CASE LoseHook \/ Rearm \/ UNCHANGED vars
  BY <1>6 DEF LoseHook, Rearm, vars, desktop, observers, ActsInv, EnterType, QueueFresh,
              WorkerFresh, Fresh, Resolved, Looking, Looked
<1> QED
  BY <1>1, <1>2, <1>3, <1>4, <1>5, <1>6 DEF Next

\* The invariant of the whole pipeline: what a request, a look and an act may
\* still rely on (process_enter_request, request_control_is_current).
THEOREM RequestsStayFresh == Spec => []ActsInv
<1> QED
  BY InitActsInv, StepKeepsActsInv, PTL DEF Spec

\* The broker writes, opens and navigates only to what Enter was pressed on
\* (process_enter_request, process_browser_enter_request).
THEOREM OnlyWhatWasPressed == Spec => ActsOnWhatWasPressed
<1>1. ActsInv /\ worker.pc \in Acts /\ ~worker.raced =>
        /\ fg = worker.window /\ text[fg] = worker.input /\ worker.gen = press.gen
        /\ worker.input = press.text \/ press.silent
  BY DEF ActsInv, WorkerFresh, Fresh, Resolved, Looked
<1>2. ActsInv => [ worker.pc \in {"write", "open", "navigate"} /\ worker'.pc # worker.pc =>
                     \/ worker.raced
                     \/ /\ fg = worker.window /\ text[fg] = worker.input
                        /\ worker.gen = press.gen
                        /\ worker.input = press.text \/ press.silent ]_vars
  BY <1>1 DEF Acts
<1> QED
  BY <1>2, RequestsStayFresh, PTL DEF ActsOnWhatWasPressed

-----------------------------------------------------------------------------
(* Types, bounds, and the last word on browser discovery.                   *)

Calls == Navigate \/ Open \/ Warn \/ Escape \/ Notify

\* Every generation was counted as an event.
Bounded ==
  /\ events \in 0..MaxEvents /\ gen <= events
  /\ queue \in Seq(Messages) /\ worker.gen <= MaxEvents /\ press.gen <= MaxEvents
  /\ discovery \in BOOLEAN /\ missed \in BOOLEAN /\ lost \in BOOLEAN

\* The messages about discovery in a queue, and what the last one says.
Words(q) == {i \in 1..Len(q) : q[i] \notin Requests}
LastSays(q, v) == \A i \in Words(q) : (\A j \in Words(q) : j <= i) => q[i].discovery = v

\* Until the worker has armed discovery it has no word on it, and until its window
\* is published nothing can be posted.
Starting == {"starting", "started"}
DiscoveryInv ==
  /\ worker.pc = "starting" => queue = <<>>
  /\ IF Words(queue) # {} THEN LastSays(queue, ~paused)
     ELSE worker.pc \notin Starting => discovery = ~paused

PipelineInv == ActsInv /\ HookInv /\ Bounded /\ DiscoveryInv

\* The steps that say nothing about discovery.
Silent ==
  /\ UNCHANGED <<queue, paused, discovery>> /\ worker'.gen = worker.gen
  /\ worker'.pc \in Starting <=> worker.pc \in Starting
  /\ worker'.pc = "starting" => worker.pc = "starting"

\* Every step of the worker but the reading of its queue and the arming.
LEMMA WorkerSilent ==
  ASSUME ActsInv, Work, ~Arm, ~SetDiscovery, ~Take
  PROVE  Silent
<1> USE DEF ActsInv, EnterType, AnyWorker, Silent, Starting, Works
<1>1. CASE PublishWindow \/ Begin \/ Focus \/ HandBack
  BY <1>1 DEF PublishWindow, Begin, Focus, HandBack, Idle, GoTo, GiveBack
<1>2. CASE Gate
  BY <1>2 DEF Gate, GiveBack, Checked
<1>3. CASE Resolve
  BY <1>3 DEF Resolve, Idle, Checked
<1>4. CASE Check \/ Recheck
  <2>1. /\ worker' \in {GoTo("recheck"), [GoTo(worker.next) EXCEPT !.raced = FALSE],
                       Refused(worker.how), Refused(Unanswered)}
        /\ worker.pc \in {"check", "recheck"} /\ UNCHANGED <<queue, paused, discovery>>
    BY <1>4 DEF Check, Recheck
  <2>2. \A how : /\ Refused(how).gen = worker.gen
                 /\ Refused(how).pc \in {"check", "recheck", "idle"}
    BY DEF Refused, Checked, Idle
  <2>3. CASE worker' \in {Refused(worker.how), Refused(Unanswered)}
    <3> HIDE DEF ActsInv, EnterType, AnyWorker
    <3> QED
      BY <2>1, <2>2, <2>3
  <2>4. CASE worker' \in {GoTo("recheck"), [GoTo(worker.next) EXCEPT !.raced = FALSE]}
    <3>1. worker'.gen = worker.gen /\ worker'.pc \in {"recheck", worker.next}
      BY <2>4 DEF GoTo
    <3>2. worker.next \notin Starting
      BY DEF Sinks
    <3> QED
      BY <2>1, <3>1, <3>2
  <2> QED
    BY <2>1, <2>3, <2>4
<1>5. CASE Replay
  BY <1>5 DEF Replay, Idle
<1>6. CASE Write
  BY <1>6 DEF Write, Wrote, Checked
<1>7. CASE Calls
  BY <1>7 DEF Calls, Navigate, Open, Warn, Escape, Notify, Idle, Checked
<1> HIDE DEF Silent
<1> QED
  BY <1>1, <1>2, <1>3, <1>4, <1>5, <1>6, <1>7 DEF Work, Calls

\* The user and the applications, and a hook that goes and comes.
LEMMA DesktopSilent ==
  ASSUME ActsInv,
         \/ Pass \/ Repeat \/ DownUnhooked \/ Release \/ LoseHook \/ Rearm
         \/ \E t \in Texts : Type(t) \/ \E w \in Window : Edit(w, t)
         \/ \E w \in Window : Refocus(w) \/ Switch(w)
         \/ UNCHANGED vars
  PROVE  Silent
<1>1. CASE Pass \/ Repeat \/ DownUnhooked \/ Release
  BY <1>1, RaceFields DEF ActsInv, EnterType, Pass, Repeat, DownUnhooked, Release, Silent,
     observers
<1>2. ASSUME NEW t \in Texts, NEW w \in Window, Type(t) \/ Edit(w, t)
      PROVE  Silent
  BY <1>2, RaceFields DEF ActsInv, EnterType, Type, Edit, Silent
<1>3. ASSUME NEW t \in Texts, Type(t)
      PROVE  Silent
  BY <1>3, RaceFields DEF ActsInv, EnterType, Type, Silent
<1>4. ASSUME NEW w \in Window, Refocus(w) \/ Switch(w)
      PROVE  Silent
  BY <1>4, RaceFields DEF ActsInv, EnterType, Refocus, Switch, Silent
<1>5. CASE LoseHook \/ Rearm \/ UNCHANGED vars
  BY <1>5 DEF LoseHook, Rearm, vars, Silent, observers
<1> QED
  BY <1>1, <1>2, <1>3, <1>4, <1>5

\* A silent step keeps the last word, and the bounds it has to keep are few.
LEMMA SilentKeeps ==
  ASSUME PipelineInv, Silent
  PROVE  DiscoveryInv' /\ queue' \in Seq(Messages) /\ discovery' \in BOOLEAN
         /\ worker'.gen <= MaxEvents
BY DEF PipelineInv, Bounded, DiscoveryInv, Silent

\* What the queue says of discovery after a message more, or one less.
LEMMA MoreWords ==
  ASSUME NEW q \in Seq(Messages), NEW m \in Messages
  PROVE  /\ Append(q, m) \in Seq(Messages)
         /\ m \in Requests => Words(Append(q, m)) = Words(q)
         /\ m \in Requests => \A v \in BOOLEAN : LastSays(q, v) => LastSays(Append(q, m), v)
         /\ m \notin Requests => Words(Append(q, m)) # {}
         /\ m \notin Requests => LastSays(Append(q, m), m.discovery)
<1>1. /\ Append(q, m) \in Seq(Messages) /\ Len(q) \in Nat
      /\ Len(Append(q, m)) = Len(q) + 1 /\ Append(q, m)[Len(q) + 1] = m
      /\ \A i \in 1..Len(q) : Append(q, m)[i] = q[i]
  OBVIOUS
<1>2. CASE m \in Requests
  <2>1. Words(Append(q, m)) = Words(q)
    BY <1>1, <1>2 DEF Words
  <2>2. \A i \in Words(q) : Append(q, m)[i] = q[i]
    BY <1>1 DEF Words
  <2> QED
    BY <1>1, <1>2, <2>1, <2>2 DEF LastSays
<1>3. CASE m \notin Requests
  <2>1. Len(q) + 1 \in Words(Append(q, m))
    BY <1>1, <1>3 DEF Words
  <2>2. \A i \in Words(Append(q, m)) : Len(q) + 1 <= i => i = Len(q) + 1
    BY <1>1 DEF Words
  <2> QED
    BY <1>1, <1>3, <2>1, <2>2 DEF LastSays
<1> QED
  BY <1>2, <1>3

LEMMA FewerWords ==
  ASSUME NEW q \in Seq(Messages), q # <<>>
  PROVE  /\ Tail(q) \in Seq(Messages) /\ Head(q) \in Messages
         /\ \A v \in BOOLEAN : LastSays(q, v) => LastSays(Tail(q), v)
         /\ Words(Tail(q)) = {} => /\ Words(q) \subseteq {1}
                                   /\ Head(q) \in Requests => Words(q) = {}
                                   /\ \A v \in BOOLEAN : Head(q) \notin Requests /\ LastSays(q, v)
                                        => Head(q).discovery = v
         /\ Words(q) = {} => Words(Tail(q)) = {}
<1> DEFINE rest == Tail(q)
<1>1. /\ rest \in Seq(Messages) /\ Len(rest) = Len(q) - 1 /\ Len(q) \in Nat /\ Len(q) > 0
      /\ Head(q) = q[1] /\ q[1] \in Messages
      /\ \A i \in 1..Len(q) - 1 : rest[i] = q[i + 1]
  OBVIOUS
<1> HIDE DEF rest
<1>2. \A i \in Nat : i \in Words(rest) <=> i + 1 \in Words(q) /\ i > 0
  BY <1>1 DEF Words
<1>3. Words(q) \subseteq Nat \ {0} /\ Words(rest) \subseteq Nat
  BY <1>1 DEF Words
<1>4. ASSUME NEW v \in BOOLEAN, LastSays(q, v), NEW i \in Words(rest),
             \A j \in Words(rest) : j <= i
      PROVE  rest[i].discovery = v
  <2>1. i \in Nat /\ i + 1 \in Words(q) /\ rest[i] = q[i + 1]
    BY <1>1, <1>2, <1>3 DEF Words
  <2>2. ASSUME NEW j \in Words(q) PROVE j <= i + 1
    <3>1. j = 1 \/ (j - 1 \in Nat /\ j - 1 > 0 /\ (j - 1) + 1 = j)
      BY <1>3
    <3>2. CASE j = 1
      BY <2>1, <3>2
    <3>3. CASE j # 1
      <4>1. (j - 1) + 1 \in Words(q)
        BY <3>1, <3>3
      <4>2. j - 1 \in Words(rest)
        BY <1>2, <3>1, <3>3, <4>1
      <4>3. j - 1 <= i
        BY <1>4, <4>2
      <4> QED
        BY <2>1, <3>1, <3>3, <4>3
    <3> QED
      BY <3>2, <3>3
  <2> QED
    BY <1>4, <2>1, <2>2 DEF LastSays
<1>5. ASSUME Words(rest) = {}
      PROVE  Words(q) \subseteq {1}
  <2> SUFFICES ASSUME NEW j \in Words(q), j # 1 PROVE FALSE
    OBVIOUS
  <2>1. j - 1 \in Nat /\ j - 1 > 0 /\ (j - 1) + 1 = j
    BY <1>3
  <2> QED
    BY <1>2, <1>5, <2>1
<1>6. Head(q) \in Requests <=> 1 \notin Words(q)
  BY <1>1 DEF Words
<1>7. ASSUME Words(rest) = {}, NEW v \in BOOLEAN, Head(q) \notin Requests, LastSays(q, v)
      PROVE  Head(q).discovery = v
  <2>1. Words(q) = {1}
    BY <1>5, <1>6, <1>7
  <2> QED
    BY <1>1, <1>7, <2>1 DEF LastSays
<1>8. Words(q) = {} => Words(rest) = {}
  BY <1>2, <1>3
<1> QED
  BY <1>1, <1>4, <1>5, <1>6, <1>7, <1>8 DEF LastSays, rest

LEMMA BoundsKept ==
  ASSUME PipelineInv, [Next]_vars
  PROVE  Bounded' /\ DiscoveryInv'
<1> USE EnterAssumption DEF PipelineInv
<1>0. paused \in BOOLEAN /\ (~paused) \in BOOLEAN /\ worker \in AnyWorker /\ gen \in Nat
  BY DEF ActsInv, EnterType
<1>1. CASE Ask
  <2> DEFINE m == [window |-> fg, gen |-> gen + 1]
  <2>1. /\ events' = events + 1 /\ events < MaxEvents /\ gen' = gen + 1
        /\ queue' = Append(queue, m) /\ worker.pc # "starting"
        /\ press'.gen = gen + 1 /\ UNCHANGED <<paused, discovery, missed, lost>>
        /\ worker'.pc = worker.pc /\ worker'.gen = worker.gen
    BY <1>0, <1>1, RaceFields DEF Ask, Event, Stamp, Up
  <2>2. gen + 1 \in 1..MaxEvents
    BY <1>0, <2>1 DEF Bounded
  <2>3. m \in Requests /\ m \in Messages
    BY <2>2 DEF Requests, Messages, ActsInv, EnterType
  <2> HIDE DEF m
  <2>4. Bounded'
    BY <1>0, <2>1, <2>2, <2>3, MoreWords DEF Bounded
  <2> QED
    BY <1>0, <2>1, <2>3, <2>4, MoreWords DEF DiscoveryInv, Bounded
<1>2. CASE Pause
  <2>1. /\ events' = events + 1 /\ events < MaxEvents /\ gen' = gen /\ paused' = ~paused
        /\ UNCHANGED <<discovery, worker, press, lost>> /\ missed' \in BOOLEAN
        /\ queue' = IF Up THEN Append(queue, [discovery |-> paused]) ELSE queue
    BY <1>2 DEF Pause, Event, Bounded
  <2>2. [discovery |-> paused] \in Messages \ Requests /\ [discovery |-> paused].discovery = ~paused'
    BY <1>0, <2>1 DEF Messages, Requests
  <2>3. queue' \in Seq(Messages)
    BY <2>1, <2>2, MoreWords DEF Bounded
  <2>4. Bounded'
    BY <1>0, <2>1, <2>3 DEF Bounded
  <2>5. CASE Up
    <3>1. Words(queue') # {} /\ LastSays(queue', ~paused')
      BY <2>1, <2>2, <2>5, MoreWords DEF Bounded
    <3> QED
      BY <2>1, <2>4, <2>5, <3>1 DEF DiscoveryInv, Up
  <2>6. CASE ~Up
    <3>1. queue' = <<>> /\ worker'.pc = "starting"
      BY <2>1, <2>6 DEF DiscoveryInv, Up
    <3>2. Words(queue') = {}
      BY <3>1, Len(<<>>) = 0 DEF Words
    <3> QED
      BY <2>4, <3>1, <3>2 DEF DiscoveryInv, Starting
  <2> QED
    BY <2>5, <2>6
<1>3. CASE Arm
  <2>1. /\ worker'.pc = "idle" /\ worker'.gen = worker.gen /\ discovery' = ~paused
        /\ UNCHANGED <<queue, paused, gen, press, missed, lost, events>>
    BY <1>0, <1>3 DEF Arm, GoTo, AnyWorker, observers
  <2> QED
    BY <1>0, <2>1 DEF Bounded, DiscoveryInv
<1>4. CASE SetDiscovery
  <2>1. /\ worker.pc = "idle" /\ queue # <<>> /\ Head(queue) \notin Requests
        /\ discovery' = Head(queue).discovery /\ queue' = Tail(queue)
        /\ UNCHANGED <<paused, worker, gen, press, missed, lost, events>>
    BY <1>4 DEF SetDiscovery, observers
  <2>2. Head(queue) \in [discovery : BOOLEAN]
    BY <2>1, FewerWords DEF Messages, Bounded
  <2>3. Bounded'
    BY <2>1, <2>2, FewerWords DEF Bounded
  <2>4. 1 \in Words(queue)
    BY <2>1 DEF Words, Bounded
  <2>5. LastSays(queue, ~paused)
    BY <2>4 DEF DiscoveryInv
  <2> QED
    BY <1>0, <2>1, <2>3, <2>5, FewerWords DEF DiscoveryInv, Bounded
<1>5. CASE Take
  <2>1. /\ worker.pc = "idle" /\ queue # <<>> /\ Head(queue) \in Requests
        /\ queue' = Tail(queue) /\ worker'.gen = Head(queue).gen
        /\ worker'.pc \in {"giveBack", "begin"}
        /\ UNCHANGED <<discovery, paused, gen, press, missed, lost, events>>
    BY <1>0, <1>5 DEF Take, AnyWorker, observers
  <2>2. Head(queue).gen \in 1..MaxEvents
    BY <2>1 DEF Requests
  <2>3. Bounded'
    BY <2>1, <2>2, FewerWords DEF Bounded
  <2>4. /\ Words(queue') # {} => Words(queue) # {}
        /\ Words(queue') = {} => Words(queue) = {}
        /\ \A v \in BOOLEAN : LastSays(queue, v) => LastSays(queue', v)
    BY <2>1, FewerWords DEF Bounded
  <2> QED
    BY <1>0, <2>1, <2>3, <2>4 DEF DiscoveryInv, Starting
<1>6. CASE Work /\ ~Arm /\ ~SetDiscovery /\ ~Take
  <2>1. Silent
    BY <1>6, WorkerSilent
  <2>2. /\ UNCHANGED <<gen, missed, lost>> /\ press'.gen = press.gen
        /\ events' \in 0..MaxEvents /\ events <= events'
    <3>1. CASE Write
      <4>1. /\ UNCHANGED <<gen, missed, lost>>
            /\ \/ press' = press /\ events' = events
               \/ Disturb(TRUE) /\ Event
        BY <3>1 DEF Write
      <4>2. press'.gen = press.gen
        BY <4>1, DisturbFields, (TRUE) \in BOOLEAN DEF ActsInv, EnterType
      <4>3. events' \in 0..MaxEvents /\ events <= events'
        <5>1. events' = events \/ (events < MaxEvents /\ events' = events + 1)
          BY <4>1 DEF Event
        <5>2. events \in 0..MaxEvents /\ MaxEvents \in Nat
          BY DEF Bounded
        <5> QED
          BY <5>1, <5>2
      <4> QED
        BY <4>1, <4>2, <4>3
    <3>2. CASE Replay
      BY <3>2 DEF Replay, Bounded, observers
    <3>3. CASE \/ PublishWindow \/ Begin \/ Focus \/ Gate \/ Resolve \/ Check \/ Recheck
               \/ HandBack \/ Calls
      <4>1. \E w : Works(w)
        BY <3>3 DEF PublishWindow, Begin, Focus, Gate, Resolve, Check, Recheck, HandBack,
                    Calls, Navigate, Open, Warn, Escape, Notify
      <4> QED
        BY <4>1 DEF Works, observers, Bounded
    <3> QED
      BY <1>6, <3>1, <3>2, <3>3 DEF Work, Calls
  <2> QED
    BY <1>0, <2>1, <2>2, SilentKeeps DEF Bounded
<1>7. CASE \/ Pass \/ Repeat \/ DownUnhooked \/ Release \/ LoseHook \/ Rearm
           \/ \E t \in Texts : Type(t) \/ \E w \in Window : Edit(w, t)
           \/ \E w \in Window : Refocus(w) \/ Switch(w)
           \/ UNCHANGED vars
  <2>1. Silent
    BY <1>7, DesktopSilent
  <2>2. /\ \/ gen' = gen /\ events' \in {events, events + 1}
           \/ gen' = gen + 1 /\ events' = events + 1
        /\ events' # events => events < MaxEvents
        /\ missed' \in BOOLEAN /\ lost' \in BOOLEAN /\ press'.gen = press.gen
    <3>1. CASE Pass \/ Repeat \/ DownUnhooked \/ Release
      BY <3>1, DisturbFields, <1>0, (TRUE) \in BOOLEAN, (FALSE) \in BOOLEAN
         DEF Pass, Repeat, DownUnhooked, Release, Event, Bounded, observers, ActsInv, EnterType
    <3>2. CASE LoseHook \/ Rearm \/ UNCHANGED vars
      BY <3>2 DEF LoseHook, Rearm, vars, Event, observers, Bounded
    <3>3. CASE \E t \in Texts : Type(t) \/ \E w \in Window : Edit(w, t)
      <4>1. (~hook.live) \in BOOLEAN /\ (TRUE) \in BOOLEAN
        OBVIOUS
      <4> QED
        BY <3>3, <4>1, DisturbFields DEF Type, Edit, Event, Bounded, ActsInv, EnterType
    <3>4. CASE \E w \in Window : Refocus(w) \/ Switch(w)
      BY <3>4, DisturbFields, (FALSE) \in BOOLEAN
         DEF Refocus, Switch, Event, Bounded, ActsInv, EnterType
    <3> QED
      BY <1>7, <3>1, <3>2, <3>3, <3>4
  <2> QED
    BY <1>0, <2>1, <2>2, SilentKeeps DEF Bounded
<1> HIDE DEF PipelineInv
<1> QED
  BY <1>1, <1>2, <1>3, <1>4, <1>5, <1>6, <1>7 DEF Next, Hook

LEMMA InitPipeline == Init => PipelineInv
<1> SUFFICES ASSUME Init PROVE PipelineInv
  OBVIOUS
<1>1. /\ gen = 0 /\ events = 0 /\ queue = <<>> /\ worker.gen = 0 /\ press.gen = 0
      /\ worker.pc = "starting" /\ ~discovery /\ ~missed /\ ~lost /\ discovery \in BOOLEAN
      /\ missed \in BOOLEAN /\ lost \in BOOLEAN
  BY DEF Init
<1>2. Bounded
  BY <1>1, EnterAssumption DEF Bounded
<1>3. Words(queue) = {}
  BY <1>1, Len(<<>>) = 0 DEF Words
<1>4. DiscoveryInv
  BY <1>1, <1>3 DEF DiscoveryInv, Starting
<1> QED
  BY <1>2, <1>4, InitActsInv, InitHookInv DEF PipelineInv

\* All of it together, in every reachable state.
THEOREM PipelineInvariance == Spec => []PipelineInv
<1>1. PipelineInv /\ [Next]_vars => PipelineInv'
  BY StepKeepsActsInv, StepKeepsHookInv, BoundsKept DEF PipelineInv
<1> QED
  BY <1>1, InitPipeline, PTL DEF Spec

\* Every variable keeps its type; no generation outruns the events.
THEOREM TypeCorrect == Spec => []TypeOK
<1>1. PipelineInv => TypeOK
  BY EnterAssumption DEF PipelineInv, Bounded, ActsInv, EnterType, HookInv, FlagType,
     HookRecord, KeyRecord, TypeOK, AnyWorker, Workers, Outcomes, Presses
<1> QED
  BY <1>1, PipelineInvariance, PTL

\* Browser discovery ends up as the pause has it, also when a pause races the
\* start of the worker (request_browser_discovery, worker_thread_main).
THEOREM DiscoveryAgrees == Spec => []DiscoveryFollows
<1>1. PipelineInv => DiscoveryFollows
  BY DEF PipelineInv, DiscoveryInv, DiscoveryFollows, Words, LastSays, Starting
<1> QED
  BY <1>1, PipelineInvariance, PTL

-----------------------------------------------------------------------------
(* An Enter is given up only when something changed, and submitted whole.    *)

\* No disturbance, and no counted key, since the press the worker is about.
Undisturbed == worker.gen = press.gen /\ press.steady /\ gen = worker.gen

\* What the worker may rely on, at each point of the way, while that is so.
Reads == {"resolve", "write", "open", "navigate", "warn", "escape", "notify"}
Looks == {"check", "recheck"}
Sure(w) ==
  /\ fg = w.window
  /\ w.pc = "giveBack" => w.focus \in {"any", control[fg]}
  /\ w.pc = "gate" => w.focus = control[fg]
  /\ w.pc \in Reads \cup Looks => control[fg] = "address"
  /\ w.pc \in Looks => w.expect \in {AnyText, text[fg]}
  /\ w.pc \in Reads \/ (w.pc \in Looks /\ w.next # "replay") => text[fg] = w.input
  /\ w.pc = "escape" \/ (w.pc \in Looks /\ w.next = "escape") => w.how # "dropped"

WorkerSteady == Undisturbed /\ worker.pc \notin {"starting", "started", "idle"} => Sure(worker)
QueueSteady ==
  press.steady /\ gen = press.gen =>
    \A i \in 1..Len(queue) : queue[i] \in Requests /\ queue[i].gen = gen => queue[i].window = fg

\* What a replayed Enter submits, unless the user came between.
WholeText ==
  worker.pc = "replay" /\ ~worker.raced =>
    fg = worker.window /\ worker.expect \in {AnyText, text[fg]}

SteadyInv == WorkerSteady /\ QueueSteady /\ WholeText

screen == <<fg, text, control, gen, press>>

\* Where nothing the worker looks at moves, nothing is lost.
LEMMA Unmoved ==
  ASSUME SteadyInv, UNCHANGED screen, worker' = worker
  PROVE  WorkerSteady' /\ WholeText' /\ (queue' = queue => QueueSteady')
BY DEF SteadyInv, WorkerSteady, QueueSteady, WholeText, Undisturbed, Sure, screen

LEMMA CheckedHow ==
  ASSUME NEW w \in AnyWorker, NEW sink \in Sinks, NEW e \in Texts \cup {AnyText}
  PROVE  Checked(w, sink, e).how = w.how
BY DEF Checked, AnyWorker, PCs

\* A look that will be passed, as long as nothing changes.
LEMMA LookSteady ==
  ASSUME ActsInv, WorkerSteady, UNCHANGED screen,
         worker.pc \notin {"starting", "started", "idle"},
         NEW w \in AnyWorker, w.window = worker.window, w.gen = worker.gen,
         NEW sink \in Sinks, NEW e \in Texts \cup {AnyText}, worker' = Checked(w, sink, e),
         Undisturbed => /\ control[fg] = "address" /\ e \in {AnyText, text[fg]}
                        /\ sink # "replay" => text[fg] = w.input
                        /\ sink = "escape" => w.how # "dropped"
  PROVE  WorkerSteady'
BY CheckedFields, CheckedHow DEF WorkerSteady, Sure, Undisturbed, Reads, Looks, screen

\* A second look at what was read.
LEMMA LookAgain ==
  ASSUME ActsInv, WorkerSteady, UNCHANGED screen, worker.pc \in Reads,
         NEW w \in AnyWorker, w.window = worker.window, w.gen = worker.gen,
         w.input = worker.input, NEW sink \in Sinks, worker' = Checked(w, sink, worker.input),
         sink = "escape" => w.how # "dropped"
  PROVE  WorkerSteady'
<1>1. worker.input \in Texts \cup {AnyText}
  BY DEF ActsInv, EnterType, AnyWorker
<1>2. worker.pc \notin {"starting", "started", "idle"}
  BY DEF Reads
<1>3. Undisturbed => control[fg] = "address" /\ text[fg] = worker.input
  BY <1>2 DEF WorkerSteady, Sure, Reads, Looks, Undisturbed
<1> QED
  BY <1>1, <1>2, <1>3, LookSteady

\* The user, the applications and the hook.
LEMMA OutsideSteady ==
  ASSUME ActsInv, SteadyInv,
         \/ Hook
         \/ \E t \in Texts : Type(t) \/ \E w \in Window : Edit(w, t)
         \/ \E w \in Window : Refocus(w) \/ Switch(w)
  PROVE  SteadyInv'
<1>1. CASE Ask
  <2> DEFINE m == [window |-> fg, gen |-> gen + 1]
  <2>1. /\ gen' = gen + 1 /\ queue' = Append(queue, m) /\ press'.gen = gen + 1
        /\ worker'.gen = worker.gen /\ UNCHANGED <<fg, text>>
        /\ worker'.pc = worker.pc /\ worker'.window = worker.window
        /\ worker'.expect = worker.expect /\ (worker.pc \in Sinks => worker'.raced)
    BY <1>1 DEF Ask, Stamp, desktop, Race, ActsInv, EnterType, AnyWorker
  <2>2. /\ queue \in Seq(Posted) /\ gen \in Nat /\ worker.gen \in Nat /\ worker.gen <= gen
        /\ \A i \in 1..Len(queue) : queue[i] \in Requests => queue[i].gen <= gen
    BY DEF ActsInv, EnterType, AnyWorker, QueueFresh, WorkerFresh, Fresh
  <2>3. WorkerSteady'
    BY <2>1, <2>2 DEF WorkerSteady, Undisturbed
  <2>4. QueueSteady'
    <3> SUFFICES ASSUME NEW i \in 1..Len(queue'), queue'[i] \in Requests, queue'[i].gen = gen + 1
                 PROVE  queue'[i].window = fg
      BY <2>1 DEF QueueSteady
    <3>1. CASE i \in 1..Len(queue)
      <4>1. queue'[i] = queue[i]
        BY <2>1, <2>2, <3>1
      <4>2. queue[i].gen <= gen
        BY <2>2, <3>1, <4>1
      <4> QED
        BY <2>2, <4>1, <4>2
    <3>2. CASE i = Len(queue) + 1
      BY <2>1, <2>2, <3>2
    <3>3. i \in 1..Len(queue) \/ i = Len(queue) + 1
      BY <2>1, <2>2
    <3> QED
      BY <3>1, <3>2, <3>3
  <2>5. WholeText'
    BY <2>1 DEF WholeText, Sinks
  <2> QED
    BY <2>3, <2>4, <2>5 DEF SteadyInv
<1>2. CASE Release
  BY <1>2, Unmoved DEF Release, screen, desktop, observers, SteadyInv
<1>3. CASE \/ Pass \/ Repeat \/ DownUnhooked
           \/ \E t \in Texts : Type(t) \/ \E w \in Window : Edit(w, t)
           \/ \E w \in Window : Refocus(w) \/ Switch(w)
  <2>1. /\ worker'.pc = worker.pc /\ worker'.gen = worker.gen
        /\ worker.pc \in Sinks => worker'.raced
    BY <1>3 DEF Race, Pass, Repeat, DownUnhooked, Type, Edit, Refocus, Switch, ActsInv, EnterType,
               AnyWorker
  <2>2. queue' = queue
    BY <1>3 DEF Pass, Repeat, DownUnhooked, Type, Edit, Refocus, Switch
  <2>3. ~press'.steady \/ (gen' = gen + 1 /\ press' = press)
    BY <1>3 DEF Disturb, Pass, Repeat, DownUnhooked, Type, Edit, Refocus, Switch, ActsInv,
               EnterType, Presses
  <2>4. WholeText'
    BY <2>1 DEF WholeText, Sinks
  <2>5. WorkerSteady'
    BY <2>1, <2>3 DEF WorkerSteady, Undisturbed, ActsInv, EnterType, AnyWorker, WorkerFresh, Fresh
  <2>6. QueueSteady'
    BY <2>2, <2>3 DEF QueueSteady, ActsInv, EnterType, QueueFresh, Fresh
  <2> QED
    BY <2>4, <2>5, <2>6 DEF SteadyInv
<1> QED
  BY <1>1, <1>2, <1>3 DEF Hook

\* The window thread, and whatever else leaves the worker's view alone.
LEMMA WindowThreadSteady ==
  ActsInv /\ SteadyInv /\ (Pause \/ LoseHook \/ Rearm \/ UNCHANGED vars) => SteadyInv'
<1> SUFFICES ASSUME ActsInv, SteadyInv, Pause \/ LoseHook \/ Rearm \/ UNCHANGED vars
             PROVE  SteadyInv'
  OBVIOUS
<1>1. UNCHANGED screen /\ worker' = worker
  BY DEF Pause, LoseHook, Rearm, vars, screen, desktop, observers
<1>2. QueueSteady'
  <2>1. CASE queue' = queue
    BY <1>1, <2>1, Unmoved
  <2>2. CASE Pause /\ queue' # queue
    <3> DEFINE m == [discovery |-> paused]
    <3>1. queue' = Append(queue, m) /\ queue \in Seq(Posted) /\ m \notin Requests
      BY <2>2 DEF Pause, ActsInv, EnterType, Requests
    <3>2. UNCHANGED <<fg, gen, press>>
      BY <1>1 DEF screen
    <3> HIDE DEF m
    <3> SUFFICES ASSUME press.steady, gen = press.gen,
                        NEW i \in 1..Len(queue'), queue'[i] \in Requests, queue'[i].gen = gen
                 PROVE  queue'[i].window = fg
      BY <3>2 DEF QueueSteady
    <3>3. i \in 1..Len(queue) /\ queue'[i] = queue[i]
      BY <3>1
    <3> QED
      BY <3>2, <3>3 DEF SteadyInv, QueueSteady
  <2> QED
    BY <2>1, <2>2 DEF LoseHook, Rearm, vars
<1> QED
  BY <1>1, <1>2, Unmoved DEF SteadyInv

\* Taking a message off the queue.
LEMMA TailSteady ==
  ASSUME ActsInv, QueueSteady, UNCHANGED screen, queue # <<>>, queue' = Tail(queue)
  PROVE  QueueSteady'
<1> DEFINE rest == Tail(queue)
<1>1. /\ queue \in Seq(Posted) /\ Len(rest) = Len(queue) - 1 /\ Len(queue) \in Nat
      /\ \A i \in 1..Len(rest) : rest[i] = queue[i + 1]
  BY DEF ActsInv, EnterType
<1>2. queue' = rest /\ UNCHANGED <<fg, gen, press>>
  BY DEF screen
<1> HIDE DEF rest
<1> SUFFICES ASSUME press.steady, gen = press.gen,
                    NEW i \in 1..Len(rest), rest[i] \in Requests, rest[i].gen = gen
             PROVE  rest[i].window = fg
  BY <1>2 DEF QueueSteady
<1>3. i + 1 \in 1..Len(queue) /\ rest[i] = queue[i + 1]
  BY <1>1
<1> QED
  BY <1>3 DEF QueueSteady

LEMMA QueueWorkSteady ==
  ActsInv /\ SteadyInv /\ (SetDiscovery \/ Take) => SteadyInv'
<1> SUFFICES ASSUME ActsInv, SteadyInv, SetDiscovery \/ Take PROVE SteadyInv'
  OBVIOUS
<1>1. UNCHANGED screen /\ queue # <<>> /\ queue' = Tail(queue)
  BY DEF SetDiscovery, Take, screen, desktop, observers
<1>2. QueueSteady'
  BY <1>1, TailSteady DEF SteadyInv
<1>3. CASE SetDiscovery
  BY <1>1, <1>2, <1>3, Unmoved DEF SetDiscovery, SteadyInv
<1>4. CASE Take
  <2>1. /\ Head(queue) \in Requests
        /\ worker'.pc \in {"giveBack", "begin"} /\ worker'.focus = "any"
        /\ worker'.window = Head(queue).window /\ worker'.gen = Head(queue).gen
    BY <1>4 DEF Take, ActsInv, EnterType, AnyWorker
  <2>2. 1 \in 1..Len(queue) /\ queue[1] = Head(queue)
    BY <1>1 DEF ActsInv, EnterType
  <2>3. WorkerSteady'
    <3> SUFFICES ASSUME Undisturbed' PROVE Sure(worker)'
      BY DEF WorkerSteady
    <3>1. press.steady /\ gen = press.gen /\ Head(queue).gen = gen
      BY <1>1, <2>1 DEF Undisturbed, screen
    <3>2. Head(queue).window = fg
      BY <2>1, <2>2, <3>1 DEF SteadyInv, QueueSteady
    <3> QED
      BY <1>1, <2>1, <3>2 DEF Sure, Reads, Looks, screen
  <2> QED
    BY <1>2, <2>1, <2>3 DEF WholeText, SteadyInv
<1> QED
  BY <1>3, <1>4

\* The worker between two of its looks.
Ends == {"starting", "started", "idle"}

\* A look without an answer leaves everything as it was for the next one.
LEMMA UnansweredSteady ==
  ASSUME ActsInv, WorkerSteady, worker.pc \in Looks, Works(Refused(Unanswered))
  PROVE  WorkerSteady'
<1>1. /\ worker \in AnyWorker /\ worker.next \in Sinks /\ worker.input \in Texts
      /\ Unanswered \in Outcomes /\ Unanswered # "dropped"
  BY OutcomesLeft DEF ActsInv, EnterType, AnyWorker, Unanswered
<1>2. worker' = Refused(Unanswered) /\ UNCHANGED screen
  BY DEF Works, screen, desktop, observers
<1>3. CASE Refused(Unanswered) = Idle(Unanswered)
  BY <1>1, <1>2, <1>3, IdleFields DEF WorkerSteady, Outcomes
<1>4. ASSUME NEW sink \in {"write", "warn", "escape"}, worker.next # "replay",
             worker' = Checked(With(Unanswered), sink, worker.input)
      PROVE  WorkerSteady'
  <2> DEFINE w == With(Unanswered)
  <2>1. /\ w \in AnyWorker /\ w.window = worker.window /\ w.gen = worker.gen
        /\ w.input = worker.input /\ w.how # "dropped"
    BY <1>1, WithFields
  <2>2. sink \in Sinks /\ worker.pc \notin {"starting", "started", "idle"}
    BY DEF Sinks, Looks
  <2>3. Undisturbed => control[fg] = "address" /\ text[fg] = worker.input
    BY <1>4, <2>2 DEF WorkerSteady, Sure, Undisturbed
  <2> HIDE DEF w
  <2> QED
    BY <1>1, <1>2, <1>4, <2>1, <2>2, <2>3, LookSteady DEF w
<1> QED
  BY <1>1, <1>2, <1>3, <1>4, RefusedCases

LEMMA ApproachSteady ==
  ActsInv /\ SteadyInv /\ (PublishWindow \/ Arm \/ Begin \/ Focus \/ Check \/ Recheck \/ HandBack
                           \/ Replay \/ Escape \/ Notify)
    => WorkerSteady'
<1> SUFFICES ASSUME ActsInv, WorkerSteady,
                    \/ PublishWindow \/ Arm \/ Begin \/ Focus \/ Check \/ Recheck \/ HandBack
                    \/ Replay \/ Escape \/ Notify
             PROVE  WorkerSteady'
  BY DEF SteadyInv
<1>1. CASE PublishWindow \/ Arm \/ Replay \/ Escape \/ Notify
  <2>1. worker'.pc \in Ends
    BY <1>1 DEF PublishWindow, Arm, Replay, Escape, Notify, Works, Idle, GoTo, ActsInv, EnterType,
                AnyWorker, Ends
  <2> QED
    BY <2>1 DEF WorkerSteady, Ends
<1>2. CASE Begin
  <2>1. CASE worker'.pc = "idle"
    BY <2>1 DEF WorkerSteady
  <2>2. CASE worker'.pc # "idle"
    <3>1. worker.pc = "begin" /\ UNCHANGED screen /\ worker \in AnyWorker
      BY <1>2 DEF Begin, Works, screen, desktop, observers, ActsInv, EnterType
    <3>2. worker' \in {GiveBack("any"), [GoTo("focus") EXCEPT !.inert = paused]}
      BY <1>2, <2>2, <3>1 DEF Begin, Works, Idle, AnyWorker
    <3>3. /\ worker'.pc \in {"giveBack", "focus"} /\ worker'.window = worker.window
          /\ worker'.gen = worker.gen /\ (worker'.pc = "giveBack" => worker'.focus = "any")
      BY <3>1, <3>2 DEF GiveBack, GoTo, AnyWorker
    <3> QED
      BY <3>1, <3>3 DEF screen, WorkerSteady, Sure, Undisturbed, Reads, Looks
  <2> QED
    BY <2>1, <2>2
<1>3. CASE Focus
  <2>1. CASE Works(GiveBack("any"))
    BY <1>3, <2>1 DEF Focus, Works, GiveBack, desktop, observers, ActsInv, EnterType, AnyWorker,
                      WorkerSteady, Sure, Undisturbed, Reads, Looks
  <2>2. CASE Works([GoTo("gate") EXCEPT !.focus = control[fg]])
    BY <1>3, <2>2 DEF Focus, Works, GoTo, desktop, observers, ActsInv, EnterType, AnyWorker,
                      WorkerSteady, Sure, Undisturbed, Reads, Looks
  <2> QED
    BY <1>3, <2>1, <2>2 DEF Focus
<1>4. CASE Check /\ Current /\ Works(GoTo("recheck"))
  BY <1>4 DEF Check, Current, Works, GoTo, desktop, observers, ActsInv, EnterType, AnyWorker,
              WorkerSteady, Sure, Undisturbed, Reads, Looks
<1>5. CASE Recheck /\ Current /\ Works([GoTo(worker.next) EXCEPT !.raced = FALSE])
  BY <1>5 DEF Recheck, Current, Works, GoTo, desktop, observers, ActsInv, EnterType, AnyWorker,
              WorkerSteady, Sure, Undisturbed, Reads, Looks, Sinks
<1>6. CASE (Check \/ Recheck) /\ ~Current /\ Works(Refused(worker.how))
  <2>1. UNCHANGED screen /\ worker.pc \in Looks
    BY <1>6 DEF Check, Recheck, Works, screen, desktop, observers, Looks
  <2>2. worker'.gen = worker.gen
    BY <1>6, WorkerSilent DEF Work, Check, Recheck, Arm, SetDiscovery, Take, Silent
  <2>3. ~Undisturbed
    BY <1>6, <2>1 DEF Current, Undisturbed, WorkerSteady, Sure, Looks
  <2> QED
    BY <2>1, <2>2, <2>3 DEF WorkerSteady, Undisturbed, screen
<1>7. CASE (Check \/ Recheck) /\ Works(Refused(Unanswered))
  BY <1>7, UnansweredSteady DEF Check, Recheck, Looks
<1>8. CASE HandBack
  <2>1. CASE worker'.pc = "idle"
    BY <2>1 DEF WorkerSteady
  <2>2. CASE worker'.pc # "idle"
    <3>1. worker.pc = "giveBack" /\ UNCHANGED screen /\ worker \in AnyWorker
      BY <1>8 DEF HandBack, Works, screen, desktop, observers, ActsInv, EnterType
    <3>2. fg = worker.window /\ worker' = [GoTo("replay") EXCEPT !.expect = AnyText, !.raced = FALSE]
      BY <1>8, <2>2, <3>1 DEF HandBack, Works, Idle, AnyWorker
    <3>3. worker'.pc = "replay" /\ worker'.window = worker.window
      BY <3>1, <3>2 DEF GoTo, AnyWorker
    <3> QED
      BY <3>1, <3>2, <3>3 DEF screen, WorkerSteady, Sure, Reads, Looks
  <2> QED
    BY <2>1, <2>2
<1> QED
  BY <1>1, <1>2, <1>3, <1>4, <1>5, <1>6, <1>7, <1>8 DEF Check, Recheck

LEMMA GateSteady == ActsInv /\ SteadyInv /\ Gate => WorkerSteady'
<1> SUFFICES ASSUME ActsInv, WorkerSteady, Gate PROVE WorkerSteady'
  BY DEF SteadyInv
<1> DEFINE input == text[worker.window]
           read  == [worker EXCEPT !.input = input]
<1>0. worker.pc = "gate" /\ UNCHANGED screen
  BY DEF Gate, Works, screen, desktop, observers
<1>1. CASE worker' = GiveBack(worker.focus)
  BY <1>0, <1>1 DEF screen, ActsInv, EnterType, AnyWorker, WorkerSteady, Sure, Undisturbed, Reads,
                    Looks, GiveBack
<1>2. CASE Proved /\ worker' = [read EXCEPT !.pc = "resolve"]
  BY <1>0, <1>2 DEF screen, ActsInv, EnterType, AnyWorker, WorkerSteady, Sure, Undisturbed, Reads,
                    Looks, Proved
<1>3. CASE Proved /\ worker' = Checked(read, "replay", input)
  <2>1. /\ read \in AnyWorker /\ read.window = worker.window /\ read.gen = worker.gen
        /\ "replay" \in Sinks /\ input \in Texts \cup {AnyText}
    BY DEF ActsInv, EnterType, AnyWorker, Sinks
  <2>2. control[fg] = "address" /\ input = text[fg]
    BY <1>3 DEF Proved
  <2> HIDE DEF input, read
  <2> QED
    BY <1>0, <1>3, <2>1, <2>2, LookSteady
<1>4. CASE Proved /\ worker' = Checked(worker, "replay", AnyText)
  BY <1>0, <1>4, LookSteady DEF Proved, ActsInv, EnterType, Sinks
<1> QED
  BY <1>1, <1>2, <1>3, <1>4 DEF Gate, Works

LEMMA CallsSteady ==
  ActsInv /\ SteadyInv /\ (Resolve \/ Navigate \/ Open \/ Warn) => WorkerSteady'
<1> SUFFICES ASSUME ActsInv, WorkerSteady, Resolve \/ Navigate \/ Open \/ Warn
             PROVE  WorkerSteady'
  BY DEF SteadyInv
<1>0. /\ worker.pc \in {"resolve", "navigate", "open", "warn"} /\ UNCHANGED screen
      /\ worker \in AnyWorker
  BY DEF Resolve, Navigate, Open, Warn, Works, screen, desktop, observers, ActsInv, EnterType
<1>1. worker.pc \in Reads
  BY <1>0 DEF Reads
<1>2. CASE worker'.pc = "idle"
  BY <1>2 DEF WorkerSteady
<1>3. ASSUME NEW sink \in {"notify", "open", "write", "navigate", "warn"},
             worker' = Checked(worker, sink, worker.input)
      PROVE  WorkerSteady'
  <2>1. sink \in Sinks /\ sink # "escape"
    BY DEF Sinks
  <2> QED
    BY <1>0, <1>1, <1>3, <2>1, LookAgain
<1>4. ASSUME NEW h \in {"acted", "refused"},
             worker' = Checked([worker EXCEPT !.how = h], "escape", worker.input)
      PROVE  WorkerSteady'
  <2> DEFINE w == [worker EXCEPT !.how = h]
  <2>1. /\ w \in AnyWorker /\ w.how = h /\ w.gen = worker.gen /\ w.window = worker.window
        /\ w.input = worker.input
    BY <1>0 DEF AnyWorker
  <2>2. "escape" \in Sinks /\ h # "dropped"
    BY DEF Sinks
  <2> HIDE DEF w
  <2> QED
    BY <1>0, <1>1, <1>4, <2>1, <2>2, LookAgain DEF w
<1>5. CASE Resolve
  <2>1. \/ worker' = Idle("refused") 
        \/ \E sink \in {"notify", "open", "write", "navigate"} :
             worker' = Checked(worker, sink, worker.input)
    BY <1>5 DEF Resolve, Works
  <2> QED
    BY <1>0, <1>2, <1>3, <2>1, IdleFields
<1>6. CASE Navigate
  BY <1>0, <1>2, <1>3, <1>6, IdleFields DEF Navigate, Works
<1>7. CASE Open
  BY <1>3, <1>4, <1>7 DEF Open, Works
<1>8. CASE Warn
  BY <1>4, <1>8 DEF Warn, Works
<1> QED
  BY <1>5, <1>6, <1>7, <1>8

LEMMA WriteSteady == ActsInv /\ SteadyInv /\ Write => WorkerSteady'
<1> SUFFICES ASSUME ActsInv, WorkerSteady, Write PROVE WorkerSteady'
  BY DEF SteadyInv
<1> DEFINE w == [worker EXCEPT !.how = "dropped"]
<1>0. /\ w \in AnyWorker /\ w.window = worker.window /\ w.gen = worker.gen
      /\ "replay" \in Sinks /\ worker.pc = "write"
      /\ worker.input \in Texts /\ UNCHANGED <<fg, control, gen>>
  BY DEF ActsInv, EnterType, AnyWorker, Sinks, Write
<1>1. Undisturbed => fg = worker.window /\ control[fg] = "address" /\ text[fg] = worker.input
  BY <1>0 DEF WorkerSteady, Sure, Reads, Looks, Undisturbed
<1> HIDE DEF w
<1>2. ASSUME NEW e \in Texts, worker' = Checked(w, "replay", e)
      PROVE  /\ worker'.gen = worker.gen /\ worker'.window = worker.window
             /\ worker'.pc \in Looks /\ worker'.next = "replay" /\ worker'.expect = e
  BY <1>0, <1>2, CheckedFields DEF Looks
<1>3. ASSUME NEW e \in Texts, worker' = Checked(w, "replay", e), press' = press,
             Undisturbed => text'[fg] = e
      PROVE  WorkerSteady'
  BY <1>0, <1>1, <1>2, <1>3 DEF WorkerSteady, Undisturbed, Sure, Reads, Looks
<1>4. CASE /\ text' = [text EXCEPT ![worker.window] = Translate(worker.input)]
           /\ worker' = Wrote(worker, Translate(worker.input)) /\ press' = press
  <2>1. Translate(worker.input) \in Texts
    BY <1>0 DEF ActsInv, Resolved, Acts, Texts, Translate, Starts
  <2>2. Undisturbed => text'[fg] = Translate(worker.input)
    BY <1>0, <1>1, <1>4 DEF ActsInv, EnterType
  <2> QED
    BY <1>3, <1>4, <2>1, <2>2 DEF Wrote, w
<1>5. CASE worker' = Wrote(worker, worker.input) /\ text' = text /\ press' = press
  BY <1>0, <1>1, <1>3, <1>5 DEF Wrote, w
<1>6. CASE Disturb(TRUE)
  <2>1. ~press'.steady
    BY <1>6 DEF Disturb, ActsInv, EnterType, Presses
  <2> QED
    BY <2>1 DEF WorkerSteady, Undisturbed
<1> QED
  BY <1>4, <1>5, <1>6 DEF Write

\* The last look before a replay is a look at the whole text.
LEMMA WorkWhole ==
  ActsInv /\ SteadyInv /\ Work => WholeText'
<1> SUFFICES ASSUME ActsInv, SteadyInv, Work PROVE WholeText'
  OBVIOUS
<1>1. CASE \/ PublishWindow \/ Arm \/ Begin \/ Focus \/ Replay \/ Escape \/ Notify \/ Take
  <2>1. worker'.pc # "replay"
    BY <1>1 DEF PublishWindow, Arm, Begin, Focus, Replay, Escape, Notify, Take, Works, Idle, GoTo,
                GiveBack, ActsInv, EnterType, AnyWorker
  <2> QED
    BY <2>1 DEF WholeText
<1>2. CASE Gate \/ Resolve \/ Navigate \/ Open \/ Warn \/ Write
  BY <1>2, ZenonT(30) DEF Gate, Resolve, Navigate, Open, Warn, Write, Wrote, Works, Idle, Checked, GiveBack,
              ActsInv, EnterType, AnyWorker, WholeText
<1>3. CASE SetDiscovery
  BY <1>3 DEF SetDiscovery, WholeText, SteadyInv, desktop
<1>4. CASE Check
  BY <1>4 DEF Check, Works, GoTo, Refused, Checked, Idle, ActsInv, EnterType, AnyWorker, WholeText
<1>5. CASE Recheck
  BY <1>5 DEF Recheck, Current, Works, GoTo, Refused, Checked, Idle, ActsInv, EnterType, AnyWorker,
              WholeText, desktop
<1>6. CASE HandBack
  BY <1>6 DEF HandBack, Works, GoTo, Idle, ActsInv, EnterType, AnyWorker, WholeText, desktop
<1> QED
  BY <1>1, <1>2, <1>3, <1>4, <1>5, <1>6 DEF Work

LEMMA WorkSteady == ActsInv /\ SteadyInv /\ Work => SteadyInv'
<1> SUFFICES ASSUME ActsInv, SteadyInv, Work PROVE SteadyInv'
  OBVIOUS
<1>1. CASE SetDiscovery \/ Take
  BY <1>1, QueueWorkSteady
<1>2. CASE ~(SetDiscovery \/ Take)
  <2>1. queue' = queue /\ fg' = fg /\ gen' = gen /\ (press' = press \/ ~press'.steady)
    BY <1>2 DEF Work, PublishWindow, Arm, Begin, Focus, Gate, Resolve, Check, Recheck, HandBack,
                Replay, Write, Navigate, Open, Warn, Escape, Notify, Works, desktop, observers,
                Disturb, ActsInv, EnterType, Presses
  <2>2. QueueSteady'
    BY <2>1 DEF SteadyInv, QueueSteady
  <2>3. WorkerSteady'
    BY <1>2, ApproachSteady, GateSteady, CallsSteady, WriteSteady DEF Work
  <2> QED
    BY <2>2, <2>3, WorkWhole DEF SteadyInv
<1> QED
  BY <1>1, <1>2

\* Before the worker has taken its first request there is none to drop.
Newborn ==
  /\ press.steady => press.gen # 0
  /\ worker.pc \in Starting => worker.gen = 0

LEMMA NewbornKept == ActsInv /\ Newborn /\ [Next]_vars => Newborn'
<1> SUFFICES ASSUME ActsInv, Newborn, [Next]_vars PROVE Newborn'
  OBVIOUS
<1>1. press'.steady => (press'.gen = press.gen /\ press.steady) \/ press'.gen = gen + 1
  <2>1. CASE Ask
    BY <2>1 DEF Ask
  <2>2. CASE Pass \/ Repeat \/ DownUnhooked \/ (\E w \in Window : Refocus(w) \/ Switch(w))
             \/ \E t \in Texts : Type(t) \/ \E w \in Window : Edit(w, t)
    BY <2>2 DEF Pass, Repeat, DownUnhooked, Type, Edit, Refocus, Switch, Disturb, ActsInv,
                EnterType, Presses
  <2>3. CASE Release \/ Pause \/ LoseHook \/ Rearm \/ UNCHANGED vars
    BY <2>3 DEF Release, Pause, LoseHook, Rearm, observers, vars
  <2>4. CASE Write
    BY <2>4 DEF Write, Disturb, ActsInv, EnterType, Presses
  <2>5. CASE Work /\ ~Write
    BY <2>5 DEF Work, PublishWindow, Arm, SetDiscovery, Take, Begin, Focus, Gate, Resolve, Check,
                Recheck, HandBack, Replay, Navigate, Open, Warn, Escape, Notify, Works, observers
  <2> QED
    BY <2>1, <2>2, <2>3, <2>4, <2>5 DEF Next, Hook
<1>2. gen \in Nat
  BY DEF ActsInv, EnterType
<1>3. worker'.pc \in Starting => worker'.gen = worker.gen /\ worker.pc \in Starting
  <2>1. CASE Ask \/ Pause
    BY <2>1, RaceFields DEF Ask, Pause, ActsInv, EnterType
  <2>2. CASE Arm \/ SetDiscovery \/ Take
    BY <2>2 DEF Arm, SetDiscovery, Take, GoTo, ActsInv, EnterType, AnyWorker, Starting
  <2>3. CASE Work /\ ~Arm /\ ~SetDiscovery /\ ~Take
    BY <2>3, WorkerSilent DEF Silent
  <2>4. CASE ~Ask /\ ~Pause /\ ~Work
    BY <2>4, DesktopSilent DEF Silent, Next, Hook
  <2> QED
    BY <2>1, <2>2, <2>3, <2>4
<1> QED
  BY <1>1, <1>2, <1>3 DEF Newborn

LEMMA InitSteady == Init => SteadyInv /\ Newborn
<1> SUFFICES ASSUME Init PROVE SteadyInv /\ Newborn
  OBVIOUS
<1>1. worker.pc = "starting" /\ ~press.steady /\ worker.gen = 0
  BY DEF Init
<1> QED
  BY <1>1 DEF SteadyInv, WorkerSteady, QueueSteady, WholeText, Undisturbed, Newborn

\* The worker's reliance on what it saw is justified for as long as nothing
\* disturbs it.
THEOREM SteadyInvariance == Spec => [](SteadyInv /\ Newborn)
<1>1. ActsInv /\ SteadyInv /\ [Next]_vars => SteadyInv'
  BY OutsideSteady, WindowThreadSteady, WorkSteady DEF Next
<1> QED
  BY <1>1, NewbornKept, InitSteady, RequestsStayFresh, PTL DEF Spec

\* A replayed Enter submits what was read or its whole translation, however the
\* write and the user interleave (apply_translated_enter, replay_enter_if_current).
THEOREM WholeTextSubmitted == Spec => SubmitsWholeText
<1> DEFINE A == worker.pc = "replay" /\ worker'.pc = "idle" /\ ~worker.raced =>
                  /\ fg = worker.window
                  /\ worker.expect \in {AnyText, text[fg]}
<1>1. SteadyInv => A
  BY DEF SteadyInv, WholeText
<1> QED
  BY <1>1, SteadyInvariance, PTL DEF SubmitsWholeText

\* A refused look that ends the request says how.
LEMMA RefusedEnds ==
  ASSUME worker \in AnyWorker, NEW how \in Outcomes, Refused(how).pc = "idle"
  PROVE  Refused(how).how = how
<1>1. worker.next \in Sinks /\ worker.input \in Texts
  BY DEF AnyWorker
<1>2. ASSUME NEW sink \in Sinks, Refused(how) = Checked(With(how), sink, worker.input)
      PROVE  FALSE
  <2> DEFINE w == With(how)
  <2>1. w \in AnyWorker
    BY WithFields
  <2> HIDE DEF w
  <2>2. Checked(w, sink, worker.input).pc \in {"check", "recheck"}
    BY <1>1, <2>1, CheckedFields
  <2> QED
    BY <1>2, <2>2 DEF w
<1>3. Refused(how) = Idle(how)
  BY <1>1, <1>2, RefusedCases DEF Sinks
<1>4. Idle(how).how = how
  BY DEF Idle, AnyWorker
<1> QED
  BY <1>3, <1>4

\* A request is given up only where a look finds a change, or a call has failed:
\* no look that is answered finds a change unless the window, the control or the
\* text has changed since the press, or a later key was counted, and no other way
\* through the worker ends without a replay, an act or a word.
THEOREM DroppedForAReason == Spec => DroppedOnlyForCause
<1> DEFINE A == Drops => Overtaken \/ worker'.how = "failed"
<1>1. ActsInv /\ SteadyInv /\ Newborn /\ [Next]_vars => [A]_vars
  <2> SUFFICES ASSUME ActsInv, SteadyInv, Newborn, Next, Drops, Undisturbed,
                      worker'.how # "failed"
               PROVE  FALSE
    BY DEF Undisturbed, Overtaken
  <2>1. worker.pc # "idle" /\ worker'.pc = "idle" /\ worker'.how = "dropped"
    BY DEF Drops
  <2>2. CASE Hook \/ (\E t \in Texts : Type(t) \/ \E w \in Window : Edit(w, t))
             \/ (\E w \in Window : Refocus(w) \/ Switch(w)) \/ Pause \/ LoseHook \/ Rearm
    <3>1. worker'.pc = worker.pc
      BY <2>2 DEF Hook, Ask, Pass, Repeat, DownUnhooked, Release, Type, Edit, Refocus, Switch,
                  Pause, LoseHook, Rearm, Race, ActsInv, EnterType, AnyWorker
    <3> QED
      BY <2>1, <3>1
  <2>3. CASE Begin
    BY <2>1, <2>3 DEF Begin, Changed, Works, Idle, GoTo, GiveBack, ActsInv, EnterType, AnyWorker,
                      SteadyInv, WorkerSteady, Sure, Undisturbed
  <2>4. CASE Check \/ Recheck
    <3>1. worker.pc \in Looks
      BY <2>4 DEF Check, Recheck, Looks
    <3>2. Current
      BY <3>1 DEF SteadyInv, WorkerSteady, Sure, Current, Undisturbed, Looks
    <3>3. ~Works(Refused(Unanswered))
      <4> SUFFICES ASSUME worker' = Refused(Unanswered) PROVE FALSE
        BY DEF Works
      <4>1. worker \in AnyWorker /\ Unanswered \in Outcomes /\ Unanswered # "dropped"
        BY OutcomesLeft DEF ActsInv, EnterType, Unanswered
      <4>2. Refused(Unanswered).how = Unanswered
        BY <2>1, <4>1, RefusedEnds
      <4> QED
        BY <2>1, <4>1, <4>2
    <3> QED
      BY <2>1, <2>4, <3>2, <3>3 DEF Check, Recheck, Works, GoTo, ActsInv, EnterType, AnyWorker,
                                    Sinks
  <2>5. CASE HandBack
    BY <2>1, <2>5 DEF HandBack, Works, Idle, GoTo, ActsInv, EnterType, AnyWorker, SteadyInv,
                      WorkerSteady, Sure, Undisturbed
  <2>6. CASE Escape
    <3>1. worker.how # "dropped"
      BY <2>6 DEF Escape, SteadyInv, WorkerSteady, Sure, Reads, Looks, Undisturbed
    <3> QED
      BY <2>1, <2>6, <3>1 DEF Escape, Works, Idle, ActsInv, EnterType, AnyWorker
  <2>7. CASE Arm
    BY <2>7 DEF Arm, Newborn, Starting, Undisturbed
  <2>8. CASE \/ PublishWindow \/ SetDiscovery \/ Take \/ Focus \/ Gate \/ Resolve \/ Replay
             \/ Write \/ Navigate \/ Open \/ Warn \/ Notify
    BY <2>1, <2>8 DEF PublishWindow, SetDiscovery, Take, Focus, Gate, Resolve, Replay, Write,
                      Navigate, Open, Warn, Notify, Works, Idle, GoTo, GiveBack, Checked, Wrote,
                      ActsInv, EnterType, AnyWorker
  <2> QED
    BY <2>2, <2>3, <2>4, <2>5, <2>6, <2>7, <2>8 DEF Next, Work
<1> QED
  BY <1>1, RequestsStayFresh, SteadyInvariance, PTL DEF Spec, DroppedOnlyForCause

===============================================================================
