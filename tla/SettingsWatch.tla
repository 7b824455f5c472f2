---------------------------- MODULE SettingsWatch -----------------------------
(***************************************************************************)
(* How the settings window hears about state it did not change             *)
(* (crates/fsw-settings/src/state_watch.rs and the messages of main.rs).    *)
(* A listener thread turns the broadcast into a manual-reset event, a       *)
(* background thread waits for it or for the poll interval, and the UI      *)
(* thread starts reads of the state on further threads, whose results come  *)
(* back in any order.  Other processes write the state meanwhile.           *)
(***************************************************************************)
EXTENDS Naturals

CONSTANTS
  State,      \* what State::read may return
  MaxChanges  \* bound: writes, refreshes, and the window leaving the screen

ASSUME WatchAssumption == State # {} /\ MaxChanges \in Nat

VARIABLES
  stored,     \* the state of the machine
  untold,     \* writes that landed and whose broadcast is still to be posted
  shown,      \* SettingsModel.state
  listening, signal,  \* the listener's window exists; SIGNAL is set
  turn,       \* one turn of the watch: wait(), then ExternalStateChanged
  poll,       \* Wake::Poll, or Wake::Broadcast
  read, owed, \* the read of ReadCoalescer, and its flag
  refresh,    \* a read that no coalescer orders
  visible,    \* the window is on screen
  unseen,     \* observer: the window could not have seen the last change
  changes

watch == <<listening, signal, turn, poll>>
reads == <<read, owed, refresh>>
windowVars == <<stored, untold, shown, watch, reads, visible, unseen, changes>>

-----------------------------------------------------------------------------
Change == changes < MaxChanges /\ changes' = changes + 1

\* A read that runs on a background thread, or whose result is posted.
None      == [stage |-> "none"]
Running   == [stage |-> "running"]
Posted(s) == [stage |-> "posted", state |-> s]
Reads     == {None, Running} \cup {Posted(s) : s \in State}

-----------------------------------------------------------------------------
(* The writers (settings_write.rs, announce).                               *)

Write(s) ==
  /\ Change /\ stored # s
  /\ stored' = s /\ untold' = untold + 1
  /\ UNCHANGED <<shown, watch, reads, visible, unseen>>

\* The first state is read before the listener exists.
Announce ==
  /\ untold > 0
  /\ untold' = untold - 1
  /\ signal' = (signal \/ listening)
  /\ unseen' = (unseen \/ ~listening)
  /\ UNCHANGED <<stored, shown, listening, turn, poll, reads, visible, changes>>

\* reg.exe, or an older staged fwdslash.
SilentWrite(s) ==
  /\ Change /\ stored # s
  /\ stored' = s /\ unseen' = TRUE
  /\ UNCHANGED <<untold, shown, watch, reads, visible>>

-----------------------------------------------------------------------------
(* state_watch.rs.                                                          *)

Watch == UNCHANGED <<stored, untold, shown, visible, unseen, changes>>

Listen ==
  /\ ~listening /\ listening' = TRUE
  /\ Watch /\ UNCHANGED <<signal, turn, poll, reads>>

Signalled ==
  /\ turn = "wait" /\ signal
  /\ turn' = "drain"
  /\ Watch /\ UNCHANGED <<listening, signal, poll, reads>>

\* The event is reset before the read that follows, never after it.
Drain ==
  /\ turn = "drain"
  /\ signal' = FALSE
  /\ turn' = "woke" /\ poll' = FALSE
  /\ Watch /\ UNCHANGED <<listening, reads>>

Poll ==
  /\ turn = "wait" /\ ~signal
  /\ turn' = "woke" /\ poll' = TRUE
  /\ Watch /\ UNCHANGED <<listening, signal, reads>>

-----------------------------------------------------------------------------
(* main.rs, SettingsModel::update.                                          *)

\* ExternalStateChanged: the next turn is armed before every early return.
RearmedByRead == turn' = IF read = None THEN "wait" ELSE "stopped"
Rearmed == turn' = "wait"

\* should_read.
WantedOnBroadcast == ~poll
Wanted == ~poll \/ visible

\* ReadCoalescer::wake.
Woke ==
  /\ turn = "woke"
  /\ Rearmed
  /\ IF ~Wanted THEN UNCHANGED <<read, owed>>
     ELSE IF read = None THEN read' = Running /\ UNCHANGED owed
     ELSE owed' = TRUE /\ UNCHANGED read
  /\ Watch /\ UNCHANGED <<listening, signal, poll, refresh>>

\* State::read.  What a refresh read earlier may still be on its way.
ReadState ==
  /\ read = Running
  /\ read' = Posted(stored)
  /\ unseen' = (refresh # None)
  /\ UNCHANGED <<stored, untold, shown, watch, owed, refresh, visible, changes>>

\* StateRefreshed, ReadCoalescer::finished.
FinishedForgets == read' = None /\ owed' = FALSE
Finished == read' = (IF owed THEN Running ELSE None) /\ owed' = FALSE
StateRefreshed ==
  /\ read.stage = "posted"
  /\ shown' = read.state
  /\ Finished
  /\ UNCHANGED <<stored, untold, watch, refresh, visible, unseen, changes>>

\* After an action of the user's, or on demand.
Refresh ==
  /\ Change /\ refresh = None
  /\ refresh' = Running
  /\ UNCHANGED <<stored, untold, shown, watch, read, owed, visible, unseen>>

RefreshState ==
  /\ refresh = Running
  /\ refresh' = Posted(stored)
  /\ Watch /\ UNCHANGED <<watch, read, owed>>

StateLoaded ==
  /\ refresh.stage = "posted"
  /\ shown' = refresh.state /\ refresh' = None
  /\ UNCHANGED <<stored, untold, watch, read, owed, visible, unseen, changes>>

\* The window is minimized or restored.
Minimize ==
  /\ Change /\ visible' = ~visible
  /\ UNCHANGED <<stored, untold, shown, watch, reads, unseen>>

-----------------------------------------------------------------------------
WatchInit ==
  /\ stored \in State /\ untold = 0 /\ shown = stored
  /\ listening = FALSE /\ signal = FALSE /\ turn = "wait" /\ poll = FALSE
  /\ read = None /\ owed = FALSE /\ refresh = None
  /\ visible = TRUE /\ unseen = FALSE /\ changes = 0

Turn      == Signalled \/ Drain \/ Poll \/ Woke
Coalesced == ReadState \/ StateRefreshed
Refreshed == RefreshState \/ StateLoaded

WatchNext ==
  \/ \E s \in State : Write(s) \/ SilentWrite(s)
  \/ Announce \/ Listen \/ Turn \/ Coalesced \/ Refresh \/ Refreshed \/ Minimize

\* The listener's thread, the watch, and the two reads: each is a thread of
\* its own, and the UI thread handles what is posted to it.
Fairness ==
  /\ WF_windowVars(Announce) /\ WF_windowVars(Listen)
  /\ WF_windowVars(Turn) /\ WF_windowVars(Coalesced) /\ WF_windowVars(Refreshed)

WatchSpec == WatchInit /\ [][WatchNext]_windowVars /\ Fairness

-----------------------------------------------------------------------------
(* Properties.                                                              *)

WatchTypeOK ==
  /\ stored \in State /\ shown \in State /\ untold \in 0..MaxChanges
  /\ {listening, signal, poll, owed, visible, unseen} \subseteq BOOLEAN
  /\ turn \in {"wait", "drain", "woke"}
  /\ read \in Reads /\ refresh \in Reads
  /\ changes \in 0..MaxChanges

\* A window whose watch is idle shows the state of the machine, minimized or not:
\* no broadcast is lost between two turns, during a read or while one is owed,
\* unless nobody announced the change, or announced it before the listener
\* existed, or a refresh was under way while the watch read (ReadCoalescer, wait).
WindowFollows ==
  /\ untold = 0 /\ ~signal /\ turn = "wait"
  /\ read = None /\ refresh = None /\ ~unseen
  => shown = stored

\* A window that stays on screen ends up with the state of the machine, also
\* after writers that announce nothing and refreshes that overtake the watch.
VisibleCatchesUp == <>[]visible => <>[](shown = stored)

\* A window that heard of the last change ends up with it, also when it stays
\* minimized: the watch outlives every wake and pays what it owes.
HeardCatchesUp ==
  <>[](untold = 0 /\ refresh = None /\ ~unseen) => <>[](shown = stored)

\* However broadcasts, polls, refreshes and minimizing overlap, the window ends
\* up with the state of the machine while it is looked at or was told.
CatchesUp == VisibleCatchesUp /\ HeardCatchesUp

===============================================================================
