---------------------------- MODULE EnterPipeline -----------------------------
(***************************************************************************)
(* The Enter key of an address bar (crates/fsw-broker/src/main.rs).  The   *)
(* low-level keyboard hook runs on the broker's window thread, swallows an *)
(* Enter and posts a request; the worker thread re-proves the window, the  *)
(* control, its text and the key generation by calls into other processes, *)
(* then rewrites, opens, or hands the Enter back.  Any of these calls may  *)
(* fail.  The user goes on typing and switching windows between any two of *)
(* them, another component may pause the broker, and Windows may remove    *)
(* the hook without notice.                                                *)
(***************************************************************************)
EXTENDS Naturals, Sequences, FiniteSets

CONSTANTS
  Window,      \* top-level windows
  KindOf,      \* what attest_foreground_surface makes of each of them
  Typed,       \* texts a user may leave in an address bar
  Slash,       \* those that start with a slash
  AnyText,     \* expected_value: None
  MaxEvents    \* bound: key-downs, edits, switches, pauses, hook losses, and
               \* writes that leave something else in the control

ASSUME EnterAssumption ==
  /\ KindOf \in [Window -> {"path", "search", "browser", "imposter", "other"}]
  /\ Slash \subseteq Typed
  /\ AnyText \notin [typed : Typed, translated : BOOLEAN]
  /\ MaxEvents \in Nat

VARIABLES
  fg, text, control,  \* the foreground window; what each window has focused
  key,         \* the physical Enter key, and the application's view of it
  hook,        \* KEYBOARD_HOOK, ENTER_DOWN, SUPPRESS_ENTER_UP
  gen,         \* KEYDOWN_GENERATION
  paused, discovery,  \* PAUSED; browser discovery is armed
  queue,       \* the messages posted to the worker's window
  worker,      \* the worker thread and its request
  \* Observers.
  press,       \* the last swallowed Enter and what has changed since
  missed, lost,  \* the hook came back with a wrong view of the key, or came
               \* while it was held; a press was swallowed without a request
  events

desktop   == <<fg, text, control>>
observers == <<press, missed, lost>>
vars == <<desktop, key, hook, gen, paused, discovery, queue, worker, observers, events>>

-----------------------------------------------------------------------------
\* A text as typed, or as the broker translated it.
Texts == {t \in [typed : Typed, translated : BOOLEAN] : t.translated => t.typed \in Slash}
Plain(t)     == [typed |-> t, translated |-> FALSE]
Starts(t)    == t.typed \in Slash /\ ~t.translated
Translate(t) == [t EXCEPT !.translated = TRUE]

Controls == {"address", "page"}    \* an editable path control, or anything else
Requests == [window : Window, gen : 1..MaxEvents]
Messages == Requests \cup [discovery : BOOLEAN]

Sinks   == {"replay", "write", "open", "navigate", "warn", "escape", "notify"}
PCs     == {"starting", "started", "idle", "begin", "focus", "gate", "resolve",
            "check", "recheck", "giveBack"} \cup Sinks
Outcomes == {"dropped", "failed", "replayed", "acted", "refused"}
Workers ==
  [pc : PCs, window : Window, gen : 0..MaxEvents, focus : Controls \cup {"any"},
   input : Texts, expect : Texts \cup {AnyText}, next : Sinks,
   how : Outcomes, raced : BOOLEAN, inert : BOOLEAN]

Kind    == KindOf[worker.window]
Up      == worker.pc # "starting"
Event   == events < MaxEvents /\ events' = events + 1

\* What the environment does while the worker is between its last look at the
\* request and the call that acts on it.
Race == worker' = [worker EXCEPT !.raced = @ \/ worker.pc \in Sinks]
Disturb(silent) == press' = [press EXCEPT !.steady = FALSE, !.silent = @ \/ silent]

-----------------------------------------------------------------------------
(* low_level_keyboard_proc: a key-down that is not a replay.                *)

Candidate(w) == KindOf[w] # "other"
Flags(down, suppress) == hook' = [hook EXCEPT !.down = down, !.suppress = suppress]

StampBefore == gen
Stamp == gen + 1

\* The request is posted and the Enter swallowed.
Ask ==
  /\ Event /\ hook.live /\ ~hook.down
  /\ ~paused /\ Candidate(fg) /\ Up
  /\ gen' = gen + 1
  /\ queue' = Append(queue, [window |-> fg, gen |-> Stamp])
  /\ Flags(TRUE, TRUE)
  /\ key' = [key EXCEPT !.down = TRUE]
  /\ press' = [gen |-> gen + 1, text |-> text[fg], steady |-> TRUE, silent |-> FALSE]
  /\ Race
  /\ UNCHANGED <<desktop, paused, discovery, missed, lost>>

\* Not a candidate, no worker, or the post failed.
Pass ==
  /\ Event /\ hook.live /\ ~hook.down
  /\ gen' = gen + 1
  /\ Flags(TRUE, hook.suppress)
  /\ key' = [key EXCEPT !.down = TRUE, !.app = TRUE]
  /\ Disturb(FALSE) /\ Race
  /\ UNCHANGED <<desktop, paused, discovery, queue, missed, lost>>

\* ENTER_DOWN was set: the auto-repeat of a held Enter, or a stale flag.
Repeat ==
  /\ Event /\ hook.live /\ hook.down
  /\ gen' = gen + 1
  /\ key' = [down |-> TRUE, app |-> key.app \/ ~hook.suppress]
  /\ IF key.down THEN UNCHANGED <<press, lost>>
     ELSE Disturb(FALSE) /\ lost' = (lost \/ hook.suppress)
  /\ Race
  /\ UNCHANGED <<desktop, hook, paused, discovery, queue, missed>>

\* Without a live hook the application gets the key and nothing counts it.
DownUnhooked ==
  /\ Event /\ ~hook.live
  /\ key' = [down |-> TRUE, app |-> TRUE]
  /\ Disturb(TRUE) /\ Race
  /\ UNCHANGED <<desktop, hook, gen, paused, discovery, queue, missed, lost>>

\* SUPPRESS_ENTER_UP is taken, not read.
Released == Flags(FALSE, FALSE)

Release ==
  /\ key.down
  /\ IF hook.live
     THEN /\ Released
          /\ key' = [down |-> FALSE, app |-> key.app /\ hook.suppress]
     ELSE /\ key' = [down |-> FALSE, app |-> FALSE]
          /\ UNCHANGED hook
  /\ UNCHANGED <<desktop, gen, paused, discovery, queue, worker, observers, events>>

\* Any other key, counted by a live hook.
Type(t) ==
  /\ Event
  /\ text' = [text EXCEPT ![fg] = t]
  /\ gen' = IF hook.live THEN gen + 1 ELSE gen
  /\ Disturb(~hook.live) /\ Race
  /\ UNCHANGED <<fg, control, key, hook, paused, discovery, queue, missed, lost>>

-----------------------------------------------------------------------------
(* The rest of the desktop: the mouse, the applications.                    *)

Edit(w, t) ==
  /\ Event /\ text[w] # t
  /\ text' = [text EXCEPT ![w] = t]
  /\ Disturb(TRUE) /\ Race
  /\ UNCHANGED <<fg, control, key, hook, gen, paused, discovery, queue, missed, lost>>

Refocus(w) ==
  /\ Event
  /\ control' = [control EXCEPT ![w] = IF @ = "page" THEN "address" ELSE "page"]
  /\ Disturb(FALSE) /\ Race
  /\ UNCHANGED <<fg, text, key, hook, gen, paused, discovery, queue, missed, lost>>

Switch(w) ==
  /\ Event /\ fg # w
  /\ fg' = w
  /\ Disturb(FALSE) /\ Race
  /\ UNCHANGED <<text, control, key, hook, gen, paused, discovery, queue, missed, lost>>

-----------------------------------------------------------------------------
(* The window thread outside the hook.                                      *)

KeepFlags == [hook EXCEPT !.installed = FALSE, !.live = FALSE]
RemoveHook == [installed |-> FALSE, live |-> FALSE, down |-> FALSE, suppress |-> FALSE]

\* apply_paused.  SetWindowsHookEx may fail on a resume.
Pause ==
  /\ Event
  /\ paused' = ~paused
  /\ queue' = IF Up THEN Append(queue, [discovery |-> paused]) ELSE queue
  /\ IF ~paused THEN hook' = RemoveHook /\ UNCHANGED missed
     ELSE \E armed \in BOOLEAN :
            /\ hook' = [hook EXCEPT !.installed = armed, !.live = armed]
            /\ missed' = (missed \/ (armed /\ key.down))
  /\ UNCHANGED <<desktop, key, gen, discovery, worker, press, lost>>

\* Windows drops a hook whose callback was late; the handle stays.
LoseHook ==
  /\ Event /\ hook.live
  /\ hook' = [hook EXCEPT !.live = FALSE]
  /\ UNCHANGED <<desktop, key, gen, paused, discovery, queue, worker, observers>>

\* health_tick, once a minute.
Rearm ==
  /\ ~paused /\ ~hook.live
  /\ hook' = [hook EXCEPT !.installed = TRUE, !.live = TRUE]
  /\ missed' = (missed \/ hook.down \/ key.down)
  /\ UNCHANGED <<desktop, key, gen, paused, discovery, queue, worker, press, lost, events>>

-----------------------------------------------------------------------------
(* The worker.                                                              *)

Idle(how)  == [worker EXCEPT !.pc = "idle", !.how = how]
Works(w)   == /\ worker' = w
              /\ UNCHANGED <<desktop, key, hook, gen, paused, discovery, queue, observers, events>>
GoTo(p)    == [worker EXCEPT !.pc = p]
\* One look suffices for a browser, other surfaces are looked at twice.
Checked(w, sink, expect) ==
  [w EXCEPT !.pc = IF Kind = "browser" THEN "recheck" ELSE "check",
            !.next = sink, !.expect = expect, !.raced = FALSE]
GiveBack(focus) == [worker EXCEPT !.pc = "giveBack", !.focus = focus]

\* worker_thread_main: publish the window, then look at PAUSED.
PublishWindow ==
  /\ worker.pc = "starting"
  /\ Works(GoTo("started"))
ArmAlways ==
  /\ worker.pc = "started"
  /\ discovery' = TRUE
  /\ worker' = GoTo("idle")
  /\ UNCHANGED <<desktop, key, hook, gen, paused, queue, observers, events>>
Arm ==
  /\ worker.pc = "started"
  /\ discovery' = ~paused
  /\ worker' = GoTo("idle")
  /\ UNCHANGED <<desktop, key, hook, gen, paused, queue, observers, events>>

SetDiscovery ==
  /\ worker.pc = "idle" /\ queue # <<>> /\ Head(queue) \notin Requests
  /\ discovery' = Head(queue).discovery
  /\ queue' = Tail(queue)
  /\ UNCHANGED <<desktop, key, hook, gen, paused, worker, observers, events>>

\* process_enter_hwnd: a window that does not attest gets its Enter back, also
\* when it is the asking that failed.
Take ==
  /\ worker.pc = "idle" /\ queue # <<>> /\ Head(queue) \in Requests
  /\ queue' = Tail(queue)
  /\ \E p \in {"giveBack", "begin"} :
       /\ p = "begin" => KindOf[Head(queue).window] # "imposter"
       /\ worker' = [worker EXCEPT
                  !.pc = p, !.window = Head(queue).window, !.gen = Head(queue).gen, !.focus = "any",
                  !.expect = AnyText, !.how = "dropped", !.raced = FALSE, !.inert = FALSE]
  /\ UNCHANGED <<desktop, key, hook, gen, paused, discovery, observers, events>>

\* The first look of process_enter_request and process_browser_enter_request.  An
\* attestation that fails is taken for another window.
Changed == fg # worker.window \/ (Kind = "browser" /\ gen # worker.gen)
BeginDropsPaused ==
  /\ worker.pc = "begin"
  /\ \/ Works(IF Changed \/ (paused /\ Kind # "browser") THEN Idle("dropped")
              ELSE [GoTo("focus") EXCEPT !.inert = paused])
     \/ Works(Idle("failed"))
Begin ==
  /\ worker.pc = "begin"
  /\ \/ Works(IF Changed THEN Idle("dropped")
              ELSE IF paused /\ Kind # "browser" THEN GiveBack("any")
              ELSE [GoTo("focus") EXCEPT !.inert = paused])
     \/ Works(Idle("failed"))

\* GetFocusedElement, which may fail.
Focus ==
  /\ worker.pc = "focus"
  /\ \/ Works(GiveBack("any"))
     \/ Works([GoTo("gate") EXCEPT !.focus = control[fg]])

\* The control is proved and its text read; capture_stable_browser_input may
\* run out of time, and then the Enter goes back whatever the text is.  A held
\* modifier or an unreadable text gives it back too.
Proved == fg = worker.window /\ control[fg] = "address" /\ worker.focus = "address"
Gate ==
  /\ worker.pc = "gate"
  /\ IF ~Proved THEN Works(GiveBack(worker.focus))
     ELSE LET input == text[worker.window]
              read  == [worker EXCEPT !.input = input]
          IN \/ /\ Kind # "browser" \/ gen = worker.gen
                /\ Works(IF Starts(input) THEN [read EXCEPT !.pc = "resolve"]
                         ELSE Checked(read, "replay", input))
             \/ Kind = "browser" /\ Works(Checked(worker, "replay", AnyText))
             \/ Works(GiveBack(worker.focus))

\* The distributions of the moment decide: no route, a route, or the root of
\* the provider.  Only a browser is told of a failure without another look.
Resolve ==
  /\ worker.pc = "resolve"
  /\ \/ Works(IF Kind = "browser" THEN Idle("refused")
              ELSE Checked(worker, "notify", worker.input))
     \/ Works(Checked(worker, IF Kind = "search" THEN "open" ELSE "write", worker.input))
     \/ Kind = "path" /\ Works(Checked(worker, "navigate", worker.input))

\* request_input_is_current, current_enter_input, browser_capture_sample.
CurrentAnyKey ==
  /\ fg = worker.window /\ control[fg] = "address"
  /\ worker.expect \in {AnyText, text[fg]}
Current ==
  /\ fg = worker.window /\ control[fg] = "address"
  /\ worker.expect \in {AnyText, text[fg]}
  /\ gen = worker.gen

\* A request that changed is dropped; a navigation falls through to the write,
\* a failed open to its warning, and Escape is tried after either.
Refused(how) ==
  LET w == [worker EXCEPT !.how = how] IN
  CASE worker.next = "navigate" -> Checked(w, "write", worker.input)
    [] worker.next = "open"     -> Checked(w, "warn", worker.input)
    [] worker.next = "warn"     -> Checked(w, "escape", worker.input)
    [] OTHER                    -> Idle(how)

\* A look is a dozen calls into the other process: surface_is_current,
\* GetFocusedElement, CompareElements, the properties and the value.  When one of
\* them fails nothing is known, and the code does as if something had changed.
Unanswered == IF worker.how = "dropped" THEN "failed" ELSE worker.how
Check ==
  /\ worker.pc = "check"
  /\ \/ Works(IF Current THEN GoTo("recheck") ELSE Refused(worker.how))
     \/ Works(Refused(Unanswered))
Recheck ==
  /\ worker.pc = "recheck"
  /\ \/ Works(IF Current THEN [GoTo(worker.next) EXCEPT !.raced = FALSE]
              ELSE Refused(worker.how))
     \/ Works(Refused(Unanswered))

\* replay_enter_for_window asks Windows alone; replay_enter_if_current also asks
\* the other process what has the focus, and drops the Enter without an answer.
HandBack ==
  /\ worker.pc = "giveBack"
  /\ \/ Works(IF /\ gen = worker.gen /\ fg = worker.window
                 /\ worker.focus \in {"any", control[fg]}
              THEN [GoTo("replay") EXCEPT !.expect = AnyText, !.raced = FALSE]
              ELSE Idle("dropped"))
     \/ worker.focus # "any" /\ Works(Idle("failed"))

-----------------------------------------------------------------------------
(* The calls that act.                                                      *)

\* SendInput of a marked Enter, which the hook lets through uncounted.  When it
\* fails that is logged, and no more.
Replay ==
  /\ worker.pc = "replay"
  /\ \/ key' = [key EXCEPT !.app = FALSE] /\ worker' = Idle("replayed")
     \/ UNCHANGED key /\ worker' = Idle("failed")
  /\ UNCHANGED <<desktop, hook, gen, paused, discovery, queue, observers, events>>

\* SetValue takes effect, is declined, or fails and leaves some other text.
WroteUnchecked(w, value) == [w EXCEPT !.pc = "replay", !.expect = value, !.raced = FALSE]
Wrote(w, value) == Checked([w EXCEPT !.how = "dropped"], "replay", value)
Write ==
  /\ worker.pc = "write"
  /\ \/ /\ text' = [text EXCEPT ![worker.window] = Translate(worker.input)]
        /\ worker' = Wrote(worker, Translate(worker.input))
        /\ UNCHANGED <<press, events>>
     \/ /\ worker' = Wrote(worker, worker.input)
        /\ UNCHANGED <<text, press, events>>
     \/ \E t \in Texts : /\ Event
                         /\ text' = [text EXCEPT ![worker.window] = t]
                         /\ worker' = Wrote(worker, worker.input)
                         /\ Disturb(TRUE)
  /\ UNCHANGED <<fg, control, key, hook, gen, paused, discovery, queue, missed, lost>>

Navigate ==
  /\ worker.pc = "navigate"
  /\ \/ Works(Idle("acted"))
     \/ Works(Checked(worker, "write", worker.input))

Open ==
  /\ worker.pc = "open"
  /\ \/ Works(Checked([worker EXCEPT !.how = "acted"], "escape", worker.input))
     \/ Works(Checked(worker, "warn", worker.input))

Warn ==
  /\ worker.pc = "warn"
  /\ Works(Checked([worker EXCEPT !.how = "refused"], "escape", worker.input))

\* Escape closes the flyout; a notification says what went wrong.
Escape == worker.pc = "escape" /\ Works(Idle(worker.how))
Notify == worker.pc = "notify" /\ Works(Idle("refused"))

-----------------------------------------------------------------------------
Init ==
  /\ fg \in Window
  /\ \E t \in Typed : text = [w \in Window |-> Plain(t)]
  /\ control = [w \in Window |-> "address"]
  /\ key = [down |-> FALSE, app |-> FALSE]
  /\ paused \in BOOLEAN
  /\ hook = [installed |-> ~paused, live |-> ~paused, down |-> FALSE, suppress |-> FALSE]
  /\ gen = 0 /\ discovery = FALSE /\ queue = <<>>
  /\ worker = [pc |-> "starting", window |-> fg, gen |-> 0, focus |-> "any",
               input |-> text[fg], expect |-> AnyText, next |-> "replay",
               how |-> "dropped", raced |-> FALSE, inert |-> FALSE]
  /\ press = [gen |-> 0, text |-> text[fg], steady |-> FALSE, silent |-> FALSE]
  /\ missed = FALSE /\ lost = FALSE /\ events = 0

Hook == Ask \/ Pass \/ Repeat \/ DownUnhooked \/ Release
Work == PublishWindow \/ Arm \/ SetDiscovery \/ Take \/ Begin \/ Focus \/ Gate
        \/ Resolve \/ Check \/ Recheck \/ HandBack \/ Replay \/ Write \/ Navigate
        \/ Open \/ Warn \/ Escape \/ Notify

Next ==
  \/ Hook \/ Work
  \/ \E t \in Texts : Type(t) \/ \E w \in Window : Edit(w, t)
  \/ \E w \in Window : Refocus(w) \/ Switch(w)
  \/ Pause \/ LoseHook \/ Rearm

Spec == Init /\ [][Next]_vars

-----------------------------------------------------------------------------
(* Properties.                                                              *)

TypeOK ==
  /\ fg \in Window
  /\ text \in [Window -> Texts] /\ control \in [Window -> Controls]
  /\ key \in [down : BOOLEAN, app : BOOLEAN]
  /\ hook \in [installed : BOOLEAN, live : BOOLEAN, down : BOOLEAN, suppress : BOOLEAN]
  /\ gen \in 0..MaxEvents /\ events \in 0..MaxEvents
  /\ paused \in BOOLEAN /\ discovery \in BOOLEAN
  /\ queue \in Seq(Messages)
  /\ worker \in Workers
  /\ press \in [gen : 0..MaxEvents, text : Texts, steady : BOOLEAN, silent : BOOLEAN]
  /\ missed \in BOOLEAN /\ lost \in BOOLEAN

\* The application never gets the Enter that was swallowed, and nothing else was
\* done or said instead.
Drops == worker.pc # "idle" /\ worker'.pc = "idle" /\ worker'.how \in {"dropped", "failed"}

\* The request's window, control or text has changed since the press, or a later
\* key was counted.
Overtaken == worker.gen # press.gen \/ ~press.steady \/ gen # worker.gen

\* A swallowed Enter is given up only when it was overtaken, or when the call that
\* would have told whether it was, or would have handed it back, failed: never for
\* a pause, a missing focus, a control or a text that is none of the broker's, a
\* write, an opening or a navigation that fails, however these fall together with
\* what the user does (issue #122).
DroppedOnlyForCause == [][Drops => Overtaken \/ worker'.how = "failed"]_vars

\* A path that declines to translate must hand the Enter back rather than let it
\* vanish, unless the user has left or pressed another key (main.rs,
\* replay_enter_for_window).
DroppedOnlyIfChanged == [][Drops => Overtaken]_vars

\* Nothing is lost: a request is dropped only because what it was about has
\* changed (docs/divergences.md), failed calls and the repeats of the same held
\* Enter excepted.
NothingLost ==
  [][Drops => worker.gen # press.gen \/ ~press.steady \/ worker'.how = "failed"]_vars

\* What is written, opened or navigated to is the text that stood in the control
\* when Enter was pressed, in the window it was pressed in, unless the change
\* made no key the hook could count, or came after the last look.
ActsOnWhatWasPressed ==
  [][ worker.pc \in {"write", "open", "navigate"} /\ worker'.pc # worker.pc =>
        \/ worker.raced
        \/ /\ fg = worker.window /\ text[fg] = worker.input
           /\ worker.gen = press.gen
           /\ worker.input = press.text \/ press.silent ]_vars

\* A replayed Enter never submits a half-written text: what stands in the control
\* is the text that was read or its whole translation (apply_translated_enter).
SubmitsWholeText ==
  [][ worker.pc = "replay" /\ worker'.pc = "idle" /\ ~worker.raced =>
        /\ fg = worker.window
        /\ worker.expect \in {AnyText, text[fg]} ]_vars

\* A fresh press of Enter is never swallowed without a request for it, unless
\* the hook came back with flags from before Windows removed it, or came while
\* Enter was held.
SwallowedIsAsked == lost => missed

\* The application never keeps an Enter down that the user has released, with
\* the same exception: no order of presses, repeats, pauses and resumes.
NoStuckEnter == ~key.down /\ key.app => missed

\* The hook's two flags never swallow what nobody asked for and never leave an
\* application with half a keystroke, however presses, repeats, pauses, resumes
\* and hook removals interleave (low_level_keyboard_proc, remove_hook).
KeyBalanced == SwallowedIsAsked /\ NoStuckEnter

\* The last word on browser discovery, posted or armed, agrees with the pause,
\* also when the pause races the worker's start (request_browser_discovery).
DiscoveryFollows ==
  LET posted == {i \in 1..Len(queue) : queue[i] \notin Requests} IN
  IF posted # {}
  THEN \A i \in posted : (\A j \in posted : j <= i) => queue[i].discovery = ~paused
  ELSE worker.pc \notin {"starting", "started"} => discovery = ~paused

\* A paused broker is inert: no request begun while paused rewrites a text.
PausedNeverRewrites ==
  [][worker.pc = "write" /\ worker'.pc # "write" => ~worker.inert]_vars

===============================================================================
