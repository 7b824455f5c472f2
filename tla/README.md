# Verification of fwdslash

fwdslash makes a path that starts with a forward slash (`/distro/home/...`) work
where Windows users type paths: Command Prompt, PowerShell, the address bars of
Explorer, the search flyout and the browsers, and, with the optional filter
driver, the opening of files themselves.

This directory holds TLA+ modules that model the parts of it with state, failure
and concurrency, TLC instances that model-check them, and theorems that the TLA+
proof system (TLAPS) checks for every value of the constants. `PROJECT.json`
records, for every definition, the source lines it stands for (`map`), for every
property a change of the code that it would catch (`mutants`), the places where
the code is hard to test (`hazards`) and the disagreements between the code and
its documentation that were met (`findings`).

    tlc -workers 2 -config MCEnterPipeline.cfg MCEnterPipeline.tla
    tlapm EnterPipelineProofs.tla

## 1. The system

| Component | Its state | Its operations |
|---|---|---|
| cmd adapter (`fsw-cli/src/adapters/cmd.rs`, `state.rs`, driven by `mod.rs`) | the user's `AutoRun` value, a marker key of about twelve values, payload directories (live, staging, rollback, retired) | enable, disable, repair, upgrade, recover, prune, orphan clean |
| PowerShell adapters (`powershell.rs`, `profile.rs`, `transaction.rs`, driven by `mod.rs`) | two hosts' profile files, a marker, a recovery directory and a journal each, one shared payload and its journal | the same operations, and the background sweep |
| minifilter driver (`driver/fswfilter/fswfilter.c`) | connection contexts, mapping slots | connect, disconnect, port message, pre-create, load, unload |
| broker, publication (`fsw-broker/src/main.rs`) | a cached port handle, the published and attempted lists, the timer's interval | publish, health tick, disconnect, start, exit |
| broker, Enter pipeline (`main.rs`, `browser.rs`) | the keyboard hook and its two flags, a key generation, the worker's message queue, browser discovery | hook callback, pause, rearm, the worker's transaction |
| pause flag (`fsw-core/src/settings_write.rs`, broker, CLI) | `Disabled` in two registry hives, the broker's copy, a persist queue and counter | toggle, pause and resume verbs, reload, mirror |
| settings window (`fsw-settings/src/state_watch.rs`, `main.rs`) | the shown state, one event, one read and one owed read | listen, wait, read, refresh |
| path resolver (`fsw-path`, and `resolve_user_slash_path` of `fsw-core/src/lib.rs`) | none | resolve a typed path, for Explorer and for browsers |
| what `/` means (`fsw-core/src/lib.rs`, `settings_write.rs`, the `bare-slash` verbs) | mode, pin and root in two registry hives, WSL's registrations | list, default, root, snapshot, mirror |
| update (`fsw-cli/src/update/*`, `scheduled_task.rs`) | the attempt token, a scheduled task and its script, the back-off stamp | the ladder of routes, lease, watchdog, relaunch, garbage collection |
| policies (`navigation.rs`, `powershell_policy.rs`, `update.rs` of `fsw-core`) | none | pure functions |
| scripts, packaging, vendored UI library | none of their own | platform calls |

How they interact:

* The CLI and the tray change the **pause flag**. The CLI writes the registry,
  posts a broadcast, sends the broker a message and broadcasts again. The broker
  changes its memory first and stores the value on a thread of its own.
* A pause removes the **keyboard hook**, posts the worker a message about browser
  **discovery**, and **publishes** an empty list to the driver.
* The broker of every identity **publishes** its list to the **driver** over a
  port; the driver decides file opens against the list of the caller's identity.
* The **settings window** learns of changes by the same broadcast, or by polling.
* The **adapters** share a named mutex with each other, and share AutoRun and the
  profiles with every other program on the machine. The broker's sweep runs them in
  the background after an update.
* Every route of a typed path, in the broker, the CLI and the shells, starts from a
  **snapshot** of what `/` means, read value by value while others write.
* An **update** closes the broker; the script of a scheduled task brings it back.

What is hard: transactions over stores without a common commit point, with a
crash or a foreign edit between any two writes (adapters); locks that are released
and retaken inside one operation (driver); a peer that is unloaded, killed or full
while a synchronous conversation with it is under way (publication); a
decision about what the user sees that takes several calls into other processes
while the user keeps typing (Enter pipeline); several copies of one value with
messages that overtake each other (pause flag); lost wake-ups (settings
window); several processes, a scheduler and a store that may each die, time out or
answer late over one lock file (update); and settings of several values with no
commit point, read by two resolvers that must agree (what `/` means). The properties that make each component correct are listed with its
module below; `hazards` gives the line where each difficulty bites.

## 2. Modules

| Module | Models | Checked by | Proved in |
|---|---|---|---|
| `CmdAdapter` | the cmd adapter's transactions | `MCCmdAdapter` | `CmdAdapterProofs` |
| `MappingTable` | what the driver promises (abstract) | `MCFswFilter` | `FilterProofs` |
| `FswFilter` | the driver; implements `MappingTable` | `MCFswFilter` | `FilterProofs` |
| `MappingPublisher` | the broker's publication, composed with `FswFilter` | `MCMappingPublisher` | `FilterProofs` |
| `EnterPipeline` | hook, window thread and worker of the broker | `MCEnterPipeline` | `EnterPipelineProofs` |
| `PauseSync` | the pause flag and its copies | `MCPauseSync` | `PauseSyncProofs` |
| `SettingsWatch` | the change watch of the settings window | `MCSettingsWatch` | `SettingsProofs` |
| `UpdateAttempt` | install attempts, their tasks and scripts, the sweep of leftovers | `MCUpdateAttempt` | `UpdateAttemptProofs` |
| `PowerShellAdapter` | the PowerShell adapters' transactions and the background sweep | `MCPowerShellAdapter` | `PowerShellAdapterProofs`, `PowerShellProfileProofs` |
| `PathResolver` | both resolvers of a slash path, as operators | `MCBareSlash` | `SettingsProofs` |
| `BareSlash` | the settings behind `/`, composed with `PathResolver` | `MCBareSlash` | `SettingsProofs` |

An `MC` module gives the constants small values; one more `.cfg` beside it
exists for each documented claim that the code does not keep (section 6).

Conventions. Names are those of the code where TLA+ allows it. One action is one
call whose effect another process can see: a registry call, a rename, a system
call, a lock section, a message. `Event` is the bound on what the environment may
do. Variables under the heading *Observers* are not state of the program: they
record what a property needs to know of the past, in particular what excuses a
deviation. No action of the code reads one. A property's
comment says which exceptions it makes, and every exception is a case in which
the code really behaves differently, found by model-checking the property
without it.

### 2.1 CmdAdapter

State: `autorun`, `marker` and `dirs` are the registry values and directories;
`op` is the running command with its local variables, `op.pc` the next call that
writes. A command is a chain of actions in the order of the code: every command
first recovers (`RecoverNothing` to `Cleanup`, `recover_upgrade`), then dispatches
(`set_integration`, `repair`, `cleanup_orphaned`), then installs
(`begin_install`, `commit_install`), uninstalls, or strips and prunes. The
marker's values are published one by one in the order of the code
(`PublishSeq`, `RestoreSeq`). `Undo` is the error path of `commit_install`, over
whichever of its steps were done.

The environment: `Crash` at any point (Windows abandons the mutex), `Edit` of
AutoRun by another program at any point, a failing call at every registry or
file operation, and `Product` changing the installed version between commands.

Properties: the user's own AutoRun survives (`PreservesUser`); our hook is
never composed twice (`AtMostOneHook`); an installed marker is never ahead of
the payload and the payload that an interrupted upgrade replaced still exists
(`MarkerTruthful`, of `InstalledMeansDeployed` and `UpgradeRecoverable`); a refusal that
blames another program is right to (`RefusalJustified`); the payload is not
deleted under a live hook (`HookKeepsPayloadOrMarker`).

Abstracted: a text is the user's part (a model value) and the number of our
hooks in it; the order of the segments, the one-character truncation that version
0.0.2 wrote and `matches_installed` forgives, and AutoRun values that are not
strings are left out. So are the marker's `ProductProbe`, `TransactionId` and
`InstallDirectory`, installs from before the marker had a version, and the
invalid-path error of the recovery. A PowerShell marker that protects the payload
root is a nondeterministic skip of `PruneTree`.

### 2.2 MappingTable and FswFilter

`MappingTable` is the promise: a map from identity to an owner and a list, an
atomic look per file open. `FswFilter` is the driver: `conns` are the connection
contexts (`free`, `live`, `closed`, `cleared`), `slots` the mapping array, `create`
a file open between its two locked looks. `DisconnectClear` and
`DisconnectForget` are the two lock sections of `FswPortDisconnect`, `Message`
one section of `FswPortMessage` with every status it may return. The clients are
arbitrary: any connection may send any message in any state, well formed or not.

`ImplementsTable` is the refinement: an entry of the table is the slot that holds
the identity, an answer is pending between the two looks. The first look (is
there a candidate for this volume and name in any slot?) is a stuttering step or
the decision itself, because what it rejects no identity's list contains at
that moment.

External, modelled from how the driver uses it: the filter manager delivers no
message after a disconnect has begun and waits for disconnects before an unload
returns. Name canonicalisation and the reparse buffer are not modelled: a name
is a model value. The caps count slots and connections per session, so a session
with a standard and an elevated broker uses two slots.

### 2.3 MappingPublisher

One broker per identity, each a window thread that runs a publish as a chain
of system calls (`Guard`, `KeepPort` or `OpenPort`, `Ping`, `Enumerate`, `Send`,
`CloseHandle`). The module extends `FswFilter` and shares its variables, so
every connection, refusal and disconnect is the driver's own action. The
environment loads and unloads the driver, kills a broker (its handle closes
later, asynchronously), starts it again, uses up the session's connections with
availability probes, registers distributions, toggles the pause and makes the
namespace unsafe (`shadowed`: `guarded_driver_volume` is `None`).

Properties: a cached list is the driver's, a paused broker redirects nothing and an
owner is never refused as stale (`PublicationSound`, of `CacheCoherent`,
`PausedIsInert` and `OwnerNeverRefused`), and two liveness properties: when nothing changes any more
the driver holds the list of every running broker (`DriverFollows`), an unsafe
namespace is withdrawn (`ShadowWithdraws`).

Not modelled: a change of the volume behind C:, protocol mismatches, allocation
failures and lists over 32 distributions. The stored pause is arbitrary at a start,
so this module composes with `PauseSync` by the broker's `PAUSED` alone.

### 2.4 EnterPipeline

Three actors. The *hook* (`Ask`, `Pass`, `Repeat`, `DownUnhooked`, `Release`,
`Type`) is `low_level_keyboard_proc` with `ENTER_DOWN`, `SUPPRESS_ENTER_UP` and
`KEYDOWN_GENERATION`. The *window thread* (`Pause`, `Rearm`) installs and removes
it; Windows may drop it silently (`LoseHook`). The *worker* takes a request and
goes through `process_enter_request` or `process_browser_enter_request`, one
action per call into another process, and ends in a sink: rewrite the text, open,
navigate, warn, notify, close the flyout, or hand the Enter back. The desktop
(`Edit`, `Refocus`, `Switch`) moves between any two of these.

Every sink is reached through the looks the code takes before it (`check`,
`recheck`; one look for a browser). What happens between the last look and the
call is unavoidable and marked in `worker.raced`; the action properties except it.

Every one of these calls can fail, at any step and with nothing changed. Before the
text is read the code mostly hands the Enter back (`GiveBack`). In the looks
(`request_control_is_current`, `current_enter_input`, the sample of a browser before its
write, `replay_browser_enter_if_current`) and in the hand-back (`replay_enter_if_current`)
a failed call counts as a change: `Check`, `Recheck` and `HandBack` have a branch for
it, which drops the request or falls through as a changed one does (`Refused(Unanswered)`).
`surface_is_current` may fail in `Begin`, `SendInput` in `Replay`. An ending by a failed call is
`failed`, not `dropped`, so that a property can tell the two apart.

Properties: a request is dropped only if something changed, or by the very call that
failed (`DroppedOnlyForCause`; that the second happens at all is against the code's own
comment, section 6), what is written, opened or navigated to is what Enter
was pressed on (`ActsOnWhatWasPressed`), a half-written text is never submitted
(`SubmitsWholeText`), no press is swallowed unasked and no Enter stays stuck
(`KeyBalanced`, of `SwallowedIsAsked` and `NoStuckEnter`), discovery follows the pause across the worker's start
(`DiscoveryFollows`).

Abstracted: a text is what was typed, or its translation; route and root of a
provider are nondeterministic (the list of the moment decides). `path` stands for
Explorer, Run and common dialogs. A cached browser window takes the
same transaction as any other. `PostMessage` failing is `Pass`. Injected keys of a lower integrity
level are ignored by the hook and have no action. The broker's exit and the update
cycle's `WORKER_BUSY` are left out. Atomics are sequentially consistent.

### 2.5 PauseSync

`writer[w]` is a process inside `persist_disabled`: the real hive, then (with
package identity) the package's own, then the broadcast. The broker is one of the
writers, fed by its queue; `broker.inFlight` is `PERSIST_IN_FLIGHT`. A packaged
process sees the package's value over the user's (`Merged`). The mirror is
`sync_settings_to_real_hive` of any packaged process. Writes fail, processes are
killed, messages are not delivered, and `ForeignWrite` tells nobody.

Properties: when everybody is done the running broker has the stored pause and the
two hives agree (`SettlesOnOnePause`, of `BrokerFollows` and `HivesAgree`), and the echo of the
broker's own write never undoes a toggle (`OwnEchoIgnored`). The observers
`excused`, `foreign` and `split` record exactly what may prevent that: a failed
or unannounced write, a broadcast ignored while a write was in flight whose command
never reached the broker, another process between the two halves of a write.

What the model shows beyond its properties: the order at startup (window first,
then the stored value) is what closes the race with a command that finds no
broker; a broadcast dropped during a write of the broker's own is harmless only
because the command's message follows it; and a mirror that reads before
and writes after somebody else's dual write leaves the hives apart until
the next mirror.

### 2.6 SettingsWatch

One turn of the watch is `Signalled`, `Drain` (the event is reset before the
state is read) or `Poll`, then `Woke`, which arms the next turn before any early
return. A read runs on a thread of its own (`ReadState`) and is posted back
(`StateRefreshed`); at most one read and one owed read exist. `Refresh` is the
uncoalesced read of the window's own actions. Writers are abstract: a write and
its broadcast are two steps, and some writers broadcast nothing.

Properties: an idle watch shows the machine's state, minimized or not
(`WindowFollows`); a visible window catches up in the end, and so does one that heard
of the last change (`CatchesUp`, of `VisibleCatchesUp` and `HeardCatchesUp`).

### 2.7 UpdateAttempt

`cli[u]` is a process running `fwdslash update install`, on the rung of its ladder it
has reached (`store`, `appinstall`, the helper, `winget`, `bundle`); `token` is the
attempt lock file (`AttemptLock`), `task[t]` a scheduled task with the step its script
is at, `install[t]` what the Store or the deployment does for it, `stamp` the
`StoreUpdateAttempt` back-off value, `product` the installed version and whether the
broker is resident. An updater takes the token, leases it while `schtasks` runs
(`Lease`, `Create`, `Unlease`), runs the install or leaves it to the task, watches,
cancels, releases and reports. A script (`LeadEnds`, `Relaunch`, `DeleteSelf`,
`Findstr`, `Del`) waits for a newer version, starts the broker, deletes its task
and then the lock if it owns it. `Gc` is the sweep of leftovers.

The clock counts quarters of an hour, the grain of every limit (45 minutes of watchdog,
one hour of `ExecutionTimeLimit`, 65 and 70 minutes of age). A call fails, or does
not answer although it was done, a process is killed, or Windows holds a task back
(sleep, battery): together `MaxFaults`. The installer closes the broker
and the updater whenever it likes.

Properties: at most one attempt may install at a time (`Exclusive`, with the excuses
`lost`, `held` and `overtaken`: a token deleted by another's script, a task held back
past its limits, a version that landed beside an updater already under way); no lock and no
task stays for ever (`LeftoversGo`); a closed broker comes back when a task was left to
do it and lives to its end (`ProductReturns`); while an install nobody can identify
may still land, its stamp is kept (`StampKept`).

Abstracted: waits for the mutex are failures; reading and writing of the lock by
`set_pending` is one step, as both are under the mutex. An attempt without relaunch
(`--relaunch none`) takes no token, so `Exclusive` speaks of the others. A non-zero
exit of `schtasks /create` counts as "may have been done". Uninstalling, staging of
the helper's files and the offer that starts an install are left out.

### 2.8 PowerShellAdapter

State: `profile`, `marker`, `snap` (recovery directories), `journal` and `payload`,
`swap` (its journal) are what is on disk; `op` is the running command as a list of
tasks with a program counter, in the order of `set_integration`, `sweep_uninstall`,
`repair_all`, `cleanup_orphaned`. Commands exclude each other by the named mutex,
which a death releases. Every rename, registry write and file write is an action.
An install stages its recovery files, opens the journal, replaces the shared payload
under a journal of its own, publishes the recovery directory, writes the profile
after a second look, and commits; `Undo` is its error path; every command begins by
recovering what the journals say (`RecoverAll`). The user edits a profile, the product
is updated twice or removed, and the broker's sweep looks at the markers once and
enables hosts later, in the background (`SweepStart`, `BackgroundEnable`).

Properties: the user's text survives (`PreservesText`); a block finds its module
(`BlockFindsModule`); what is installed can be removed (`InstalledIsRemovable`); what
a command reports is so (`OutcomeTrue`); a background run writes no profile of a host
that was installed when it looked (`BackgroundKeepsProfile`).

Abstracted: block content is `none`, `legacy` or `stable`, several blocks count
as one; `PreviousStateDirectory`, the execution policy's reasons, the one retry of the
sweep and the deferred deletion of the retired directory are left out; a removal of the
product is final. An edit during a command matters only on the host in work, because
steps on another host commute with it. A command that finds an edit where its
journal expects its own bytes keeps everything and refuses until the edit is undone;
that is the code's choice, and `RemovalResumes` excepts it.

### 2.9 PathResolver and BareSlash

`PathResolver` has no variables. A typed text is the sequence of what stands between
its slashes; `Shape` holds rules R1 to R4, `Under` the folding of components (a `..`
takes the last one back, and refuses at the root), `Resolve` rules R5 to R9, `Alias` the
drive alias, `Explorer` and `Browser` the two funnels. They are two translations of two
functions with the same task: `resolve_user_slash_path` and `resolve_slash_target`.

`BareSlash` is where the settings come from. A command (`Mode`, `NewRoot`) writes mode,
pin and root one after the other, each to one hive or, with package identity, to two,
the first through `reg.exe`. Any write fails, answers late or not at all; the process is
killed; others write in between; the mirror copies the merged view; WSL registers and
unregisters distributions. A reader takes its snapshot value by value, with or
without package identity, and routes every text of `Typed` from it.

Properties: both funnels open the same place (`FunnelsAgree`), whatever
mixture the snapshot caught; and when nobody writes meanwhile, every process whose view
the last successful command reached routes as that command said, to the normal form
of the text, which a reference definition (`Kept`, `Leaves`) gives without a fold
(`RoutesAsTold`).

A snapshot taken while somebody writes may be a mixture of two settings, although its
comment calls it point-in-time: `calm` excepts it. The second half of a failed or
interrupted command stays until the next one; `told` is then empty. A process without
package identity writes one hive, and the packaged view keeps its own values (`shared`).
Announcements are in `PauseSync` and `SettingsWatch`. Abstracted: file URIs,
relative and native inputs, the character rules of custom roots (`ValidRoot`) and the
case tables (`Fold`); the first snapshot of `root` and the mirror's merged read are one step
each, as any overlap ends `alone`; whether deleting a value in the package's hive hides the
user's is left open (`Deletions`); pins are spelled as registered.

## 3. Runs

| Run | Instance | States | What it shows |
|---|---|---|---|
| `cmd_adapter` | one user text, three transaction ids, two versions, one crash, one failure, two edits | 6.0 M | the adapter's transaction properties |
| `fsw_filter` | two sessions, three identities (two share a session), four connections, two slots, two volumes | 383 k | the slot invariants and the refinement of `MappingTable` |
| `mapping_publisher` | one identity, three connections, one probe, four events, two clock ticks | 255 k | caching, pausing, and liveness of publication |
| `enter_pipeline` | one window of every kind and a look-alike, a slash text and another, four events | 4.7 M | the hook's flags and the worker's transaction |
| `pause_sync` | a packaged and a staged CLI, three events | 1.7 M | agreement of broker, registry and hives |
| `settings_watch` | two states, five events | 46 k | no lost change, liveness of the watch |
| `update_attempt` | two updaters, one of the window on two rungs and one of the broker, one fault | 245 k | exclusion, clean-up, the broker's return, the stamp |
| `powershell_adapter` | two hosts, one with text and one with an empty profile, any subset installed by an old release, three versions, one failure or death, one edit | 2.2 M | the profile transactions and the sweep |
| `bare_slash` | a packaged and a staged process, two distributions, a valid and a malformed root, nine initial registries, 25 texts, two events | 663 k | agreement of the resolvers, settings reach the routes |
| `cmd_disable_recovers`, `enter_paused_writes`, `powershell_removal` | the same modules | | one documented claim each that the code does not keep (section 6) |

Why the bounds are enough for what they ask. A crash, a failure and an edit
together reach every pair of interrupted command and recovering command, including
recoveries that are interrupted in turn (one crash, then one failing call). Three
transaction ids are needed: the interrupted one, the recovering command's own and the
rollback's; they are interchangeable, hence the symmetry. Two
slots with three identities make the slot array run out; four connections are the
cap of two sessions. In the publisher four events are a kill, a restart, an unload
and a load. In the pipeline four events allow a press, its release and repress and a
change in between, or a pause and a resume around a press. `MaxGen = 0` in
`fsw_filter` leaves the ordering of generations to `mapping_publisher`, which has a
clock. Two updaters with one fault reach every succession of a dead attempt by a living
one, and all five quarters of the clock pass in every interleaving. In the PowerShell run the edit
and the failures fall on the first host only, as the hosts differ in nothing but their place in the
order and their starting text; three ids are the interrupted transaction, its successor and the
payload's. In `bare_slash` two events are a command and whatever disturbs it, its failure,
a second command, the mirror or a change of WSL; the registries at the start stand for the
commands before, so the 25 texts are routed from these and two of them after that. Connections and transaction ids are symmetric; no other set is reduced,
and no run with a liveness property uses symmetry.

`CHECK_DEADLOCK FALSE` stands in the runs whose environment stops when its events
are used up and whose program then has nothing to do. The cmd adapter and the driver
can never stop, and their runs check it.

### Fairness

Safety needs none and `CmdAdapter`, `FswFilter`, `EnterPipeline`, `PauseSync`,
`PowerShellAdapter` and `BareSlash` have none. `MappingPublisher` assumes that the window thread of a running broker is
scheduled and its timer fires (`Tick`, `Publish`: weak fairness per broker), that the
filter manager finishes disconnects and an unload, and that a probe's process closes
its handle. `SettingsWatch` assumes that each of its threads is scheduled: weak
fairness of the writer's broadcast, the listener, the turns of the watch, the
coalesced read and the uncoalesced one. `UpdateAttempt` assumes that a running updater and a
running script go on (every wait in them has a timeout), that Task Scheduler starts a
task that is due, that time passes, and that the sweep of leftovers runs again, as every
check for updates does; starting an updater, landing an install, faults and kills are
not fair. No environment event is fair in any of the three.

## 4. Proofs

| Theorem | Establishes |
|---|---|
| `CmdAdapterProofs!TypeCorrect` | the types of the whole transaction |
| `CmdAdapterProofs!OneHook` | `AtMostOneHook` |
| `CmdAdapterProofs!MarkerStaysTrue` | `MarkerTruthful` |
| `CmdAdapterProofs!UserKept` | `PreservesUser` |
| `CmdAdapterProofs!HookKeepsPayload`, `RefusesForCause` | `HookKeepsPayloadOrMarker`, `RefusalJustified` |
| `FilterProofs!TypeCorrect`, `SlotsStayOwned` | types, `SlotsOwned` (of `OneSlotPerIdentity` and `OwnersConnected`) |
| `FilterProofs!RoomForEverySession` | `NoSessionLockedOut` |
| `FilterProofs!Implements` | `FswFilter` refines `MappingTable` |
| `FilterProofs!PublisherInvHolds`, `PublisherTypesKept` | `PublisherInv`, types |
| `FilterProofs!PublicationIsSound` | `PublicationSound` |
| `FilterProofs!BrokersAreClients` | every step of the publisher is a step of `FswFilter` or leaves its variables alone |
| `EnterPipelineProofs!HookFlagsBalanced`, `KeyStaysBalanced` | the hook's flags, `KeyBalanced` |
| `EnterPipelineProofs!RequestsStayFresh`, `OnlyWhatWasPressed` | `ActsOnWhatWasPressed` |
| `EnterPipelineProofs!PipelineInvariance`, `TypeCorrect`, `DiscoveryAgrees` | `PipelineInv`, types, `DiscoveryFollows` |
| `EnterPipelineProofs!SteadyInvariance`, `WholeTextSubmitted`, `DroppedForAReason` | `SteadyInv`, `SubmitsWholeText`, `DroppedOnlyForCause` |
| `PauseSyncProofs!Invariance`, `TypeCorrect` | `IInv`, types |
| `PauseSyncProofs!OnePause`, `EchoIgnored` | `SettlesOnOnePause`, `OwnEchoIgnored` |
| `UpdateAttemptProofs!Invariance`, `TypeCorrect` | `UpdateInv`, types |
| `UpdateAttemptProofs!AtMostOneInstalls`, `StampIsKept` | `Exclusive`, `StampKept` |
| `PowerShellAdapterProofs!TypesHold` | types, and one swap of the payload at a time |
| `PowerShellAdapterProofs!Removable` | `InstalledIsRemovable` |
| `PowerShellAdapterProofs!BackgroundIsCalm` | `BackgroundKeepsProfile` |
| `PowerShellProfileProofs!TextKept` | `PreservesText` |
| `PowerShellProfileProofs!BlocksWork` | `BlockFindsModule` |
| `SettingsProofs!OneRouting`, `FunnelsAlwaysAgree` | `FunnelsAgree` |
| `SettingsProofs!SnapInvariance`, `TypeCorrect`, `SettingsCaught` | `SnapInv`, types, `CaughtAsTold` (of `RoutesAsTold`) |
| `SettingsProofs!WindowTypes`, `WindowIsTrue` | types of `SettingsWatch`, `WindowFollows` |

They hold for every value of the constants that satisfies the module's named
assumptions, in particular for every bound. The assumptions only give the
constants their shape (a null value is not a member of the set it stands beside,
a bound is a number, each identity has a session). Two of them ask for a finite set: the
sessions of a machine, where `NoSessionLockedOut` adds up what all of them hold, and the
updaters, where the version is bounded by the installs there can be. `PowerShellAdapter` asks for two hosts (`TwoHosts`),
as its enum has: a clean-up asks the other one. `BareSlash` asks that
a root which passes validation is a root, and `PublisherAssumption` is the driver's
assumption and the bounds of the environment.

**CmdAdapter.** Types alone are not inductive: a step that uses `op.tx` or
`marker.rollback` as a directory needs it to be a transaction id. `Wired` says
at which points of the program it is one, and that the lists of what remains to be
undone fit the point. `OneHook` needs in addition that every text the code keeps
to write back later (the recorded original, the snapshot in `op`) carries no hook,
and that a text about to be composed is stripped; that is `Single`. The proof is one lemma
per action over a few lemmas on the helpers that advance a command.

**CmdAdapter, marker.** `Recorded` is `MarkerTruthful` with the place spelled out: the
payload an upgrade replaces is in the rollback directory if there is one and in the live
root otherwise. It is not inductive. `Truth` adds, for each place of a transaction, which values
of the marker are written by then and where both payloads stand (`StageFits`,
`PublishFits`, `CommitFits`), what an undo still has to revert (`UndoFits`), what a recovery
writes back (`RestoreFits`), and that a command which comes from a recovery finds no
upgrade pending (`JobFits`, `AtRest`). The order of `PublishSeq` and `RestoreSeq` is what
makes it hold: with the state written first, TLC and the proof both fail.

**CmdAdapter, user.** `Paths` says which kind of command can be where: an undo finds a
marker once it has something to revert, a repair that strips has seen that the payload is
gone, an orphan clean that strips has no marker left. With `Truth` that settles
`HookKeepsPayloadOrMarker`, step by step over the six steps that can empty the live
directory. `PreservesUser` is not inductive, since what a command writes was read, recorded
and published earlier. `Claims` relates AutoRun, its owner and the marker: where the marker
stands for an adapter, AutoRun is one of its two recorded values, a recorded installed text
is the recorded original with one hook, and a half-published original is empty or the
user's. `UpgradeClaims`, `PublishClaims`, `CommitClaims`, `HookClaims`, `RestoreClaims` and
`RemovalClaims` say for each place what was read and will be written. An edit that the
code can see excuses what it breaks (`touched`), one that it cannot see excuses the user's
text (`raced`); each exception of the property is used at exactly one step of the proof.
`RefusalJustified` follows: its two steps compare AutoRun with a record that `Claims` says
it still matches.

**FswFilter.** A slot's owner is a connection of the slot's identity that has
not been cleared (`OwnersConnected`), so two slots of one owner are two slots of
one identity, and the search for the twin of a slot finds the only one there is.
`StoppedIsEmpty` (a stopped driver has no connection) is what makes reloading
safe. The refinement maps each lock section to an action of the table or to a
stutter. For the capacity, the entries taken are the union over the sessions of
what each holds; one session below its cap leaves the sum below the array.

**MappingPublisher.** The driver's clients in `FswFilter` are arbitrary, so its invariant
comes for nothing once every step of the publisher is shown to be a step of the driver
(`BrokersAreClients`). `PublisherInv` adds for each broker what its handle means
(`PortFits`: a connection of its own identity, live unless it is closing), what it
believes is stored (`CacheFits`: a slot of that connection with that list), what it is about to
send (`PauseFits`), and that a living connection with a slot is its broker's
(`SlotFits`). An owner is never stale because no slot is ahead of the clock (`NotAhead`).

**EnterPipeline, flags.** `HookInv` says that a hook which has a right view of the
key agrees with it (`Balanced`), and that a removed hook left no flag behind. The two
claims follow at once: a suppressed press that is not down does not exist.

**EnterPipeline, texts.** The argument is the generation. A request whose stamp
is still the newest is the last press, because every counted key makes all earlier
requests older (`Fresh`, lemma `Aged`); and a text that changes
without a new stamp was changed by something other than the keyboard, which the observer
notes, or by the worker itself, which leaves a translated text that is never resolved again
(lemma `Kept`, `WriteKeeps`). `Looking` and `Looked` carry the text from the reading
through the looks to the act.

**EnterPipeline, discovery and drops.** `DiscoveryInv` says that the last message about
discovery in the queue, or without one what the worker has or will read when it
starts, is the pause; the worker's start is the only moment with two sources.
`SteadyInv` is the converse of the generation argument: while nothing was disturbed
since the press, window, control and text are the ones of the request (`WorkerSteady`,
and `QueueSteady` for requests not yet taken), so a look that is answered finds nothing
changed. One that is not answered leaves all of it as it was (`UnansweredSteady`): it either
falls through to the next sink, whose look stands on the same promise, or ends the request
as `failed` (`RefusedEnds`). So whatever ends as `dropped` was overtaken. And a
text being written is the request's or its whole translation (`WholeText`).

**PauseSync.** `Counts`: the in-flight counter is the length of the queue plus the write under
way, and is paid for by the events used. `LatestIsPause`: the value queued last is the
broker's memory. `Follows`: once that value is stored, memory and registry differ
only while a command is about to tell of its write or a message that will not be
ignored is in the inbox; `Alone`: not at all while only the broker wrote. `Hives`: the
hives differ only between the two writes of one process, and a mirror that nobody
disturbed holds the merged value. At rest all of these exceptions are gone, which is
`SettlesOnOnePause`.

**UpdateAttempt.** `UpdateInv` says for each updater what its place on the ladder
promises (`Fits`): an install has begun only where no step leads back to the ladder
(`InstallFits`); a task that may still install belongs to the current rung
(`TaskFits`, `ScriptFits`), so one updater never licenses two; the stamp was taken before
either (`StampFits`); and, until excused, the token of an attempt that may install is the
only one, is held in its name and is neither old nor orphaned, so that nobody reclaims it
(`TokenFits`). Two attempts that may install would need two tokens. The
version is bounded by the installs that are over (`Landed`).

**PowerShellAdapter, control.** A command is a list of tasks, and most of what could go
wrong is one task meeting what another left. `Control` therefore says which lists there
can be: which task may follow which (`Later`, `Ordered`), which tasks a kind of command has
(`TasksOf`), that a rollback's second half comes first or right after the payload's
(`RolledNext`), and that the current step belongs to the first task (`StepsOf`). `Midway` adds what
the lists are for: past the recovery no host has an open journal but the one in work
(`JournalsShut`, lemma `Quiet`) and no swap is open (`SwapShut`), which is what `TypeOK` says of
`PayloadSwap::ensure`; and the phase of the journal and the marker that each step finds
(`Phased`, `Presence`), without which an assignment to a marker would not keep its type.
`TypesHold` is stated under `IdLeft`: the ids are a bound of the model, and a run
checks that its instance has enough of them.

**PowerShellAdapter, recovery files.** `InstalledIsRemovable` is not inductive, because the files
are moved away and back while the marker changes. `Kept` says where they are while a
journal is open: in the retired directory, or still live with the staged one beside them, which is
how a rollback tells that it was not interrupted after the exchange. `Held` gives for
each step what it finds there. The two orders that the code keeps and that the proof
uses are the journal before the marker (`OpenJournal`, `Publish`) and, in a rollback, the directories
before the marker's values (`Unretire`, `RestoreValues`, `RestoreState`).

**PowerShellAdapter, background.** `Calm` says that a background command of a host that was
installed keeps to the tasks that write no profile (`Calmly`): a recovery that would have to
restore one is refused, and so is a reinstall. The exception would be the error path of an
upgrade, which recovers without asking (`Undo`); it never finds a journal of a host open,
because an upgrade opens only the payload's.

**PowerShellAdapter, the user's text.** No step invents text: every write compares with what
was read, or puts back what was written down. The hard case is a file that was there, but
empty, before fwdslash, because nothing in it tells it from a file that we made.
`EmptyKept` says for such a file that the recovery directories, the marker and the journal
say that it was there, and that our block is in it only when an installation that the
marker tells of put it there; otherwise the block would be taken for a reason to delete the file.
`SeenHere` is the same about what a step has read and not yet written. `Versions` is
why it can be told: a marker never names version 0, so a journal whose previous version
is 0 replaced no marker.

**PowerShellAdapter, the blocks.** Two things must hold, and each only as long as the other
host and the journals let it. An old block lives on its versioned directory: `Blocked` says that
a profile with a block has a marker, that an old one's marker names the old version (or,
while a transaction is open, the journal does), that the recovery copy which a rollback would
put back is as good, and what the installation and the rollback at work have read of it; a removal
drops the marker before the files and the payload (`Leaving`). One of our own blocks lives
on the shared payload: `PayloadKept` says that it is in place, or that the payload's journal is open and
its previous bytes are under the name in it, or that no profile has such a block. A committed
journal of a host claims the payload that was swapped with it, so it must be
cleared away before the payload's own journal is looked at; `CommitsKept` is the order of
`recover_all`, hosts first, that ensures it. `PayloadSeen` gives for each step of the swap, its undo and its
recovery where the three directories are. Last, only `Write` makes a block of ours, and by then the payload
is in place (`StableStays`, `PayloadKeptStep`).

**SettingsWatch.** `Shows` is the invariant behind `WindowFollows`: unless a read is still to start
after the last announced change (`Ahead`), the window shows that change, or the read on
its way has it, and no refresh on its way brings back an older state. The one delicate step
is `ReadState`, which forgives earlier silence only when no refresh is under way. The
proofs of `BareSlash` and `SettingsWatch` share a module and nothing else.

**BareSlash.** `OneRouting` needs no invariant: it compares the two funnels case by case
(alias, shape, custom root, selector) for every text and every record of settings, so
it covers every mixture a snapshot can catch. `SnapInv` relates what a reader has
caught so far to what the last successful command stored: the registry a view reads is
what was told until somebody writes again (`ToldInv`), a command between its writes
has stored a prefix of its values (`WriterInv`), a mirror that nobody disturbed copies
what is there already (`MirrorInv`), and a calm reader's values are the registry's
(`ReaderInv`). `RoutesAsTold` has a second half, that the resolver
computes the normal form of a text; that is induction over the text and stays with TLC.

TLC checked each inductive invariant on an instance before it was proved.

Only model-checked: liveness (`DriverFollows`, `ShadowWithdraws`, `CatchesUp`,
`LeftoversGo`, `ProductReturns`), which is beyond the prover; the second half of
`RoutesAsTold`, which is induction over data; and, not yet proved, `OutcomeTrue` of
`PowerShellAdapter`. No theorem rests on an unproved statement.

## 5. Not modelled

* **Policies** (`navigation.rs`, `powershell_policy.rs`, the decisions of
  `update.rs`): single functions without state, each with a table of unit tests.
* **UI Automation discovery, COM, certificates, update verification**: calls into the
  platform; what they return is nondeterministic where a module uses it.
* **The broker's update cycle**: a timer that runs the commands of `UpdateAttempt`.
* **The user interface, the vendored library, the shell scripts, packaging**: no
  protocol state of their own.

`components` in `PROJECT.json` has one row for each, with the reason. Of the
repository's 109 thousand lines of code, 62 thousand are the vendored
`windows-reactor` and its generated bindings, and most of the rest of what no module
maps is user interface, COM plumbing, argument parsing and output, and tests; that is
why the mapped share of lines stays small although the parts with state are modelled.

## 6. What was found

Three are runs that TLC refutes, with the quotation in `findings`.

* `cmd_disable_recovers`: a crash while the marker is being published leaves
  a marker that disable refuses, though the code sends users to it for recovery.
* `enter_paused_writes`: a browser request that a pause overtakes is still
  translated.
* `powershell_removal`: a disable that stops between the deletion of its marker and the
  end of the deletion of its recovery directory leaves every later enable and disable refused.

The others have a property and a `.cfg` to run by hand; TLC refutes each.

| `.cfg` | Property | The code against what it says |
|---|---|---|
| `MCCmdOrphanStrip` | `OrphanCleanStrips` | the orphan clean returns (`mod.rs:674`) before the strip that exists for the refusal that made it return (`mod.rs:670`) |
| `MCCmdPayloadHook` | `PayloadNeverDeletedUnderHook` | the prune of an unowned payload tree (`mod.rs:943`) takes the payload from under a hook whose marker was lost (`cmd.rs:704`) |
| `MCCmdTwoReads` | `ComparesWhatItWrites` | an install compares AutoRun with what it read before staging, and composes the hook from a second read (`cmd.rs:333` against `cmd.rs:184`): an edit that is taken back in between is written over it, though it says "your value was preserved" (`cmd.rs:335`) |
| `MCIntervalFollowsDriver` | `IntervalFollowsDriver` | a broker keeps a dead port handle, and the 5 s interval, after the driver was unloaded (`main.rs:2153`, `docs/divergences.md:847`); `DriverFollows` excepts such a broker |
| `MCEnterFailedCall` | `DroppedOnlyIfChanged` | "a worker path that declines to translate must hand the Enter back" unless the user left or pressed a key (`main.rs:1501`), but a look or a hand-back whose UI Automation call fails drops the swallowed Enter with nothing changed (`main.rs:1422`, `1454`, `1526`, `1644`, `1759`); `DroppedOnlyForCause` excepts it |
| `MCEnterNothingLost` | `NothingLost` | holding Enter until it repeats cancels its own request (`main.rs:1944`, `docs/divergences.md:1328`) |
| `MCUpdateReleasesOwn` | `ScriptReleasesOwn` | the script's `findstr` and `del` are two commands outside the mutex, after its task is deleted: it may delete a successor's token (`relaunch.rs:456`) |
| `MCUpdateComeback` | `ComesBack` | the helper's ceiling and the script's wait exceed the task's hour: the scheduler ends the script before it starts the broker (`relaunch.rs:367`, `scheduled_task.rs:147`) |
| `MCPowerShellBackground` | `BackgroundNeverWrites` | a host that the user disables after the sweep looked is installed afresh, and its profile written (`mod.rs:149`) |
| `MCBareSlashRoot` | `RootIsOrthogonal` | `bare-slash root` is refused while the pinned distribution is not registered (`fsw-cli/src/main.rs:510` against `:1438`) |
| `MCBareSlashHeard` | `FailuresAreHeard` | a deletion whose query of `reg.exe` times out is taken for a deletion of nothing, and reported as done (`settings_write.rs:365` against `:434`) |

Seen while modelling, and excepted by name in a property rather than stated as a
run: an AutoRun edit between a command's last read and its write is overwritten
(`raced`, which includes the edit taken back of `ComparesWhatItWrites`: a run with one edit
cannot meet it, the proof did); a repair whose uninstall failed strips a value that was empty
before the hook, and every later disable says that AutoRun changed (`EmptyStripped`; it
needs a death and two failures); a hook rearmed after a silent removal, or armed while Enter is held,
keeps or lacks a flag (`missed`); an uncoalesced refresh may overwrite the newer result of
the watch, which a minimized window then shows until the next wake (`unseen`); hives
stay apart after a mirror overlapped a dual write (`split`); an updater that is refused
restores the stamp it found, over one that another wrote since (`crossed`); an install
that lands beside an updater started since it closed the others makes that updater's
script see a newer version and let the token go, so that a third can take it (`overtaken`;
it needs three updaters, and was met when the proof of `Exclusive` failed for them); a repair after an
interrupted disable strips an originally empty profile and deletes the file
(`PreservesText` speaks of files that no repair stripped); a recovery directory that was
staged before its journal was written is never pruned.

## 7. Plan

Done, in this order: `CmdAdapter`, `MappingTable` and `FswFilter`,
`MappingPublisher`, `EnterPipeline`, `PauseSync`, `SettingsWatch`, `UpdateAttempt`,
`PowerShellAdapter`, `PathResolver` and `BareSlash`.

Proved since: see section 4.

Next, a theorem: `OutcomeTrue` of `PowerShellAdapter`, which needs an invariant of what a
command has done so far.
