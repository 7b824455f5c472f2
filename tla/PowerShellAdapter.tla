-------------------------- MODULE PowerShellAdapter ---------------------------
(***************************************************************************)
(* The PowerShell adapters (crates/fsw-cli/src/adapters/powershell.rs,      *)
(* driven by adapters/mod.rs): a guarded block in the profile of each of    *)
(* two hosts, a marker key and a recovery directory per host, and one       *)
(* payload directory that both share.  Two journals, one per host and one   *)
(* of the payload, say what an interrupted transaction left behind.  Every  *)
(* rename, registry write and file write is a step; a step can fail, the    *)
(* process can die before it, and the user edits the profiles meanwhile.    *)
(*                                                                         *)
(* A named mutex (transaction.rs) lets one command run at a time and is     *)
(* released when its owner dies, so `op` is the one running command.        *)
(***************************************************************************)
EXTENDS Naturals, Sequences, FiniteSets

CONSTANTS
  Edition,     \* the two hosts
  Order,       \* the order in which the sweeps go through them
  Start,       \* the profiles before fwdslash
  Users,       \* texts the user may keep in a profile
  NoText,      \* the empty text
  Tx,          \* transaction ids (names of temporary directories)
  MaxBuild,    \* product versions; 1 is a release with versioned blocks
  MaxFaults,   \* bound: process deaths, file or registry calls that fail
  Troubled,    \* bound: hosts whose profile is edited and whose steps fail
  MaxEdits     \* bound: edits of the profiles by the user

NoTx == 0

ASSUME PowerShellAssumption ==
  /\ Order \in Seq(Edition) /\ Order # <<>>
  /\ \A e \in Edition : \E i \in 1..Len(Order) : Order[i] = e
  /\ MaxBuild \in Nat /\ MaxBuild >= 2
  /\ NoText \notin Users /\ Tx \subseteq Nat \ {NoTx}
  /\ \A e \in Edition : /\ Start[e] \in [present : BOOLEAN, text : Users \cup {NoText}, block : {"none"}]
                        /\ Start[e].text # NoText => Start[e].present
  /\ Troubled \subseteq Edition /\ MaxFaults \in Nat /\ MaxEdits \in Nat

\* The enum has two variants: what a host shares, it shares with one other.
ASSUME TwoHosts == \E a, b \in Edition : a # b /\ Edition = {a, b}

VARIABLES
  profile,   \* profile.ps1 of every host
  marker,    \* the marker key of every host
  snap,      \* the recovery directories of every host, by name
  journal,   \* state\<host>.transaction
  payload,   \* what each payload directory holds, by name; 0 is absent
  swap,      \* payload.transaction
  tree,      \* whether the state directory and the old versioned payload exist
  build,     \* version of the registered product, 0 once it is removed
  targets,   \* the host a background sweep found outdated and has yet to enable
  op,        \* the running command
  last,      \* how the last command ended
  \* Observers.
  owned,     \* the user's own text in every profile, and whether the file is the user's
  faults, edits

disk == <<profile, marker, snap, journal, payload, swap, tree>>
world == <<build, targets, owned, faults, edits>>
vars == <<disk, build, targets, op, last, owned, faults, edits>>

-----------------------------------------------------------------------------
Legacy == 1
Texts  == Users \cup {NoText}
Blocks == {"none", "legacy", "stable"}

\* A profile: the user's text and our block.  Fences are recognised whatever
\* is in them, so two blocks are stripped like one.
Contents == [present : BOOLEAN, text : Texts, block : Blocks]
Absent   == [present |-> FALSE, text |-> NoText, block |-> "none"]
Strip(c) == [c EXCEPT !.block = "none"]
WithBlock(c) == [present |-> TRUE, text |-> c.text, block |-> "stable"]

\* should_delete_profile.
Cleaned(c, origPresent) ==
  IF c.text = NoText /\ ~origPresent THEN Absent ELSE Strip(c)

Markers  == [present : BOOLEAN, state : {"", "prepared", "installed", "removing"},
             version : 0..MaxBuild, orig : BOOLEAN]
NoMarker == [present |-> FALSE, state |-> "", version |-> 0, orig |-> FALSE]

\* A recovery directory: complete, of a release without profile.before, the
\* same after it was adopted, or with files missing.
Snapshots == [kind : {"none", "full", "old", "adopted", "torn"}, before : Contents, orig : BOOLEAN]
NoSnap == [kind |-> "none", before |-> Absent, orig |-> FALSE]
Live == <<"live", NoTx>>
Names == {Live} \cup ({"staging", "removing"} \X Tx)

\* A journal: the id, and the marker the transaction replaced, whose values
\* are files that are only read through the journal.
Phases  == {"none", "open", "committed", "rolledback"}
NoEntry == [tx |-> NoTx, phase |-> "none", prev |-> 0, orig |-> FALSE]
Entries == [tx : Tx \cup {NoTx}, phase : Phases, prev : 0..MaxBuild, orig : BOOLEAN]
Opened(t, was) == [tx |-> t, phase |-> "open", prev |-> was.version, orig |-> was.orig]

\* original_profile_present, and what the previous marker knew.
OriginalPresent(c, was) ==
  c.present /\ (c.block = "none" \/ c.text # NoText \/ (was.present /\ was.orig))

-----------------------------------------------------------------------------
(* A command is a list of tasks; the first one is at step op.pc.            *)

Recovering == {"recover", "restore", "unpublish", "unretire", "values", "state", "rolled",
               "tidyswap", "tidydrop", "tidystate", "dropjournal",
               "swap", "swaproot", "swaprename", "swapclean", "swapdrop"}
Commands == {"none", "enable", "disable", "repair", "repairall", "sweep", "clean"}
Idle == [cmd |-> "none", user |-> TRUE, fresh |-> FALSE, todo |-> <<>>, pc |-> "idle",
         tx |-> NoTx, seen |-> Absent, was |-> NoMarker, inplace |-> FALSE,
         undoing |-> FALSE, worst |-> FALSE]
Cur == IF op.todo = <<>> THEN Order[1] ELSE Head(op.todo)[2]
T   == op.tx

At(pc) == op.pc = pc
Goto(pc) == op' = [op EXCEPT !.pc = pc] /\ UNCHANGED last
Ends(code) == op' = Idle /\ last' = code
\* A task starts with no locals.
NextTask(todo) ==
  [op EXCEPT !.todo = todo, !.pc = Head(todo)[1],
             !.tx = NoTx, !.seen = Absent, !.was = NoMarker, !.inplace = FALSE]
Continues(todo, worst) ==
  IF todo = <<>> THEN Ends(IF worst \/ op.undoing THEN "failed" ELSE "ok")
  ELSE op' = [NextTask(todo) EXCEPT !.worst = worst] /\ UNCHANGED last
Runs(todo) == Continues(todo, op.worst)
Done == Runs(Tail(op.todo))
Instead(tasks) == Runs(tasks \o Tail(op.todo))

\* sweep_uninstall goes on with the next host.
Abort(code) ==
  IF op.cmd \in {"sweep", "clean"} /\ op.pc \notin Recovering
    THEN Continues(Tail(op.todo), TRUE) ELSE Ends(code)

Both(task)   == [i \in 1..Len(Order) |-> <<task, Order[i]>>]
\* recover_all.  For a mutant: the payload's journal is not looked at.
HostsOnly  == Both("recover")
RecoverAll == HostsOnly \o <<<<"swap", Order[1]>>>>
Prunes(e)  == <<<<"modules", e>>, <<"leftovers", e>>>>

Todo(cmd, e) ==
  RecoverAll \o
  CASE cmd = "enable"    -> <<<<"enable", e>>>> \o Prunes(e)
    [] cmd = "disable"   -> <<<<"adopt", e>>, <<"leftovers", e>>>>
    [] cmd = "repair"    -> <<<<"repair", e>>>>
    [] cmd = "repairall" -> Both("repair") \o <<<<"modules", e>>, <<"tree", e>>, <<"leftovers", e>>>>
    [] cmd = "sweep"     -> Both("adopt") \o Prunes(e)
    [] cmd = "clean"     -> Both("adopt") \o Prunes(e) \o <<<<"swept", e>>>>

-----------------------------------------------------------------------------
(* Recovery of a host's journal, and of the payload's.                      *)

SetProfile(e, c) == profile' = [profile EXCEPT ![e] = c]
SetMarker(e, m)  == marker' = [marker EXCEPT ![e] = m]
SetJournal(e, phase) == journal' = [journal EXCEPT ![e].phase = phase]
Moved(f, from, to, empty) == [f EXCEPT ![to] = f[from], ![from] = empty]
J == journal[Cur]
Staged == snap[Cur][<<"staging", J.tx>>]
Published == Staged.kind = "none"
Recovery == IF Published THEN snap[Cur][Live] ELSE Staged

\* The bytes the transaction of a recovery directory writes.
Installed(r) == IF r.kind = "adopted" THEN [r.before EXCEPT !.present = TRUE, !.block = "legacy"]
                ELSE WithBlock(r.before)

Recover ==
  /\ At("recover")
  /\ IF J.phase = "none" THEN Done
     ELSE IF J.phase # "open" THEN Goto("tidyswap")
     ELSE IF Recovery.kind # "full" THEN Abort("refused")
     ELSE IF profile[Cur] = Recovery.before THEN Goto("unpublish")
     ELSE IF profile[Cur] # Installed(Recovery) THEN Abort("refused")
     ELSE IF op.user \/ op.undoing
       THEN op' = [op EXCEPT !.seen = profile[Cur], !.pc = "restore"] /\ UNCHANGED last
     ELSE Abort("confirm")
  /\ UNCHANGED <<disk, world>>

\* ProfileSnapshot::replace: compare and write on one protected handle.  For a
\* mutant: what was read is not compared.
Overwritten(c, ok, conflict) == SetProfile(Cur, c) /\ ok
Replaced(c, ok, conflict) ==
  IF profile[Cur] = op.seen THEN SetProfile(Cur, c) /\ ok ELSE conflict /\ UNCHANGED profile

Restore ==
  /\ At("restore")
  /\ Replaced(Recovery.before, Goto("unpublish"), Abort("refused"))
  /\ UNCHANGED <<marker, snap, journal, payload, swap, tree, world>>

Unpublish ==
  /\ At("unpublish")
  /\ snap' = IF Published THEN [snap EXCEPT ![Cur] = Moved(@, Live, <<"staging", J.tx>>, NoSnap)] ELSE snap
  /\ Goto("unretire")
  /\ UNCHANGED <<profile, marker, journal, payload, swap, tree, world>>

\* For a mutant: the retired directory is not put back.
LeaveRetired ==
  /\ At("unretire") /\ Goto("values")
  /\ UNCHANGED <<disk, world>>

Unretire ==
  /\ At("unretire")
  /\ snap' = IF snap[Cur][<<"removing", J.tx>>].kind # "none"
               THEN [snap EXCEPT ![Cur] = Moved(@, <<"removing", J.tx>>, Live, NoSnap)] ELSE snap
  /\ Goto("values")
  /\ UNCHANGED <<profile, marker, journal, payload, swap, tree, world>>

\* restore_ps_marker, the state last.
RestoreValues ==
  /\ At("values")
  /\ SetMarker(Cur, IF J.prev = 0 THEN NoMarker
                    ELSE [marker[Cur] EXCEPT !.present = TRUE, !.version = J.prev, !.orig = J.orig])
  /\ Goto("state")
  /\ UNCHANGED <<profile, snap, journal, payload, swap, tree, world>>

RestoreState ==
  /\ At("state")
  /\ marker' = IF marker[Cur].present THEN [marker EXCEPT ![Cur].state = "installed"] ELSE marker
  /\ IF swap.phase # "none" /\ swap.tx = J.tx
       THEN Instead(<<<<"swap", Cur>>, <<"rolled", Cur>>>>)
       ELSE Goto("rolled")
  /\ UNCHANGED <<profile, snap, journal, payload, swap, tree, world>>

RolledBack ==
  /\ At("rolled")
  /\ SetJournal(Cur, "rolledback") /\ Goto("tidystate")
  /\ UNCHANGED <<profile, marker, snap, payload, swap, tree, world>>

\* complete_owned_payload_swap: only the swap of the same transaction, which a
\* directory that was put back does not name.
OwnsSwap == swap.phase # "none" /\ J.phase = "committed" /\ J.tx = swap.tx
Emptied(t) == [payload EXCEPT ![<<"staging", t>>] = 0, ![<<"removing", t>>] = 0]
TidySwap ==
  /\ At("tidyswap")
  /\ IF OwnsSwap THEN payload' = Emptied(swap.tx) /\ Goto("tidydrop")
     ELSE Goto("tidystate") /\ UNCHANGED payload
  /\ UNCHANGED <<profile, marker, snap, journal, swap, tree, world>>

TidyDrop ==
  /\ At("tidydrop")
  /\ swap' = NoEntry /\ Goto("tidystate")
  /\ UNCHANGED <<profile, marker, snap, journal, payload, tree, world>>

TidyState ==
  /\ At("tidystate")
  /\ snap' = [snap EXCEPT ![Cur][<<"staging", J.tx>>] = NoSnap, ![Cur][<<"removing", J.tx>>] = NoSnap]
  /\ Goto("dropjournal")
  /\ UNCHANGED <<profile, marker, journal, payload, swap, tree, world>>

DropJournal ==
  /\ At("dropjournal")
  /\ journal' = [journal EXCEPT ![Cur] = NoEntry] /\ Done
  /\ UNCHANGED <<profile, marker, snap, payload, swap, tree, world>>

\* recover_payload_swap.
Swap ==
  /\ At("swap")
  /\ IF swap.phase = "none" THEN Done
     ELSE IF swap.phase = "open" /\ payload[<<"removing", swap.tx>>] # 0 THEN Goto("swaproot")
     ELSE Goto("swapclean")
  /\ UNCHANGED <<disk, world>>

SwapRoot ==
  /\ At("swaproot")
  /\ payload' = [payload EXCEPT ![Live] = 0] /\ Goto("swaprename")
  /\ UNCHANGED <<profile, marker, snap, journal, swap, tree, world>>

SwapRename ==
  /\ At("swaprename")
  /\ payload' = Moved(payload, <<"removing", swap.tx>>, Live, 0) /\ Goto("swapclean")
  /\ UNCHANGED <<profile, marker, snap, journal, swap, tree, world>>

SwapClean ==
  /\ At("swapclean")
  /\ payload' = Emptied(swap.tx) /\ Goto("swapdrop")
  /\ UNCHANGED <<profile, marker, snap, journal, swap, tree, world>>

SwapDrop ==
  /\ At("swapdrop")
  /\ swap' = NoEntry /\ Done
  /\ UNCHANGED <<profile, marker, snap, journal, payload, tree, world>>


-----------------------------------------------------------------------------
(* begin_install and commit_install, for enable and for a reinstall.        *)

InstalledMarker(e) == marker[e].present /\ marker[e].state = "installed"
Other(e) == CHOOSE f \in Edition : f # e
NoPolicy(code) == Ends(code)

\* set_integration, after the recovery.
Enable ==
  /\ At("enable")
  /\ LET tasks == IF InstalledMarker(Cur) THEN <<<<"upgrade", Cur>>>>
                  ELSE <<<<"tree", Cur>>, <<"install", Cur>>>>
         todo  == tasks \o Tail(op.todo)
     IN op' = [NextTask(todo) EXCEPT !.fresh = ~op.user /\ ~InstalledMarker(Cur)]
  /\ UNCHANGED <<disk, world, last>>

\* prune_orphaned_payload_tree; the marker of the cmd adapter protects it too.
EmptyTree == [state |-> FALSE, legacy |-> FALSE]
Tree ==
  /\ At("tree") /\ Done
  /\ \/ /\ \A e \in Edition : ~marker[e].present
        /\ ~tree.state /\ swap.phase = "none"
        /\ payload' = [n \in Names |-> 0] /\ tree' = EmptyTree
     \/ UNCHANGED <<payload, tree>>
  /\ UNCHANGED <<profile, marker, snap, journal, swap, world>>

\* The execution policy may refuse a script host before anything is written.
Install ==
  /\ At("install")
  /\ \/ Instead(<<<<"adopt", Cur>>, <<"resume", Cur>>, <<"begin", Cur>>>>)
     \/ Ends("policy")
  /\ UNCHANGED <<disk, world>>

Reinstall ==
  /\ At("reinstall")
  /\ Instead(<<<<"replace", Cur>>>>) \/ Ends("policy")
  /\ UNCHANGED <<disk, world>>

\* recover_unmarked_state: its marker says prepared, last.  Installing and
\* uninstalling both start with it.
Unmarked == Instead(IF op.cmd = "enable" THEN <<>> ELSE <<<<"uninstall", Cur>>>>)
Adopt ==
  /\ At("adopt")
  /\ LET s == snap[Cur][Live] IN
     IF marker[Cur].present \/ s.kind = "none" THEN Unmarked /\ UNCHANGED <<marker, snap>>
     ELSE IF s.kind = "torn" THEN Abort("refused") /\ UNCHANGED <<marker, snap>>
     ELSE /\ snap' = [snap EXCEPT ![Cur][Live].kind = IF s.kind = "old" THEN "adopted" ELSE @]
          /\ SetMarker(Cur, [present |-> TRUE, state |-> "", version |-> build, orig |-> s.orig])
          /\ Goto("adopted")
  /\ UNCHANGED <<profile, journal, payload, swap, tree, world>>

Adopted ==
  /\ At("adopted")
  /\ marker' = [marker EXCEPT ![Cur].state = "prepared"] /\ Unmarked
  /\ UNCHANGED <<profile, snap, journal, payload, swap, tree, world>>

Resume ==
  /\ At("resume")
  /\ IF marker[Cur].state \in {"prepared", "removing"}
       THEN Instead(<<<<"uninstall", Cur>>>>) ELSE Done
  /\ UNCHANGED <<disk, world>>

Used == {swap.tx} \cup {n[2] : n \in {m \in Names : payload[m] # 0}}
          \cup UNION {{journal[e].tx} \cup {n[2] : n \in {m \in Names : snap[e][m].kind # "none"}}
                      : e \in Edition}
\* The ids suffice (bound).
IdLeft == Tx \ Used # {}
NewTx == CHOOSE t \in Tx : t \notin Used

Starts(inplace) ==
  /\ IdLeft
  /\ op' = [op EXCEPT !.pc = "payload", !.tx = NewTx, !.seen = profile[Cur],
                      !.was = marker[Cur], !.inplace = inplace]
  /\ UNCHANGED last

Begin ==
  /\ op.pc \in {"begin", "replace"}
  /\ IF marker[Cur].present /\ marker[Cur].state # "installed" THEN Abort("refused")
     ELSE IF InstalledMarker(Cur) /\ At("begin") THEN Done
     ELSE Starts(FALSE)
  /\ UNCHANGED <<disk, world>>

\* PayloadSwap::ensure.  No swap is open here: the recovery came first.
AfterSwap == IF op.inplace THEN "commitswap" ELSE "stage"
\* For a mutant: any payload will do.
EnsureAny ==
  /\ At("payload")
  /\ IF payload[Live] # 0 THEN Goto(AfterSwap) /\ UNCHANGED payload
     ELSE payload' = [payload EXCEPT ![<<"staging", T>>] = build] /\ Goto("swapjournal")
  /\ UNCHANGED <<profile, marker, snap, journal, swap, tree, world>>

Ensure ==
  /\ At("payload")
  /\ IF payload[Live] = build THEN Goto(AfterSwap) /\ UNCHANGED payload
     ELSE payload' = [payload EXCEPT ![<<"staging", T>>] = build] /\ Goto("swapjournal")
  /\ UNCHANGED <<profile, marker, snap, journal, swap, tree, world>>

SwapJournal ==
  /\ At("swapjournal")
  /\ swap' = Opened(T, NoMarker) /\ Goto("aside")
  /\ UNCHANGED <<profile, marker, snap, journal, payload, tree, world>>

Aside ==
  /\ At("aside")
  /\ payload' = Moved(payload, Live, <<"removing", T>>, 0) /\ Goto("deploy")
  /\ UNCHANGED <<profile, marker, snap, journal, swap, tree, world>>

Deploy ==
  /\ At("deploy")
  /\ payload' = Moved(payload, <<"staging", T>>, Live, 0) /\ Goto(AfterSwap)
  /\ UNCHANGED <<profile, marker, snap, journal, swap, tree, world>>

\* stage_profile_recovery, the journal last.
Stage ==
  /\ At("stage")
  /\ snap' = [snap EXCEPT ![Cur][<<"staging", T>>] =
                [kind |-> "full", before |-> op.seen, orig |-> OriginalPresent(op.seen, op.was)]]
  /\ tree' = [tree EXCEPT !.state = TRUE]
  /\ Goto("journal")
  /\ UNCHANGED <<profile, marker, journal, payload, swap, world>>

OpenJournal ==
  /\ At("journal")
  /\ journal' = [journal EXCEPT ![Cur] = Opened(T, op.was)] /\ Goto("publish")
  /\ UNCHANGED <<profile, marker, snap, payload, swap, tree, world>>

Publish ==
  /\ At("publish")
  /\ SetMarker(Cur, [marker[Cur] EXCEPT !.present = TRUE, !.version = build,
                                        !.orig = OriginalPresent(op.seen, op.was)])
  /\ Goto("prepared")
  /\ UNCHANGED <<profile, snap, journal, payload, swap, tree, world>>

Prepared ==
  /\ At("prepared")
  /\ marker' = [marker EXCEPT ![Cur].state = "prepared"] /\ Goto("retire")
  /\ UNCHANGED <<profile, snap, journal, payload, swap, tree, world>>

Retire ==
  /\ At("retire")
  /\ snap' = IF snap[Cur][Live].kind = "none" THEN snap
             ELSE [snap EXCEPT ![Cur] = Moved(@, Live, <<"removing", T>>, NoSnap)]
  /\ Goto("live")
  /\ UNCHANGED <<profile, marker, journal, payload, swap, tree, world>>

GoLive ==
  /\ At("live")
  /\ snap' = [snap EXCEPT ![Cur] = Moved(@, <<"staging", T>>, Live, NoSnap)]
  /\ Goto("write")
  /\ UNCHANGED <<profile, marker, journal, payload, swap, tree, world>>

\* Nothing is opened when no byte would change.
Write ==
  /\ At("write")
  /\ IF op.seen = WithBlock(op.seen) THEN Goto("installed") /\ UNCHANGED profile
     ELSE Replaced(WithBlock(op.seen), Goto("installed"), Goto("undo"))
  /\ UNCHANGED <<marker, snap, journal, payload, swap, tree, world>>

MarkInstalled ==
  /\ At("installed")
  /\ marker' = [marker EXCEPT ![Cur].state = "installed"] /\ Goto("verify")
  /\ UNCHANGED <<profile, snap, journal, payload, swap, tree, world>>

\* verify_aliases starts the host and asks for our aliases.
Verify ==
  /\ At("verify")
  /\ Goto(IF profile[Cur].block = "stable" /\ payload[Live] # 0 THEN "commit" ELSE "undo")
  /\ UNCHANGED <<disk, world>>

Commit ==
  /\ At("commit")
  /\ SetJournal(Cur, "committed") /\ Goto("finish")
  /\ UNCHANGED <<profile, marker, snap, payload, swap, tree, world>>

\* PayloadSwap::finish and finish_install_cleanup.
OwnSwap == swap.phase # "none" /\ swap.tx = T
Finish ==
  /\ At("finish")
  /\ payload' = [payload EXCEPT ![<<"removing", T>>] = 0] /\ Goto("finishswap")
  /\ UNCHANGED <<profile, marker, snap, journal, swap, tree, world>>

FinishSwap ==
  /\ At("finishswap")
  /\ swap' = IF OwnSwap THEN NoEntry ELSE swap
  /\ IF op.inplace THEN Done ELSE Goto("finishstate")
  /\ UNCHANGED <<profile, marker, snap, journal, payload, tree, world>>

FinishState ==
  /\ At("finishstate")
  /\ snap' = [snap EXCEPT ![Cur][<<"removing", T>>] = NoSnap] /\ Goto("finishjournal")
  /\ UNCHANGED <<profile, marker, journal, payload, swap, tree, world>>

FinishJournal ==
  /\ At("finishjournal")
  /\ journal' = [journal EXCEPT ![Cur] = NoEntry] /\ Done
  /\ UNCHANGED <<profile, marker, snap, payload, swap, tree, world>>

\* InstallTransaction::undo: by the journal when there is one, else only the
\* payload and the staged directory were touched.
Undo ==
  /\ At("undo")
  /\ IF journal[Cur].phase # "none"
       THEN /\ op' = [op EXCEPT !.todo = <<<<"recover", Cur>>>>, !.pc = "recover", !.undoing = TRUE]
            /\ UNCHANGED <<snap, last>>
       ELSE /\ snap' = [snap EXCEPT ![Cur][<<"staging", T>>] = NoSnap]
            /\ Goto("undoroot")
  /\ UNCHANGED <<profile, marker, journal, payload, swap, tree, world>>

UndoRoot ==
  /\ At("undoroot")
  /\ payload' = IF OwnSwap /\ payload[<<"staging", T>>] = 0
                  THEN [payload EXCEPT ![Live] = 0] ELSE payload
  /\ Goto("undoname")
  /\ UNCHANGED <<profile, marker, snap, journal, swap, tree, world>>

UndoName ==
  /\ At("undoname")
  /\ payload' = IF payload[<<"removing", T>>] # 0
                  THEN Moved(payload, <<"removing", T>>, Live, 0) ELSE payload
  /\ Goto("undoclean")
  /\ UNCHANGED <<profile, marker, snap, journal, swap, tree, world>>

UndoClean ==
  /\ At("undoclean")
  /\ payload' = [payload EXCEPT ![<<"staging", T>>] = 0]
  /\ swap' = IF OwnSwap THEN NoEntry ELSE swap
  /\ Ends("failed")
  /\ UNCHANGED <<profile, marker, snap, journal, tree, world>>

-----------------------------------------------------------------------------
(* upgrade: the payload and the marker's version, never the profile.        *)

\* For a mutant: whoever asks.
UpgradeForAnyone ==
  /\ At("upgrade")
  /\ IF profile[Cur].block = "stable" THEN Starts(TRUE) ELSE Instead(<<<<"reinstall", Cur>>>>)
  /\ UNCHANGED <<disk, world>>

Upgrade ==
  /\ At("upgrade")
  /\ IF profile[Cur].block = "stable" THEN Starts(TRUE)
     ELSE IF op.user THEN Instead(<<<<"reinstall", Cur>>>>) ELSE Abort("confirm")
  /\ UNCHANGED <<disk, world>>

CommitSwap ==
  /\ At("commitswap")
  /\ swap' = IF OwnSwap THEN [swap EXCEPT !.phase = "committed"] ELSE swap
  /\ Goto("version")
  /\ UNCHANGED <<profile, marker, snap, journal, payload, tree, world>>

Version ==
  /\ At("version")
  /\ marker' = [marker EXCEPT ![Cur].version = build] /\ Goto("finish")
  /\ UNCHANGED <<profile, snap, journal, payload, swap, tree, world>>

-----------------------------------------------------------------------------
(* uninstall.                                                               *)

\* Without its recovery files nothing is touched.
Uninstalls ==
  /\ At("uninstall")
  /\ IF ~marker[Cur].present THEN Done /\ UNCHANGED marker
     ELSE IF marker[Cur].state = "" \/ snap[Cur][Live].kind \notin {"full", "old", "adopted"}
       THEN Abort("refused") /\ UNCHANGED marker
     ELSE /\ marker' = [marker EXCEPT ![Cur].state = "removing"]
          /\ op' = [op EXCEPT !.pc = "examine", !.was = marker[Cur]] /\ UNCHANGED last
  /\ UNCHANGED <<profile, snap, journal, payload, swap, tree, world>>

\* What an interrupted install left is undone, anything else is excised.
ToExcise == IF op.was.state = "prepared" /\ snap[Cur][Live].kind # "old"
              THEN snap[Cur][Live].before ELSE Cleaned(op.seen, op.was.orig)
Examine ==
  /\ At("examine")
  /\ LET c == profile[Cur]  s == snap[Cur][Live] IN
     IF ~c.present THEN Goto("forget")
     ELSE IF op.was.state = "prepared" /\ s.kind # "old"
       THEN IF c = s.before THEN Goto("forget")
            ELSE IF c # Installed(s) THEN Goto("restate")
            ELSE op' = [op EXCEPT !.seen = c, !.pc = "excise"] /\ UNCHANGED last
     ELSE IF Cleaned(c, op.was.orig) = c THEN Goto("forget")
     ELSE op' = [op EXCEPT !.seen = c, !.pc = "excise"] /\ UNCHANGED last
  /\ UNCHANGED <<disk, world>>

Excise ==
  /\ At("excise")
  /\ Replaced(ToExcise, Goto("forget"), Goto("restate"))
  /\ UNCHANGED <<marker, snap, journal, payload, swap, tree, world>>

Restate ==
  /\ At("restate")
  /\ marker' = [marker EXCEPT ![Cur].state = op.was.state] /\ Abort("failed")
  /\ UNCHANGED <<profile, snap, journal, payload, swap, tree, world>>

Forget ==
  /\ At("forget")
  /\ SetMarker(Cur, NoMarker) /\ Goto("erase")
  /\ UNCHANGED <<profile, snap, journal, payload, swap, tree, world>>

\* remove_dir_all takes the files one by one.
Erase ==
  /\ At("erase")
  /\ snap' = [snap EXCEPT ![Cur][Live].kind = "torn"] /\ Goto("erased")
  /\ UNCHANGED <<profile, marker, journal, payload, swap, tree, world>>

Erased ==
  /\ At("erased")
  /\ snap' = [snap EXCEPT ![Cur][Live] = NoSnap] /\ Goto("cleanup")
  /\ UNCHANGED <<profile, marker, journal, payload, swap, tree, world>>

\* cleanup_shared_payload_at: a payload goes when the other host has no marker
\* that names it.
\* For a mutant: the host asks about itself.
Nobody(e) == ~marker[e].present
NobodyElse(e) == ~marker[Other(e)].present
Cleanup ==
  /\ At("cleanup")
  /\ tree' = [tree EXCEPT !.legacy = @ /\ ~(/\ op.was.version = Legacy
                                            /\ NobodyElse(Cur) \/ marker[Other(Cur)].version # Legacy)]
  /\ Goto("cleanpayload")
  /\ UNCHANGED <<profile, marker, snap, journal, payload, swap, world>>

CleanPayload ==
  /\ At("cleanpayload")
  /\ payload' = IF NobodyElse(Cur) THEN [payload EXCEPT ![Live] = 0] ELSE payload
  /\ Instead(<<<<"modules", Cur>>>>)
  /\ UNCHANGED <<profile, marker, snap, journal, swap, tree, world>>

-----------------------------------------------------------------------------
(* repair, the sweeps of leftovers, and the end of an orphan clean.         *)

\* classify_profile and decide_profile_repair.
BlockWorks(e) == CASE profile[e].block = "legacy" -> tree.legacy
                   [] profile[e].block = "stable" -> payload[Live] # 0
                   [] OTHER -> TRUE
Healthy(e) == profile[e].block = "stable" /\ BlockWorks(e)
Repair ==
  /\ At("repair")
  /\ IF ~op.user THEN Done
     ELSE IF InstalledMarker(Cur) /\ ~Healthy(Cur) THEN Instead(<<<<"reinstall", Cur>>>>)
     ELSE IF ~InstalledMarker(Cur) /\ profile[Cur].block # "none" THEN Instead(<<<<"strip", Cur>>>>)
     ELSE Done
  /\ UNCHANGED <<disk, world>>

\* remove_blocks_from_profile and strip_all_ps_profiles.
ReadStrip ==
  /\ At("strip")
  /\ IF profile[Cur].block = "none" THEN Done
     ELSE op' = [op EXCEPT !.seen = profile[Cur], !.pc = "stripped"] /\ UNCHANGED last
  /\ UNCHANGED <<disk, world>>

\* They do not ask the marker whether an emptied file was there before us:
\* `owned` gives such a file up.
StripBlocks ==
  /\ At("stripped")
  /\ Replaced(Cleaned(op.seen, FALSE), Done, Done)
  /\ owned' = [owned EXCEPT ![Cur].file = @ /\ profile'[Cur].present]
  /\ UNCHANGED <<marker, snap, journal, payload, swap, tree, build, targets, faults, edits>>

\* prune_orphaned_module_dirs: an incomplete marker protects everything.
AllSettled == \A e \in Edition : marker[e].present => marker[e].state = "installed"
StateUsed == \E e \in Edition : journal[e].phase # "none" \/ \E n \in Names : snap[e][n].kind # "none"
Modules ==
  /\ At("modules")
  /\ tree' = IF AllSettled
               THEN [state |-> tree.state /\ StateUsed,
                     legacy |-> tree.legacy /\ \E e \in Edition : profile[e].block = "legacy"]
               ELSE tree
  /\ Done
  /\ UNCHANGED <<profile, marker, snap, journal, payload, swap, world>>

\* prune_leftover_dirs.  It recovers first: a committed journal then goes at
\* once instead of at the next command.
Leftovers ==
  /\ At("leftovers")
  /\ payload' = [n \in Names |-> IF n # Live /\ n[2] # swap.tx THEN 0 ELSE payload[n]]
  /\ Done
  /\ UNCHANGED <<profile, marker, snap, journal, swap, tree, world>>

\* cleanup_orphaned goes on when every adapter was removed.
Swept ==
  /\ At("swept")
  /\ IF op.worst THEN Done ELSE Instead(Both("strip") \o <<<<"wipe", Cur>>>>)
  /\ UNCHANGED <<disk, world>>

\* The markers, then schedule_payload_delete, unless the
\* cmd hook is still in AutoRun.
Wipe ==
  /\ At("wipe")
  /\ marker' = [e \in Edition |-> NoMarker] /\ Goto("retiretree")
  /\ UNCHANGED <<profile, snap, journal, payload, swap, tree, world>>

RetireTree ==
  /\ At("retiretree")
  /\ \/ /\ snap' = [e \in Edition |-> [n \in Names |-> NoSnap]]
        /\ journal' = [e \in Edition |-> NoEntry]
        /\ payload' = [n \in Names |-> 0] /\ swap' = NoEntry /\ tree' = EmptyTree
     \/ UNCHANGED <<snap, journal, payload, swap, tree>>
  /\ Done
  /\ UNCHANGED <<profile, marker, world>>

-----------------------------------------------------------------------------
(* Commands, failures, and the rest of the machine.                         *)

Command(cmd, e, user) ==
  /\ op = Idle
  /\ op' = [Idle EXCEPT !.cmd = cmd, !.user = user, !.todo = Todo(cmd, e), !.pc = Head(Todo(cmd, e))[1]]
  /\ last' = "none"
  /\ UNCHANGED <<disk, build, owned, faults, edits>>

\* integration <id> enable, disable, repair; uninstall.
UserCommand ==
  /\ build # 0
  /\ \E e \in Edition, cmd \in {"enable", "disable", "repair", "sweep"} :
       /\ cmd = "sweep" => e = Order[1]
       /\ Command(cmd, e, TRUE)
  /\ UNCHANGED targets

\* adapter_upgrade_sweep asks once which hosts are outdated, and then runs the
\* background enable of one after the other.  For each of them it is a look and,
\* some time later, an enable.
SweepStart ==
  /\ build # 0 /\ targets = {}
  /\ \E e \in Edition : /\ InstalledMarker(e) /\ marker[e].version # build
                        /\ targets' = {e}
  /\ UNCHANGED <<disk, build, op, last, owned, faults, edits>>

BackgroundEnable ==
  /\ build # 0
  /\ \E e \in targets : Command("enable", e, FALSE) /\ targets' = targets \ {e}

BackgroundRepair ==
  /\ build # 0 /\ Command("repairall", Order[1], FALSE) /\ UNCHANGED targets

\* uninstall --orphaned, by the block of a shell that starts.
OrphanClean ==
  /\ build = 0 /\ payload[Live] # 0
  /\ \E e \in Edition : profile[e].block = "stable"
  /\ Command("clean", Order[1], TRUE) /\ UNCHANGED targets

NewBuild ==
  /\ build # 0 /\ build < MaxBuild /\ op = Idle
  /\ build' = build + 1
  /\ UNCHANGED <<disk, targets, op, last, owned, faults, edits>>

Remove ==
  /\ build # 0 /\ op = Idle
  /\ build' = 0 /\ targets' = {}
  /\ UNCHANGED <<disk, op, last, owned, faults, edits>>

\* The user edits a profile, deletes it, or takes our block out by hand.  Only a
\* step of the same host can tell when during a command that was.
UsersFile(c) == [text |-> c.text, file |-> c.text # NoText]
Edit ==
  /\ edits < MaxEdits /\ edits' = edits + 1
  /\ \E e \in {f \in Troubled : op = Idle \/ f = Cur} :
       \E c \in {[profile[e] EXCEPT !.present = TRUE, !.text = x] : x \in Texts}
                  \cup {Strip(profile[e]), Absent} :
         /\ c # profile[e]
         /\ SetProfile(e, c)
         /\ owned' = [owned EXCEPT ![e] = UsersFile(c)]
  /\ UNCHANGED <<marker, snap, journal, payload, swap, tree, build, targets, op, last, faults>>

\* The process dies, or adapter_upgrade_sweep kills it after its time limit.
Crash ==
  /\ op # Idle /\ Cur \in Troubled /\ faults < MaxFaults /\ faults' = faults + 1
  /\ op' = Idle /\ last' = "none"
  /\ UNCHANGED <<disk, build, targets, owned, edits>>

Undoes == {"payload", "swapjournal", "aside", "deploy", "stage", "journal", "publish", "prepared",
           "retire", "live", "write", "installed", "verify", "commit"}
Finishes == {"finish", "finishswap", "finishstate", "finishjournal"}
Reports == (Recovering \ {"recover", "swap", "rolled"})
             \cup {"adopted", "uninstall", "restate", "forget", "erase", "erased", "cleanup",
                   "cleanpayload", "commitswap", "version", "rolled",
                   "undo", "undoroot", "undoname"}

\* A call of the step returns an error.
Fail ==
  /\ Cur \in Troubled /\ faults < MaxFaults /\ faults' = faults + 1
  /\ \/ op.pc \in Undoes /\ Goto("undo")
     \/ op.pc = "excise" /\ Goto("restate")
     \/ op.pc \in Finishes \cup {"stripped"} /\ Done
     \/ op.pc \in Reports /\ Abort("failed")
  /\ UNCHANGED <<disk, build, targets, owned, edits>>

Init ==
  /\ build = 2
  /\ \E old \in SUBSET Edition :
       /\ profile = [e \in Edition |-> IF e \in old
                       THEN [present |-> TRUE, text |-> Start[e].text, block |-> "legacy"] ELSE Start[e]]
       /\ marker = [e \in Edition |-> IF e \in old
                      THEN [present |-> TRUE, state |-> "installed", version |-> Legacy,
                            orig |-> Start[e].present]
                      ELSE NoMarker]
       /\ snap = [e \in Edition |-> [n \in Names |->
                    IF n = Live /\ e \in old
                      THEN [kind |-> "old", orig |-> Start[e].present,
                            before |-> [present |-> TRUE, text |-> Start[e].text, block |-> "none"]]
                      ELSE NoSnap]]
       /\ tree = [state |-> old # {}, legacy |-> old # {}]
  /\ journal = [e \in Edition |-> NoEntry]
  /\ payload = [n \in Names |-> 0] /\ swap = NoEntry
  /\ targets = {} /\ op = Idle /\ last = "none"
  /\ owned = [e \in Edition |-> [text |-> Start[e].text, file |-> Start[e].present]]
  /\ faults = 0 /\ edits = 0

Recovers == \/ Recover \/ Restore \/ Unpublish \/ Unretire \/ RestoreValues \/ RestoreState
            \/ RolledBack \/ TidySwap \/ TidyDrop \/ TidyState \/ DropJournal
            \/ Swap \/ SwapRoot \/ SwapRename \/ SwapClean \/ SwapDrop
Enables  == \/ Enable \/ Tree \/ Install \/ Reinstall \/ Adopt \/ Adopted \/ Resume \/ Begin
            \/ Ensure \/ SwapJournal \/ Aside \/ Deploy
            \/ Stage \/ OpenJournal \/ Publish \/ Prepared \/ Retire \/ GoLive \/ Write
            \/ MarkInstalled \/ Verify \/ Commit
            \/ Finish \/ FinishSwap \/ FinishState \/ FinishJournal
            \/ Undo \/ UndoRoot \/ UndoName \/ UndoClean
            \/ Upgrade \/ CommitSwap \/ Version
Removes  == \/ Uninstalls \/ Examine \/ Excise \/ Restate \/ Forget \/ Erase \/ Erased
            \/ Cleanup \/ CleanPayload
Tidies   == \/ Repair \/ ReadStrip \/ StripBlocks \/ Modules \/ Leftovers \/ Swept \/ Wipe \/ RetireTree
World    == \/ UserCommand \/ SweepStart \/ BackgroundEnable \/ BackgroundRepair \/ OrphanClean
            \/ NewBuild \/ Remove \/ Edit \/ Crash \/ Fail

Next == Recovers \/ Enables \/ Removes \/ Tidies \/ World
Spec == Init /\ [][Next]_vars

-----------------------------------------------------------------------------
\* Types; and no swap is open where another starts.
TypeOK ==
  /\ profile \in [Edition -> Contents] /\ marker \in [Edition -> Markers]
  /\ snap \in [Edition -> [Names -> Snapshots]] /\ journal \in [Edition -> Entries]
  /\ payload \in [Names -> 0..MaxBuild] /\ swap \in Entries
  /\ tree \in [state : BOOLEAN, legacy : BOOLEAN]
  /\ build \in 0..MaxBuild /\ targets \subseteq Edition
  /\ op.cmd \in Commands /\ op.seen \in Contents /\ op.was \in Markers /\ op.tx \in Tx \cup {NoTx}
  /\ last \in {"none", "ok", "failed", "refused", "confirm", "policy"}
  /\ IdLeft
  /\ At("payload") => swap.phase = "none"

\* Whatever a command does, is refused, or leaves when it dies, a profile
\* holds the user's own text, and the file is not removed when it has any or
\* when it was there, if only empty, before fwdslash and no repair stripped it.
PreservesText ==
  \A e \in Edition : /\ profile[e].text = owned[e].text
                     /\ owned[e].file => profile[e].present

\* A block in a profile finds its module, however many hosts share the payload
\* and wherever a command stops; while the payload is swapped, its previous
\* bytes are still there under the name the journal tells.
BlockFindsModule ==
  \A e \in Edition : BlockWorks(e) \/ (swap.phase = "open" /\ payload[<<"removing", swap.tx>>] # 0)

\* An installed adapter can be removed: whatever interrupted transactions and
\* recoveries came before, the marker that says installed has its recovery
\* files beside it, which uninstall does not work without.
InstalledIsRemovable ==
  \A e \in Edition : InstalledMarker(e) /\ journal[e].phase # "open"
                       => snap[e][Live].kind \in {"full", "old", "adopted"}

\* What a command reports as done is done: after disable nothing of the host is
\* left, after enable the marker, the payload and the block (unless the user
\* took it out meanwhile) are this build's, after uninstall no host has any.
Settled(e) == /\ profile'[e].block = "stable" \/ edits # 0
              /\ payload'[Live] = build
              /\ marker'[e].state = "installed" /\ marker'[e].version = build
Gone(e) == profile'[e].block = "none" /\ ~marker'[e].present
OutcomeTrue ==
  [][op # Idle /\ op' = Idle /\ last' = "ok" =>
       CASE op.cmd = "enable"  -> Settled(Cur)
         [] op.cmd = "disable" -> Gone(Cur) /\ snap'[Cur][Live] = NoSnap
         [] op.cmd = "sweep" -> \A e \in Edition : Gone(e)
         [] OTHER -> TRUE]_vars

\* A background command writes no profile of a host that was installed when it
\* looked.
BackgroundKeepsProfile ==
  [][op # Idle /\ ~op.user /\ profile' # profile => op.fresh \/ edits' # edits]_vars

\* "A background run may swap the payload, but must never write the user's
\* profile.ps1" (adapters/mod.rs:149).  Violated: a host the user disabled
\* after the sweep looked is installed again.
BackgroundNeverWrites ==
  [][op # Idle /\ ~op.user /\ profile' # profile => edits' # edits]_vars

\* "A prior blocked/interrupted removal must be resumable from enable too"
\* (adapters/powershell.rs:57).  Violated.
RemovalResumes ==
  [][op.cmd = "enable" /\ op' = Idle /\ edits = 0 => last' # "refused"]_vars
===============================================================================
