------------------------------ MODULE CmdAdapter ------------------------------
(***************************************************************************)
(* The Command Prompt adapter (crates/fsw-cli/src/adapters/cmd.rs, driven  *)
(* by adapters/mod.rs): a transaction over three stores that share no      *)
(* commit point, namely the user's AutoRun registry value, the adapter's   *)
(* marker key and the payload directories.  Every reg.exe call and every   *)
(* directory rename is one step, the process can die or the call can fail  *)
(* at each of them, and another program may edit AutoRun at any time.      *)
(*                                                                         *)
(* A named mutex (transaction.rs) lets one command run at a time and is    *)
(* released when its owner dies, so `op` is the one running command.       *)
(***************************************************************************)
EXTENDS Naturals, Sequences, FiniteSets

CONSTANTS
  Users,       \* texts another program may keep in AutoRun
  NoText,      \* the empty text
  Tx, NoTx,    \* transaction ids (names of temporary directories); no id
  MaxBuild,    \* product versions run from 1 to MaxBuild
  MaxCrashes,  \* bound: process deaths
  MaxFaults,   \* bound: registry or file calls that return an error
  MaxEdits     \* bound: edits of AutoRun by other programs

ASSUME CmdAssumption ==
  /\ MaxBuild \in Nat \ {0}
  /\ NoText \notin Users
  /\ NoTx \notin Tx
  /\ MaxCrashes \in Nat /\ MaxFaults \in Nat /\ MaxEdits \in Nat

VARIABLES
  autorun,     \* HKCU Command Processor AutoRun
  marker,      \* the adapter's marker key
  dirs,        \* payload held by each directory under ForwardSlashWindows
  build,       \* version of the registered product, 0 once it is removed
  op,          \* the running command and its local variables
  last,        \* how the last command ended
  \* Observers: what the user owns, and what the code could not have seen.
  owned,       \* the user's own AutoRun, without any hook of ours
  raced,       \* an edit landed where the code cannot see it: between the last
               \* read of AutoRun and a write, between two reads and back, or
               \* against a half-published marker
  touched,     \* AutoRun was edited since the recorded original was read
  crashes, faults, edits

persistent == <<autorun, marker, dirs>>
observers  == <<owned, raced, touched>>
vars == <<persistent, build, op, last, observers, crashes, faults, edits>>

-----------------------------------------------------------------------------
(* AutoRun: a kind and a text; a text is the user's part and our hooks.     *)

Kinds    == {"String", "ExpandString"}
Texts    == [user : Users \cup {NoText}, hooks : 0..2]
Empty    == [user |-> NoText, hooks |-> 0]
AutoRuns == [present : BOOLEAN, kind : Kinds, text : Texts]
Absent   == [present |-> FALSE, kind |-> "String", text |-> Empty]

Hooked(ar) == ar.present /\ ar.text.hooks > 0

\* strip_fwdslash_autorun: drop every segment that is one of our hooks.
StripNothing(t) == t
StripOne(t) == [t EXCEPT !.hooks = @ - 1]
Strip(t) == [t EXCEPT !.hooks = 0]

\* installed_autorun: the original followed by our call.
InstalledText(t) == [t EXCEPT !.hooks = IF @ < 2 THEN @ + 1 ELSE @]

\* original_autorun_present: an existing empty value is a value; one that
\* held nothing but our hook is debris.
OriginalPresent(ar) ==
  ar.present /\ (ar.text = Empty \/ Strip(ar.text) # Empty)

-----------------------------------------------------------------------------
(* The marker key.  A missing value reads as its default.                   *)

Builds   == 1..MaxBuild
Payloads == 0..(MaxBuild + 1)
Nothing  == 0
Torn     == MaxBuild + 1          \* staging that was interrupted

Markers ==
  [present : BOOLEAN, state : {"", "prepared", "installed", "removing"},
   version : 0..MaxBuild, origPresent : BOOLEAN, origKind : Kinds,
   origText : Texts, instText : Texts, rollback : Tx \cup {NoTx},
   staging : Tx \cup {NoTx}, upVersion : 0..MaxBuild, upPending : BOOLEAN,
   removal : Tx \cup {NoTx}]

NoMarker ==
  [present |-> FALSE, state |-> "", version |-> 0, origPresent |-> FALSE,
   origKind |-> "String", origText |-> Empty, instText |-> Empty,
   rollback |-> NoTx, staging |-> NoTx, upVersion |-> 0, upPending |-> FALSE,
   removal |-> NoTx]

\* The order in which commit_install publishes the marker: the recovery record
\* of an upgrade before the state that gives up the installed milestone.
PublishSeq(upgrading) ==
  IF upgrading
  THEN <<"rollback", "staging", "upVersion", "upPending", "state", "version",
         "origPresent", "origKind", "origText", "instText">>
  ELSE <<"rollback", "staging", "state", "version", "origPresent", "origKind",
         "origText", "instText">>

\* restore_marker's order: the state last.
RestoreStateFirst ==
  <<"state", "version", "origKind", "origText", "instText", "origPresent">>
RestoreSeq ==
  <<"version", "origKind", "origText", "instText", "origPresent", "state">>

\* cleanup_upgrade_marker's order: the sentinel first.
CleanupSeq == <<"upPending", "upVersion", "rollback", "staging">>

\* marker_snapshot reads an upgrade as pending from either of two values.
Pending(m) == m.upPending \/ m.upVersion # 0

\* judge_current_autorun, FALSE for AutorunVerdict::Changed.
JudgeAnything(ar, m) == TRUE
JudgeInstalledOnly(ar, m) == ar.present => ar.text = m.instText
JudgeMatches(ar, m) ==
  /\ ar.present => ar.kind = m.origKind /\ ar.text \in {m.instText, m.origText}
  /\ ~ar.present => ~m.origPresent

-----------------------------------------------------------------------------
(* Directories: the live root, and per transaction a staging, a rollback    *)
(* and a removal directory.                                                 *)

Root     == <<"root", NoTx>>
DirNames == {Root} \cup ({"staging", "rollback", "removing"} \X Tx)

Move(from, to) == [dirs EXCEPT ![to] = dirs[from], ![from] = Nothing]
FreshTx(t) ==
  /\ \A k \in {"staging", "rollback", "removing"} : dirs[<<k, t>>] = Nothing
  /\ t \notin {marker.rollback, marker.staging, marker.removal}

\* active_upgrade_paths and active_removal_path: what prune must keep.
Protected ==
  {<<"rollback", marker.rollback>>, <<"staging", marker.staging>>} \cup
  (IF marker.state = "removing" THEN {<<"removing", marker.removal>>} ELSE {})

-----------------------------------------------------------------------------
(* The running command.                                                     *)

Jobs == {"enable", "disable", "repair", "orphan"}
PCs  == {"idle", "recover", "restore", "cleanup", "dispatch", "pruneTree",
         "begin", "stage", "copy", "snapshot", "publish", "swap", "promote",
         "check", "hook", "commit", "discard", "unhook", "unhookWrite",
         "undeploy", "unswap", "unmark", "judge", "markPath", "markState",
         "retire", "restoreUser", "unretire", "forget", "repaired", "strip",
         "stripWrite", "wipe", "bury", "prune", "sweep"}
Results == {"none", "ok", "recover", "unknown", "changed", "failed"}

\* tx, build: this command's transaction id and payload version.  prev, seen:
\* the marker and AutoRun it read.  want: the marker it writes, value by value
\* from number at.  did: the steps an undo must revert.  then: where a
\* recovery returns to.
Ops == [job : Jobs, pc : PCs, tx : Tx \cup {NoTx}, build : 0..MaxBuild,
        prev : Markers, seen : AutoRuns, want : Markers, at : 1..10,
        did : SUBSET {"swap", "promote", "hook", "retire"}, then : PCs]

Idle == [job |-> "enable", pc |-> "idle", tx |-> NoTx, build |-> 0,
         prev |-> NoMarker, seen |-> Absent, want |-> NoMarker, at |-> 1,
         did |-> {}, then |-> "idle"]

Upgrading == op.prev.present

\* Steps between a read of AutoRun and the write that trusts it.
Windows == {"hook", "unhookWrite", "markPath", "markState", "retire",
            "restoreUser", "stripWrite"}

\* cmd::health: Orphaned, from the hook and its target on disk.
Orphaned ==
  IF Hooked(autorun) THEN dirs[Root] = Nothing ELSE marker.state = "installed"

Goto(p) == op' = [op EXCEPT !.pc = p, !.at = 1]
Quiet   == UNCHANGED <<build, last, observers, crashes, faults, edits>>
Still(p) == Goto(p) /\ Quiet /\ UNCHANGED persistent

\* The command returns; its locals are gone.
Finish(r) ==
  /\ op' = Idle
  /\ last' = r
  /\ UNCHANGED <<persistent, build, observers, crashes, faults, edits>>

\* The call at this step fails and the code goes on at p.
Fault(p) ==
  /\ faults < MaxFaults
  /\ faults' = faults + 1
  /\ Goto(p)
  /\ UNCHANGED <<persistent, build, last, observers, crashes, edits>>

\* The call at this step fails and the command reports it; a failure of the
\* closing prune is silent.
FaultEnds ==
  /\ faults < MaxFaults
  /\ faults' = faults + 1
  /\ op' = Idle
  /\ last' = CASE op.then # "sweep" -> "failed"
               [] op.then = "sweep" /\ last = "none" -> "ok"
               [] OTHER -> last
  /\ UNCHANGED <<persistent, build, observers, crashes, edits>>

SetDirs(d, p) ==
  dirs' = d /\ Goto(p) /\ Quiet /\ UNCHANGED <<autorun, marker>>
SetMarker(m, p) ==
  marker' = m /\ Goto(p) /\ Quiet /\ UNCHANGED <<autorun, dirs>>
SetAutoRun(ar, p) ==
  autorun' = ar /\ Goto(p) /\ Quiet /\ UNCHANGED <<marker, dirs>>

\* One reg.exe call: value f of the marker becomes its value in m.
Put(f, m) == [marker EXCEPT !.present = TRUE, ![f] = m[f]]

\* The writes of a sequence of values, one per step, then on to p.
PutEach(fields, m, p) ==
  /\ marker' = Put(fields[op.at], m)
  /\ op' = IF op.at = Len(fields) THEN [op EXCEPT !.pc = p, !.at = 1]
           ELSE [op EXCEPT !.at = @ + 1]
  /\ Quiet
  /\ UNCHANGED <<autorun, dirs>>

\* remove_dir_all can stop half way: the tree is torn, then gone.
Remove(d) == [dirs EXCEPT ![d] = IF @ = Torn THEN Nothing ELSE Torn]

\* Best-effort removal of directories D: an error leaves one of them behind,
\* torn or untouched, and nobody hears of it.
Drop(D) ==
  \/ /\ dirs' = [d \in DirNames |-> IF d \in D THEN Nothing ELSE dirs[d]]
     /\ faults' = faults
  \/ /\ faults < MaxFaults
     /\ faults' = faults + 1
     /\ \E k \in {d \in D : dirs[d] # Nothing} : \E left \in {Torn, dirs[k]} :
          dirs' = [d \in DirNames |-> IF d = k THEN left
                                     ELSE IF d \in D THEN Nothing ELSE dirs[d]]

\* An error of the nested uninstall: disable reports it, repair ignores it and
\* goes on to strip, the orphan sweep prunes and then gives up.
Return(r) ==
  /\ CASE op.job = "repair" -> Goto("strip") /\ last' = last
       [] op.job = "orphan" -> Goto("prune") /\ last' = r
       [] OTHER -> op' = Idle /\ last' = r
  /\ UNCHANGED <<build, observers, crashes, edits>>
Refuse(r) == Return(r) /\ UNCHANGED <<persistent, faults>>
RefuseFault ==
  /\ faults < MaxFaults
  /\ faults' = faults + 1
  /\ Return("failed")
  /\ UNCHANGED persistent

-----------------------------------------------------------------------------
(* Start of a command, and recovery of an interrupted upgrade.              *)

Start(job) ==
  /\ op.pc = "idle"
  /\ job # "orphan" => build > 0
  /\ op' = [Idle EXCEPT !.job = job, !.pc = "recover", !.then = "dispatch",
                        !.build = build]
  /\ last' = "none"
  /\ UNCHANGED <<persistent, build, observers, crashes, faults, edits>>

\* recover_upgrade: back to the payload and version before the upgrade.
RollbackDir == <<"rollback", marker.rollback>>
HasRollback == dirs[RollbackDir] # Nothing
Interrupted == marker.present /\ marker.state # "installed" /\ Pending(marker)

RecoverNothing ==
  /\ op.pc = "recover"
  /\ ~marker.present \/ (marker.state # "installed" /\ ~Pending(marker))
  /\ Still(op.then)

RecoverCommitted ==
  /\ op.pc = "recover"
  /\ marker.present /\ marker.state = "installed"
  /\ Still("cleanup")

RecoverPayload ==
  /\ op.pc = "recover" /\ Interrupted /\ HasRollback
  /\ \/ dirs[Root] # Nothing /\ SetDirs(Remove(Root), "recover")
     \/ dirs[Root] = Nothing /\ SetDirs(Move(RollbackDir, Root), "recover")
     \/ FaultEnds

RecoverMarker ==
  /\ op.pc = "recover" /\ Interrupted /\ ~HasRollback
  /\ Drop({<<"staging", marker.staging>>})
  /\ op' = [op EXCEPT !.pc = "restore", !.at = 1,
              !.want = [marker EXCEPT !.version = marker.upVersion,
                                      !.state = "installed"]]
  /\ UNCHANGED <<autorun, marker, build, last, observers, crashes, edits>>

\* restore_marker, then cleanup_upgrade_marker.
Restore ==
  /\ op.pc = "restore"
  /\ PutEach(RestoreSeq, op.want, "cleanup") \/ FaultEnds

\* cleanup_upgrade_marker; its error is ignored only after a commit.
Cleanup ==
  /\ op.pc = "cleanup"
  /\ \/ op.at < Len(CleanupSeq) /\ PutEach(CleanupSeq, NoMarker, "cleanup")
     \/ op.at = Len(CleanupSeq) /\ op.then # "idle"
        /\ PutEach(CleanupSeq, NoMarker, op.then)
     \/ /\ op.at = Len(CleanupSeq) /\ op.then = "idle"
        /\ marker' = Put(CleanupSeq[op.at], NoMarker)
        /\ op' = Idle
        /\ last' = "failed"
        /\ UNCHANGED <<autorun, dirs, build, observers, crashes, faults, edits>>
     \/ IF op.then = "prune" THEN Fault("prune") ELSE FaultEnds

-----------------------------------------------------------------------------
(* set_integration, repair and cleanup_orphaned choose what to do.          *)

DispatchEnable ==
  /\ op.pc = "dispatch" /\ op.job = "enable"
  /\ IF marker.state = "installed"
     THEN Still(IF marker.version = op.build THEN "prune" ELSE "begin")
     ELSE Still("pruneTree")

DispatchDisable ==
  op.pc = "dispatch" /\ op.job = "disable" /\ Still("judge")

DispatchRepair ==
  /\ op.pc = "dispatch" /\ op.job = "repair"
  /\ CASE ~Orphaned -> Still("repaired")
       [] Orphaned /\ marker.present -> Still("judge")
       [] OTHER -> Still("strip")

\* product_present: the running copy was left behind by a removed product.
DispatchOrphan ==
  /\ op.pc = "dispatch" /\ op.job = "orphan"
  /\ IF build > 0 THEN Finish("ok") ELSE Still("judge")

\* repair_all goes on to prune_orphaned_payload_tree, a typed repair does not.
Repaired ==
  op.pc = "repaired" /\ (Still("pruneTree") \/ Still("prune"))

\* prune_orphaned_payload_tree: with no marker of any adapter, drop the root
\* and the staging directories, best effort.  A PowerShell marker prevents it.
PruneTree ==
  /\ op.pc = "pruneTree"
  /\ LET next == IF op.job = "enable" THEN "begin" ELSE "prune" IN
     \/ Still(next)
     \/ /\ ~marker.present
        /\ Drop({Root} \cup ({"staging"} \X Tx))
        /\ Goto(next)
        /\ UNCHANGED <<autorun, marker, build, last, observers, crashes, edits>>

-----------------------------------------------------------------------------
(* install and upgrade.                                                     *)

\* begin_install reads the marker and AutoRun, then decides.
Begin ==
  /\ op.pc = "begin"
  /\ IF marker.present /\ marker.state # "installed"
     THEN Finish("recover")
     ELSE \E t \in Tx :
            /\ FreshTx(t)
            /\ op' = [op EXCEPT !.pc = "stage", !.tx = t, !.prev = marker,
                                !.seen = autorun]
            /\ Quiet
            /\ UNCHANGED persistent

StagingDir == <<"staging", op.tx>>

\* stage_cmd_payload: a failure leaves the staging behind and is not undone.
Stage ==
  /\ op.pc = "stage"
  /\ SetDirs([dirs EXCEPT ![StagingDir] = Torn], "copy")
Copy ==
  /\ op.pc = "copy"
  /\ \/ SetDirs([dirs EXCEPT ![StagingDir] = op.build], "snapshot")
     \/ FaultEnds

\* retain_upgrade_snapshot: AutoRun must still be one of the two recorded ones.
Retained ==
  /\ op.seen.present
  /\ op.seen.kind = op.prev.origKind
  /\ op.seen.text \in {op.prev.instText, op.prev.origText}

Prepared(present, kind, text) ==
  [present |-> TRUE, state |-> "prepared", version |-> op.build,
   origPresent |-> present, origKind |-> kind, origText |-> text,
   instText |-> InstalledText(text), rollback |-> op.tx, staging |-> op.tx,
   upVersion |-> op.prev.version, upPending |-> Upgrading, removal |-> NoTx]

\* The user's AutoRun is read again, stripped, and becomes the original.
Snapshot ==
  /\ op.pc = "snapshot" /\ ~Upgrading
  /\ op' = [op EXCEPT !.pc = "publish", !.at = 1,
              !.want = Prepared(OriginalPresent(autorun), autorun.kind,
                                Strip(autorun.text))]
  /\ touched' = FALSE
  /\ UNCHANGED <<persistent, build, last, owned, raced, crashes, faults, edits>>

SnapshotUpgrade ==
  /\ op.pc = "snapshot" /\ Upgrading /\ Retained
  /\ op' = [op EXCEPT !.pc = "publish", !.at = 1,
              !.want = Prepared(op.prev.origPresent, op.prev.origKind,
                                op.prev.origText)]
  /\ Quiet
  /\ UNCHANGED persistent

RefuseUpgrade ==
  /\ op.pc = "snapshot" /\ Upgrading /\ ~Retained
  /\ Drop({StagingDir})
  /\ op' = Idle
  /\ last' = "changed"
  /\ UNCHANGED <<autorun, marker, build, observers, crashes, edits>>

\* commit_install.  Every error from here on runs undo.
Publish ==
  /\ op.pc = "publish"
  /\ PutEach(PublishSeq(Upgrading), op.want, "swap") \/ Fault("unhook")

Swap ==
  /\ op.pc = "swap"
  /\ \/ dirs[Root] = Nothing /\ Still("promote")
     \/ /\ dirs[Root] # Nothing
        /\ dirs' = Move(Root, <<"rollback", op.tx>>)
        /\ op' = [op EXCEPT !.pc = "promote", !.did = @ \cup {"swap"}]
        /\ Quiet
        /\ UNCHANGED <<autorun, marker>>
     \/ dirs[Root] # Nothing /\ Fault("unhook")

Promote ==
  /\ op.pc = "promote"
  /\ \/ /\ dirs' = Move(StagingDir, Root)
        /\ op' = [op EXCEPT !.pc = "check", !.did = @ \cup {"promote"}]
        /\ Quiet
        /\ UNCHANGED <<autorun, marker>>
     \/ Fault("unhook")

\* The hook is composed from the second read of AutoRun, and AutoRun compared
\* with the first: an edit before and an edit back between them are not seen.
Stale ==
  \/ op.want.origText # Strip(autorun.text)
  \/ op.want.origKind # autorun.kind

Check ==
  /\ op.pc = "check"
  /\ CASE autorun # op.seen -> Still("unhook")
       [] autorun = op.seen /\ autorun.present
          /\ autorun.text = op.want.instText -> Still("commit")
       [] OTHER -> /\ Goto("hook")
                   /\ raced' = (raced \/ Stale)
                   /\ UNCHANGED <<persistent, build, last, owned, touched, crashes,
                                  faults, edits>>

HookValue ==
  [present |-> TRUE, kind |-> op.want.origKind, text |-> op.want.instText]

Hook ==
  /\ op.pc = "hook"
  /\ \/ /\ autorun' = HookValue
        /\ op' = [op EXCEPT !.pc = "commit", !.did = @ \cup {"hook"}]
        /\ Quiet
        /\ UNCHANGED <<marker, dirs>>
     \/ Fault("unhook")

Commit ==
  /\ op.pc = "commit"
  /\ SetMarker([marker EXCEPT !.state = "installed"], "discard") \/ Fault("unhook")

\* The rollback goes and the recovery record with it, both best effort.
Discard ==
  /\ op.pc = "discard"
  /\ Drop({<<"rollback", op.tx>>})
  /\ op' = [op EXCEPT !.pc = "cleanup", !.at = 1, !.then = "prune"]
  /\ UNCHANGED <<autorun, marker, build, last, observers, crashes, edits>>

-----------------------------------------------------------------------------
(* undo, in reverse; an error leaves the recovery state in place.           *)

Unhook ==
  /\ op.pc = "unhook"
  /\ CASE "hook" \notin op.did -> Still("undeploy")
       [] "hook" \in op.did /\ autorun = HookValue -> Still("unhookWrite")
       [] OTHER -> Finish("failed")

UnhookWrite ==
  /\ op.pc = "unhookWrite"
  /\ SetAutoRun(op.seen, "undeploy") \/ FaultEnds

Undeploy ==
  /\ op.pc = "undeploy"
  /\ \/ "promote" \notin op.did /\ Still("unswap")
     \/ "promote" \in op.did /\ dirs[Root] # Torn /\ SetDirs(Remove(Root), "undeploy")
     \/ "promote" \in op.did /\ dirs[Root] = Torn /\ SetDirs(Remove(Root), "unswap")
     \/ "promote" \in op.did /\ FaultEnds

Unswap ==
  /\ op.pc = "unswap"
  /\ \/ "swap" \notin op.did /\ Still("unmark")
     \/ "swap" \in op.did /\ SetDirs(Move(<<"rollback", op.tx>>, Root), "unmark")
     \/ "swap" \in op.did /\ FaultEnds

Unmark ==
  /\ op.pc = "unmark"
  /\ \/ /\ Drop({StagingDir})
        /\ IF Upgrading
           THEN /\ op' = [op EXCEPT !.pc = "restore", !.at = 1,
                                    !.want = op.prev, !.then = "idle"]
                /\ UNCHANGED <<marker, last>>
           ELSE /\ marker' = NoMarker
                /\ op' = Idle
                /\ last' = "failed"
        /\ UNCHANGED <<autorun, build, observers, crashes, edits>>
     \/ ~Upgrading /\ marker.present /\ FaultEnds

-----------------------------------------------------------------------------
(* uninstall.                                                               *)

UninstallDone ==
  IF op.job = "repair" THEN "strip" ELSE "prune"

\* A crash cut the marker's publication short: the installed and original texts
\* read as empty, so an empty AutoRun matches whoever wrote it.
HalfPublished == marker.present /\ marker.instText = Empty

\* The one read of AutoRun that the whole removal trusts.
Judge ==
  /\ op.pc = "judge"
  /\ IF ~marker.present THEN Still(UninstallDone)
     ELSE IF marker.state = "" THEN Refuse("unknown")
     ELSE IF ~JudgeMatches(autorun, marker)
     THEN Refuse("changed")
     ELSE /\ raced' = (raced \/ (HalfPublished /\ touched))
          /\ UNCHANGED <<persistent, build, last, owned, touched, crashes,
                         faults, edits>>
          /\ IF marker.state = "removing" /\ marker.removal # NoTx
             THEN op' = [op EXCEPT !.pc = "restoreUser", !.tx = marker.removal,
                           !.did = IF dirs[<<"removing", marker.removal>>] # Nothing
                                   THEN {"retire"} ELSE {}]
             ELSE IF dirs[Root] = Nothing
             THEN op' = [op EXCEPT !.pc = "restoreUser"]
             ELSE \E t \in Tx : /\ FreshTx(t)
                                /\ op' = [op EXCEPT !.pc = "markPath", !.tx = t]

MarkPath ==
  /\ op.pc = "markPath"
  /\ SetMarker([marker EXCEPT !.removal = op.tx], "markState") \/ RefuseFault

MarkState ==
  /\ op.pc = "markState"
  /\ SetMarker([marker EXCEPT !.state = "removing"], "retire") \/ RefuseFault

RemovalDir == <<"removing", op.tx>>

Retire ==
  /\ op.pc = "retire"
  /\ \/ /\ dirs' = Move(Root, RemovalDir)
        /\ op' = [op EXCEPT !.pc = "restoreUser", !.did = {"retire"}]
        /\ Quiet
        /\ UNCHANGED <<autorun, marker>>
     \/ RefuseFault

\* The recorded original goes back; on an error the payload does.
Original ==
  IF marker.origPresent
  THEN [present |-> TRUE, kind |-> marker.origKind, text |-> marker.origText]
  ELSE Absent
PutPayloadBack == "retire" \in op.did /\ dirs[Root] = Nothing

RestoreUser ==
  /\ op.pc = "restoreUser"
  /\ \/ SetAutoRun(Original, "forget")
     \/ PutPayloadBack /\ Fault("unretire")
     \/ ~PutPayloadBack /\ RefuseFault

Unretire ==
  /\ op.pc = "unretire"
  /\ \/ /\ dirs' = Move(RemovalDir, Root)
        /\ Return("failed")
        /\ UNCHANGED <<autorun, marker, faults>>
     \/ RefuseFault

Forget ==
  /\ op.pc = "forget"
  /\ \/ /\ marker' = NoMarker
        /\ Drop(IF "retire" \in op.did THEN {RemovalDir} ELSE {})
        /\ Goto(UninstallDone)
        /\ UNCHANGED <<autorun, build, last, observers, crashes, edits>>
     \/ RefuseFault

-----------------------------------------------------------------------------
(* strip_autorun_hook, the end of cleanup_orphaned, prune_leftover_dirs.    *)

AfterStrip == IF op.job = "orphan" THEN "wipe" ELSE "repaired"

\* repair strips only a hook whose target is gone; the orphan clean any hook.
StripRead ==
  /\ op.pc = "strip"
  /\ IF Hooked(autorun) /\ (op.job = "repair" => dirs[Root] = Nothing)
     THEN /\ op' = [op EXCEPT !.pc = "stripWrite", !.seen = autorun]
          /\ Quiet
          /\ UNCHANGED persistent
     ELSE Still(AfterStrip)

StripWrite ==
  /\ op.pc = "stripWrite"
  /\ \/ SetAutoRun(IF Strip(op.seen.text) = Empty THEN Absent
                   ELSE [op.seen EXCEPT !.text = Strip(op.seen.text)],
                   AfterStrip)
     \/ Fault(AfterStrip)

Wipe ==
  op.pc = "wipe" /\ SetMarker(NoMarker, "bury")

\* The payload is retired unless AutoRun still calls it.
MayBuryAlways == TRUE
MayBury == ~Hooked(autorun)
Bury ==
  /\ op.pc = "bury"
  /\ Drop(IF MayBury THEN {Root} ELSE {})
  /\ op' = Idle
  /\ last' = "ok"
  /\ UNCHANGED <<autorun, marker, build, observers, crashes, edits>>

\* prune_leftover_dirs recovers again, then drops what no marker protects.
Prune ==
  /\ op.pc = "prune"
  /\ op' = [op EXCEPT !.pc = "recover", !.then = "sweep", !.at = 1]
  /\ Quiet
  /\ UNCHANGED persistent

Sweep ==
  /\ op.pc = "sweep"
  /\ Drop(DirNames \ (Protected \cup {Root}))
  /\ IF op.job = "orphan" /\ last = "none"
     THEN Goto("strip") /\ last' = last
     ELSE op' = Idle /\ last' = IF last = "none" THEN "ok" ELSE last
  /\ UNCHANGED <<autorun, marker, build, observers, crashes, edits>>

-----------------------------------------------------------------------------
(* The environment.                                                         *)

\* The process dies; Windows abandons the mutex to the next command.
Crash ==
  /\ op.pc # "idle"
  /\ crashes < MaxCrashes
  /\ crashes' = crashes + 1
  /\ op' = Idle
  /\ last' = "none"
  /\ UNCHANGED <<persistent, build, observers, faults, edits>>

\* Another program writes AutoRun; it never writes a hook of ours.
Edit ==
  /\ edits < MaxEdits
  /\ edits' = edits + 1
  /\ autorun' \in {ar \in AutoRuns :
                    /\ ar # autorun
                    /\ ar.present \/ ar = Absent
                    /\ ar.text.hooks <= autorun.text.hooks}
  /\ owned' = [autorun' EXCEPT !.text = Strip(@)]
  /\ touched' = TRUE
  /\ raced' = (raced \/ op.pc \in Windows)
  /\ UNCHANGED <<marker, dirs, build, op, last, crashes, faults>>

\* The product is updated, removed (an MSIX removal runs no code), reinstalled.
Product ==
  /\ op.pc = "idle"
  /\ build' \in IF build = 0 THEN {MaxBuild}
               ELSE {0} \cup {b \in Builds : b = build + 1}
  /\ UNCHANGED <<persistent, op, last, observers, crashes, faults, edits>>

-----------------------------------------------------------------------------
\* A machine without the adapter, perhaps with an AutoRun of the user's, and
\* perhaps with the hook and payload of an install whose marker was lost.
Init ==
  /\ autorun \in {ar \in AutoRuns : (ar.present \/ ar = Absent) /\ ar.text.hooks <= 1}
  /\ marker = NoMarker
  /\ dirs \in {[d \in DirNames |-> IF d = Root THEN p ELSE Nothing] :
                 p \in IF Hooked(autorun) THEN {Nothing, MaxBuild} ELSE {Nothing}}
  /\ build = 1
  /\ op = Idle
  /\ last = "none"
  /\ owned = [autorun EXCEPT !.text = Strip(@)]
  /\ raced = FALSE /\ touched = FALSE
  /\ crashes = 0 /\ faults = 0 /\ edits = 0

Recovery  == RecoverNothing \/ RecoverCommitted \/ RecoverPayload
             \/ RecoverMarker \/ Restore \/ Cleanup
Dispatch  == DispatchEnable \/ DispatchDisable \/ DispatchRepair
             \/ DispatchOrphan \/ Repaired \/ PruneTree
Install   == Begin \/ Stage \/ Copy \/ Snapshot \/ SnapshotUpgrade
             \/ RefuseUpgrade \/ Publish \/ Swap \/ Promote \/ Check \/ Hook
             \/ Commit \/ Discard
Undo      == Unhook \/ UnhookWrite \/ Undeploy \/ Unswap \/ Unmark
Uninstall == Judge \/ MarkPath \/ MarkState \/ Retire \/ RestoreUser
             \/ Unretire \/ Forget
Hygiene   == StripRead \/ StripWrite \/ Wipe \/ Bury \/ Prune \/ Sweep

Next ==
  \/ \E job \in Jobs : Start(job)
  \/ Recovery \/ Dispatch \/ Install \/ Undo \/ Uninstall \/ Hygiene
  \/ Crash \/ Edit \/ Product

Spec == Init /\ [][Next]_vars

-----------------------------------------------------------------------------
(* Properties.                                                              *)

TypeOK ==
  /\ autorun \in AutoRuns
  /\ marker \in Markers
  /\ dirs \in [DirNames -> Payloads]
  /\ build \in 0..MaxBuild
  /\ op \in Ops
  /\ last \in Results
  /\ owned \in AutoRuns
  /\ raced \in BOOLEAN /\ touched \in BOOLEAN
  /\ crashes \in 0..MaxCrashes
  /\ faults \in 0..MaxFaults
  /\ edits \in 0..MaxEdits

\* Whatever dies, fails or is refused, in any order of commands: the user's own
\* AutoRun is kept, unless an edit landed between a command's last read and its
\* write, or against a half-published marker (install, upgrade, disable, repair,
\* orphan clean).
OwnText(ar) == IF ar.present THEN ar.text.user ELSE NoText
PreservesUser ==
  \/ raced
  \/ /\ OwnText(autorun) = OwnText(owned)
     /\ OwnText(owned) # NoText => autorun.kind = owned.kind

\* No sequence of installs, upgrades, recoveries and lost markers composes our
\* hook twice into AutoRun (begin_install strips before it snapshots).
AtMostOneHook == autorun.text.hooks <= 1

\* An installed marker is never ahead of the payload: the live directory is
\* whole and of the recorded version, at every instant, crashes included.
InstalledMeansDeployed ==
  marker.state = "installed" => dirs[Root] = marker.version

\* While an upgrade is interrupted, the payload it replaces still exists whole,
\* in the live directory or in the recorded rollback, under the old version.
UpgradeRecoverable ==
  Interrupted => marker.upVersion \in {dirs[Root], dirs[RollbackDir]}

\* Whatever the marker says of the payload is so after every single write, rename,
\* crash and failed call: what it calls installed stands there, and what it says
\* an upgrade replaced can still be put back (commit_install, restore_marker).
MarkerTruthful == InstalledMeansDeployed /\ UpgradeRecoverable

\* A disable, repair or enable says that AutoRun changed only when another
\* program did edit it, when a crash cut the marker's publication short, or when a
\* repair whose uninstall failed has stripped a value that was empty before the
\* hook: strip_autorun_hook deletes it, and the marker still records it as present.
EmptyStripped ==
  ~autorun.present /\ marker.origPresent /\ marker.origText = Empty
RefusalJustified ==
  [][ last # "changed" /\ last' = "changed"
        => touched \/ HalfPublished \/ EmptyStripped ]_vars

\* The payload is taken from under a live hook only while a marker says how to
\* restore AutoRun, or by the prune of a tree that no marker names.
HookKeepsPayloadOrMarker ==
  [][ Hooked(autorun) /\ dirs[Root] # Nothing /\ dirs'[Root] = Nothing
        => marker.present \/ op.pc = "pruneTree" ]_vars

\* Disable must reach uninstall for prepared and removing markers, so that an
\* interrupted transaction can recover (mod.rs, set_integration): it refuses
\* only what another program caused.
DisableRecoversInterrupted ==
  [][ op.pc = "judge" /\ last' \in {"unknown", "changed"} => touched ]_vars

\* The payload must never be deleted while AutoRun calls it (cmd.rs,
\* autorun_still_hooked), unless a marker can still restore AutoRun.
PayloadNeverDeletedUnderHook ==
  [][ Hooked(autorun) /\ dirs[Root] # Nothing /\ dirs'[Root] = Nothing
        => marker.present ]_vars

\* "AutoRun changed during installation; your value was preserved" (commit_install):
\* the hook that is about to be written is composed from the AutoRun just compared.
ComparesWhatItWrites ==
  [][op.pc = "check" /\ op'.pc = "hook" => ~Stale]_vars

\* cleanup_orphaned strips what a refused uninstall left behind: once the
\* product is gone, a finished orphan clean leaves no hook of ours.
OrphanCleanStrips ==
  [][ op.job = "orphan" /\ op.pc # "idle" /\ op'.pc = "idle" /\ build = 0
      /\ crashes' = crashes /\ faults' = 0
        => ~Hooked(autorun') ]_vars

=============================================================================
