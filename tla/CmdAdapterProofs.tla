--------------------------- MODULE CmdAdapterProofs ---------------------------
(***************************************************************************)
(* Machine-checked facts about CmdAdapter, for every set of users' texts,  *)
(* every set of transaction ids and every bound.                           *)
(*                                                                         *)
(* Wired is what typing rests on: a step that names a directory of the     *)
(* transaction has an id to name it with, an index into a list of marker   *)
(* values stays inside the list, and a marker that reads as an interrupted *)
(* upgrade always has a rollback path.                                     *)
(***************************************************************************)
EXTENDS CmdAdapter, TLAPS

TxPCs == {"stage", "copy", "snapshot", "publish", "swap", "promote", "check",
          "hook", "commit", "discard", "unhook", "unhookWrite", "undeploy",
          "unswap", "unmark", "markPath", "markState", "retire", "unretire"}

Wired ==
  /\ op.pc \in TxPCs => op.tx \in Tx
  /\ "retire" \in op.did => op.tx \in Tx
  /\ op.then \in {"idle", "dispatch", "prune", "sweep"}
  /\ op.pc = "publish" => /\ op.at <= IF Upgrading THEN 10 ELSE 8
                          /\ op.want.rollback = op.tx
                          /\ op.at >= 2 => marker.rollback = op.tx
  /\ op.pc = "restore" => op.at <= 6
  /\ op.pc = "cleanup" => /\ op.at <= 4
                          /\ op.at >= 2 => ~marker.upPending
                          /\ op.at >= 3 => marker.upVersion = 0
  /\ Pending(marker) => marker.rollback \in Tx

-----------------------------------------------------------------------------
(* Types of the constant values and of the helpers.                         *)

\* The initial record values have their types.
LEMMA Constants ==
  /\ Idle \in Ops /\ NoMarker \in Markers /\ Absent \in AutoRuns
  /\ Root \in DirNames /\ Nothing \in Payloads /\ Torn \in Payloads
  /\ Empty \in Texts
PROOF
  <1>1. Empty \in Texts
    BY DEF Empty, Texts
  <1>2. Absent \in AutoRuns
    BY <1>1 DEF Absent, AutoRuns, Kinds
  <1>3. NoMarker \in Markers
    BY <1>1, CmdAssumption DEF NoMarker, Markers, Kinds
  <1>4. Idle \in Ops
    BY <1>2, <1>3, CmdAssumption DEF Idle, Ops, Jobs, PCs
  <1>5. Root \in DirNames /\ Nothing \in Payloads /\ Torn \in Payloads
    BY CmdAssumption DEF Root, DirNames, Nothing, Torn, Payloads
  <1> QED BY <1>1, <1>2, <1>3, <1>4, <1>5

\* A jump to p keeps the locals and restarts the index.
LEMMA GotoType ==
  ASSUME op \in Ops, NEW p \in PCs, Goto(p)
  PROVE  /\ op' \in Ops /\ op'.pc = p /\ op'.at = 1
         /\ op'.job = op.job /\ op'.tx = op.tx /\ op'.build = op.build
         /\ op'.prev = op.prev /\ op'.seen = op.seen /\ op'.want = op.want
         /\ op'.did = op.did /\ op'.then = op.then
PROOF
  <1>1. op' = [op EXCEPT !.pc = p, !.at = 1]
    BY DEF Goto
  <1>2. op' \in Ops
    BY <1>1, 1 \in 1..10 DEF Ops
  <1>3. op'.pc = p /\ op'.at = 1
    BY <1>1 DEF Ops
  <1>4. op'.job = op.job /\ op'.tx = op.tx /\ op'.build = op.build
    BY <1>1 DEF Ops
  <1>5. /\ op'.prev = op.prev /\ op'.seen = op.seen /\ op'.want = op.want
        /\ op'.did = op.did /\ op'.then = op.then
    BY <1>1 DEF Ops
  <1> QED BY <1>2, <1>3, <1>4, <1>5

Fields == {"state", "version", "origPresent", "origKind", "origText",
           "instText", "rollback", "staging", "upVersion", "upPending",
           "removal"}

\* One registry write changes one value of the marker.
LEMMA PutType ==
  ASSUME marker \in Markers, NEW m \in Markers, NEW f \in Fields
  PROVE  Put(f, m) \in Markers
PROOF
  BY DEF Fields, Put, Markers

LEMMA PutValue ==
  ASSUME marker \in Markers, NEW m \in Markers, NEW f \in Fields
  PROVE  /\ Put(f, m).state = IF f = "state" THEN m.state ELSE marker.state
         /\ Put(f, m).version = IF f = "version" THEN m.version ELSE marker.version
         /\ Put(f, m).origText = IF f = "origText" THEN m.origText ELSE marker.origText
         /\ Put(f, m).instText = IF f = "instText" THEN m.instText ELSE marker.instText
         /\ Put(f, m).rollback = IF f = "rollback" THEN m.rollback ELSE marker.rollback
         /\ Put(f, m).staging = IF f = "staging" THEN m.staging ELSE marker.staging
         /\ Put(f, m).upVersion = IF f = "upVersion" THEN m.upVersion ELSE marker.upVersion
         /\ Put(f, m).upPending = IF f = "upPending" THEN m.upPending ELSE marker.upPending
         /\ Put(f, m).present = TRUE
PROOF
  BY DEF Fields, Put, Markers

\* Texts stay texts under the two operations on them.
LEMMA TextType ==
  ASSUME NEW t \in Texts
  PROVE  Strip(t) \in Texts /\ InstalledText(t) \in Texts
PROOF
  BY DEF Strip, InstalledText, Texts

\* Renames and removals keep every directory's payload a payload.
LEMMA DirsType ==
  ASSUME dirs \in [DirNames -> Payloads]
  PROVE  /\ \A from \in DirNames, to \in DirNames :
              Move(from, to) \in [DirNames -> Payloads]
         /\ \A d \in DirNames : Remove(d) \in [DirNames -> Payloads]
         /\ \A D : Drop(D) => dirs' \in [DirNames -> Payloads]
PROOF
  <1>1. \A from \in DirNames, to \in DirNames :
              Move(from, to) \in [DirNames -> Payloads]
    BY Constants DEF Move
  <1>2. \A d \in DirNames : Remove(d) \in [DirNames -> Payloads]
    BY Constants DEF Remove
  <1>3. ASSUME NEW D, Drop(D)
        PROVE  dirs' \in [DirNames -> Payloads]
    BY <1>3, Constants DEF Drop
  <1> QED BY <1>1, <1>2, <1>3

\* The directories of a transaction id are directories.
LEMMA TxDirs ==
  ASSUME NEW t \in Tx
  PROVE  /\ <<"staging", t>> \in DirNames /\ <<"rollback", t>> \in DirNames
         /\ <<"removing", t>> \in DirNames
         /\ <<"staging", t>> # Root /\ <<"rollback", t>> # Root
         /\ <<"removing", t>> # Root
PROOF
  BY DEF DirNames, Root

LEMMA SeqFields ==
  /\ \A i \in 1..6 : RestoreSeq[i] \in Fields
  /\ \A i \in 1..4 : CleanupSeq[i] \in Fields
  /\ \A i \in 1..10 : PublishSeq(TRUE)[i] \in Fields
  /\ \A i \in 1..8 : PublishSeq(FALSE)[i] \in Fields
  /\ Len(RestoreSeq) = 6 /\ Len(CleanupSeq) = 4
  /\ Len(PublishSeq(TRUE)) = 10 /\ Len(PublishSeq(FALSE)) = 8
PROOF
  <1>1. \A i \in 1..6 : RestoreSeq[i] \in Fields
    BY DEF RestoreSeq, Fields
  <1>2. \A i \in 1..4 : CleanupSeq[i] \in Fields
    BY DEF CleanupSeq, Fields
  <1>3. \A i \in 1..10 : PublishSeq(TRUE)[i] \in Fields
    BY DEF PublishSeq, Fields
  <1>4. \A i \in 1..8 : PublishSeq(FALSE)[i] \in Fields
    BY DEF PublishSeq, Fields
  <1>5. /\ Len(RestoreSeq) = 6 /\ Len(CleanupSeq) = 4
        /\ Len(PublishSeq(TRUE)) = 10 /\ Len(PublishSeq(FALSE)) = 8
    BY DEF RestoreSeq, CleanupSeq, PublishSeq
  <1> QED BY <1>1, <1>2, <1>3, <1>4, <1>5

-----------------------------------------------------------------------------
(* How a step ends: it jumps inside the command or it ends the command.     *)

Inv == TypeOK /\ Wired

\* What every step of a command does to the rest of the state.
Keeps ==
  /\ autorun' \in AutoRuns
  /\ marker' \in Markers
  /\ dirs' \in [DirNames -> Payloads]
  /\ last' \in Results
  /\ faults' \in 0..MaxFaults
  /\ Pending(marker') => marker'.rollback \in Tx
  /\ UNCHANGED <<build, observers, crashes, edits>>

\* A typed and wired next operation is enough.
LEMMA OpInv ==
  ASSUME Inv, Keeps, op' \in Ops, Wired'
  PROVE  Inv'
PROOF
  BY DEF Inv, TypeOK, Keeps, observers, Wired

LEMMA JumpInv ==
  ASSUME Inv, Keeps, NEW p \in PCs \ {"publish"}, Goto(p),
         p \in TxPCs => op.tx \in Tx
  PROVE  Inv'
PROOF
  <1>1. op \in Ops
    BY DEF Inv, TypeOK
  <1>2. /\ op' \in Ops /\ op'.pc = p /\ op'.at = 1 /\ op'.tx = op.tx
        /\ op'.did = op.did /\ op'.then = op.then
    BY <1>1, GotoType
  <1>3. Wired'
    BY <1>2 DEF Inv, Wired, Keeps, Upgrading, Pending
  <1> QED BY <1>2, <1>3, OpInv

LEMMA EndInv ==
  ASSUME Inv, Keeps, op' = Idle
  PROVE  Inv'
PROOF
  <1>1. op' \in Ops
    BY Constants
  <1>2. op'.pc = "idle" /\ op'.did = {} /\ op'.then = "idle"
    BY DEF Idle
  <1>3. Wired'
    BY <1>2 DEF Wired, TxPCs, Keeps, Pending
  <1> QED BY <1>1, <1>3, OpInv

\* A step that touches nothing but the operation keeps the rest.
LEMMA KeepsSame ==
  ASSUME Inv, UNCHANGED <<persistent, build, observers, crashes, edits>>,
         last' \in Results, faults' \in 0..MaxFaults
  PROVE  Keeps
PROOF
  BY DEF Inv, TypeOK, Wired, Keeps, persistent, observers, Pending

LEMMA FaultCount ==
  ASSUME Inv, faults < MaxFaults
  PROVE  faults + 1 \in 0..MaxFaults
PROOF
  BY CmdAssumption DEF Inv, TypeOK

LEMMA StillInv ==
  ASSUME Inv, NEW p \in PCs \ {"publish"}, Still(p), p \in TxPCs => op.tx \in Tx
  PROVE  Inv'
PROOF
  <1>1. Keeps
    BY KeepsSame DEF Still, Quiet, Inv, TypeOK
  <1> QED BY <1>1, JumpInv DEF Still

LEMMA FinishInv ==
  ASSUME Inv, NEW r \in Results, Finish(r)
  PROVE  Inv'
PROOF
  <1>1. Keeps
    BY KeepsSame DEF Finish, Inv, TypeOK
  <1> QED BY <1>1, EndInv DEF Finish

LEMMA FaultInv ==
  ASSUME Inv, NEW p \in PCs \ {"publish"}, Fault(p), p \in TxPCs => op.tx \in Tx
  PROVE  Inv'
PROOF
  <1>1. Keeps
    BY KeepsSame, FaultCount DEF Fault, Inv, TypeOK
  <1> QED BY <1>1, JumpInv DEF Fault

LEMMA FaultEndsInv ==
  ASSUME Inv, FaultEnds
  PROVE  Inv'
PROOF
  <1>1. last' \in Results
    BY DEF FaultEnds, Inv, TypeOK, Results
  <1>2. Keeps
    BY <1>1, KeepsSame, FaultCount DEF FaultEnds
  <1> QED BY <1>2, EndInv DEF FaultEnds

\* Writes of one store.
LEMMA SetDirsInv ==
  ASSUME Inv, NEW d \in [DirNames -> Payloads], NEW p \in PCs \ {"publish"},
         SetDirs(d, p), p \in TxPCs => op.tx \in Tx
  PROVE  Inv'
PROOF
  <1>1. Keeps
    BY DEF SetDirs, Quiet, Inv, TypeOK, Wired, Keeps, Pending, observers
  <1> QED BY <1>1, JumpInv DEF SetDirs

LEMMA SetMarkerInv ==
  ASSUME Inv, NEW m \in Markers, NEW p \in PCs \ {"publish"},
         SetMarker(m, p), p \in TxPCs => op.tx \in Tx,
         Pending(m) => m.rollback \in Tx
  PROVE  Inv'
PROOF
  <1>1. Keeps
    BY DEF SetMarker, Quiet, Inv, TypeOK, Keeps, observers
  <1> QED BY <1>1, JumpInv DEF SetMarker

LEMMA SetAutoRunInv ==
  ASSUME Inv, NEW ar \in AutoRuns, NEW p \in PCs \ {"publish"},
         SetAutoRun(ar, p), p \in TxPCs => op.tx \in Tx
  PROVE  Inv'
PROOF
  <1>1. Keeps
    BY DEF SetAutoRun, Quiet, Inv, TypeOK, Wired, Keeps, Pending, observers
  <1> QED BY <1>1, JumpInv DEF SetAutoRun

LEMMA DropFaults ==
  ASSUME Inv, NEW D, Drop(D)
  PROVE  faults' \in 0..MaxFaults
PROOF
  BY FaultCount DEF Drop, Inv, TypeOK

\* An error inside a nested uninstall.
LEMMA ReturnInv ==
  ASSUME Inv, Keeps, NEW r \in Results, Return(r)
  PROVE  Inv'
PROOF
  <1>1. CASE op.job = "repair"
    BY <1>1, JumpInv DEF Return, PCs, TxPCs
  <1>2. CASE op.job = "orphan"
    BY <1>2, JumpInv DEF Return, PCs, TxPCs
  <1>3. CASE op.job # "repair" /\ op.job # "orphan"
    BY <1>3, EndInv DEF Return
  <1> QED BY <1>1, <1>2, <1>3

LEMMA RefuseInv ==
  ASSUME Inv, NEW r \in Results, Refuse(r)
  PROVE  Inv'
PROOF
  <1>1. last' \in Results
    BY DEF Refuse, Return, Inv, TypeOK
  <1>2. Keeps
    BY <1>1, KeepsSame DEF Refuse, Return, Inv, TypeOK
  <1> QED BY <1>2, ReturnInv DEF Refuse

LEMMA RefuseFaultInv ==
  ASSUME Inv, RefuseFault
  PROVE  Inv'
PROOF
  <1>1. last' \in Results
    BY DEF RefuseFault, Return, Inv, TypeOK, Results
  <1>2. Keeps
    BY <1>1, KeepsSame, FaultCount DEF RefuseFault, Return
  <1> QED BY <1>2, ReturnInv DEF RefuseFault, Results

-----------------------------------------------------------------------------
(* Every action of a command keeps Inv.                                     *)

\* One value of the marker per step: the index stays inside the list, and a
\* pending upgrade keeps its rollback path.
LEMMA PutEachInv ==
  ASSUME Inv, NEW fields, NEW m \in Markers, NEW p \in PCs \ {"publish"},
         PutEach(fields, m, p), fields[op.at] \in Fields,
         op.at = Len(fields) => (p \in TxPCs => op.tx \in Tx),
         op.at # Len(fields) => /\ op.at + 1 \in 1..10
                                /\ op'.pc = op.pc => Wired',
         Pending(marker') => marker'.rollback \in Tx
  PROVE  Inv'
PROOF
  <1>1. marker' \in Markers
    BY PutType DEF PutEach, Inv, TypeOK
  <1>2. Keeps
    BY <1>1 DEF PutEach, Quiet, Inv, TypeOK, Keeps, observers
  <1>3. CASE op.at = Len(fields)
    <2>1. op' = [op EXCEPT !.pc = p, !.at = 1]
      BY <1>3 DEF PutEach
    <2> QED BY <1>2, <1>3, <2>1, JumpInv DEF Goto
  <1>4. CASE op.at # Len(fields)
    <2>1. op' = [op EXCEPT !.at = op.at + 1]
      BY <1>4 DEF PutEach
    <2>2. op' \in Ops /\ op'.pc = op.pc
      BY <1>4, <2>1 DEF Inv, TypeOK, Ops
    <2> QED BY <1>2, <1>4, <2>2, OpInv
  <1> QED BY <1>3, <1>4

LEMMA StartInv ==
  ASSUME Inv, NEW job \in Jobs, Start(job)
  PROVE  Inv'
PROOF
  <1>1. Keeps
    BY KeepsSame DEF Start, Inv, TypeOK, Results
  <1>2. op' \in Ops /\ op'.pc = "recover" /\ op'.did = {} /\ op'.then = "dispatch"
    BY Constants DEF Start, Inv, TypeOK, Ops, Idle, PCs
  <1>3. Wired'
    BY <1>1, <1>2 DEF Wired, TxPCs, Keeps, Pending
  <1> QED BY <1>1, <1>2, <1>3, OpInv

LEMMA RecoverNothingInv ==
  ASSUME Inv, RecoverNothing
  PROVE  Inv'
PROOF
  BY StillInv DEF RecoverNothing, Inv, Wired, PCs, TxPCs

LEMMA RecoverCommittedInv ==
  ASSUME Inv, RecoverCommitted
  PROVE  Inv'
PROOF
  BY StillInv DEF RecoverCommitted, PCs, TxPCs

LEMMA RecoverPayloadInv ==
  ASSUME Inv, RecoverPayload
  PROVE  Inv'
PROOF
  <1>1. RollbackDir \in DirNames
    BY TxDirs DEF RecoverPayload, Interrupted, RollbackDir, Inv, Wired
  <1>2. /\ Remove(Root) \in [DirNames -> Payloads]
        /\ Move(RollbackDir, Root) \in [DirNames -> Payloads]
    BY <1>1, DirsType, Constants DEF Inv, TypeOK
  <1> QED BY <1>2, SetDirsInv, FaultEndsInv DEF RecoverPayload, PCs, TxPCs

LEMMA RecoverMarkerInv ==
  ASSUME Inv, RecoverMarker
  PROVE  Inv'
PROOF
  <1> DEFINE m == [marker EXCEPT !.version = marker.upVersion, !.state = "installed"]
  <1>1. m \in Markers
    BY DEF Inv, TypeOK, Markers
  <1>2. dirs' \in [DirNames -> Payloads] /\ faults' \in 0..MaxFaults
    BY DirsType, DropFaults DEF RecoverMarker, Inv, TypeOK
  <1>3. Keeps
    BY <1>2 DEF RecoverMarker, Keeps, Inv, TypeOK, Wired, Pending, observers
  <1>4. /\ op' \in Ops /\ op'.pc = "restore" /\ op'.at = 1 /\ op'.tx = op.tx
        /\ op'.did = op.did /\ op'.then = op.then
    BY <1>1, 1 \in 1..10 DEF RecoverMarker, Inv, TypeOK, Ops, PCs
  <1>5. Wired'
    BY <1>3, <1>4 DEF Inv, Wired, TxPCs, Keeps, Pending
  <1> QED BY <1>3, <1>4, <1>5, OpInv

LEMMA RestoreInv ==
  ASSUME Inv, Restore
  PROVE  Inv'
PROOF
  <1>1. op.pc = "restore" /\ op.at \in 1..6
    BY DEF Restore, Inv, TypeOK, Wired, Ops
  <1>2. CASE PutEach(RestoreSeq, op.want, "cleanup")
    <2>1. RestoreSeq[op.at] \in {"version", "origKind", "origText", "instText",
                                 "origPresent", "state"}
      BY <1>1 DEF RestoreSeq
    <2>2. op.want \in Markers
      BY DEF Inv, TypeOK, Ops
    <2>3. /\ marker'.upPending = marker.upPending
          /\ marker'.upVersion = marker.upVersion
          /\ marker'.rollback = marker.rollback
      <3>1. marker \in Markers /\ RestoreSeq[op.at] \in Fields
        BY <2>1 DEF Fields, Inv, TypeOK
      <3>2. marker' = Put(RestoreSeq[op.at], op.want)
        BY <1>2 DEF PutEach
      <3>3. /\ RestoreSeq[op.at] # "upPending" /\ RestoreSeq[op.at] # "upVersion"
            /\ RestoreSeq[op.at] # "rollback"
        BY <2>1
      <3> QED BY <2>2, <3>1, <3>2, <3>3, PutValue, ZenonT(30)
    <2>4. Pending(marker') => marker'.rollback \in Tx
      BY <2>3 DEF Inv, Wired, Pending
    <2>5. ASSUME op.at # 6
          PROVE  op.at + 1 \in 1..10 /\ Wired'
      <3>1. op' = [op EXCEPT !.at = op.at + 1]
        BY <1>2, <2>5, SeqFields DEF PutEach
      <3>2. /\ op'.pc = "restore" /\ op'.at = op.at + 1 /\ op'.tx = op.tx
            /\ op'.did = op.did /\ op'.then = op.then
        BY <1>1, <3>1 DEF Inv, TypeOK, Ops
      <3> QED BY <1>1, <2>4, <2>5, <3>2 DEF Inv, Wired, TxPCs, Pending
    <2> QED BY <1>1, <1>2, <2>1, <2>2, <2>4, <2>5, PutEachInv, SeqFields
            DEF PCs, TxPCs, Fields
  <1> QED BY <1>2, FaultEndsInv DEF Restore

LEMMA CleanupInv ==
  ASSUME Inv, Cleanup
  PROVE  Inv'
PROOF
  <1>1. op.pc = "cleanup" /\ op.at \in 1..4
    BY DEF Cleanup, Inv, TypeOK, Wired, Ops
  <1>2. CleanupSeq[op.at] \in Fields /\ NoMarker \in Markers /\ Len(CleanupSeq) = 4
    BY <1>1, SeqFields, Constants
  <1>3. ASSUME marker' = Put(CleanupSeq[op.at], NoMarker)
        PROVE  /\ op.at = 1 => ~marker'.upPending
               /\ op.at = 2 => ~marker'.upPending /\ marker'.upVersion = 0
               /\ op.at = 3 => ~marker'.upPending /\ marker'.upVersion = 0
               /\ Pending(marker') => marker'.rollback \in Tx
               /\ marker' \in Markers
    <2>1. /\ marker \in Markers
          /\ marker.upPending \in BOOLEAN
      BY DEF Inv, TypeOK, Markers
    <2>a. /\ ~NoMarker.upPending /\ NoMarker.upVersion = 0
      BY DEF NoMarker
    <2>b. /\ op.at >= 2 => ~marker.upPending
          /\ op.at >= 3 => marker.upVersion = 0
          /\ Pending(marker) => marker.rollback \in Tx
      BY <1>1 DEF Inv, Wired
    <2>c. LET f == CleanupSeq[op.at] IN
          /\ marker' \in Markers
          /\ marker'.upPending = IF f = "upPending" THEN NoMarker.upPending ELSE marker.upPending
          /\ marker'.upVersion = IF f = "upVersion" THEN NoMarker.upVersion ELSE marker.upVersion
          /\ marker'.rollback = IF f = "rollback" THEN NoMarker.rollback ELSE marker.rollback
      BY <1>2, <1>3, <2>1, PutType, PutValue, ZenonT(30)
    <2>2. CASE op.at = 1
      <3>1. CleanupSeq[op.at] = "upPending"
        BY <2>2 DEF CleanupSeq
      <3> QED BY <2>2, <2>a, <2>b, <2>c, <3>1 DEF Pending
    <2>3. CASE op.at = 2
      <3>1. CleanupSeq[op.at] = "upVersion"
        BY <2>3 DEF CleanupSeq
      <3> QED BY <2>3, <2>a, <2>b, <2>c, <3>1 DEF Pending
    <2>4. CASE op.at = 3
      <3>1. CleanupSeq[op.at] = "rollback"
        BY <2>4 DEF CleanupSeq
      <3> QED BY <2>4, <2>a, <2>b, <2>c, <3>1 DEF Pending
    <2>5. CASE op.at = 4
      <3>1. CleanupSeq[op.at] = "staging"
        BY <2>5 DEF CleanupSeq
      <3> QED BY <2>5, <2>a, <2>b, <2>c, <3>1 DEF Pending
    <2> QED BY <1>1, <2>2, <2>3, <2>4, <2>5
  <1>4. CASE op.at < Len(CleanupSeq) /\ PutEach(CleanupSeq, NoMarker, "cleanup")
    <2>1. op' = [op EXCEPT !.at = op.at + 1]
      BY <1>2, <1>4 DEF PutEach
    <2>2. /\ op' \in Ops /\ op'.pc = "cleanup" /\ op'.at = op.at + 1
          /\ op'.tx = op.tx /\ op'.did = op.did /\ op'.then = op.then
      BY <1>1, <1>2, <1>4, <2>1, op.at + 1 \in 1..10 DEF Inv, TypeOK, Ops
    <2>3. Wired'
      BY <1>1, <1>2, <1>3, <1>4, <2>2 DEF Inv, Wired, TxPCs, PutEach, Pending
    <2>4. Keeps
      BY <1>3, <1>4 DEF PutEach, Quiet, Inv, TypeOK, Keeps, observers
    <2> QED BY <2>2, <2>3, <2>4, OpInv
  <1>5. CASE /\ op.at = Len(CleanupSeq) /\ op.then # "idle"
             /\ PutEach(CleanupSeq, NoMarker, op.then)
    <2>1. Goto(op.then) /\ op.then \in PCs \ {"publish"} /\ op.then \notin TxPCs
      BY <1>5 DEF PutEach, Goto, Inv, Wired, PCs, TxPCs
    <2>2. Keeps
      BY <1>3, <1>5 DEF PutEach, Quiet, Inv, TypeOK, Keeps, observers
    <2> QED BY <2>1, <2>2, JumpInv
  <1>6. CASE /\ op.at = Len(CleanupSeq) /\ op.then = "idle"
             /\ marker' = Put(CleanupSeq[op.at], NoMarker)
             /\ op' = Idle
             /\ last' = "failed"
             /\ UNCHANGED <<autorun, dirs, build, observers, crashes, faults, edits>>
    <2>1. Keeps
      BY <1>3, <1>6 DEF Inv, TypeOK, Keeps, observers, Results
    <2> QED BY <1>6, <2>1, EndInv
  <1>7. CASE IF op.then = "prune" THEN Fault("prune") ELSE FaultEnds
    BY <1>7, FaultInv, FaultEndsInv DEF PCs, TxPCs
  <1> QED BY <1>4, <1>5, <1>6, <1>7 DEF Cleanup

LEMMA DispatchInv ==
  ASSUME Inv, Dispatch
  PROVE  Inv'
PROOF
  <1>1. CASE DispatchEnable
    BY <1>1, StillInv DEF DispatchEnable, PCs, TxPCs
  <1>2. CASE DispatchDisable
    BY <1>2, StillInv DEF DispatchDisable, PCs, TxPCs
  <1>3. CASE DispatchRepair
    <2>1. Still("repaired") \/ Still("judge") \/ Still("strip")
      BY <1>3 DEF DispatchRepair
    <2> QED BY <2>1, StillInv DEF PCs, TxPCs
  <1>4. CASE DispatchOrphan
    BY <1>4, StillInv, FinishInv DEF DispatchOrphan, PCs, TxPCs, Results
  <1>5. CASE Repaired
    BY <1>5, StillInv DEF Repaired, PCs, TxPCs
  <1>6. CASE PruneTree
    <2> DEFINE next == IF op.job = "enable" THEN "begin" ELSE "prune"
    <2>1. next \in PCs \ {"publish"} /\ next \notin TxPCs
      BY DEF PCs, TxPCs
    <2>2. CASE Still(next)
      BY <2>1, <2>2, StillInv
    <2>3. CASE /\ Drop({Root} \cup ({"staging"} \X Tx)) /\ Goto(next)
               /\ UNCHANGED <<autorun, marker, build, last, observers, crashes, edits>>
      <3>1. Keeps
        BY <2>3, DirsType, DropFaults DEF Inv, TypeOK, Wired, Keeps, Pending, observers
      <3> QED BY <2>1, <2>3, <3>1, JumpInv
    <2> QED BY <1>6, <2>2, <2>3 DEF PruneTree
  <1> QED BY <1>1, <1>2, <1>3, <1>4, <1>5, <1>6 DEF Dispatch

\* begin_install up to the snapshot.
LEMMA BeginInv ==
  ASSUME Inv, Begin
  PROVE  Inv'
PROOF
  <1>1. CASE Finish("recover")
    BY <1>1, FinishInv DEF Results
  <1>2. ASSUME NEW t \in Tx,
               op' = [op EXCEPT !.pc = "stage", !.tx = t, !.prev = marker,
                                !.seen = autorun],
               Quiet, UNCHANGED persistent
        PROVE  Inv'
    <2>1. Keeps
      BY <1>2, KeepsSame DEF Quiet, Inv, TypeOK
    <2>2. /\ op' \in Ops /\ op'.pc = "stage" /\ op'.tx = t
          /\ op'.did = op.did /\ op'.then = op.then
      BY <1>2 DEF Inv, TypeOK, Ops, PCs
    <2>3. Wired'
      BY <2>1, <2>2 DEF Inv, Wired, Keeps, Pending
    <2> QED BY <2>1, <2>2, <2>3, OpInv
  <1> QED BY <1>1, <1>2 DEF Begin

LEMMA StageInv ==
  ASSUME Inv, Stage \/ Copy
  PROVE  Inv'
PROOF
  <1>1. op.tx \in Tx
    BY DEF Stage, Copy, Inv, Wired, TxPCs
  <1>2. /\ [dirs EXCEPT ![StagingDir] = Torn] \in [DirNames -> Payloads]
        /\ [dirs EXCEPT ![StagingDir] = op.build] \in [DirNames -> Payloads]
    <2>1. op.build \in Payloads /\ Torn \in Payloads
      BY CmdAssumption, Constants DEF Inv, TypeOK, Ops, Payloads
    <2> QED BY <2>1 DEF Inv, TypeOK
  <1> QED BY <1>1, <1>2, SetDirsInv, FaultEndsInv DEF Stage, Copy, PCs

\* Both snapshots prepare a marker with this transaction's paths.
LEMMA PreparedType ==
  ASSUME Inv, op.tx \in Tx, NEW present \in BOOLEAN, NEW kind \in Kinds,
         NEW text \in Texts
  PROVE  /\ Prepared(present, kind, text) \in Markers
         /\ Prepared(present, kind, text).rollback = op.tx
PROOF
  <1>1. op.build \in 0..MaxBuild /\ op.prev \in Markers
    BY DEF Inv, TypeOK, Ops
  <1>2. op.prev.version \in 0..MaxBuild /\ op.prev.present \in BOOLEAN
    BY <1>1 DEF Markers
  <1>3. InstalledText(text) \in Texts
    BY TextType
  <1> QED BY <1>1, <1>2, <1>3 DEF Prepared, Markers, Upgrading

LEMMA PublishFromStart ==
  ASSUME Inv, Keeps, op.pc = "snapshot", NEW m \in Markers, m.rollback = op.tx,
         op' = [op EXCEPT !.pc = "publish", !.at = 1, !.want = m]
  PROVE  Inv'
PROOF
  <1>1. /\ op' \in Ops /\ op'.pc = "publish" /\ op'.at = 1 /\ op'.tx = op.tx
        /\ op'.did = op.did /\ op'.then = op.then /\ op'.want = m
    BY 1 \in 1..10 DEF Inv, TypeOK, Ops, PCs
  <1>2. op.tx \in Tx
    BY DEF Inv, Wired, TxPCs
  <1>3. Wired'
    BY <1>1, <1>2 DEF Inv, Wired, Keeps, Pending
  <1> QED BY <1>1, <1>3, OpInv

LEMMA SnapshotInv ==
  ASSUME Inv, Snapshot
  PROVE  Inv'
PROOF
  <1>1. op.tx \in Tx
    BY DEF Snapshot, Inv, Wired, TxPCs
  <1>2. autorun.present \in BOOLEAN /\ autorun.kind \in Kinds /\ autorun.text \in Texts
    BY DEF Inv, TypeOK, AutoRuns
  <1>3. OriginalPresent(autorun) \in BOOLEAN /\ Strip(autorun.text) \in Texts
    BY <1>2, TextType DEF OriginalPresent
  <1> DEFINE m == Prepared(OriginalPresent(autorun), autorun.kind, Strip(autorun.text))
  <1>4. m \in Markers /\ m.rollback = op.tx
    BY <1>1, <1>2, <1>3, PreparedType
  <1>5. /\ op' \in Ops /\ op'.pc = "publish" /\ op'.at = 1 /\ op'.tx = op.tx
        /\ op'.did = op.did /\ op'.then = op.then /\ op'.want = m
    BY <1>4, 1 \in 1..10 DEF Snapshot, Inv, TypeOK, Ops, PCs
  <1>6. Wired'
    BY <1>1, <1>4, <1>5 DEF Snapshot, Inv, Wired, Pending, persistent
  <1> QED BY <1>5, <1>6 DEF Snapshot, Inv, TypeOK, persistent

LEMMA SnapshotUpgradeInv ==
  ASSUME Inv, SnapshotUpgrade
  PROVE  Inv'
PROOF
  <1>1. op.tx \in Tx
    BY DEF SnapshotUpgrade, Inv, Wired, TxPCs
  <1>2. op.prev \in Markers
    BY DEF Inv, TypeOK, Ops
  <1>3. /\ op.prev.origPresent \in BOOLEAN /\ op.prev.origKind \in Kinds
        /\ op.prev.origText \in Texts
    BY <1>2 DEF Markers
  <1> DEFINE m == Prepared(op.prev.origPresent, op.prev.origKind, op.prev.origText)
  <1>4. m \in Markers /\ m.rollback = op.tx
    BY <1>1, <1>3, PreparedType
  <1>5. Keeps
    BY KeepsSame DEF SnapshotUpgrade, Quiet, Inv, TypeOK
  <1> QED BY <1>4, <1>5, PublishFromStart DEF SnapshotUpgrade

LEMMA RefuseUpgradeInv ==
  ASSUME Inv, RefuseUpgrade
  PROVE  Inv'
PROOF
  <1>1. Keeps
    BY DirsType, DropFaults
       DEF RefuseUpgrade, Inv, TypeOK, Wired, Keeps, Pending, observers, Results
  <1> QED BY <1>1, EndInv DEF RefuseUpgrade

\* commit_install.
LEMMA PublishInv ==
  ASSUME Inv, Publish
  PROVE  Inv'
PROOF
  <1> DEFINE fields == PublishSeq(Upgrading)
             n == IF Upgrading THEN 10 ELSE 8
  <1>1. /\ op.pc = "publish" /\ op.at \in 1..n /\ op.tx \in Tx
        /\ op.want.rollback = op.tx /\ op.want \in Markers
        /\ op.at >= 2 => marker.rollback = op.tx
    BY DEF Publish, Inv, TypeOK, Wired, Ops, TxPCs
  <1>2. Upgrading \in BOOLEAN
    BY DEF Upgrading, Inv, TypeOK, Ops, Markers
  <1>3. fields[op.at] \in Fields /\ Len(fields) = n
    BY <1>1, <1>2, SeqFields
  <1>4. fields[1] = "rollback" /\ (op.at >= 2 => fields[op.at] # "rollback")
    <2>1. CASE Upgrading
      <3>1. op.at \in 1..10
        BY <1>1, <2>1
      <3> QED BY <2>1, <3>1 DEF PublishSeq
    <2>2. CASE ~Upgrading
      <3>1. op.at \in 1..8
        BY <1>1, <2>2
      <3> QED BY <2>2, <3>1 DEF PublishSeq
    <2> QED BY <2>1, <2>2
  <1>5. CASE PutEach(fields, op.want, "swap")
    <2>1. marker' = Put(fields[op.at], op.want)
      BY <1>5 DEF PutEach
    <2>2. marker \in Markers
      BY DEF Inv, TypeOK
    <2>3. /\ marker' \in Markers
          /\ marker'.rollback = IF fields[op.at] = "rollback" THEN op.want.rollback
                                ELSE marker.rollback
      BY <1>1, <1>3, <2>1, <2>2, PutType, PutValue
    <2>4. marker'.rollback = op.tx
      <3>1. CASE op.at = 1
        BY <1>1, <1>4, <2>3, <3>1
      <3>2. CASE op.at >= 2
        BY <1>1, <1>4, <2>3, <3>2
      <3> QED BY <1>1, <3>1, <3>2
    <2>5. ASSUME op.at # n, op' = [op EXCEPT !.at = op.at + 1]
          PROVE  op.at + 1 \in 1..10 /\ Wired'
      <3>1. op.at + 1 \in 1..n /\ n \in {8, 10}
        BY <1>1, <2>5
      <3>2. /\ op'.pc = "publish" /\ op'.at = op.at + 1 /\ op'.tx = op.tx
            /\ op'.did = op.did /\ op'.then = op.then /\ op'.want = op.want
            /\ op'.prev = op.prev
        BY <1>1, <2>5 DEF Inv, TypeOK, Ops
      <3> QED BY <1>1, <2>4, <3>1, <3>2 DEF Inv, Wired, Pending, Upgrading
    <2>6. op.at # n => op' = [op EXCEPT !.at = op.at + 1]
      BY <1>3, <1>5 DEF PutEach
    <2> QED BY <1>1, <1>3, <1>5, <2>4, <2>5, <2>6, PutEachInv DEF PCs
  <1>6. CASE Fault("unhook")
    BY <1>1, <1>6, FaultInv DEF PCs
  <1> QED BY <1>5, <1>6 DEF Publish

\* A step that jumps to p and adds a mark to what an undo must revert.
LEMMA DidInv ==
  ASSUME Inv, Keeps, NEW p \in PCs \ {"publish", "restore", "cleanup"},
         NEW x \in {"swap", "promote", "hook"}, op.tx \in Tx,
         op' = [op EXCEPT !.pc = p, !.did = op.did \cup {x}]
  PROVE  Inv'
PROOF
  <1>1. op.did \cup {x} \in SUBSET {"swap", "promote", "hook", "retire"}
    BY DEF Inv, TypeOK, Ops
  <1>2. /\ op' \in Ops /\ op'.pc = p /\ op'.tx = op.tx
        /\ op'.did = op.did \cup {x} /\ op'.then = op.then
    BY <1>1 DEF Inv, TypeOK, Ops
  <1>3. Wired'
    BY <1>2 DEF Inv, Wired, Keeps, Pending
  <1> QED BY <1>2, <1>3, OpInv

LEMMA SwapInv ==
  ASSUME Inv, Swap
  PROVE  Inv'
PROOF
  <1>1. op.tx \in Tx
    BY DEF Swap, Inv, Wired, TxPCs
  <1>2. CASE /\ dirs' = Move(Root, <<"rollback", op.tx>>)
             /\ op' = [op EXCEPT !.pc = "promote", !.did = @ \cup {"swap"}]
             /\ Quiet /\ UNCHANGED <<autorun, marker>>
    <2>1. dirs' \in [DirNames -> Payloads]
      BY <1>1, <1>2, DirsType, TxDirs, Constants DEF Inv, TypeOK
    <2>2. Keeps
      BY <1>2, <2>1 DEF Quiet, Inv, TypeOK, Wired, Keeps, Pending, observers
    <2> QED BY <1>1, <1>2, <2>2, DidInv DEF PCs
  <1> QED BY <1>1, <1>2, StillInv, FaultInv DEF Swap, PCs

LEMMA PromoteInv ==
  ASSUME Inv, Promote
  PROVE  Inv'
PROOF
  <1>1. op.tx \in Tx
    BY DEF Promote, Inv, Wired, TxPCs
  <1>2. CASE /\ dirs' = Move(StagingDir, Root)
             /\ op' = [op EXCEPT !.pc = "check", !.did = @ \cup {"promote"}]
             /\ Quiet /\ UNCHANGED <<autorun, marker>>
    <2>1. dirs' \in [DirNames -> Payloads]
      BY <1>1, <1>2, DirsType, TxDirs, Constants DEF Inv, TypeOK, StagingDir
    <2>2. Keeps
      BY <1>2, <2>1 DEF Quiet, Inv, TypeOK, Wired, Keeps, Pending, observers
    <2> QED BY <1>1, <1>2, <2>2, DidInv DEF PCs
  <1> QED BY <1>1, <1>2, FaultInv DEF Promote, PCs

LEMMA HookInv ==
  ASSUME Inv, Check \/ Hook
  PROVE  Inv'
PROOF
  <1>1. op.tx \in Tx /\ op.want \in Markers
    BY DEF Check, Hook, Inv, TypeOK, Ops, Wired, TxPCs
  <1>2. HookValue \in AutoRuns
    BY <1>1 DEF HookValue, AutoRuns, Markers
  <1>3. CASE Check
    <2>1. CASE Still("unhook") \/ Still("commit")
      BY <1>1, <2>1, StillInv DEF PCs
    <2>2. CASE /\ Goto("hook") /\ raced' = (raced \/ Stale)
               /\ UNCHANGED <<persistent, build, last, owned, touched, crashes, faults,
                              edits>>
      <3>1. /\ op' \in Ops /\ op'.pc = "hook" /\ op'.tx = op.tx
            /\ op'.did = op.did /\ op'.then = op.then
        BY <2>2, GotoType DEF PCs, Inv, TypeOK
      <3>2. Wired'
        BY <1>1, <2>2, <3>1 DEF Inv, Wired, TxPCs, Pending, persistent
      <3> QED BY <2>2, <3>1, <3>2 DEF Inv, TypeOK, persistent
    <2> QED BY <1>3, <2>1, <2>2 DEF Check
  <1>4. CASE /\ autorun' = HookValue
             /\ op' = [op EXCEPT !.pc = "commit", !.did = @ \cup {"hook"}]
             /\ Quiet /\ UNCHANGED <<marker, dirs>>
    <2>1. Keeps
      BY <1>2, <1>4 DEF Quiet, Inv, TypeOK, Wired, Keeps, Pending, observers
    <2> QED BY <1>1, <1>4, <2>1, DidInv DEF PCs
  <1> QED BY <1>1, <1>3, <1>4, FaultInv DEF Hook, PCs

LEMMA CommitInv ==
  ASSUME Inv, Commit
  PROVE  Inv'
PROOF
  <1> DEFINE m == [marker EXCEPT !.state = "installed"]
  <1>1. op.tx \in Tx
    BY DEF Commit, Inv, Wired, TxPCs
  <1>2. m \in Markers /\ (Pending(m) => m.rollback \in Tx)
    BY DEF Inv, TypeOK, Wired, Markers, Pending
  <1> QED BY <1>1, <1>2, SetMarkerInv, FaultInv DEF Commit, PCs

LEMMA DiscardInv ==
  ASSUME Inv, Discard
  PROVE  Inv'
PROOF
  <1>1. Keeps
    BY DirsType, DropFaults
       DEF Discard, Inv, TypeOK, Wired, Keeps, Pending, observers
  <1>2. /\ op' \in Ops /\ op'.pc = "cleanup" /\ op'.at = 1 /\ op'.tx = op.tx
        /\ op'.did = op.did /\ op'.then = "prune"
    BY 1 \in 1..10 DEF Discard, Inv, TypeOK, Ops, PCs
  <1>3. Wired'
    BY <1>1, <1>2 DEF Inv, Wired, TxPCs, Keeps, Pending
  <1> QED BY <1>1, <1>2, <1>3, OpInv

\* undo.
LEMMA UnhookInv ==
  ASSUME Inv, Unhook \/ UnhookWrite
  PROVE  Inv'
PROOF
  <1>1. op.tx \in Tx /\ op.seen \in AutoRuns
    BY DEF Unhook, UnhookWrite, Inv, TypeOK, Ops, Wired, TxPCs
  <1>2. CASE Unhook
    <2>1. Still("undeploy") \/ Still("unhookWrite") \/ Finish("failed")
      BY <1>2 DEF Unhook
    <2> QED BY <1>1, <2>1, StillInv, FinishInv DEF PCs, Results
  <1>3. CASE UnhookWrite
    BY <1>1, <1>3, SetAutoRunInv, FaultEndsInv DEF UnhookWrite, PCs
  <1> QED BY <1>2, <1>3

LEMMA UndeployInv ==
  ASSUME Inv, Undeploy \/ Unswap
  PROVE  Inv'
PROOF
  <1>1. op.tx \in Tx
    BY DEF Undeploy, Unswap, Inv, Wired, TxPCs
  <1>2. /\ Remove(Root) \in [DirNames -> Payloads]
        /\ Move(<<"rollback", op.tx>>, Root) \in [DirNames -> Payloads]
    BY <1>1, DirsType, TxDirs, Constants DEF Inv, TypeOK
  <1> QED BY <1>1, <1>2, SetDirsInv, StillInv, FaultEndsInv
          DEF Undeploy, Unswap, PCs

LEMMA UnmarkInv ==
  ASSUME Inv, Unmark
  PROVE  Inv'
PROOF
  <1>1. CASE Drop({StagingDir}) /\ Upgrading
             /\ op' = [op EXCEPT !.pc = "restore", !.at = 1,
                                 !.want = op.prev, !.then = "idle"]
             /\ UNCHANGED <<marker, last>>
             /\ UNCHANGED <<autorun, build, observers, crashes, edits>>
    <2>1. Keeps
      BY <1>1, DirsType, DropFaults
         DEF Inv, TypeOK, Wired, Keeps, Pending, observers
    <2>2. /\ op' \in Ops /\ op'.pc = "restore" /\ op'.at = 1 /\ op'.tx = op.tx
          /\ op'.did = op.did /\ op'.then = "idle"
      BY <1>1, 1 \in 1..10 DEF Inv, TypeOK, Ops, PCs
    <2>3. Wired'
      BY <2>1, <2>2 DEF Inv, Wired, TxPCs, Keeps, Pending
    <2> QED BY <2>1, <2>2, <2>3, OpInv
  <1>2. CASE Drop({StagingDir}) /\ ~Upgrading
             /\ marker' = NoMarker /\ op' = Idle /\ last' = "failed"
             /\ UNCHANGED <<autorun, build, observers, crashes, edits>>
    <2>1. Keeps
      BY <1>2, DirsType, DropFaults, Constants
         DEF Inv, TypeOK, Keeps, Pending, observers, NoMarker, Results
    <2> QED BY <1>2, <2>1, EndInv
  <1> QED BY <1>1, <1>2, FaultEndsInv DEF Unmark

\* uninstall.
LEMMA JudgeInv ==
  ASSUME Inv, Judge
  PROVE  Inv'
PROOF
  <1>1. CASE Still(UninstallDone)
    BY <1>1, StillInv DEF UninstallDone, PCs, TxPCs
  <1>2. CASE Refuse("unknown") \/ Refuse("changed")
    BY <1>2, RefuseInv DEF Results
  <1>3. ASSUME raced' = (raced \/ (HalfPublished /\ touched)),
               UNCHANGED <<persistent, build, last, owned, touched, crashes,
                           faults, edits>>,
               op' \in Ops, Wired'
        PROVE  Inv'
    BY <1>3 DEF Inv, TypeOK, persistent
  <1>4. ASSUME UNCHANGED persistent, NEW p \in {"restoreUser", "markPath"},
               NEW t \in Tx \cup {NoTx}, NEW d \in {{"retire"}, {}, op.did},
               op'.pc = p, op'.tx = t, op'.did = d, op'.then = op.then,
               p = "markPath" \/ d = {"retire"} => t \in Tx,
               d = op.did => t = op.tx \/ t \in Tx
        PROVE  Wired'
    BY <1>4 DEF Inv, Wired, TxPCs, Pending, persistent
  <1>5. CASE op' = [op EXCEPT !.pc = "restoreUser", !.tx = marker.removal,
                      !.did = IF dirs[<<"removing", marker.removal>>] # Nothing
                              THEN {"retire"} ELSE {}]
             /\ marker.removal # NoTx
             /\ raced' = (raced \/ (HalfPublished /\ touched))
             /\ UNCHANGED <<persistent, build, last, owned, touched, crashes,
                            faults, edits>>
    <2> DEFINE d == IF dirs[<<"removing", marker.removal>>] # Nothing
                    THEN {"retire"} ELSE {}
    <2>1. marker.removal \in Tx
      BY <1>5 DEF Inv, TypeOK, Markers
    <2>2. d \in SUBSET {"swap", "promote", "hook", "retire"} /\ d \in {{"retire"}, {}}
      OBVIOUS
    <2>3. /\ op' \in Ops /\ op'.pc = "restoreUser" /\ op'.tx = marker.removal
          /\ op'.did = d /\ op'.then = op.then
      BY <1>5, <2>1, <2>2 DEF Inv, TypeOK, Ops, PCs
    <2>4. Wired'
      BY <1>4, <1>5, <2>1, <2>2, <2>3
    <2> QED BY <1>3, <1>5, <2>3, <2>4
  <1>6. CASE op' = [op EXCEPT !.pc = "restoreUser"]
             /\ raced' = (raced \/ (HalfPublished /\ touched))
             /\ UNCHANGED <<persistent, build, last, owned, touched, crashes,
                            faults, edits>>
    <2>1. /\ op' \in Ops /\ op'.pc = "restoreUser" /\ op'.tx = op.tx
          /\ op'.did = op.did /\ op'.then = op.then
      BY <1>6 DEF Inv, TypeOK, Ops, PCs
    <2>2. Wired'
      BY <1>6, <2>1 DEF Inv, Wired, TxPCs, Pending, persistent
    <2> QED BY <1>3, <1>6, <2>1, <2>2
  <1>7. ASSUME NEW t \in Tx, op' = [op EXCEPT !.pc = "markPath", !.tx = t],
               raced' = (raced \/ (HalfPublished /\ touched)),
               UNCHANGED <<persistent, build, last, owned, touched, crashes,
                           faults, edits>>
        PROVE  Inv'
    <2>1. /\ op' \in Ops /\ op'.pc = "markPath" /\ op'.tx = t
          /\ op'.did = op.did /\ op'.then = op.then
      BY <1>7 DEF Inv, TypeOK, Ops, PCs
    <2>2. Wired'
      BY <1>7, <2>1 DEF Inv, Wired, TxPCs, Pending, persistent
    <2> QED BY <1>3, <1>7, <2>1, <2>2
  <1> QED BY <1>1, <1>2, <1>5, <1>6, <1>7 DEF Judge

LEMMA MarkInv ==
  ASSUME Inv, MarkPath \/ MarkState
  PROVE  Inv'
PROOF
  <1>1. op.tx \in Tx /\ op.tx \in Tx \cup {NoTx}
    BY DEF MarkPath, MarkState, Inv, Wired, TxPCs
  <1> DEFINE path == [marker EXCEPT !.removal = op.tx]
             removing == [marker EXCEPT !.state = "removing"]
  <1>2. path \in Markers /\ (Pending(path) => path.rollback \in Tx)
    BY <1>1 DEF Inv, TypeOK, Wired, Markers, Pending
  <1>3. removing \in Markers /\ (Pending(removing) => removing.rollback \in Tx)
    BY DEF Inv, TypeOK, Wired, Markers, Pending
  <1>4. CASE MarkPath
    BY <1>1, <1>2, <1>4, SetMarkerInv, RefuseFaultInv DEF MarkPath, PCs
  <1>5. CASE MarkState
    BY <1>1, <1>3, <1>5, SetMarkerInv, RefuseFaultInv DEF MarkState, PCs
  <1> QED BY <1>4, <1>5

LEMMA RetireInv ==
  ASSUME Inv, Retire
  PROVE  Inv'
PROOF
  <1>1. op.tx \in Tx
    BY DEF Retire, Inv, Wired, TxPCs
  <1>2. CASE /\ dirs' = Move(Root, RemovalDir)
             /\ op' = [op EXCEPT !.pc = "restoreUser", !.did = {"retire"}]
             /\ Quiet /\ UNCHANGED <<autorun, marker>>
    <2>1. dirs' \in [DirNames -> Payloads]
      BY <1>1, <1>2, DirsType, TxDirs, Constants DEF Inv, TypeOK, RemovalDir
    <2>2. Keeps
      BY <1>2, <2>1 DEF Quiet, Inv, TypeOK, Wired, Keeps, Pending, observers
    <2>3. /\ op' \in Ops /\ op'.pc = "restoreUser" /\ op'.tx = op.tx
          /\ op'.then = op.then
      BY <1>2, {"retire"} \in SUBSET {"swap", "promote", "hook", "retire"}
         DEF Inv, TypeOK, Ops, PCs
    <2>4. Wired'
      BY <1>1, <2>2, <2>3 DEF Inv, Wired, TxPCs, Keeps, Pending
    <2> QED BY <2>2, <2>3, <2>4, OpInv
  <1> QED BY <1>2, RefuseFaultInv DEF Retire

LEMMA RestoreUserInv ==
  ASSUME Inv, RestoreUser
  PROVE  Inv'
PROOF
  <1>1. Original \in AutoRuns
    BY Constants DEF Original, AutoRuns, Markers, Inv, TypeOK
  <1>2. PutPayloadBack => op.tx \in Tx
    BY DEF PutPayloadBack, Inv, Wired
  <1> QED BY <1>1, <1>2, SetAutoRunInv, FaultInv, RefuseFaultInv
          DEF RestoreUser, PCs, TxPCs

LEMMA UnretireInv ==
  ASSUME Inv, Unretire
  PROVE  Inv'
PROOF
  <1>1. op.tx \in Tx
    BY DEF Unretire, Inv, Wired, TxPCs
  <1>2. CASE dirs' = Move(RemovalDir, Root) /\ Return("failed")
             /\ UNCHANGED <<autorun, marker, faults>>
    <2>1. dirs' \in [DirNames -> Payloads]
      BY <1>1, <1>2, DirsType, TxDirs, Constants DEF Inv, TypeOK, RemovalDir
    <2>2. last' \in Results
      BY <1>2 DEF Return, Inv, TypeOK, Results
    <2>3. Keeps
      BY <1>2, <2>1, <2>2 DEF Return, Inv, TypeOK, Wired, Keeps, Pending, observers
    <2> QED BY <1>2, <2>3, ReturnInv DEF Results
  <1> QED BY <1>2, RefuseFaultInv DEF Unretire

LEMMA ForgetInv ==
  ASSUME Inv, Forget
  PROVE  Inv'
PROOF
  <1> DEFINE D == IF "retire" \in op.did THEN {RemovalDir} ELSE {}
  <1>1. CASE /\ marker' = NoMarker /\ Drop(D) /\ Goto(UninstallDone)
             /\ UNCHANGED <<autorun, build, last, observers, crashes, edits>>
    <2>1. dirs' \in [DirNames -> Payloads] /\ faults' \in 0..MaxFaults
      BY <1>1, DirsType, DropFaults DEF Inv, TypeOK
    <2>2. Keeps
      BY <1>1, <2>1, Constants DEF Inv, TypeOK, Keeps, Pending, observers, NoMarker
    <2> QED BY <1>1, <2>2, JumpInv DEF UninstallDone, PCs, TxPCs
  <1> QED BY <1>1, RefuseFaultInv DEF Forget

\* strip_autorun_hook, cleanup_orphaned, prune_leftover_dirs.
LEMMA StripInv ==
  ASSUME Inv, StripRead \/ StripWrite
  PROVE  Inv'
PROOF
  <1>1. AfterStrip \in PCs \ {"publish"} /\ AfterStrip \notin TxPCs
    BY DEF AfterStrip, PCs, TxPCs
  <1>2. CASE /\ op' = [op EXCEPT !.pc = "stripWrite", !.seen = autorun]
             /\ Quiet /\ UNCHANGED persistent
    <2>1. Keeps
      BY <1>2, KeepsSame DEF Quiet, Inv, TypeOK
    <2>2. /\ op' \in Ops /\ op'.pc = "stripWrite" /\ op'.tx = op.tx
          /\ op'.did = op.did /\ op'.then = op.then
      BY <1>2 DEF Inv, TypeOK, Ops, PCs
    <2>3. Wired'
      BY <2>1, <2>2 DEF Inv, Wired, TxPCs, Keeps, Pending
    <2> QED BY <2>1, <2>2, <2>3, OpInv
  <1>3. CASE StripWrite
    <2> DEFINE ar == IF Strip(op.seen.text) = Empty THEN Absent
                     ELSE [op.seen EXCEPT !.text = Strip(op.seen.text)]
    <2>1. op.seen \in AutoRuns
      BY DEF Inv, TypeOK, Ops
    <2>2. op.seen.text \in Texts
      BY <2>1 DEF AutoRuns
    <2>3. ar \in AutoRuns
      BY <2>1, <2>2, TextType, Constants DEF AutoRuns
    <2> QED BY <1>1, <1>3, <2>3, SetAutoRunInv, FaultInv DEF StripWrite
  <1> QED BY <1>1, <1>2, <1>3, StillInv DEF StripRead

LEMMA WipeInv ==
  ASSUME Inv, Wipe \/ Bury
  PROVE  Inv'
PROOF
  <1>1. CASE Wipe
    <2>1. NoMarker \in Markers /\ ~Pending(NoMarker)
      BY Constants DEF NoMarker, Pending
    <2> QED BY <1>1, <2>1, SetMarkerInv DEF Wipe, PCs, TxPCs
  <1>2. CASE Bury
    <2>1. dirs' \in [DirNames -> Payloads] /\ faults' \in 0..MaxFaults
      BY <1>2, DirsType, DropFaults DEF Bury, Inv, TypeOK
    <2>2. Keeps
      BY <1>2, <2>1 DEF Bury, Inv, TypeOK, Wired, Keeps, Pending, observers, Results
    <2> QED BY <1>2, <2>2, EndInv DEF Bury
  <1> QED BY <1>1, <1>2

LEMMA PruneInv ==
  ASSUME Inv, Prune
  PROVE  Inv'
PROOF
  <1>1. Keeps
    BY KeepsSame DEF Prune, Quiet, Inv, TypeOK
  <1>2. /\ op' \in Ops /\ op'.pc = "recover" /\ op'.tx = op.tx
        /\ op'.did = op.did /\ op'.then = "sweep"
    BY 1 \in 1..10 DEF Prune, Inv, TypeOK, Ops, PCs
  <1>3. Wired'
    BY <1>1, <1>2 DEF Inv, Wired, TxPCs, Keeps, Pending
  <1> QED BY <1>1, <1>2, <1>3, OpInv

LEMMA SweepInv ==
  ASSUME Inv, Sweep
  PROVE  Inv'
PROOF
  <1>1. dirs' \in [DirNames -> Payloads] /\ faults' \in 0..MaxFaults
    BY DirsType, DropFaults DEF Sweep, Inv, TypeOK
  <1>2. last' \in Results
    BY DEF Sweep, Inv, TypeOK, Results
  <1>3. Keeps
    BY <1>1, <1>2 DEF Sweep, Inv, TypeOK, Wired, Keeps, Pending, observers
  <1>4. Goto("strip") \/ op' = Idle
    BY DEF Sweep
  <1> QED BY <1>3, <1>4, JumpInv, EndInv DEF PCs, TxPCs

\* The environment.
LEMMA EnvironmentInv ==
  ASSUME Inv, Crash \/ Edit \/ Product
  PROVE  Inv'
PROOF
  <1>1. CASE Crash
    <2>1. op' \in Ops /\ crashes' \in 0..MaxCrashes
      BY <1>1, Constants, CmdAssumption DEF Crash, Inv, TypeOK
    <2>2. Wired'
      BY <1>1 DEF Crash, Idle, Inv, Wired, TxPCs, Pending, persistent
    <2> QED BY <1>1, <2>1, <2>2 DEF Crash, Inv, TypeOK, persistent, observers, Results
  <1>2. CASE Edit
    <2>1. autorun' \in AutoRuns /\ edits' \in 0..MaxEdits
      BY <1>2, CmdAssumption DEF Edit, Inv, TypeOK
    <2>2. autorun'.text \in Texts
      BY <2>1 DEF AutoRuns
    <2>3. owned' \in AutoRuns
      BY <1>2, <2>1, <2>2, TextType DEF Edit, AutoRuns
    <2>4. Wired'
      BY <1>2 DEF Edit, Inv, Wired, Upgrading, Pending
    <2> QED BY <1>2, <2>1, <2>3, <2>4 DEF Edit, Inv, TypeOK
  <1>3. CASE Product
    <2>1. build' \in 0..MaxBuild
      BY <1>3, CmdAssumption DEF Product, Builds, Inv, TypeOK
    <2>2. Wired'
      BY <1>3 DEF Product, Inv, Wired, Upgrading, Pending, persistent
    <2> QED BY <1>3, <2>1, <2>2 DEF Product, Inv, TypeOK, persistent, observers
  <1> QED BY <1>1, <1>2, <1>3

-----------------------------------------------------------------------------
LEMMA InitInv == Init => Inv
PROOF
  <1> SUFFICES ASSUME Init PROVE Inv
    OBVIOUS
  <1>1. autorun.text \in Texts
    BY DEF Init, AutoRuns
  <1>2. owned \in AutoRuns
    BY <1>1, TextType DEF Init, AutoRuns
  <1>3. dirs \in [DirNames -> Payloads]
    <2>1. MaxBuild \in Payloads /\ Nothing \in Payloads
      BY CmdAssumption DEF Payloads, Nothing
    <2> QED BY <2>1 DEF Init
  <1>4. build \in 0..MaxBuild
    BY CmdAssumption DEF Init
  <1>5. crashes \in 0..MaxCrashes /\ faults \in 0..MaxFaults /\ edits \in 0..MaxEdits
    BY CmdAssumption DEF Init
  <1>6. autorun \in AutoRuns /\ marker \in Markers /\ op \in Ops
    BY Constants DEF Init
  <1>7. last \in Results /\ raced \in BOOLEAN /\ touched \in BOOLEAN
    BY DEF Init, Results
  <1>8. TypeOK
    BY <1>2, <1>3, <1>4, <1>5, <1>6, <1>7 DEF TypeOK
  <1>9. Wired
    BY DEF Init, Wired, Idle, TxPCs, NoMarker, Pending
  <1> QED BY <1>8, <1>9 DEF Inv

LEMMA NextInv == Inv /\ [Next]_vars => Inv'
PROOF
  <1> SUFFICES ASSUME Inv, [Next]_vars PROVE Inv'
    OBVIOUS
  <1>1. CASE \E job \in Jobs : Start(job)
    BY <1>1, StartInv
  <1>2. CASE Recovery
    BY <1>2, RecoverNothingInv, RecoverCommittedInv, RecoverPayloadInv,
       RecoverMarkerInv, RestoreInv, CleanupInv DEF Recovery
  <1>3. CASE Dispatch
    BY <1>3, DispatchInv
  <1>4. CASE Install
    BY <1>4, BeginInv, StageInv, SnapshotInv, SnapshotUpgradeInv,
       RefuseUpgradeInv, PublishInv, SwapInv, PromoteInv, HookInv, CommitInv,
       DiscardInv DEF Install
  <1>5. CASE Undo
    BY <1>5, UnhookInv, UndeployInv, UnmarkInv DEF Undo
  <1>6. CASE Uninstall
    BY <1>6, JudgeInv, MarkInv, RetireInv, RestoreUserInv, UnretireInv,
       ForgetInv DEF Uninstall
  <1>7. CASE Hygiene
    BY <1>7, StripInv, WipeInv, PruneInv, SweepInv DEF Hygiene
  <1>8. CASE Crash \/ Edit \/ Product
    BY <1>8, EnvironmentInv
  <1>9. CASE UNCHANGED vars
    BY <1>9 DEF vars, persistent, observers, Inv, TypeOK, Wired, Upgrading, Pending
  <1> QED BY <1>1, <1>2, <1>3, <1>4, <1>5, <1>6, <1>7, <1>8, <1>9 DEF Next

\* Type correctness of every store, local and observer of the cmd adapter.
THEOREM TypeCorrect == Spec => []TypeOK
PROOF
  <1>1. Spec => []Inv
    BY InitInv, NextInv, PTL DEF Spec
  <1> QED BY <1>1, PTL DEF Inv
-----------------------------------------------------------------------------
(* At most one hook.  Two facts carry it: what is recorded as the user's    *)
(* original never holds a hook, and what is recorded as installed holds at  *)
(* most one; every value the code writes is one of those, or what it read.  *)

Clean(m) == m.origText.hooks = 0 /\ m.instText.hooks <= 1

OpClean(o) == o.seen.text.hooks <= 1 /\ Clean(o.prev) /\ Clean(o.want)

Single == AtMostOneHook /\ Clean(marker) /\ OpClean(op)

\* A step that ends the command, or keeps what it has read and will write.
KeepsLocals ==
  \/ op' = Idle
  \/ op'.seen = op.seen /\ op'.prev = op.prev /\ op'.want = op.want

\* An idle command has recorded nothing.
LEMMA IdleClean ==
  /\ OpClean(Idle) /\ Clean(NoMarker)
  /\ Idle.seen = Absent /\ Idle.prev = NoMarker /\ Idle.want = NoMarker
PROOF
  <1>1. NoMarker.origText.hooks = 0 /\ NoMarker.instText.hooks = 0
    BY DEF NoMarker, Empty
  <1>2. Absent.text.hooks = 0
    BY DEF Absent, Empty
  <1>3. Idle.seen = Absent /\ Idle.prev = NoMarker /\ Idle.want = NoMarker
    BY DEF Idle
  <1> QED BY <1>1, <1>2, <1>3 DEF OpClean, Clean

\* The texts of the locals and of the marker are texts, so their counts are
\* numbers.
LEMMA TextsTyped ==
  ASSUME Inv
  PROVE  /\ op \in Ops /\ marker \in Markers /\ autorun \in AutoRuns
         /\ autorun.text \in Texts /\ op.seen.text \in Texts
         /\ marker.origText \in Texts /\ marker.instText \in Texts
         /\ op.want.origText \in Texts /\ op.want.instText \in Texts
         /\ op.prev.origText \in Texts /\ op.prev.instText \in Texts
         /\ op.want \in Markers /\ op.prev \in Markers /\ op.seen \in AutoRuns
PROOF
  <1>1. op \in Ops /\ marker \in Markers /\ autorun \in AutoRuns
    BY DEF Inv, TypeOK
  <1>2. op.want \in Markers /\ op.prev \in Markers /\ op.seen \in AutoRuns
    BY <1>1 DEF Ops
  <1> QED BY <1>1, <1>2 DEF Markers, AutoRuns

LEMMA GotoLocals ==
  ASSUME Inv, NEW p, Goto(p)
  PROVE  KeepsLocals
PROOF
  <1>1. op \in Ops /\ op' = [op EXCEPT !.pc = p, !.at = 1]
    BY TextsTyped DEF Goto
  <1> QED BY <1>1 DEF KeepsLocals, Ops

LEMMA ReturnLocals ==
  ASSUME Inv, NEW r, Return(r)
  PROVE  KeepsLocals
PROOF
  BY GotoLocals DEF Return, KeepsLocals

LEMMA PutClean ==
  ASSUME Inv, Single, NEW f \in Fields, NEW m \in Markers, Clean(m)
  PROVE  Clean(Put(f, m))
PROOF
  BY TextsTyped, PutValue DEF Single, Clean

\* One more call after a text without one is one call.
LEMMA InstalledOnce ==
  ASSUME NEW t \in Texts, t.hooks = 0
  PROVE  InstalledText(t).hooks = 1
PROOF
  BY DEF InstalledText, Texts

LEMMA PreparedClean ==
  ASSUME Inv, NEW present, NEW kind, NEW t \in Texts, t.hooks = 0
  PROVE  Clean(Prepared(present, kind, t))
PROOF
  BY InstalledOnce DEF Clean, Prepared

LEMMA KeepsSingle ==
  ASSUME Single, KeepsLocals, AtMostOneHook', Clean(marker)'
  PROVE  Single'
PROOF
  BY IdleClean DEF Single, KeepsLocals, OpClean

\* Steps that write neither AutoRun nor the marker, or clear the marker.
LEMMA PlainSingle ==
  ASSUME Inv, Single, KeepsLocals, autorun' = autorun, marker' \in {marker, NoMarker}
  PROVE  Single'
PROOF
  <1>1. AtMostOneHook' /\ Clean(marker')
    BY IdleClean DEF Single, AtMostOneHook
  <1> QED BY <1>1, KeepsSingle

LEMMA StillSingle ==
  ASSUME Inv, Single,
         \/ \E p \in PCs : Still(p) \/ Fault(p)
         \/ \E r \in Results : Finish(r) \/ Refuse(r)
         \/ FaultEnds \/ RefuseFault
  PROVE  Single'
PROOF
  <1>1. CASE \E p \in PCs : Still(p) \/ Fault(p)
    BY <1>1, GotoLocals, PlainSingle DEF Still, Fault, persistent
  <1>2. CASE \E r \in Results : Finish(r)
    BY <1>2, PlainSingle DEF Finish, persistent, KeepsLocals
  <1>3. CASE (\E r \in Results : Refuse(r)) \/ RefuseFault
    BY <1>3, ReturnLocals, PlainSingle DEF Refuse, RefuseFault, persistent
  <1>4. CASE FaultEnds
    BY <1>4, PlainSingle DEF FaultEnds, persistent, KeepsLocals
  <1> QED BY <1>1, <1>2, <1>3, <1>4

LEMMA SetDirsSingle ==
  ASSUME Inv, Single, NEW d, NEW p, SetDirs(d, p)
  PROVE  Single'
PROOF
  BY GotoLocals, PlainSingle DEF SetDirs

LEMMA SetMarkerSingle ==
  ASSUME Inv, Single, NEW m, NEW p, SetMarker(m, p), Clean(m)
  PROVE  Single'
PROOF
  BY GotoLocals, KeepsSingle DEF SetMarker, Single, AtMostOneHook

LEMMA SetAutoRunSingle ==
  ASSUME Inv, Single, NEW ar, NEW p, SetAutoRun(ar, p), ar.text.hooks <= 1
  PROVE  Single'
PROOF
  BY GotoLocals, KeepsSingle DEF SetAutoRun, Single, AtMostOneHook

LEMMA PutEachSingle ==
  ASSUME Inv, Single, NEW fields, NEW m \in Markers, NEW p,
         PutEach(fields, m, p), fields[op.at] \in Fields, Clean(m)
  PROVE  Single'
PROOF
  <1>1. Clean(marker')
    BY PutClean DEF PutEach
  <1>2. KeepsLocals
    BY TextsTyped DEF PutEach, KeepsLocals, Ops
  <1>3. AtMostOneHook'
    BY DEF PutEach, Single, AtMostOneHook
  <1> QED BY <1>1, <1>2, <1>3, KeepsSingle

LEMMA StartSingle ==
  ASSUME Inv, Single, NEW job \in Jobs, Start(job)
  PROVE  Single'
PROOF
  <1>1. op'.seen = Idle.seen /\ op'.prev = Idle.prev /\ op'.want = Idle.want
    BY Constants DEF Start, Ops
  <1>2. OpClean(op')
    BY <1>1, IdleClean DEF OpClean
  <1> QED BY <1>2 DEF Start, Single, AtMostOneHook, persistent

\* recover_upgrade writes back the texts that the marker holds.
LEMMA RecoverySingle ==
  ASSUME Inv, Single, Recovery
  PROVE  Single'
PROOF
  <1>1. CASE RecoverNothing \/ RecoverCommitted
    <2>1. op.then \in PCs /\ "cleanup" \in PCs
      BY TextsTyped DEF Ops, PCs
    <2> QED BY <1>1, <2>1, StillSingle DEF RecoverNothing, RecoverCommitted
  <1>2. CASE RecoverPayload
    BY <1>2, SetDirsSingle, StillSingle DEF RecoverPayload
  <1>3. CASE RecoverMarker
    <2> DEFINE m == [marker EXCEPT !.version = marker.upVersion, !.state = "installed"]
    <2>1. Clean(m)
      BY TextsTyped DEF Single, Clean, Markers
    <2>2. op' = [op EXCEPT !.pc = "restore", !.at = 1, !.want = m]
      BY <1>3 DEF RecoverMarker
    <2>3. op'.seen = op.seen /\ op'.prev = op.prev /\ op'.want = m
      BY <2>2, TextsTyped DEF Ops
    <2> QED BY <1>3, <2>1, <2>3 DEF RecoverMarker, Single, OpClean, AtMostOneHook
  <1>4. CASE Restore
    <2>1. op.at \in 1..6 /\ Clean(op.want)
      BY <1>4 DEF Restore, Inv, TypeOK, Wired, Ops, Single, OpClean
    <2> QED BY <1>4, <2>1, TextsTyped, SeqFields, PutEachSingle, StillSingle DEF Restore
  <1>5. CASE Cleanup
    <2>1. op.at \in 1..4 /\ CleanupSeq[op.at] \in Fields
      BY <1>5, SeqFields DEF Cleanup, Inv, TypeOK, Wired, Ops
    <2>2. NoMarker \in Markers /\ Clean(NoMarker)
      BY Constants, IdleClean
    <2>3. CASE \E p : PutEach(CleanupSeq, NoMarker, p)
      BY <2>1, <2>2, <2>3, PutEachSingle
    <2>4. CASE marker' = Put(CleanupSeq[op.at], NoMarker) /\ op' = Idle
               /\ autorun' = autorun
      BY <2>1, <2>2, <2>4, PutClean, KeepsSingle
         DEF Single, AtMostOneHook, KeepsLocals
    <2> QED BY <1>5, <2>3, <2>4, StillSingle DEF Cleanup, PCs
  <1> QED BY <1>1, <1>2, <1>3, <1>4, <1>5 DEF Recovery

LEMMA DispatchSingle ==
  ASSUME Inv, Single, Dispatch
  PROVE  Single'
PROOF
  <1>1. CASE PruneTree
    <2>1. CASE \E p \in PCs : Still(p)
      BY <2>1, StillSingle
    <2>2. CASE (\E p \in PCs : Goto(p)) /\ UNCHANGED <<autorun, marker>>
      BY <2>2, GotoLocals, PlainSingle
    <2> QED BY <1>1, <2>1, <2>2 DEF PruneTree, PCs
  <1>2. CASE DispatchEnable
    BY <1>2, StillSingle DEF DispatchEnable, PCs
  <1>3. CASE DispatchDisable
    BY <1>3, StillSingle DEF DispatchDisable, PCs
  <1>4. CASE DispatchRepair
    BY <1>4, StillSingle DEF DispatchRepair, PCs
  <1>5. CASE DispatchOrphan
    BY <1>5, StillSingle DEF DispatchOrphan, PCs, Results
  <1>6. CASE Repaired
    BY <1>6, StillSingle DEF Repaired, PCs
  <1> QED BY <1>1, <1>2, <1>3, <1>4, <1>5, <1>6 DEF Dispatch

\* begin_install strips what it records as the original.
LEMMA InstallSingle ==
  ASSUME Inv, Single, Install
  PROVE  Single'
PROOF
  <1>1. CASE Begin
    <2>1. CASE Finish("recover")
      BY <2>1, StillSingle DEF Results
    <2>2. ASSUME NEW t \in Tx,
                 op' = [op EXCEPT !.pc = "stage", !.tx = t, !.prev = marker,
                                  !.seen = autorun],
                 UNCHANGED persistent
          PROVE  Single'
      <3>1. op'.prev = marker /\ op'.seen = autorun /\ op'.want = op.want
        BY <2>2, TextsTyped DEF Ops
      <3> QED BY <2>2, <3>1 DEF Single, OpClean, AtMostOneHook, persistent
    <2> QED BY <1>1, <2>1, <2>2 DEF Begin
  <1>2. CASE Stage \/ Copy
    BY <1>2, SetDirsSingle, StillSingle DEF Stage, Copy
  <1>3. CASE Snapshot \/ SnapshotUpgrade
    <2>1. Strip(autorun.text) \in Texts /\ Strip(autorun.text).hooks = 0
      BY TextsTyped DEF Strip, Texts
    <2>2. op.prev.origText \in Texts /\ op.prev.origText.hooks = 0
      BY TextsTyped DEF Single, OpClean, Clean
    <2>3. PICK w : op' = [op EXCEPT !.pc = "publish", !.at = 1, !.want = w]
                   /\ Clean(w)
      <3>1. CASE Snapshot
        BY <3>1, <2>1, PreparedClean DEF Snapshot
      <3>2. CASE SnapshotUpgrade
        BY <3>2, <2>2, PreparedClean DEF SnapshotUpgrade
      <3> QED BY <1>3, <3>1, <3>2
    <2>4. Clean(op'.want) /\ op'.seen = op.seen /\ op'.prev = op.prev
      BY <2>3, TextsTyped DEF Ops
    <2> QED BY <1>3, <2>4
            DEF Snapshot, SnapshotUpgrade, Single, OpClean, AtMostOneHook, persistent
  <1>4. CASE RefuseUpgrade
    BY <1>4, PlainSingle DEF RefuseUpgrade, KeepsLocals
  <1>5. CASE Publish
    <2>1. op.at \in 1..10 /\ PublishSeq(Upgrading)[op.at] \in Fields
      <3>1. op.at \in 1..10 /\ op.at <= IF Upgrading THEN 10 ELSE 8
        BY <1>5 DEF Publish, Inv, TypeOK, Wired, Ops
      <3>2. CASE Upgrading
        BY <3>1, <3>2, SeqFields
      <3>3. CASE ~Upgrading
        <4>1. op.at \in 1..8 /\ PublishSeq(Upgrading) = PublishSeq(FALSE)
          BY <3>1, <3>3 DEF PublishSeq
        <4> QED BY <3>1, <4>1, SeqFields
      <3> QED BY <3>2, <3>3
    <2> QED BY <1>5, <2>1, TextsTyped, PutEachSingle, StillSingle
            DEF Publish, PCs, Single, OpClean
  <1>6. CASE Swap
    <2>1. CASE op' = [op EXCEPT !.pc = "promote", !.did = @ \cup {"swap"}]
               /\ UNCHANGED <<autorun, marker>>
      BY <2>1, TextsTyped, PlainSingle DEF KeepsLocals, Ops
    <2> QED BY <1>6, <2>1, StillSingle DEF Swap, PCs
  <1>7. CASE Promote
    <2>1. CASE op' = [op EXCEPT !.pc = "check", !.did = @ \cup {"promote"}]
               /\ UNCHANGED <<autorun, marker>>
      BY <2>1, TextsTyped, PlainSingle DEF KeepsLocals, Ops
    <2> QED BY <1>7, <2>1, StillSingle DEF Promote, PCs
  <1>8. CASE Check
    <2>1. CASE Goto("hook") /\ UNCHANGED persistent
      BY <2>1, GotoLocals, PlainSingle DEF persistent
    <2> QED BY <1>8, <2>1, StillSingle DEF Check, PCs
  <1>9. CASE Hook
    <2>1. CASE autorun' = HookValue /\ marker' = marker
               /\ op' = [op EXCEPT !.pc = "commit", !.did = @ \cup {"hook"}]
      <3>1. KeepsLocals
        BY <2>1, TextsTyped DEF KeepsLocals, Ops
      <3> QED BY <2>1, <3>1, KeepsSingle
              DEF HookValue, Single, OpClean, Clean, AtMostOneHook
    <2> QED BY <1>9, <2>1, StillSingle DEF Hook, PCs
  <1>10. CASE Commit
    <2>1. Clean([marker EXCEPT !.state = "installed"])
      BY TextsTyped DEF Single, Clean, Markers
    <2> QED BY <1>10, <2>1, SetMarkerSingle, StillSingle DEF Commit, PCs
  <1>11. CASE Discard
    BY <1>11, TextsTyped, PlainSingle DEF Discard, KeepsLocals, Ops
  <1> QED BY <1>1, <1>2, <1>3, <1>4, <1>5, <1>6, <1>7, <1>8, <1>9, <1>10, <1>11
          DEF Install

LEMMA UndoSingle ==
  ASSUME Inv, Single, Undo
  PROVE  Single'
PROOF
  <1>1. CASE Unhook
    BY <1>1, StillSingle DEF Unhook, PCs, Results
  <1>2. CASE UnhookWrite
    BY <1>2, SetAutoRunSingle, StillSingle DEF UnhookWrite, Single, OpClean
  <1>3. CASE Undeploy \/ Unswap
    BY <1>3, SetDirsSingle, StillSingle DEF Undeploy, Unswap, PCs
  <1>4. CASE Unmark
    <2>1. CASE /\ op' = [op EXCEPT !.pc = "restore", !.at = 1,
                                   !.want = op.prev, !.then = "idle"]
               /\ UNCHANGED <<autorun, marker>>
      <3>1. op'.seen = op.seen /\ op'.prev = op.prev /\ op'.want = op.prev
        BY <2>1, TextsTyped DEF Ops
      <3> QED BY <2>1, <3>1 DEF Single, OpClean, AtMostOneHook
    <2>2. CASE marker' = NoMarker /\ op' = Idle /\ autorun' = autorun
      BY <2>2, PlainSingle DEF KeepsLocals
    <2> QED BY <1>4, <2>1, <2>2, StillSingle DEF Unmark
  <1> QED BY <1>1, <1>2, <1>3, <1>4 DEF Undo

LEMMA UninstallSingle ==
  ASSUME Inv, Single, Uninstall
  PROVE  Single'
PROOF
  <1>1. CASE Judge
    <2>1. CASE Still(UninstallDone)
      BY <2>1, StillSingle DEF UninstallDone, PCs
    <2>2. CASE Refuse("unknown") \/ Refuse("changed")
      BY <2>2, StillSingle DEF Results
    <2>3. CASE /\ UNCHANGED persistent
               /\ \/ op' = [op EXCEPT !.pc = "restoreUser", !.tx = marker.removal,
                           !.did = IF dirs[<<"removing", marker.removal>>] # Nothing
                                   THEN {"retire"} ELSE {}]
                  \/ op' = [op EXCEPT !.pc = "restoreUser"]
                  \/ \E t \in Tx : op' = [op EXCEPT !.pc = "markPath", !.tx = t]
      <3>1. KeepsLocals
        BY <2>3, TextsTyped DEF KeepsLocals, Ops
      <3> QED BY <2>3, <3>1, PlainSingle DEF persistent
    <2> QED BY <1>1, <2>1, <2>2, <2>3 DEF Judge
  <1>2. CASE MarkPath \/ MarkState
    <2>1. /\ Clean([marker EXCEPT !.removal = op.tx])
          /\ Clean([marker EXCEPT !.state = "removing"])
      BY TextsTyped DEF Single, Clean, Markers
    <2> QED BY <1>2, <2>1, SetMarkerSingle, StillSingle DEF MarkPath, MarkState
  <1>3. CASE Retire
    <2>1. CASE op' = [op EXCEPT !.pc = "restoreUser", !.did = {"retire"}]
               /\ UNCHANGED <<autorun, marker>>
      BY <2>1, TextsTyped, PlainSingle DEF KeepsLocals, Ops
    <2> QED BY <1>3, <2>1, StillSingle DEF Retire
  <1>4. CASE RestoreUser
    <2>1. Original.text.hooks <= 1
      BY TextsTyped DEF Original, Absent, Empty, Single, Clean
    <2> QED BY <1>4, <2>1, SetAutoRunSingle, StillSingle DEF RestoreUser, PCs
  <1>5. CASE Unretire
    BY <1>5, ReturnLocals, PlainSingle, StillSingle DEF Unretire
  <1>6. CASE Forget
    BY <1>6, GotoLocals, PlainSingle, StillSingle DEF Forget
  <1> QED BY <1>1, <1>2, <1>3, <1>4, <1>5, <1>6 DEF Uninstall

LEMMA HygieneSingle ==
  ASSUME Inv, Single, Hygiene
  PROVE  Single'
PROOF
  <1>1. CASE StripRead
    <2>1. CASE op' = [op EXCEPT !.pc = "stripWrite", !.seen = autorun]
               /\ UNCHANGED persistent
      <3>1. op'.seen = autorun /\ op'.prev = op.prev /\ op'.want = op.want
        BY <2>1, TextsTyped DEF Ops
      <3> QED BY <2>1, <3>1 DEF Single, OpClean, AtMostOneHook, persistent
    <2> QED BY <1>1, <2>1, StillSingle DEF StripRead, AfterStrip, PCs
  <1>2. CASE StripWrite
    <2> DEFINE ar == IF Strip(op.seen.text) = Empty THEN Absent
                     ELSE [op.seen EXCEPT !.text = Strip(op.seen.text)]
    <2>1. ar.text.hooks <= 1
      <3>1. Strip(op.seen.text).hooks = 0
        BY TextsTyped DEF Strip, Texts
      <3>2. [op.seen EXCEPT !.text = Strip(op.seen.text)].text = Strip(op.seen.text)
        BY TextsTyped DEF AutoRuns
      <3> QED BY <3>1, <3>2 DEF Absent, Empty
    <2> QED BY <1>2, <2>1, SetAutoRunSingle, StillSingle DEF StripWrite, AfterStrip, PCs
  <1>3. CASE Wipe
    BY <1>3, IdleClean, SetMarkerSingle DEF Wipe
  <1>4. CASE Bury
    BY <1>4, PlainSingle DEF Bury, KeepsLocals
  <1>5. CASE Prune
    BY <1>5, TextsTyped, PlainSingle DEF Prune, KeepsLocals, Ops, persistent
  <1>6. CASE Sweep
    BY <1>6, GotoLocals, PlainSingle DEF Sweep, KeepsLocals
  <1> QED BY <1>1, <1>2, <1>3, <1>4, <1>5, <1>6 DEF Hygiene

LEMMA EnvironmentSingle ==
  ASSUME Inv, Single, Crash \/ Edit \/ Product
  PROVE  Single'
PROOF
  <1>1. CASE Crash
    BY <1>1, PlainSingle DEF Crash, KeepsLocals, persistent
  <1>2. CASE Edit
    <2>1. autorun' \in AutoRuns /\ autorun'.text.hooks <= autorun.text.hooks
      BY <1>2 DEF Edit
    <2>2. autorun'.text.hooks \in Nat /\ autorun.text.hooks \in Nat
      BY <2>1, TextsTyped DEF AutoRuns, Texts
    <2>3. AtMostOneHook'
      BY <2>1, <2>2 DEF Single, AtMostOneHook
    <2> QED BY <1>2, <2>3 DEF Edit, Single
  <1>3. CASE Product
    BY <1>3 DEF Product, Single, AtMostOneHook, persistent
  <1> QED BY <1>1, <1>2, <1>3

LEMMA InitSingle == Init => Single
PROOF
  <1> SUFFICES ASSUME Init PROVE Single
    OBVIOUS
  <1>1. AtMostOneHook
    BY DEF Init, AtMostOneHook
  <1> QED BY <1>1, IdleClean DEF Init, Single

LEMMA NextSingle == Inv /\ Single /\ [Next]_vars => Single'
PROOF
  <1> SUFFICES ASSUME Inv, Single, [Next]_vars PROVE Single'
    OBVIOUS
  <1>1. CASE UNCHANGED vars
    BY <1>1 DEF vars, persistent, Single, AtMostOneHook
  <1> QED BY <1>1, StartSingle, RecoverySingle, DispatchSingle, InstallSingle,
             UndoSingle, UninstallSingle, HygieneSingle, EnvironmentSingle DEF Next

\* AutoRun never calls the payload twice, whatever the texts of other programs,
\* the number of transactions, crashes, faults and edits: begin_install strips
\* before it records, and recovery, undo and uninstall write back only what was
\* recorded (adapters/cmd.rs, adapters/state.rs).
THEOREM OneHook == Spec => []AtMostOneHook
PROOF
  <1>1. Init => Inv /\ Single
    BY InitInv, InitSingle
  <1>2. Inv /\ Single /\ [Next]_vars => (Inv /\ Single)'
    BY NextInv, NextSingle
  <1>3. Spec => [](Inv /\ Single)
    BY <1>1, <1>2, PTL DEF Spec
  <1> QED BY <1>3, PTL DEF Single

-----------------------------------------------------------------------------
(***************************************************************************)
(* What the marker says of the payload.  Recorded is MarkerTruthful with   *)
(* the rollback it means; it is not inductive.  The other parts of Truth   *)
(* say, for each place of a transaction, which values of the marker are    *)
(* already written, where the old and the new payload stand, and what an   *)
(* undo still has to revert.                                               *)
(***************************************************************************)

RollbackOf == <<"rollback", op.tx>>
\* What the marker says of the payload, at rest.
Recorded ==
  /\ ~marker.present => marker = NoMarker
  /\ marker.state = "installed" =>
       dirs[Root] = marker.version /\ marker.version \in Builds
  /\ Interrupted =>
       /\ marker.upVersion \in Builds
       /\ marker.upVersion = IF HasRollback THEN dirs[RollbackDir] ELSE dirs[Root]

\* The places of a command that comes from a finished recovery.
AtRest ==
  \/ op.pc \in {"dispatch", "judge", "begin", "stage", "copy", "snapshot", "markPath",
                "markState", "retire", "restoreUser", "unretire", "forget"}
  \/ op.pc = "pruneTree" /\ op.job = "enable"

\* The places where nothing is to be undone yet.
Unbegun ==
  \/ op.pc \in {"dispatch", "judge", "begin", "stage", "copy", "snapshot", "publish", "swap"}
  \/ op.pc = "pruneTree" /\ op.job = "enable"
  \/ op.pc \in {"recover", "restore", "cleanup"} /\ op.then = "dispatch"

InstallPCs == {"begin", "stage", "copy", "snapshot", "publish", "swap", "promote",
               "check", "hook", "commit"}
UndoPCs == {"unhook", "unhookWrite", "undeploy", "unswap", "unmark"}

JobFits ==
  /\ op.pc # "idle" /\ op.job # "orphan" => op.build \in Builds
  /\ op.pc \in InstallPCs => op.job = "enable"
  /\ op.pc \in {"strip", "stripWrite"} => op.job \in {"repair", "orphan"}
  /\ op.pc = "repaired" => op.job = "repair"
  /\ op.pc = "bury" => ~marker.present
  /\ AtRest => ~Pending(marker)
  /\ Unbegun => op.did = {}

\* The marker and the payload an upgrade replaces.
PrevFits ==
  op.pc \in (InstallPCs \ {"begin"}) \cup UndoPCs /\ Upgrading =>
    op.prev.state = "installed" /\ op.prev.version \in Builds

\* From the staging to the commit: what is published, and where the payloads are.
StageFits ==
  /\ op.pc \in {"stage", "copy", "snapshot"} => marker = op.prev
  /\ op.pc \in {"stage", "copy", "snapshot"} /\ marker.present => marker.state = "installed"
  /\ op.pc \in {"stage", "copy", "snapshot", "publish", "swap"} =>
       dirs[RollbackOf] = Nothing
  /\ op.pc \in {"snapshot", "publish", "swap", "promote"} => dirs[StagingDir] = op.build
  /\ op.pc \in {"promote", "check", "hook", "commit"} /\ Upgrading =>
       dirs[RollbackOf] # Nothing /\ "swap" \in op.did
  /\ op.pc \in {"check", "hook", "commit"} => dirs[Root] = op.build

PublishFits ==
  op.pc = "publish" =>
    /\ op.want.state = "prepared" /\ op.want.version = op.build
    /\ op.want.upVersion = op.prev.version
    /\ Upgrading => /\ dirs[Root] = op.prev.version
                    /\ op.at <= 3 => ~Pending(marker)
                    /\ op.at >= 4 => marker.upVersion = op.prev.version
                    /\ marker.state = IF op.at <= 5 THEN "installed" ELSE "prepared"
                    /\ op.at >= 7 => marker.version = op.build
    /\ ~Upgrading => /\ ~Pending(marker)
                     /\ marker.state \in {"", "prepared"}
                     /\ op.at >= 4 => marker.state = "prepared"
                     /\ op.at >= 5 => marker.version = op.build

CommitFits ==
  op.pc \in {"swap", "promote", "check", "hook", "commit"} =>
    /\ marker.present /\ marker.state = "prepared" /\ marker.version = op.build
    /\ marker.rollback = op.tx
    /\ IF Upgrading THEN marker.upVersion = op.prev.version ELSE ~Pending(marker)

UndoFits ==
  op.pc \in UndoPCs =>
    IF Upgrading
    THEN /\ "promote" \in op.did => "swap" \in op.did
         /\ IF "swap" \in op.did /\ op.pc # "unmark"
            THEN /\ Interrupted /\ marker.rollback = op.tx
                 /\ marker.upVersion = op.prev.version /\ dirs[RollbackOf] # Nothing
            ELSE dirs[Root] = op.prev.version
    ELSE ~Pending(marker) /\ marker.state # "installed"

RestoreFits ==
  /\ op.pc = "restore" =>
       /\ op.want.state = "installed" /\ op.want.version = dirs[Root]
       /\ op.want.version \in Builds
       /\ op.at >= 2 => marker.version = op.want.version
  /\ op.pc \in {"discard", "cleanup"} => marker.state = "installed"

RemovalFits ==
  /\ op.pc \in {"markPath", "markState"} => marker.present
  /\ op.pc \in {"retire", "unretire"} => marker.state = "removing"
  /\ op.pc = "restoreUser" /\ "retire" \in op.did => marker.state = "removing"

Truth == /\ Recorded /\ JobFits /\ PrevFits /\ StageFits /\ PublishFits
         /\ CommitFits /\ UndoFits /\ RestoreFits /\ RemovalFits
-----------------------------------------------------------------------------
LEMMA RecordedSame ==
  ASSUME Recorded, marker' = marker, dirs'[Root] = dirs[Root],
         Pending(marker) => dirs'[RollbackDir] = dirs[RollbackDir]
  PROVE  Recorded'
<1>1. RollbackDir' = RollbackDir
  BY DEF RollbackDir
<1>2. CASE Interrupted
  <2>1. Pending(marker)
    BY <1>2 DEF Interrupted
  <2> QED
    BY <1>1, <2>1 DEF Recorded, Interrupted, HasRollback
<1>3. CASE ~Interrupted
  <2>1. ~Interrupted'
    BY <1>3 DEF Interrupted
  <2> QED
    BY <2>1 DEF Recorded
<1> QED
  BY <1>2, <1>3

\* Nothing is said of places outside the transaction.
Outer == PCs \ (InstallPCs \cup UndoPCs \cup {"discard", "restore", "cleanup", "markPath",
                "markState", "retire", "restoreUser", "unretire"})

LEMMA OuterFits ==
  ASSUME op'.pc \in Outer
  PROVE  /\ PrevFits' /\ StageFits' /\ PublishFits' /\ CommitFits' /\ UndoFits'
         /\ RestoreFits' /\ RemovalFits'
BY DEF Outer, InstallPCs, UndoPCs, PrevFits, StageFits, PublishFits, CommitFits, UndoFits,
   RestoreFits, RemovalFits

LEMMA InstallFitsOnly ==
  ASSUME op'.pc \in InstallPCs
  PROVE  /\ UndoFits' /\ RestoreFits' /\ RemovalFits'
         /\ op'.pc = "begin" => PrevFits' /\ StageFits' /\ PublishFits' /\ CommitFits'
         /\ op'.pc \in {"stage", "copy", "snapshot"} => PublishFits' /\ CommitFits'
         /\ op'.pc = "publish" => CommitFits'
         /\ op'.pc \notin {"begin", "stage", "copy", "snapshot", "publish"} => PublishFits'
BY DEF InstallPCs, UndoPCs, PrevFits, StageFits, PublishFits, CommitFits, UndoFits,
   RestoreFits, RemovalFits

LEMMA UndoFitsOnly ==
  ASSUME op'.pc \in UndoPCs
  PROVE  /\ StageFits' /\ PublishFits' /\ CommitFits' /\ RestoreFits' /\ RemovalFits'
BY DEF InstallPCs, UndoPCs, PrevFits, StageFits, PublishFits, CommitFits, UndoFits,
   RestoreFits, RemovalFits

LEMMA RestFitsOnly ==
  ASSUME op'.pc \in {"discard", "restore", "cleanup", "markPath", "markState", "retire",
                      "restoreUser", "unretire"}
  PROVE  /\ PrevFits' /\ StageFits' /\ PublishFits' /\ CommitFits' /\ UndoFits'
         /\ op'.pc \in {"discard", "restore", "cleanup"} => RemovalFits'
         /\ op'.pc \in {"markPath", "markState", "retire", "restoreUser", "unretire"} =>
              RestoreFits'
BY DEF InstallPCs, UndoPCs, PrevFits, StageFits, PublishFits, CommitFits, UndoFits,
   RestoreFits, RemovalFits

\* Places and locals.
LEMMA PlacesTyped ==
  ASSUME Inv
  PROVE  /\ op \in Ops /\ marker \in Markers /\ dirs \in [DirNames -> Payloads]
         /\ op.pc \in PCs /\ op.then \in PCs /\ op.at \in 1..10 /\ op.job \in Jobs
         /\ op.prev \in Markers /\ op.want \in Markers
BY DEF Inv, TypeOK, Ops

LEMMA EndTruth ==
  ASSUME op' = Idle, Recorded'
  PROVE  Truth'
<1>1. op'.pc = "idle"
  BY DEF Idle
<1>2. op'.pc \in Outer
  BY <1>1 DEF Outer, PCs, InstallPCs, UndoPCs
<1>3. JobFits'
  BY <1>1 DEF JobFits, AtRest, Unbegun, InstallPCs
<1> QED
  BY <1>2, <1>3, OuterFits DEF Truth

\* A jump out of the transaction, or inside what leads to and from it.
LEMMA JumpJob ==
  ASSUME Inv, Truth, op.pc # "idle", NEW p \in PCs, op'.pc = p,
         op'.job = op.job, op'.build = op.build,
         AtRest' => ~Pending(marker'), Unbegun' => op'.did = {},
         p \in InstallPCs => op.job = "enable",
         p \in {"strip", "stripWrite"} => op.job \in {"repair", "orphan"},
         p = "repaired" => op.job = "repair", p = "bury" => ~marker'.present
  PROVE  JobFits'
BY DEF JobFits, Truth

LEMMA JumpOuter ==
  ASSUME Inv, Truth, op.pc # "idle", NEW p \in Outer, Goto(p), Recorded',
         AtRest' => ~Pending(marker'), Unbegun' => op.did = {},
         p \in {"strip", "stripWrite"} => op.job \in {"repair", "orphan"},
         p = "repaired" => op.job = "repair", p = "bury" => ~marker'.present
  PROVE  Truth'
<1>1. p \in PCs /\ p \notin InstallPCs
  BY DEF Outer
<1>2. op'.pc = p /\ op'.job = op.job /\ op'.build = op.build /\ op'.did = op.did
  BY <1>1, GotoType, PlacesTyped
<1>3. JobFits'
  BY <1>1, <1>2, JumpJob
<1> QED
  BY <1>2, <1>3, OuterFits DEF Truth

LEMMA ReturnTruth ==
  ASSUME Inv, Truth, op.pc # "idle", NEW r, Return(r), Recorded'
  PROVE  Truth'
<1>1. CASE op'= Idle
  BY <1>1, EndTruth
<1>2. CASE op.job = "repair" /\ Goto("strip")
  <2>1. op'.pc = "strip" /\ "strip" \in Outer
    BY <1>2, GotoType, PlacesTyped DEF PCs, Outer, InstallPCs, UndoPCs
  <2>2. ~AtRest' /\ ~Unbegun'
    BY <2>1 DEF AtRest, Unbegun
  <2> QED
    BY <1>2, <2>1, <2>2, JumpOuter
<1>3. CASE op.job = "orphan" /\ Goto("prune")
  <2>1. op'.pc = "prune" /\ "prune" \in Outer
    BY <1>3, GotoType, PlacesTyped DEF PCs, Outer, InstallPCs, UndoPCs
  <2>2. ~AtRest' /\ ~Unbegun'
    BY <2>1 DEF AtRest, Unbegun
  <2> QED
    BY <1>3, <2>1, <2>2, JumpOuter
<1> QED
  BY <1>1, <1>2, <1>3 DEF Return

LEMMA Unwritten ==
  ASSUME Truth, UNCHANGED <<marker, dirs>>
  PROVE  Recorded'
BY RecordedSame DEF Truth

LEMMA StoppedTruth ==
  ASSUME Inv, Truth, op.pc # "idle",
         \/ FaultEnds \/ RefuseFault
         \/ \E r \in Results : Finish(r) \/ Refuse(r)
  PROVE  Truth'
<1>1. UNCHANGED <<marker, dirs>>
  BY DEF FaultEnds, RefuseFault, Finish, Refuse, persistent
<1>2. Recorded'
  BY <1>1, Unwritten
<1>3. CASE op' = Idle
  BY <1>2, <1>3, EndTruth
<1>4. CASE \E r : Return(r)
  BY <1>2, <1>4, ReturnTruth
<1> QED
  BY <1>3, <1>4 DEF FaultEnds, RefuseFault, Finish, Refuse

\* A step that only moves on, to a place that promises no more.
LEMMA MovesOn ==
  ASSUME Inv, Truth, op.pc # "idle", NEW p \in Outer, Still(p) \/ Fault(p),
         p \in {"strip", "stripWrite"} => op.job \in {"repair", "orphan"},
         p = "repaired" => op.job = "repair", p = "bury" => ~marker.present,
         p \in {"dispatch", "judge"} \/ (p = "pruneTree" /\ op.job = "enable") =>
           ~Pending(marker) /\ op.did = {},
         p = "forget" => ~Pending(marker),
         p = "recover" => op.then # "dispatch"
  PROVE  Truth'
<1>1. UNCHANGED <<marker, dirs>> /\ Goto(p)
  BY DEF Still, Fault, persistent
<1>2. p \in PCs \ InstallPCs /\ p \notin {"retire", "restoreUser", "unretire", "restore", "cleanup"}
  BY DEF Outer
<1>3. op'.pc = p /\ op'.job = op.job /\ op'.then = op.then
  BY <1>1, <1>2, GotoType, PlacesTyped
<1>4. AtRest' => ~Pending(marker')
  <2>1. Pending(marker') <=> Pending(marker)
    BY <1>1
  <2> QED
    BY <1>2, <1>3, <2>1 DEF AtRest, InstallPCs, UndoPCs, Outer
<1>5. Unbegun' => op.did = {}
  BY <1>2, <1>3 DEF Unbegun, InstallPCs
<1> QED
  BY <1>1, <1>4, <1>5, JumpOuter, Unwritten

-----------------------------------------------------------------------------
LEMMA StartTruth ==
  ASSUME Inv, Truth, NEW job \in Jobs, Start(job)
  PROVE  Truth'
<1> DEFINE o == [Idle EXCEPT !.job = job, !.pc = "recover", !.then = "dispatch", !.build = build]
<1>1. /\ o.pc = "recover" /\ o.job = job /\ o.build = build /\ o.did = {}
  BY DEF Idle
<1>2. op' = o
  BY DEF Start
<1>3. op'.pc = "recover" /\ op'.job = job /\ op'.build = build /\ op'.did = {}
  BY <1>1, <1>2
<1>4. UNCHANGED <<marker, dirs>> /\ (job # "orphan" => build > 0)
  BY DEF Start, persistent
<1>5. job # "orphan" => build \in Builds
  BY <1>4, CmdAssumption DEF Inv, TypeOK, Builds
<1>6. JobFits'
  BY <1>3, <1>5 DEF JobFits, AtRest, InstallPCs
<1>7. "recover" \in Outer
  BY DEF Outer, PCs, InstallPCs, UndoPCs
<1> QED
  BY <1>3, <1>4, <1>6, <1>7, OuterFits, Unwritten DEF Truth

LEMMA RecoverNothingTruth ==
  ASSUME Inv, Truth, RecoverNothing
  PROVE  Truth'
<1>1. ~Pending(marker)
  <2>1. ~Pending(NoMarker)
    BY DEF NoMarker, Pending
  <2> QED
    BY <2>1 DEF RecoverNothing, Truth, Recorded
<1>2. op.then \in {"idle", "dispatch", "prune", "sweep"}
  BY DEF Inv, Wired
<1>3. op.pc # "idle" /\ Still(op.then) /\ (op.then = "dispatch" => op.did = {})
  BY DEF RecoverNothing, Truth, JobFits, Unbegun
<1>4. op.then \in Outer
  BY <1>2 DEF Outer, PCs, InstallPCs, UndoPCs
<1> QED
  BY <1>1, <1>2, <1>3, <1>4, MovesOn

LEMMA RecoverCommittedTruth ==
  ASSUME Inv, Truth, RecoverCommitted
  PROVE  Truth'
<1>1. /\ op.pc = "recover" /\ marker.state = "installed" /\ UNCHANGED <<marker, dirs>>
      /\ Goto("cleanup")
  BY DEF RecoverCommitted, Still, persistent
<1>2. /\ op'.pc = "cleanup" /\ op'.job = op.job /\ op'.build = op.build
      /\ op'.did = op.did /\ op'.then = op.then
  BY <1>1, GotoType, PlacesTyped DEF PCs
<1>3. Unbegun' => op'.did = {}
  BY <1>1, <1>2 DEF Unbegun, Truth, JobFits
<1>4. JobFits'
  BY <1>1, <1>2, <1>3, JumpJob DEF AtRest, InstallPCs, PCs
<1>5. RestoreFits'
  BY <1>1, <1>2 DEF RestoreFits
<1> QED
  BY <1>1, <1>2, <1>4, <1>5, RestFitsOnly, Unwritten DEF Truth

\* A rename and a removal change the directories they name.
LEMMA MoveValue ==
  ASSUME Inv, NEW from \in DirNames, NEW to \in DirNames, from # to
  PROVE  /\ Move(from, to)[to] = dirs[from] /\ Move(from, to)[from] = Nothing
         /\ \A d \in DirNames \ {from, to} : Move(from, to)[d] = dirs[d]
         /\ \A d \in DirNames \ {from} : Remove(from)[d] = dirs[d]
         /\ Remove(from)[from] = IF dirs[from] = Torn THEN Nothing ELSE Torn
BY PlacesTyped DEF Move, Remove

LEMMA DropValue ==
  ASSUME NEW D, Drop(D), NEW d \in DirNames, d \notin D
  PROVE  dirs'[d] = dirs[d]
BY DEF Drop

LEMMA RecoverPayloadTruth ==
  ASSUME Inv, Truth, RecoverPayload
  PROVE  Truth'
<1>1. CASE FaultEnds
  BY <1>1, StoppedTruth DEF RecoverPayload
<1>2. CASE ~FaultEnds
  <2>1. /\ op.pc = "recover" /\ Interrupted /\ HasRollback /\ marker' = marker
        /\ Goto("recover") /\ Pending(marker)
    BY <1>2 DEF RecoverPayload, SetDirs, Interrupted
  <2>2. /\ RollbackDir \in DirNames /\ RollbackDir # Root /\ Root \in DirNames
        /\ RollbackDir' = RollbackDir
    BY <2>1, TxDirs, Constants DEF Inv, Wired, RollbackDir
  <2>3. /\ marker.upVersion \in Builds /\ marker.upVersion = dirs[RollbackDir]
        /\ marker.state # "installed" /\ marker.present
    BY <2>1 DEF Truth, Recorded, Interrupted
  <2>4. \/ dirs'[RollbackDir] = dirs[RollbackDir]
        \/ dirs'[RollbackDir] = Nothing /\ dirs'[Root] = dirs[RollbackDir]
    <3>1. dirs' = Remove(Root) \/ dirs' = Move(RollbackDir, Root)
      BY <1>2 DEF RecoverPayload, SetDirs
    <3> QED
      BY <2>2, <3>1, MoveValue
  <2>5. dirs[RollbackDir] # Nothing
    BY <2>1 DEF HasRollback
  <2>6. Recorded'
    BY <2>1, <2>2, <2>3, <2>4, <2>5 DEF Recorded, HasRollback
  <2>7. op'.pc = "recover" /\ op'.then = op.then /\ "recover" \in Outer
    BY <2>1, GotoType, PlacesTyped DEF PCs, Outer, InstallPCs, UndoPCs
  <2>8. ~AtRest' /\ (Unbegun' => op.did = {})
    BY <2>1, <2>7 DEF AtRest, Unbegun, Truth, JobFits
  <2> QED
    BY <2>1, <2>6, <2>7, <2>8, JumpOuter
<1> QED
  BY <1>1, <1>2

\* An installed marker, with the payload it names.
LEMMA RecordedInstalled ==
  ASSUME marker'.present, marker'.state = "installed", marker'.version \in Builds,
         dirs'[Root] = marker'.version
  PROVE  Recorded'
BY DEF Recorded, Interrupted

\* A marker that claims neither an installed payload nor an upgrade.
LEMMA RecordedNothing ==
  ASSUME marker' = NoMarker \/ (marker'.present /\ marker'.state # "installed" /\ ~Pending(marker'))
  PROVE  Recorded'
<1>1. NoMarker.state = "" /\ ~NoMarker.present
  BY DEF NoMarker
<1> QED
  BY <1>1 DEF Recorded, Interrupted

LEMMA RecoverMarkerTruth ==
  ASSUME Inv, Truth, RecoverMarker
  PROVE  Truth'
<1> DEFINE m == [marker EXCEPT !.version = marker.upVersion, !.state = "installed"]
<1>1. /\ op.pc = "recover" /\ Interrupted /\ ~HasRollback /\ marker' = marker
      /\ Drop({<<"staging", marker.staging>>}) /\ Pending(marker)
      /\ op' = [op EXCEPT !.pc = "restore", !.at = 1, !.want = m]
  BY DEF RecoverMarker, Interrupted
<1>2. /\ op'.pc = "restore" /\ op'.at = 1 /\ op'.want = m /\ op'.job = op.job
      /\ op'.build = op.build /\ op'.did = op.did /\ op'.then = op.then
  BY <1>1, PlacesTyped DEF Ops
<1>3. m.state = "installed" /\ m.version = marker.upVersion
  BY PlacesTyped DEF Markers
<1>4. marker.upVersion \in Builds /\ marker.upVersion = dirs[Root]
  BY <1>1 DEF Truth, Recorded
<1>5. dirs'[Root] = dirs[Root] /\ dirs'[RollbackDir] = dirs[RollbackDir]
  <2>1. RollbackDir \in DirNames /\ Root \in DirNames
    BY <1>1, TxDirs, Constants DEF Inv, Wired, RollbackDir
  <2>2. RollbackDir # <<"staging", marker.staging>> /\ Root # <<"staging", marker.staging>>
    BY DEF RollbackDir, Root
  <2> QED
    BY <1>1, <2>1, <2>2, DropValue
<1>6. Recorded'
  BY <1>1, <1>5, RecordedSame DEF Truth
<1>7. RestoreFits'
  BY <1>2, <1>3, <1>4, <1>5 DEF RestoreFits
<1>8. Unbegun' => op'.did = {}
  BY <1>1, <1>2 DEF Unbegun, Truth, JobFits
<1>9. JobFits'
  BY <1>1, <1>2, <1>8, JumpJob DEF AtRest, InstallPCs, PCs
<1> QED
  BY <1>2, <1>6, <1>7, <1>9, RestFitsOnly DEF Truth

\* One value of a list, or the last and on to p.
LEMMA PutEachMoves ==
  ASSUME Inv, NEW fields, NEW m, NEW p \in PCs, PutEach(fields, m, p),
         op.at # Len(fields) => op.at + 1 \in 1..10
  PROVE  /\ marker' = Put(fields[op.at], m) /\ dirs' = dirs
         /\ op'.job = op.job /\ op'.build = op.build /\ op'.did = op.did
         /\ op'.then = op.then /\ op'.tx = op.tx /\ op'.prev = op.prev
         /\ op'.want = op.want
         /\ IF op.at = Len(fields) THEN op'.pc = p /\ op'.at = 1
                                   ELSE op'.pc = op.pc /\ op'.at = op.at + 1
<1>1. CASE op.at = Len(fields)
  <2>1. op' = [op EXCEPT !.pc = p, !.at = 1]
    BY <1>1 DEF PutEach
  <2> QED
    BY <1>1, <2>1, PlacesTyped DEF PutEach, Ops
<1>2. CASE op.at # Len(fields)
  <2>1. op' = [op EXCEPT !.at = op.at + 1]
    BY <1>2 DEF PutEach
  <2> QED
    BY <1>2, <2>1, PlacesTyped DEF PutEach, Ops
<1> QED
  BY <1>1, <1>2

LEMMA RestoreTruth ==
  ASSUME Inv, Truth, Restore
  PROVE  Truth'
<1>1. CASE FaultEnds
  BY <1>1, StoppedTruth DEF Restore
<1>2. CASE PutEach(RestoreSeq, op.want, "cleanup")
  <2>1. op.pc = "restore" /\ op.at \in 1..6
    BY DEF Restore, Inv, TypeOK, Wired, Ops
  <2>2. /\ marker' = Put(RestoreSeq[op.at], op.want) /\ dirs' = dirs
        /\ op'.job = op.job /\ op'.build = op.build /\ op'.did = op.did
        /\ op'.then = op.then /\ op'.want = op.want
        /\ IF op.at = 6 THEN op'.pc = "cleanup" /\ op'.at = 1
                        ELSE op'.pc = "restore" /\ op'.at = op.at + 1
    <3>1. /\ Len(RestoreSeq) = 6 /\ "cleanup" \in PCs
          /\ op.at # 6 => op.at + 1 \in 1..10
      BY <2>1, SeqFields DEF PCs
    <3> QED
      BY <1>2, <2>1, <3>1, PutEachMoves
  <2>3. /\ op.want.state = "installed" /\ op.want.version = dirs[Root]
        /\ op.want.version \in Builds /\ (op.at >= 2 => marker.version = op.want.version)
        /\ op.want \in Markers /\ marker \in Markers
    BY <2>1, PlacesTyped DEF Truth, RestoreFits
  <2>4. /\ op.at = 1 => RestoreSeq[op.at] = "version"
        /\ op.at \in 2..5 => RestoreSeq[op.at] \in {"origKind", "origText", "instText", "origPresent"}
        /\ op.at = 6 => RestoreSeq[op.at] = "state"
        /\ RestoreSeq[op.at] \in Fields
    BY <2>1 DEF RestoreSeq, Fields
  <2>5. /\ marker'.present
        /\ marker'.version = op.want.version
        /\ marker'.state = IF op.at = 6 THEN "installed" ELSE marker.state
        /\ marker'.rollback = marker.rollback /\ marker'.upVersion = marker.upVersion
        /\ marker'.upPending = marker.upPending
    <3> DEFINE f == RestoreSeq[op.at]
    <3>1. /\ f # "rollback" /\ f # "upVersion" /\ f # "upPending"
          /\ f = "version" <=> op.at = 1
          /\ f = "state" <=> op.at = 6
      BY <2>1, <2>4
    <3>2. f \in Fields
      BY <2>4
    <3> HIDE DEF f
    <3>3. /\ Put(f, op.want).state = IF f = "state" THEN op.want.state ELSE marker.state
          /\ Put(f, op.want).version = IF f = "version" THEN op.want.version ELSE marker.version
          /\ Put(f, op.want).rollback = marker.rollback
          /\ Put(f, op.want).upVersion = marker.upVersion
          /\ Put(f, op.want).upPending = marker.upPending
          /\ Put(f, op.want).present
      BY <2>3, <3>1, <3>2, PutValue, ZenonT(30)
    <3>4. marker' = Put(f, op.want)
      BY <2>2 DEF f
    <3> QED
      BY <2>1, <2>3, <3>1, <3>3, <3>4
  <2>6. Recorded'
    <3>1. CASE marker'.state = "installed"
      BY <2>2, <2>3, <2>5, <3>1, RecordedInstalled
    <3>2. CASE marker'.state # "installed"
      <4>1. RollbackDir' = RollbackDir /\ (Pending(marker') <=> Pending(marker))
        BY <2>5 DEF RollbackDir, Pending
      <4>2. ~marker.present => ~Pending(marker)
        <5>1. ~Pending(NoMarker)
          BY DEF NoMarker, Pending
        <5> QED
          BY <5>1 DEF Truth, Recorded
      <4>3. marker'.state = marker.state
        BY <2>3, <2>5, <3>2
      <4>4. Interrupted' => Interrupted
        BY <4>1, <4>2, <4>3, <3>2 DEF Interrupted
      <4>5. Interrupted => /\ marker.upVersion \in Builds
                           /\ marker.upVersion = IF HasRollback THEN dirs[RollbackDir]
                                                                ELSE dirs[Root]
        BY DEF Truth, Recorded
      <4>6. HasRollback' <=> HasRollback
        BY <4>1, <2>2 DEF HasRollback
      <4> QED
        BY <2>2, <2>5, <3>2, <4>1, <4>4, <4>5, <4>6 DEF Recorded
    <3> QED
      BY <3>1, <3>2
  <2>7. RestoreFits'
    BY <2>1, <2>2, <2>3, <2>5 DEF RestoreFits
  <2>8. op'.pc \in {"restore", "cleanup"}
    BY <2>2
  <2>9. Unbegun' => op'.did = {}
    BY <2>1, <2>2, <2>8 DEF Unbegun, Truth, JobFits
  <2>10. JobFits'
    BY <2>1, <2>2, <2>8, <2>9, JumpJob DEF AtRest, InstallPCs, PCs
  <2> QED
    BY <2>6, <2>7, <2>8, <2>10, RestFitsOnly DEF Truth
<1> QED
  BY <1>1, <1>2 DEF Restore

LEMMA CleanupTruth ==
  ASSUME Inv, Truth, Cleanup
  PROVE  Truth'
<1>1. /\ op.pc = "cleanup" /\ op.at \in 1..4 /\ marker.state = "installed"
      /\ marker \in Markers /\ NoMarker \in Markers /\ Len(CleanupSeq) = 4
      /\ dirs[Root] = marker.version /\ marker.version \in Builds
  BY SeqFields, PlacesTyped, Constants DEF Cleanup, Truth, RestoreFits, Recorded, Inv, Wired
<1>2. /\ CleanupSeq[op.at] \in Fields \ {"state", "version"}
      /\ op.at = 4 => CleanupSeq[op.at] = "staging"
  BY <1>1 DEF CleanupSeq, Fields
<1> DEFINE m == Put(CleanupSeq[op.at], NoMarker)
<1>3. /\ m.present /\ m.state = "installed" /\ m.version = marker.version
      /\ op.at = 4 => m.upVersion = marker.upVersion /\ m.upPending = marker.upPending
  <2> DEFINE f == CleanupSeq[op.at]
  <2>1. f # "state" /\ f # "version" /\ f \in Fields
        /\ (op.at = 4 => f # "upVersion" /\ f # "upPending")
    BY <1>2
  <2> HIDE DEF f
  <2>2. /\ Put(f, NoMarker).present /\ Put(f, NoMarker).state = marker.state
        /\ Put(f, NoMarker).version = marker.version
        /\ f # "upVersion" => Put(f, NoMarker).upVersion = marker.upVersion
        /\ f # "upPending" => Put(f, NoMarker).upPending = marker.upPending
    BY <1>1, <2>1, PutValue, ZenonT(30)
  <2>3. m = Put(f, NoMarker)
    BY DEF f
  <2> QED
    BY <1>1, <2>1, <2>2, <2>3
<1>4. marker' = m /\ dirs' = dirs => Recorded'
  BY <1>1, <1>3, RecordedInstalled
<1>5. op.at = 4 => ~Pending(m)
  BY <1>1, <1>3 DEF Inv, Wired, Pending
<1>6. op.then \in Outer \cap {"idle", "dispatch", "prune", "sweep"}
  BY DEF Inv, Wired, Outer, PCs, InstallPCs, UndoPCs
<1> HIDE DEF m
<1>7. CASE op.at < 4 /\ PutEach(CleanupSeq, NoMarker, "cleanup")
  <2>1. /\ marker' = m /\ dirs' = dirs
        /\ op'.job = op.job /\ op'.build = op.build /\ op'.did = op.did
        /\ op'.then = op.then /\ op'.pc = "cleanup"
    BY <1>1, <1>7, PutEachMoves DEF m, PCs
  <2>2. Unbegun' => op'.did = {}
    BY <1>1, <2>1 DEF Unbegun, Truth, JobFits
  <2>3. JobFits'
    BY <1>1, <2>1, <2>2, JumpJob DEF AtRest, InstallPCs, PCs
  <2>4. RestoreFits'
    BY <1>3, <2>1 DEF RestoreFits
  <2> QED
    BY <1>4, <2>1, <2>3, <2>4, RestFitsOnly DEF Truth
<1>8. CASE op.at = 4 /\ PutEach(CleanupSeq, NoMarker, op.then)
  <2>1. /\ marker' = m /\ dirs' = dirs
        /\ op'.job = op.job /\ op'.build = op.build /\ op'.did = op.did
        /\ op'.then = op.then /\ op'.pc = op.then
    BY <1>1, <1>6, <1>8, PutEachMoves DEF m, PCs
  <2>2. Unbegun' => op'.did = {}
    BY <1>1, <1>6, <2>1 DEF Unbegun, Truth, JobFits
  <2>3. ~Pending(marker')
    BY <1>5, <1>8, <2>1
  <2>4. JobFits'
    BY <1>1, <1>6, <2>1, <2>2, <2>3, JumpJob DEF AtRest, InstallPCs, PCs
  <2> QED
    BY <1>4, <1>6, <2>1, <2>4, OuterFits DEF Truth
<1>9. CASE marker' = m /\ dirs' = dirs /\ op' = Idle
  BY <1>4, <1>9, EndTruth
<1>10. CASE Fault("prune") \/ FaultEnds
  <2>1. "prune" \in Outer
    BY DEF Outer, PCs, InstallPCs, UndoPCs
  <2> QED
    BY <1>1, <1>10, <2>1, MovesOn, StoppedTruth
<1> QED
  BY <1>1, <1>7, <1>8, <1>9, <1>10 DEF Cleanup, m

-----------------------------------------------------------------------------
LEMMA DispatchTruth ==
  ASSUME Inv, Truth, Dispatch
  PROVE  Truth'
<1>1. {"prune", "pruneTree", "judge", "repaired", "strip"} \subseteq Outer
  BY DEF Outer, PCs, InstallPCs, UndoPCs
<1>2. CASE DispatchEnable \/ DispatchDisable \/ DispatchRepair \/ DispatchOrphan
  <2>1. op.pc = "dispatch"
    BY <1>2 DEF DispatchEnable, DispatchDisable, DispatchRepair, DispatchOrphan
  <2>2. ~Pending(marker) /\ op.did = {}
    BY <2>1 DEF Truth, JobFits, AtRest, Unbegun
  <2>3. CASE DispatchEnable
    <3>1. CASE Still("begin")
      <4>1. op.job = "enable" /\ UNCHANGED <<marker, dirs>> /\ Goto("begin")
        BY <2>3, <3>1 DEF DispatchEnable, Still, persistent
      <4>2. op'.pc = "begin" /\ op'.job = op.job /\ op'.build = op.build /\ op'.did = op.did
        BY <4>1, GotoType, PlacesTyped DEF PCs
      <4>3. JobFits'
        BY <2>1, <2>2, <4>1, <4>2, JumpJob DEF PCs
      <4> QED
        BY <4>1, <4>2, <4>3, InstallFitsOnly, Unwritten DEF Truth, InstallPCs
    <3> QED
      BY <1>1, <2>1, <2>2, <2>3, <3>1, MovesOn DEF DispatchEnable
  <2>4. CASE DispatchDisable
    BY <1>1, <2>1, <2>2, <2>4, MovesOn DEF DispatchDisable
  <2>5. CASE DispatchRepair
    BY <1>1, <2>1, <2>2, <2>5, MovesOn DEF DispatchRepair
  <2>6. CASE DispatchOrphan
    BY <1>1, <2>1, <2>2, <2>6, MovesOn, StoppedTruth DEF DispatchOrphan, Results
  <2> QED
    BY <1>2, <2>3, <2>4, <2>5, <2>6
<1>3. CASE Repaired
  <2>1. op.pc = "repaired" /\ op.job = "repair"
    BY <1>3 DEF Repaired, Truth, JobFits
  <2> QED
    BY <1>1, <1>3, <2>1, MovesOn DEF Repaired
<1>4. CASE PruneTree
  <2> DEFINE next == IF op.job = "enable" THEN "begin" ELSE "prune"
  <2>1. op.pc = "pruneTree" /\ Goto(next)
    BY <1>4 DEF PruneTree, Still
  <2>2. Recorded'
    <3>1. CASE Still(next)
      BY <3>1, Unwritten DEF Still, persistent
    <3>2. CASE ~marker.present /\ UNCHANGED marker
      BY <3>2, RecordedNothing DEF Truth, Recorded
    <3> QED
      BY <1>4, <3>1, <3>2 DEF PruneTree
  <2>3. marker' = marker
    BY <1>4 DEF PruneTree, Still, persistent
  <2>4. CASE op.job # "enable"
    <3>1. next = "prune" /\ op'.pc = "prune"
      BY <2>1, <2>4, GotoType, PlacesTyped DEF PCs
    <3> QED
      BY <1>1, <2>1, <2>2, <3>1, JumpOuter DEF AtRest, Unbegun
  <2>5. CASE op.job = "enable"
    <3>1. ~Pending(marker) /\ op.did = {}
      BY <2>1, <2>5 DEF Truth, JobFits, AtRest, Unbegun
    <3>2. op'.pc = "begin" /\ op'.job = op.job /\ op'.build = op.build /\ op'.did = op.did
      BY <2>1, <2>5, GotoType, PlacesTyped DEF PCs
    <3>3. JobFits'
      BY <2>1, <2>3, <2>5, <3>1, <3>2, JumpJob DEF PCs
    <3> QED
      BY <2>2, <3>2, <3>3, InstallFitsOnly DEF Truth, InstallPCs
  <2> QED
    BY <2>4, <2>5
<1> QED
  BY <1>2, <1>3, <1>4 DEF Dispatch

-----------------------------------------------------------------------------
(* Installing.                                                              *)

\* Jumps inside the transaction keep its locals.
LEMMA InsideJob ==
  ASSUME Inv, Truth, op.pc \in InstallPCs,
         op'.pc \in (InstallPCs \ {"begin"}) \cup UndoPCs, op'.job = op.job, op'.build = op.build,
         op'.pc \in {"stage", "copy", "snapshot"} => ~Pending(marker'),
         op'.pc \in {"stage", "copy", "snapshot", "publish", "swap"} => op'.did = {}
  PROVE  JobFits'
<1>1. op'.pc \in PCs
  BY DEF InstallPCs, UndoPCs, PCs
<1>2. op.job = "enable" /\ op.pc # "idle"
  BY DEF Truth, JobFits, InstallPCs
<1>3. ~AtRest' \/ op'.pc \in {"stage", "copy", "snapshot"}
  BY DEF AtRest, InstallPCs, UndoPCs
<1>4. ~Unbegun' \/ op'.pc \in {"stage", "copy", "snapshot", "publish", "swap"}
  BY DEF Unbegun, InstallPCs, UndoPCs
<1>5. op'.pc \notin {"strip", "stripWrite", "repaired", "bury"}
  BY DEF InstallPCs, UndoPCs
<1> QED
  BY <1>1, <1>2, <1>3, <1>4, <1>5, JumpJob

LEMMA PrevKept ==
  ASSUME Truth, op.pc \in (InstallPCs \ {"begin"}) \cup UndoPCs, op'.prev = op.prev
  PROVE  PrevFits'
BY DEF Truth, PrevFits, Upgrading

LEMMA BeginTruth ==
  ASSUME Inv, Truth, Begin
  PROVE  Truth'
<1>1. CASE Finish("recover")
  BY <1>1, StoppedTruth DEF Begin, Results
<1>2. CASE ~(marker.present /\ marker.state # "installed")
  <2>1. PICK t \in Tx : /\ FreshTx(t)
                        /\ op' = [op EXCEPT !.pc = "stage", !.tx = t, !.prev = marker,
                                            !.seen = autorun]
                        /\ UNCHANGED persistent
    BY <1>2 DEF Begin
  <2>2. /\ op'.pc = "stage" /\ op'.tx = t /\ op'.prev = marker /\ op'.job = op.job
        /\ op'.build = op.build /\ op'.did = op.did
    BY <2>1, PlacesTyped DEF Ops
  <2>3. op.pc = "begin" /\ UNCHANGED <<marker, dirs>>
    BY <2>1 DEF Begin, persistent
  <2>4. ~Pending(marker) /\ op.did = {}
    BY <2>3 DEF Truth, JobFits, AtRest, Unbegun
  <2>5. JobFits'
    BY <2>2, <2>3, <2>4, InsideJob DEF InstallPCs
  <2>6. PrevFits'
    BY <1>2, <2>2 DEF PrevFits, Upgrading, Truth, Recorded
  <2>7. dirs[<<"rollback", t>>] = Nothing
    BY <2>1 DEF FreshTx
  <2>8. StageFits'
    BY <1>2, <2>2, <2>3, <2>7 DEF StageFits, RollbackOf, InstallPCs
  <2> QED
    BY <2>2, <2>3, <2>5, <2>6, <2>8, InstallFitsOnly, Unwritten DEF Truth, InstallPCs
<1> QED
  BY <1>1, <1>2 DEF Begin

LEMMA StagingDirs ==
  ASSUME Inv, op.tx \in Tx
  PROVE  /\ StagingDir \in DirNames /\ RollbackOf \in DirNames /\ RemovalDir \in DirNames
         /\ Root \in DirNames /\ StagingDir # Root /\ RollbackOf # Root /\ RemovalDir # Root
         /\ StagingDir # RollbackOf /\ RemovalDir # RollbackOf
BY TxDirs, Constants DEF StagingDir, RollbackOf, RemovalDir

LEMMA StageTruth ==
  ASSUME Inv, Truth, Stage \/ Copy
  PROVE  Truth'
<1>1. CASE FaultEnds
  BY <1>1, StoppedTruth DEF Stage, Copy
<1>2. ASSUME NEW v, NEW p,
             (op.pc = "stage" /\ p = "copy") \/ (op.pc = "copy" /\ p = "snapshot"),
             p = "snapshot" => v = op.build,
             SetDirs([dirs EXCEPT ![StagingDir] = v], p)
      PROVE  Truth'
  <2>1. op.pc \in {"stage", "copy"} /\ p \in {"copy", "snapshot"} /\ p \in PCs /\ op.tx \in Tx
    BY <1>2 DEF PCs, Inv, Wired, TxPCs
  <2>2. marker' = marker /\ dirs' = [dirs EXCEPT ![StagingDir] = v] /\ Goto(p)
    BY <1>2 DEF SetDirs
  <2>3. /\ op'.pc = p /\ op'.job = op.job /\ op'.build = op.build /\ op'.did = op.did
        /\ op'.prev = op.prev /\ op'.tx = op.tx
    BY <2>1, <2>2, GotoType, PlacesTyped
  <2>4. /\ dirs'[StagingDir] = v /\ \A d \in DirNames \ {StagingDir} : dirs'[d] = dirs[d]
    BY <2>1, <2>2, StagingDirs, PlacesTyped
  <2>5. ~Pending(marker) /\ op.did = {}
    BY <2>1 DEF Truth, JobFits, AtRest, Unbegun
  <2>6. JobFits'
    BY <2>1, <2>2, <2>3, <2>5, InsideJob DEF InstallPCs
  <2>7. PrevFits'
    BY <2>1, <2>3, PrevKept DEF InstallPCs
  <2>8. StageFits'
    <3>1. StagingDir' = StagingDir /\ RollbackOf' = RollbackOf
      BY <2>3 DEF StagingDir, RollbackOf
    <3>2. dirs'[RollbackOf] = dirs[RollbackOf] /\ dirs[RollbackOf] = Nothing
      BY <2>1, <2>4, StagingDirs DEF Truth, StageFits
    <3>3. marker' = op'.prev /\ (marker'.present => marker'.state = "installed")
      BY <2>1, <2>2, <2>3 DEF Truth, StageFits
    <3> QED
      BY <1>2, <2>1, <2>3, <2>4, <3>1, <3>2, <3>3 DEF StageFits
  <2>9. Recorded'
    BY <2>1, <2>2, <2>4, <2>5, StagingDirs, RecordedSame DEF Truth
  <2> QED
    BY <2>1, <2>3, <2>6, <2>7, <2>8, <2>9, InstallFitsOnly DEF Truth, InstallPCs
<1> QED
  BY <1>1, <1>2 DEF Stage, Copy

LEMMA SnapshotTruth ==
  ASSUME Inv, Truth, Snapshot \/ SnapshotUpgrade
  PROVE  Truth'
<1>1. op.pc = "snapshot" /\ UNCHANGED <<marker, dirs>> /\ op.tx \in Tx
  BY DEF Snapshot, SnapshotUpgrade, persistent, Inv, Wired, TxPCs
<1>2. PICK b, k, t : op' = [op EXCEPT !.pc = "publish", !.at = 1, !.want = Prepared(b, k, t)]
  BY DEF Snapshot, SnapshotUpgrade
<1>3. /\ op'.pc = "publish" /\ op'.at = 1 /\ op'.want = Prepared(b, k, t)
      /\ op'.job = op.job /\ op'.build = op.build /\ op'.did = op.did
      /\ op'.prev = op.prev /\ op'.tx = op.tx
  BY <1>2, PlacesTyped DEF Ops
<1>4. /\ op'.want.state = "prepared" /\ op'.want.version = op.build
      /\ op'.want.upVersion = op.prev.version
  BY <1>3 DEF Prepared
<1>5. ~Pending(marker) /\ op.did = {} /\ marker = op.prev
      /\ (marker.present => marker.state = "installed")
  BY <1>1 DEF Truth, JobFits, AtRest, Unbegun, StageFits
<1>6. PublishFits'
  <2>1. marker.present => dirs[Root] = op.prev.version
    BY <1>5 DEF Truth, Recorded
  <2>2. ~marker.present => marker.state = ""
    <3>1. NoMarker.state = ""
      BY DEF NoMarker
    <3> QED
      BY <3>1 DEF Truth, Recorded
  <2> QED
    <3>1. Upgrading' <=> marker.present
      BY <1>3, <1>5 DEF Upgrading
    <3>2. /\ ~Pending(marker') /\ dirs'[Root] = dirs[Root] /\ op'.prev.version = op.prev.version
          /\ marker'.state = IF marker.present THEN "installed" ELSE ""
      BY <1>1, <1>3, <1>5, <2>2
    <3> QED
      <4>1. CASE marker.present
        BY <1>3, <1>4, <2>1, <3>1, <3>2, <4>1 DEF PublishFits
      <4>2. CASE ~marker.present
        <5>1. /\ op'.at = 1 /\ ~Pending(marker') /\ ~Upgrading'
              /\ op'.want.state = "prepared" /\ op'.want.version = op'.build
              /\ op'.want.upVersion = op'.prev.version
          BY <1>1, <1>3, <1>4, <1>5, <3>1, <4>2
        <5>2. op'.pc = "publish" /\ ~(op'.at >= 4) /\ ~(op'.at >= 5)
          BY <1>3
        <5>3. marker'.state \in {"", "prepared"}
          BY <3>2, <4>2
        <5> QED
          BY <5>1, <5>2, <5>3, Zenon DEF PublishFits
      <4> QED
        BY <4>1, <4>2
<1>7. JobFits'
  BY <1>1, <1>3, <1>5, InsideJob DEF InstallPCs
<1>8. PrevFits'
  BY <1>1, <1>3, PrevKept DEF InstallPCs
<1>9. StageFits'
  BY <1>1, <1>3 DEF Truth, StageFits, StagingDir, RollbackOf
<1> QED
  BY <1>1, <1>3, <1>6, <1>7, <1>8, <1>9, InstallFitsOnly, Unwritten DEF Truth, InstallPCs

LEMMA RefuseUpgradeTruth ==
  ASSUME Inv, Truth, RefuseUpgrade
  PROVE  Truth'
<1>1. op.pc = "snapshot" /\ marker' = marker /\ Drop({StagingDir}) /\ op' = Idle /\ op.tx \in Tx
  BY DEF RefuseUpgrade, Inv, Wired, TxPCs
<1>2. ~Pending(marker) /\ dirs'[Root] = dirs[Root]
  BY <1>1, StagingDirs, DropValue DEF Truth, JobFits, AtRest
<1> QED
  BY <1>1, <1>2, RecordedSame, EndTruth DEF Truth

LEMMA PublishTruth ==
  ASSUME Inv, Truth, Publish
  PROVE  Truth'
<1> DEFINE n == IF Upgrading THEN 10 ELSE 8
           f == PublishSeq(Upgrading)[op.at]
<1>1. /\ op.pc = "publish" /\ op.tx \in Tx /\ op.at \in 1..10 /\ op.at <= n
      /\ op.want.rollback = op.tx /\ (op.at >= 2 => marker.rollback = op.tx)
  BY DEF Publish, Inv, Wired, TxPCs, TypeOK, Ops
<1>2. PublishFits /\ op.did = {} /\ StageFits /\ Recorded
  BY <1>1 DEF Truth, JobFits, Unbegun
<1>3. /\ dirs[RollbackOf] = Nothing /\ dirs[StagingDir] = op.build
  BY <1>1, <1>2 DEF StageFits
<1>4. Upgrading => op.prev.version \in Builds /\ op.prev.state = "installed"
  BY <1>1 DEF Truth, PrevFits, InstallPCs
<1>5. CASE Fault("unhook")
  <2>1. UNCHANGED <<marker, dirs>> /\ Goto("unhook")
    BY <1>5 DEF Fault, persistent
  <2>2. /\ op'.pc = "unhook" /\ op'.job = op.job /\ op'.build = op.build /\ op'.did = {}
        /\ op'.prev = op.prev
    BY <1>2, <2>1, GotoType, PlacesTyped DEF PCs
  <2>3. JobFits'
    BY <1>1, <2>2, InsideJob DEF InstallPCs, UndoPCs
  <2>4. PrevFits'
    BY <1>1, <2>2, PrevKept DEF InstallPCs
  <2>5. UndoFits'
    <3>1. (Upgrading' <=> Upgrading) /\ (Pending(marker') <=> Pending(marker))
      BY <2>1, <2>2 DEF Upgrading
    <3>2. /\ Upgrading => dirs'[Root] = op'.prev.version
          /\ ~Upgrading => ~Pending(marker) /\ marker'.state # "installed"
      BY <1>1, <1>2, <2>1, <2>2 DEF PublishFits
    <3> QED
      BY <2>2, <3>1, <3>2 DEF UndoFits
  <2> QED
    BY <2>1, <2>2, <2>3, <2>4, <2>5, UndoFitsOnly, Unwritten DEF Truth, UndoPCs
<1>6. CASE PutEach(PublishSeq(Upgrading), op.want, "swap")
  <2>1. /\ Len(PublishSeq(Upgrading)) = n /\ "swap" \in PCs
        /\ op.at # n => op.at + 1 \in 1..10
    <3>1. Len(PublishSeq(Upgrading)) = n
      BY SeqFields DEF PublishSeq
    <3> QED
      BY <1>1, <3>1 DEF PCs
  <2>2. /\ marker' = Put(f, op.want) /\ dirs' = dirs
        /\ op'.job = op.job /\ op'.build = op.build /\ op'.did = {}
        /\ op'.tx = op.tx /\ op'.prev = op.prev /\ op'.want = op.want
        /\ IF op.at = n THEN op'.pc = "swap" /\ op'.at = 1
                        ELSE op'.pc = "publish" /\ op'.at = op.at + 1
    BY <1>1, <1>2, <1>6, <2>1, PutEachMoves
  <2>3. op'.pc \in {"publish", "swap"}
    BY <2>2
  <2>4. JobFits'
    BY <1>1, <2>2, <2>3, InsideJob DEF InstallPCs
  <2>5. PrevFits'
    BY <1>1, <2>2, PrevKept DEF InstallPCs
  <2>6. StageFits'
    BY <1>3, <2>2, <2>3 DEF StageFits, StagingDir, RollbackOf
  <2>7. (Upgrading' <=> Upgrading) /\ marker \in Markers /\ op.want \in Markers
    BY <2>2, PlacesTyped DEF Upgrading
  <2>8. /\ f \in Fields
        /\ f = "rollback" <=> op.at = 1
        /\ f = "upVersion" <=> Upgrading /\ op.at = 3
        /\ f = "upPending" <=> Upgrading /\ op.at = 4
        /\ f = "state" <=> op.at = IF Upgrading THEN 5 ELSE 3
        /\ f = "version" <=> op.at = IF Upgrading THEN 6 ELSE 4
    <3>1. CASE Upgrading
      BY <1>1, <3>1 DEF PublishSeq, Fields
    <3>2. CASE ~Upgrading
      BY <1>1, <3>2 DEF PublishSeq, Fields
    <3> QED
      BY <3>1, <3>2
  <2> HIDE DEF f
  <2>9. /\ marker'.present
        /\ marker'.state = IF f = "state" THEN "prepared" ELSE marker.state
        /\ marker'.version = IF f = "version" THEN op.build ELSE marker.version
        /\ marker'.rollback = op.tx
        /\ marker'.upVersion = IF f = "upVersion" THEN op.prev.version ELSE marker.upVersion
        /\ marker'.upPending = IF f = "upPending" THEN op.want.upPending ELSE marker.upPending
    <3>1. /\ Put(f, op.want).present
          /\ Put(f, op.want).state = IF f = "state" THEN op.want.state ELSE marker.state
          /\ Put(f, op.want).version = IF f = "version" THEN op.want.version ELSE marker.version
          /\ Put(f, op.want).rollback = IF f = "rollback" THEN op.want.rollback ELSE marker.rollback
          /\ Put(f, op.want).upVersion = IF f = "upVersion" THEN op.want.upVersion ELSE marker.upVersion
          /\ Put(f, op.want).upPending = IF f = "upPending" THEN op.want.upPending ELSE marker.upPending
      BY <2>7, <2>8, PutValue
    <3>2. op.want.state = "prepared" /\ op.want.version = op.build /\ op.want.upVersion = op.prev.version
      BY <1>1, <1>2 DEF PublishFits
    <3> QED
      BY <1>1, <2>2, <2>8, <3>1, <3>2
  <2>10. CASE Upgrading
    <3>1. /\ dirs[Root] = op.prev.version
          /\ op.at <= 3 => ~Pending(marker)
          /\ op.at >= 4 => marker.upVersion = op.prev.version
          /\ marker.state = IF op.at <= 5 THEN "installed" ELSE "prepared"
          /\ op.at >= 7 => marker.version = op.build
      BY <1>1, <1>2, <2>10 DEF PublishFits
    <3>2. op.at <= 2 => ~Pending(marker')
      BY <1>1, <2>8, <2>9, <3>1 DEF Pending
    <3>3. op.at >= 3 => marker'.upVersion = op.prev.version
      BY <1>1, <2>8, <2>9, <3>1, <2>10
    <3>4. marker'.state = IF op.at <= 4 THEN "installed" ELSE "prepared"
      BY <1>1, <2>8, <2>9, <3>1, <2>10
    <3>5. /\ op.at >= 6 => marker'.version = op.build
          /\ op.at <= 5 => marker'.version = marker.version
      BY <1>1, <2>8, <2>9, <3>1, <2>10
    <3>6. Recorded'
      <4>1. CASE op.at <= 4
        <5>1. marker.version = dirs[Root] /\ marker.version \in Builds
          BY <1>1, <1>2, <3>1, <4>1 DEF Recorded
        <5> QED
          BY <1>1, <2>2, <2>9, <3>4, <3>5, <4>1, <5>1, RecordedInstalled
      <4>2. CASE op.at >= 5
        <5>1. marker'.state = "prepared" /\ marker'.upVersion = op.prev.version
          BY <1>1, <3>3, <3>4, <4>2
        <5>2. RollbackDir' = RollbackOf
          BY <2>9 DEF RollbackDir, RollbackOf
        <5>3. ~HasRollback'
          BY <1>3, <2>2, <5>2 DEF HasRollback
        <5> QED
          BY <1>4, <2>2, <2>9, <2>10, <3>1, <5>1, <5>3 DEF Recorded
      <4> QED
        BY <1>1, <4>1, <4>2
    <3>7. PublishFits'
      <4> SUFFICES ASSUME op'.pc = "publish" PROVE PublishFits'
        BY DEF PublishFits
      <4>1. op'.at = op.at + 1 /\ op.at \in 1..9
        BY <1>1, <2>2, <2>10
      <4>2. /\ op'.at <= 3 => ~Pending(marker')
            /\ op'.at >= 4 => marker'.upVersion = op'.prev.version
            /\ marker'.state = IF op'.at <= 5 THEN "installed" ELSE "prepared"
            /\ op'.at >= 7 => marker'.version = op'.build
        BY <2>2, <3>2, <3>3, <3>4, <3>5, <4>1
      <4>3. op.want.state = "prepared" /\ op.want.version = op.build /\ op.want.upVersion = op.prev.version
        BY <1>1, <1>2 DEF PublishFits
      <4> QED
        BY <2>2, <2>7, <2>10, <3>1, <4>2, <4>3 DEF PublishFits
    <3>8. CommitFits'
      <4> SUFFICES ASSUME op'.pc = "swap" PROVE CommitFits'
        BY <2>3 DEF CommitFits
      <4>1. op.at = 10
        BY <2>2, <2>10
      <4> QED
        BY <2>2, <2>7, <2>9, <2>10, <3>3, <3>4, <3>5, <4>1 DEF CommitFits
    <3> QED
      BY <2>3, <2>4, <2>5, <2>6, <3>6, <3>7, <3>8, InstallFitsOnly DEF Truth, InstallPCs
  <2>11. CASE ~Upgrading
    <3>1. /\ ~Pending(marker) /\ marker.state \in {"", "prepared"}
          /\ op.at >= 4 => marker.state = "prepared"
          /\ op.at >= 5 => marker.version = op.build
      BY <1>1, <1>2, <2>11 DEF PublishFits
    <3>0. /\ op.at >= 4 => marker.state = "prepared"
          /\ op.at >= 5 => marker.version = op.build
      BY <3>1
    <3>2. ~Pending(marker') /\ marker'.state \in {"", "prepared"}
      BY <2>8, <2>9, <2>11, <3>1 DEF Pending
    <3>3. /\ op.at >= 3 => marker'.state = "prepared"
          /\ op.at >= 4 => marker'.version = op.build
      <4>1. (f = "state" <=> op.at = 3) /\ (f = "version" <=> op.at = 4)
        BY <2>8, <2>11
      <4>2. CASE op.at <= 3
        BY <1>1, <2>9, <4>1, <4>2
      <4>3. CASE op.at = 4
        BY <1>1, <2>9, <3>0, <4>1, <4>3
      <4>4. CASE op.at >= 5
        BY <1>1, <2>9, <3>0, <4>1, <4>4
      <4> QED
        BY <1>1, <4>2, <4>3, <4>4
    <3>4. Recorded'
      BY <2>9, <3>2, RecordedNothing
    <3>5. PublishFits'
      <4> SUFFICES ASSUME op'.pc = "publish" PROVE PublishFits'
        BY DEF PublishFits
      <4>1. op'.at = op.at + 1 /\ op.at \in 1..7
        BY <1>1, <2>2, <2>11
      <4>2. /\ op'.at >= 4 => marker'.state = "prepared"
            /\ op'.at >= 5 => marker'.version = op'.build
        BY <2>2, <3>3, <4>1
      <4>3. op.want.state = "prepared" /\ op.want.version = op.build /\ op.want.upVersion = op.prev.version
        BY <1>1, <1>2 DEF PublishFits
      <4> QED
        BY <2>2, <2>7, <2>11, <3>2, <4>2, <4>3 DEF PublishFits
    <3>6. CommitFits'
      <4> SUFFICES ASSUME op'.pc = "swap" PROVE CommitFits'
        BY <2>3 DEF CommitFits
      <4>1. op.at = 8
        BY <2>2, <2>11
      <4>2. ~Upgrading' /\ marker'.state = "prepared" /\ marker'.version = op'.build
        BY <2>2, <2>7, <2>11, <3>3, <4>1
      <4>3. marker'.present /\ marker'.rollback = op'.tx
        BY <2>2, <2>9
      <4> QED
        BY <3>2, <4>2, <4>3 DEF CommitFits
    <3> QED
      BY <2>3, <2>4, <2>5, <2>6, <3>4, <3>5, <3>6, InstallFitsOnly DEF Truth, InstallPCs
  <2> QED
    BY <2>10, <2>11
<1> QED
  BY <1>5, <1>6 DEF Publish

\* A step inside the transaction, once it is published.
LEMMA SwapTruth ==
  ASSUME Inv, Truth, Swap
  PROVE  Truth'
<1>1. /\ op.pc = "swap" /\ op.tx \in Tx /\ op.did = {}
      /\ CommitFits /\ StageFits /\ Recorded
  BY DEF Swap, Inv, Wired, TxPCs, Truth, JobFits, Unbegun
<1>2. /\ dirs[RollbackOf] = Nothing /\ dirs[StagingDir] = op.build
      /\ marker.present /\ marker.state = "prepared" /\ marker.version = op.build
      /\ marker.rollback = op.tx
      /\ IF Upgrading THEN marker.upVersion = op.prev.version ELSE ~Pending(marker)
  BY <1>1 DEF CommitFits, StageFits
<1>3. Upgrading => op.prev.version \in Builds /\ op.prev.state = "installed"
  BY <1>1 DEF Truth, PrevFits, InstallPCs
<1>4. RollbackDir = RollbackOf /\ ~HasRollback
  BY <1>2 DEF RollbackDir, RollbackOf, HasRollback
<1>5. Upgrading => Interrupted /\ dirs[Root] = op.prev.version /\ dirs[Root] # Nothing
  <2> SUFFICES ASSUME Upgrading
               PROVE  Interrupted /\ dirs[Root] = op.prev.version /\ dirs[Root] # Nothing
    OBVIOUS
  <2>1. op.prev.version # 0 /\ op.prev.version # Nothing
    BY <1>3, CmdAssumption DEF Builds, Nothing
  <2>2. Interrupted
    BY <1>2, <2>1 DEF Interrupted, Pending
  <2> QED
    BY <1>1, <1>2, <1>4, <2>1, <2>2 DEF Recorded
<1>6. CASE Fault("unhook")
  <2>1. UNCHANGED <<marker, dirs>> /\ Goto("unhook")
    BY <1>6 DEF Fault, persistent
  <2>2. /\ op'.pc = "unhook" /\ op'.job = op.job /\ op'.build = op.build /\ op'.did = {}
        /\ op'.prev = op.prev
    BY <1>1, <2>1, GotoType, PlacesTyped DEF PCs
  <2>3. JobFits'
    BY <1>1, <2>2, InsideJob DEF InstallPCs, UndoPCs
  <2>4. PrevFits'
    BY <1>1, <2>2, PrevKept DEF InstallPCs
  <2>5. UndoFits'
    <3>1. (Upgrading' <=> Upgrading) /\ (Pending(marker') <=> Pending(marker))
      BY <2>1, <2>2 DEF Upgrading
    <3>2. /\ Upgrading => dirs'[Root] = op'.prev.version
          /\ ~Upgrading => ~Pending(marker) /\ marker'.state # "installed"
      BY <1>2, <1>5, <2>1, <2>2
    <3> QED
      BY <2>2, <3>1, <3>2 DEF UndoFits
  <2> QED
    BY <2>1, <2>2, <2>3, <2>4, <2>5, UndoFitsOnly, Unwritten DEF Truth, UndoPCs
<1>7. ASSUME op'.pc = "promote", op'.job = op.job, op'.build = op.build, op'.tx = op.tx,
             op'.prev = op.prev, op'.did \in {{}, {"swap"}}, marker' = marker,
             dirs'[StagingDir] = op.build, Recorded',
             Upgrading => dirs'[RollbackOf] # Nothing /\ op'.did = {"swap"}
      PROVE  Truth'
  <2>1. JobFits'
    BY <1>1, <1>7, InsideJob DEF InstallPCs
  <2>2. PrevFits'
    BY <1>1, <1>7, PrevKept DEF InstallPCs
  <2>3. StageFits'
    BY <1>7 DEF StageFits, StagingDir, RollbackOf, Upgrading
  <2>4. CommitFits'
    BY <1>2, <1>7 DEF CommitFits, Upgrading
  <2> QED
    BY <1>7, <2>1, <2>2, <2>3, <2>4, InstallFitsOnly DEF Truth, InstallPCs
<1>8. CASE dirs[Root] = Nothing /\ Still("promote")
  <2>1. UNCHANGED <<marker, dirs>> /\ Goto("promote")
    BY <1>8 DEF Still, persistent
  <2>2. /\ op'.pc = "promote" /\ op'.job = op.job /\ op'.build = op.build /\ op'.did = {}
        /\ op'.prev = op.prev /\ op'.tx = op.tx
    BY <1>1, <2>1, GotoType, PlacesTyped DEF PCs
  <2> QED
    BY <1>2, <1>5, <1>7, <1>8, <2>1, <2>2, Unwritten
<1>9. CASE /\ dirs[Root] # Nothing
           /\ dirs' = Move(Root, <<"rollback", op.tx>>)
           /\ op' = [op EXCEPT !.pc = "promote", !.did = @ \cup {"swap"}]
           /\ marker' = marker
  <2>1. /\ op'.pc = "promote" /\ op'.job = op.job /\ op'.build = op.build
        /\ op'.did = {"swap"} /\ op'.prev = op.prev /\ op'.tx = op.tx
    BY <1>1, <1>9, PlacesTyped DEF Ops
  <2>2. /\ dirs'[RollbackOf] = dirs[Root] /\ dirs'[Root] = Nothing
        /\ dirs'[StagingDir] = dirs[StagingDir]
    BY <1>1, <1>9, StagingDirs, MoveValue DEF RollbackOf
  <2>3. RollbackDir' = RollbackOf
    BY <1>4, <1>9 DEF RollbackDir
  <2>4. Recorded'
    <3>1. CASE Upgrading
      <4>1. marker.upVersion = dirs[Root] /\ marker.upVersion \in Builds /\ HasRollback'
        BY <1>2, <1>3, <1>5, <1>9, <2>2, <2>3, <3>1 DEF HasRollback
      <4> QED
        BY <1>2, <1>9, <2>2, <2>3, <4>1 DEF Recorded
    <3>2. CASE ~Upgrading
      BY <1>2, <1>9, <3>2, RecordedNothing
    <3> QED
      BY <3>1, <3>2
  <2> QED
    BY <1>2, <1>7, <1>9, <2>1, <2>2, <2>4
<1> QED
  BY <1>6, <1>8, <1>9 DEF Swap

LEMMA PromoteTruth ==
  ASSUME Inv, Truth, Promote
  PROVE  Truth'
<1>1. op.pc = "promote" /\ op.tx \in Tx /\ CommitFits /\ StageFits /\ Recorded
  BY DEF Promote, Inv, Wired, TxPCs, Truth
<1>2. /\ dirs[StagingDir] = op.build
      /\ Upgrading => dirs[RollbackOf] # Nothing /\ "swap" \in op.did
      /\ marker.present /\ marker.state = "prepared" /\ marker.version = op.build
      /\ marker.rollback = op.tx
      /\ IF Upgrading THEN marker.upVersion = op.prev.version ELSE ~Pending(marker)
  BY <1>1 DEF CommitFits, StageFits
<1>3. Upgrading => op.prev.version \in Builds /\ op.prev.state = "installed"
  BY <1>1 DEF Truth, PrevFits, InstallPCs
<1>4. Upgrading => Interrupted
  <2>1. Upgrading => op.prev.version # 0
    BY <1>3, CmdAssumption DEF Builds
  <2> QED
    BY <1>2, <2>1 DEF Interrupted, Pending
<1>5. CASE Fault("unhook")
  <2>1. UNCHANGED <<marker, dirs>> /\ Goto("unhook")
    BY <1>5 DEF Fault, persistent
  <2>2. /\ op'.pc = "unhook" /\ op'.job = op.job /\ op'.build = op.build /\ op'.did = op.did
        /\ op'.prev = op.prev /\ op'.tx = op.tx
    BY <1>1, <2>1, GotoType, PlacesTyped DEF PCs
  <2>3. JobFits'
    BY <1>1, <2>2, InsideJob DEF InstallPCs, UndoPCs
  <2>4. PrevFits'
    BY <1>1, <2>2, PrevKept DEF InstallPCs
  <2>5. UndoFits'
    <3>1. (Upgrading' <=> Upgrading) /\ (Interrupted' <=> Interrupted)
          /\ RollbackOf' = RollbackOf
      BY <2>1, <2>2 DEF Upgrading, Interrupted, RollbackOf
    <3>2. CASE Upgrading
      BY <1>2, <1>4, <2>1, <2>2, <3>1, <3>2 DEF UndoFits
    <3>3. CASE ~Upgrading
      BY <1>2, <2>1, <2>2, <3>1, <3>3 DEF UndoFits
    <3> QED
      BY <3>2, <3>3
  <2> QED
    BY <2>1, <2>2, <2>3, <2>4, <2>5, UndoFitsOnly, Unwritten DEF Truth, UndoPCs
<1>6. CASE /\ dirs' = Move(StagingDir, Root)
           /\ op' = [op EXCEPT !.pc = "check", !.did = @ \cup {"promote"}]
           /\ marker' = marker
  <2>1. /\ op'.pc = "check" /\ op'.job = op.job /\ op'.build = op.build
        /\ op'.did = op.did \cup {"promote"} /\ op'.prev = op.prev /\ op'.tx = op.tx
    BY <1>6, PlacesTyped DEF Ops
  <2>2. dirs'[Root] = op.build /\ dirs'[RollbackOf] = dirs[RollbackOf]
    BY <1>1, <1>2, <1>6, StagingDirs, MoveValue
  <2>3. RollbackDir' = RollbackOf /\ RollbackDir = RollbackOf
    BY <1>2, <1>6 DEF RollbackDir, RollbackOf
  <2>4. Recorded'
    <3>1. CASE Upgrading
      <4>1. /\ marker.upVersion = dirs[RollbackOf] /\ marker.upVersion \in Builds
            /\ HasRollback'
        BY <1>1, <1>2, <1>4, <2>2, <2>3, <3>1 DEF Recorded, HasRollback
      <4> QED
        BY <1>2, <1>6, <2>2, <2>3, <4>1 DEF Recorded
    <3>2. CASE ~Upgrading
      BY <1>2, <1>6, <3>2, RecordedNothing
    <3> QED
      BY <3>1, <3>2
  <2>5. JobFits'
    BY <1>1, <2>1, InsideJob DEF InstallPCs
  <2>6. PrevFits'
    BY <1>1, <2>1, PrevKept DEF InstallPCs
  <2>7. StageFits'
    BY <1>2, <2>1, <2>2 DEF StageFits, RollbackOf, Upgrading
  <2>8. CommitFits'
    BY <1>2, <1>6, <2>1 DEF CommitFits, Upgrading
  <2> QED
    BY <2>1, <2>4, <2>5, <2>6, <2>7, <2>8, InstallFitsOnly DEF Truth, InstallPCs
<1> QED
  BY <1>5, <1>6 DEF Promote

\* The steps from the check of AutoRun on touch neither marker nor payload
\* before the commit.
LEMMA CheckTruth ==
  ASSUME Inv, Truth, Check \/ Hook
  PROVE  Truth'
<1>1. /\ op.pc \in {"check", "hook"} /\ op.tx \in Tx /\ CommitFits /\ StageFits
      /\ UNCHANGED <<marker, dirs>>
  BY DEF Check, Hook, Still, Fault, persistent, Inv, Wired, TxPCs, Truth
<1>2. /\ Upgrading => dirs[RollbackOf] # Nothing /\ "swap" \in op.did
      /\ dirs[Root] = op.build
      /\ marker.present /\ marker.state = "prepared" /\ marker.version = op.build
      /\ marker.rollback = op.tx
      /\ IF Upgrading THEN marker.upVersion = op.prev.version ELSE ~Pending(marker)
  BY <1>1 DEF CommitFits, StageFits
<1>3. Upgrading => op.prev.version \in Builds
  BY <1>1 DEF Truth, PrevFits, InstallPCs
<1>4. Upgrading => Interrupted
  <2>1. Upgrading => op.prev.version # 0
    BY <1>3, CmdAssumption DEF Builds
  <2> QED
    BY <1>2, <2>1 DEF Interrupted, Pending
<1>5. /\ op'.pc \in {"hook", "commit", "unhook"} /\ op'.job = op.job /\ op'.build = op.build
      /\ op.did \subseteq op'.did /\ op'.prev = op.prev /\ op'.tx = op.tx
  <2>1. CASE \E p \in {"hook", "commit", "unhook"} : Goto(p)
    BY <2>1, GotoType, PlacesTyped DEF PCs
  <2>2. CASE op' = [op EXCEPT !.pc = "commit", !.did = @ \cup {"hook"}]
    BY <2>2, PlacesTyped DEF Ops
  <2> QED
    BY <2>1, <2>2 DEF Check, Hook, Still, Fault
<1>6. JobFits'
  BY <1>1, <1>5, InsideJob DEF InstallPCs, UndoPCs
<1>7. PrevFits'
  BY <1>1, <1>5, PrevKept DEF InstallPCs
<1>8. (Upgrading' <=> Upgrading) /\ (Interrupted' <=> Interrupted) /\ RollbackOf' = RollbackOf
      /\ (Pending(marker') <=> Pending(marker))
  BY <1>1, <1>5 DEF Upgrading, Interrupted, RollbackOf
<1>9. CASE op'.pc = "unhook"
  <2>1. UndoFits'
    <3>1. CASE Upgrading
      BY <1>1, <1>2, <1>4, <1>5, <1>8, <1>9, <3>1 DEF UndoFits
    <3>2. CASE ~Upgrading
      BY <1>1, <1>2, <1>5, <1>8, <1>9, <3>2 DEF UndoFits
    <3> QED
      BY <3>1, <3>2
  <2> QED
    BY <1>1, <1>6, <1>7, <1>9, <2>1, UndoFitsOnly, Unwritten DEF Truth, UndoPCs
<1>10. CASE op'.pc \in {"hook", "commit"}
  <2>1. StageFits'
    BY <1>1, <1>2, <1>5, <1>8, <1>10 DEF StageFits
  <2>2. CommitFits'
    BY <1>1, <1>2, <1>5, <1>8, <1>10 DEF CommitFits
  <2> QED
    BY <1>1, <1>6, <1>7, <1>10, <2>1, <2>2, InstallFitsOnly, Unwritten DEF Truth, InstallPCs
<1> QED
  BY <1>5, <1>9, <1>10

LEMMA CommitTruth ==
  ASSUME Inv, Truth, Commit
  PROVE  Truth'
<1>1. /\ op.pc = "commit" /\ op.tx \in Tx /\ CommitFits /\ StageFits
  BY DEF Commit, Inv, Wired, TxPCs, Truth
<1>2. /\ Upgrading => dirs[RollbackOf] # Nothing /\ "swap" \in op.did
      /\ dirs[Root] = op.build
      /\ marker.present /\ marker.state = "prepared" /\ marker.version = op.build
      /\ marker.rollback = op.tx
      /\ IF Upgrading THEN marker.upVersion = op.prev.version ELSE ~Pending(marker)
  BY <1>1 DEF CommitFits, StageFits
<1>3. op.build \in Builds /\ op.job = "enable"
  BY <1>1 DEF Truth, JobFits, InstallPCs
<1>4. CASE SetMarker([marker EXCEPT !.state = "installed"], "discard")
  <2>1. marker' = [marker EXCEPT !.state = "installed"] /\ dirs' = dirs /\ Goto("discard")
    BY <1>4 DEF SetMarker
  <2>2. marker'.present /\ marker'.state = "installed" /\ marker'.version = marker.version
    BY <1>2, <2>1, PlacesTyped DEF Markers
  <2>3. Recorded'
    BY <1>2, <1>3, <2>1, <2>2, RecordedInstalled
  <2>4. op'.pc = "discard" /\ op'.job = op.job /\ op'.build = op.build
    BY <2>1, GotoType, PlacesTyped DEF PCs
  <2>5. JobFits'
    BY <1>1, <2>4, JumpJob DEF PCs, AtRest, Unbegun, InstallPCs
  <2>6. RestoreFits'
    BY <2>2, <2>4 DEF RestoreFits
  <2> QED
    BY <2>3, <2>4, <2>5, <2>6, RestFitsOnly DEF Truth
<1>5. CASE Fault("unhook")
  <2>1. UNCHANGED <<marker, dirs>> /\ Goto("unhook")
    BY <1>5 DEF Fault, persistent
  <2>2. /\ op'.pc = "unhook" /\ op'.job = op.job /\ op'.build = op.build /\ op'.did = op.did
        /\ op'.prev = op.prev /\ op'.tx = op.tx
    BY <1>1, <2>1, GotoType, PlacesTyped DEF PCs
  <2>3. JobFits'
    BY <1>1, <2>2, InsideJob DEF InstallPCs, UndoPCs
  <2>4. PrevFits'
    BY <1>1, <2>2, PrevKept DEF InstallPCs
  <2>5. (Upgrading' <=> Upgrading) /\ (Interrupted' <=> Interrupted) /\ RollbackOf' = RollbackOf
      /\ (Pending(marker') <=> Pending(marker))
    BY <2>1, <2>2 DEF Upgrading, Interrupted, RollbackOf
  <2>6. CASE Upgrading
    <3>1. op.prev.version # 0
      BY <1>1, <2>6, CmdAssumption DEF Truth, PrevFits, InstallPCs, Builds
    <3>2. Interrupted
      BY <1>2, <2>6, <3>1 DEF Interrupted, Pending
    <3>3. UndoFits'
      BY <1>2, <2>1, <2>2, <2>5, <2>6, <3>2 DEF UndoFits
    <3> QED
      BY <2>1, <2>2, <2>3, <2>4, <3>3, UndoFitsOnly, Unwritten DEF Truth, UndoPCs
  <2>7. CASE ~Upgrading
    <3>1. UndoFits'
      BY <1>2, <2>1, <2>2, <2>5, <2>7 DEF UndoFits
    <3> QED
      BY <2>1, <2>2, <2>3, <2>4, <3>1, UndoFitsOnly, Unwritten DEF Truth, UndoPCs
  <2> QED
    BY <2>6, <2>7
<1> QED
  BY <1>4, <1>5 DEF Commit

LEMMA DiscardTruth ==
  ASSUME Inv, Truth, Discard
  PROVE  Truth'
<1>1. /\ op.pc = "discard" /\ marker' = marker /\ Drop({<<"rollback", op.tx>>})
      /\ op' = [op EXCEPT !.pc = "cleanup", !.at = 1, !.then = "prune"] /\ op.tx \in Tx
  BY DEF Discard, Inv, Wired, TxPCs
<1>2. /\ op'.pc = "cleanup" /\ op'.job = op.job /\ op'.build = op.build
      /\ op'.then = "prune"
  BY <1>1, PlacesTyped DEF Ops
<1>3. marker.state = "installed"
  BY <1>1 DEF Truth, RestoreFits
<1>4. dirs'[Root] = dirs[Root]
  BY <1>1, StagingDirs, DropValue DEF RollbackOf
<1>5. Recorded'
  BY <1>1, <1>3, <1>4 DEF Truth, Recorded, Interrupted
<1>6. JobFits'
  BY <1>1, <1>2, JumpJob DEF PCs, AtRest, Unbegun, InstallPCs
<1>7. RestoreFits'
  BY <1>1, <1>2, <1>3 DEF RestoreFits
<1> QED
  BY <1>2, <1>5, <1>6, <1>7, RestFitsOnly DEF Truth

-----------------------------------------------------------------------------
(* Undoing.                                                                 *)

LEMMA UndoJob ==
  ASSUME Inv, Truth, op.pc \in UndoPCs, op'.pc \in UndoPCs,
         op'.job = op.job, op'.build = op.build
  PROVE  JobFits'
<1>1. op'.pc \in PCs /\ op.pc # "idle"
  BY DEF UndoPCs, PCs
<1>2. ~AtRest' /\ ~Unbegun' /\ op'.pc \notin InstallPCs
      /\ op'.pc \notin {"strip", "stripWrite", "repaired", "bury"}
  BY DEF AtRest, Unbegun, UndoPCs, InstallPCs
<1> QED
  BY <1>1, <1>2, JumpJob

\* A step of the undo that leaves marker and payload alone.
LEMMA UndoMoves ==
  ASSUME Inv, Truth, op.pc \in UndoPCs, UNCHANGED <<marker, dirs>>,
         NEW p \in UndoPCs, Goto(p), op.pc # "unmark",
         p = "unmark" => "swap" \notin op.did
  PROVE  Truth'
<1>1. /\ op'.pc = p /\ op'.job = op.job /\ op'.build = op.build /\ op'.did = op.did
      /\ op'.prev = op.prev /\ op'.tx = op.tx
  BY GotoType, PlacesTyped DEF PCs, UndoPCs
<1>2. JobFits'
  BY <1>1, UndoJob
<1>3. PrevFits'
  BY <1>1, PrevKept
<1>4. (Upgrading' <=> Upgrading) /\ (Interrupted' <=> Interrupted) /\ RollbackOf' = RollbackOf
      /\ (Pending(marker') <=> Pending(marker))
  BY <1>1 DEF Upgrading, Interrupted, RollbackOf
<1>5. UndoFits'
  <2>1. CASE Upgrading
    BY <1>1, <1>4, <2>1 DEF Truth, UndoFits
  <2>2. CASE ~Upgrading
    BY <1>1, <1>4, <2>2 DEF Truth, UndoFits
  <2> QED
    BY <2>1, <2>2
<1> QED
  BY <1>1, <1>2, <1>3, <1>5, UndoFitsOnly, Unwritten DEF Truth

LEMMA UnhookTruth ==
  ASSUME Inv, Truth, Unhook \/ UnhookWrite
  PROVE  Truth'
<1>1. op.pc \in {"unhook", "unhookWrite"} /\ op.pc \in UndoPCs /\ op.pc # "idle"
  BY DEF Unhook, UnhookWrite, UndoPCs
<1>2. CASE FaultEnds \/ Finish("failed")
  BY <1>1, <1>2, StoppedTruth DEF Results
<1>3. CASE \E p \in {"undeploy", "unhookWrite"} : Goto(p) /\ UNCHANGED <<marker, dirs>>
  BY <1>1, <1>3, UndoMoves DEF UndoPCs
<1> QED
  BY <1>2, <1>3 DEF Unhook, UnhookWrite, Still, SetAutoRun, persistent

LEMMA UndeployTruth ==
  ASSUME Inv, Truth, Undeploy
  PROVE  Truth'
<1>1. op.pc = "undeploy" /\ op.pc \in UndoPCs /\ op.tx \in Tx
  BY DEF Undeploy, UndoPCs, Inv, Wired, TxPCs
<1>2. CASE FaultEnds
  BY <1>1, <1>2, StoppedTruth
<1>3. CASE Still("unswap")
  <2>1. UNCHANGED <<marker, dirs>> /\ Goto("unswap")
    BY <1>3 DEF Still, persistent
  <2> QED
    BY <1>1, <2>1, UndoMoves DEF UndoPCs
<1>4. ASSUME NEW p \in {"undeploy", "unswap"}, "promote" \in op.did, SetDirs(Remove(Root), p)
      PROVE  Truth'
  <2>1. marker' = marker /\ dirs' = Remove(Root) /\ Goto(p) /\ p \in UndoPCs
    BY <1>4 DEF SetDirs, UndoPCs
  <2>2. /\ op'.pc = p /\ op'.job = op.job /\ op'.build = op.build /\ op'.did = op.did
        /\ op'.prev = op.prev /\ op'.tx = op.tx
    BY <2>1, GotoType, PlacesTyped DEF PCs, UndoPCs
  <2>3. JobFits' /\ PrevFits'
    BY <1>1, <2>1, <2>2, UndoJob, PrevKept
  <2>4. dirs'[RollbackOf] = dirs[RollbackOf]
    BY <1>1, <2>1, StagingDirs, MoveValue
  <2>5. (Upgrading' <=> Upgrading) /\ (Interrupted' <=> Interrupted) /\ RollbackOf' = RollbackOf
        /\ (Pending(marker') <=> Pending(marker))
    BY <2>1, <2>2 DEF Upgrading, Interrupted, RollbackOf
  <2>6. CASE Upgrading
    <3>1. /\ "swap" \in op.did /\ Interrupted /\ marker.rollback = op.tx
          /\ marker.upVersion = op.prev.version /\ dirs[RollbackOf] # Nothing
      BY <1>1, <1>4, <2>6 DEF Truth, UndoFits
    <3>2. UndoFits'
      BY <1>4, <2>1, <2>2, <2>4, <2>5, <2>6, <3>1 DEF UndoFits
    <3>3. RollbackDir = RollbackOf /\ RollbackDir' = RollbackOf
      BY <2>1, <3>1 DEF RollbackDir, RollbackOf
    <3>4. marker.state # "installed" /\ marker.present
      BY <3>1 DEF Interrupted
    <3>5. marker.upVersion = dirs[RollbackOf] /\ marker.upVersion \in Builds /\ HasRollback'
      BY <2>4, <3>1, <3>3 DEF Truth, Recorded, HasRollback
    <3>6. Recorded'
      BY <2>1, <2>4, <3>3, <3>4, <3>5 DEF Recorded
    <3> QED
      BY <2>1, <2>2, <2>3, <3>2, <3>6, UndoFitsOnly DEF Truth
  <2>7. CASE ~Upgrading
    <3>1. ~Pending(marker) /\ marker.state # "installed"
      BY <1>1, <2>7 DEF Truth, UndoFits
    <3>2. UndoFits'
      BY <2>1, <2>2, <2>5, <2>7, <3>1 DEF UndoFits
    <3>3. Recorded'
      BY <2>1, <3>1, RecordedNothing DEF Truth, Recorded
    <3> QED
      BY <2>1, <2>2, <2>3, <3>2, <3>3, UndoFitsOnly DEF Truth
  <2> QED
    BY <2>6, <2>7
<1> QED
  BY <1>2, <1>3, <1>4 DEF Undeploy

LEMMA UnswapTruth ==
  ASSUME Inv, Truth, Unswap
  PROVE  Truth'
<1>1. op.pc = "unswap" /\ op.pc \in UndoPCs /\ op.tx \in Tx
  BY DEF Unswap, UndoPCs, Inv, Wired, TxPCs
<1>2. CASE FaultEnds
  BY <1>1, <1>2, StoppedTruth
<1>3. CASE "swap" \notin op.did /\ Still("unmark")
  <2>1. UNCHANGED <<marker, dirs>> /\ Goto("unmark")
    BY <1>3 DEF Still, persistent
  <2> QED
    BY <1>1, <1>3, <2>1, UndoMoves DEF UndoPCs
<1>4. CASE "swap" \in op.did /\ SetDirs(Move(<<"rollback", op.tx>>, Root), "unmark")
  <2>1. marker' = marker /\ dirs' = Move(RollbackOf, Root) /\ Goto("unmark") /\ "unmark" \in UndoPCs
    BY <1>4 DEF SetDirs, UndoPCs, RollbackOf
  <2>2. /\ op'.pc = "unmark" /\ op'.job = op.job /\ op'.build = op.build /\ op'.did = op.did
        /\ op'.prev = op.prev /\ op'.tx = op.tx
    BY <2>1, GotoType, PlacesTyped DEF PCs
  <2>3. JobFits' /\ PrevFits'
    BY <1>1, <2>1, <2>2, UndoJob, PrevKept
  <2>4. dirs'[Root] = dirs[RollbackOf] /\ dirs'[RollbackOf] = Nothing
    BY <1>1, <2>1, StagingDirs, MoveValue
  <2>5. (Upgrading' <=> Upgrading) /\ (Pending(marker') <=> Pending(marker))
    BY <2>1, <2>2 DEF Upgrading
  <2>6. CASE Upgrading
    <3>1. /\ Interrupted /\ marker.rollback = op.tx
          /\ marker.upVersion = op.prev.version /\ dirs[RollbackOf] # Nothing
      BY <1>1, <1>4, <2>6 DEF Truth, UndoFits
    <3>2. RollbackDir = RollbackOf /\ RollbackDir' = RollbackOf
      BY <2>1, <3>1 DEF RollbackDir, RollbackOf
    <3>3. marker.state # "installed" /\ marker.present
      BY <3>1 DEF Interrupted
    <3>4. marker.upVersion = dirs[RollbackOf] /\ marker.upVersion \in Builds /\ ~HasRollback'
      BY <2>4, <3>1, <3>2 DEF Truth, Recorded, HasRollback
    <3>5. Recorded'
      BY <2>1, <2>4, <3>2, <3>3, <3>4 DEF Recorded
    <3>6. "promote" \in op.did => "swap" \in op.did
      BY <1>4
    <3>7. UndoFits'
      BY <2>2, <2>4, <2>5, <2>6, <3>1, <3>4, <3>6 DEF UndoFits
    <3> QED
      BY <2>1, <2>2, <2>3, <3>5, <3>7, UndoFitsOnly DEF Truth
  <2>7. CASE ~Upgrading
    <3>1. ~Pending(marker) /\ marker.state # "installed"
      BY <1>1, <2>7 DEF Truth, UndoFits
    <3>2. UndoFits'
      BY <2>1, <2>2, <2>5, <2>7, <3>1 DEF UndoFits
    <3>3. Recorded'
      BY <2>1, <3>1, RecordedNothing DEF Truth, Recorded
    <3> QED
      BY <2>1, <2>2, <2>3, <3>2, <3>3, UndoFitsOnly DEF Truth
  <2> QED
    BY <2>6, <2>7
<1> QED
  BY <1>2, <1>3, <1>4 DEF Unswap

LEMMA UnmarkTruth ==
  ASSUME Inv, Truth, Unmark
  PROVE  Truth'
<1>1. op.pc = "unmark" /\ op.pc \in UndoPCs /\ op.tx \in Tx
  BY DEF Unmark, UndoPCs, Inv, Wired, TxPCs
<1>2. CASE FaultEnds
  BY <1>1, <1>2, StoppedTruth
<1>3. CASE /\ Drop({StagingDir}) /\ Upgrading /\ marker' = marker
           /\ op' = [op EXCEPT !.pc = "restore", !.at = 1, !.want = op.prev, !.then = "idle"]
  <2>1. /\ op'.pc = "restore" /\ op'.at = 1 /\ op'.want = op.prev /\ op'.job = op.job
        /\ op'.build = op.build /\ op'.then = "idle"
    BY <1>3, PlacesTyped DEF Ops
  <2>2. dirs[Root] = op.prev.version /\ op.prev.state = "installed" /\ op.prev.version \in Builds
    BY <1>1, <1>3 DEF Truth, UndoFits, PrevFits
  <2>3. dirs'[Root] = dirs[Root]
    BY <1>1, <1>3, StagingDirs, DropValue
  <2>4. Pending(marker) => dirs'[RollbackDir] = dirs[RollbackDir]
    <3> SUFFICES ASSUME Pending(marker) PROVE dirs'[RollbackDir] = dirs[RollbackDir]
      OBVIOUS
    <3>1. RollbackDir \in DirNames
      BY TxDirs DEF RollbackDir, Inv, Wired
    <3>2. RollbackDir # StagingDir
      BY DEF RollbackDir, StagingDir
    <3> QED
      BY <1>3, <3>1, <3>2, DropValue
  <2>5. Recorded'
    BY <1>3, <2>3, <2>4, RecordedSame DEF Truth
  <2>6. RestoreFits'
    BY <2>1, <2>2, <2>3 DEF RestoreFits
  <2>7. JobFits'
    BY <1>1, <2>1, JumpJob DEF PCs, AtRest, Unbegun, InstallPCs
  <2> QED
    BY <2>1, <2>5, <2>6, <2>7, RestFitsOnly DEF Truth
<1>4. CASE marker' = NoMarker /\ op' = Idle
  BY <1>4, RecordedNothing, EndTruth
<1> QED
  BY <1>2, <1>3, <1>4 DEF Unmark

-----------------------------------------------------------------------------
(* Removing.                                                                *)

\* A marker with a state is there.
LEMMA StatedPresent ==
  ASSUME Recorded, marker.state = "removing"
  PROVE  marker.present
<1>1. NoMarker.state # "removing"
  BY DEF NoMarker
<1> QED
  BY <1>1 DEF Recorded

\* A jump inside the removal.
LEMMA RemovalJob ==
  ASSUME Inv, Truth, op.pc \in {"judge", "markPath", "markState", "retire", "restoreUser"},
         op'.pc \in {"markPath", "markState", "retire", "restoreUser", "unretire", "forget"},
         op'.job = op.job, op'.build = op.build, ~Pending(marker')
  PROVE  JobFits'
<1>1. op'.pc \in PCs
  BY DEF PCs
<1> QED
  BY <1>1, JumpJob DEF Unbegun, InstallPCs

\* The one read of AutoRun of a removal, and where it goes on.
LEMMA JudgeTruth ==
  ASSUME Inv, Truth, Judge
  PROVE  Truth'
<1>1. op.pc = "judge" /\ ~Pending(marker) /\ op.did = {}
  BY DEF Judge, Truth, JobFits, AtRest, Unbegun
<1>2. CASE Still(UninstallDone)
  <2>1. UninstallDone \in {"strip", "prune"} /\ (UninstallDone = "strip" => op.job = "repair")
    BY DEF UninstallDone
  <2>2. UninstallDone \in Outer
    BY <2>1 DEF Outer, PCs, InstallPCs, UndoPCs
  <2> QED
    BY <1>1, <1>2, <2>1, <2>2, MovesOn
<1>3. CASE Refuse("unknown") \/ Refuse("changed")
  BY <1>1, <1>3, StoppedTruth DEF Results
<1>4. ASSUME UNCHANGED <<marker, dirs>>, marker.present,
             op'.pc \in {"markPath", "restoreUser"}, op'.job = op.job, op'.build = op.build,
             op'.pc = "restoreUser" => op'.did = {} \/ marker.state = "removing"
      PROVE  Truth'
  <2>1. ~Pending(marker')
    BY <1>1, <1>4
  <2>2. JobFits'
    BY <1>1, <1>4, <2>1, RemovalJob
  <2>3. RemovalFits'
    BY <1>4 DEF RemovalFits
  <2> QED
    BY <1>4, <2>2, <2>3, RestFitsOnly, Unwritten DEF Truth
<1>5. CASE /\ UNCHANGED persistent /\ marker.present /\ marker.state = "removing"
           /\ op' = [op EXCEPT !.pc = "restoreUser", !.tx = marker.removal,
                       !.did = IF dirs[<<"removing", marker.removal>>] # Nothing
                               THEN {"retire"} ELSE {}]
  <2>1. op'.pc = "restoreUser" /\ op'.job = op.job /\ op'.build = op.build
    BY <1>5, PlacesTyped DEF Ops
  <2> QED
    BY <1>4, <1>5, <2>1 DEF persistent
<1>6. CASE /\ UNCHANGED persistent /\ marker.present /\ op' = [op EXCEPT !.pc = "restoreUser"]
  <2>1. op'.pc = "restoreUser" /\ op'.job = op.job /\ op'.build = op.build /\ op'.did = op.did
    BY <1>6, PlacesTyped DEF Ops
  <2> QED
    BY <1>1, <1>4, <1>6, <2>1 DEF persistent
<1>7. ASSUME UNCHANGED persistent, marker.present, NEW t \in Tx,
             op' = [op EXCEPT !.pc = "markPath", !.tx = t]
      PROVE  Truth'
  <2>1. op'.pc = "markPath" /\ op'.job = op.job /\ op'.build = op.build
    BY <1>7, PlacesTyped DEF Ops
  <2> QED
    BY <1>4, <1>7, <2>1 DEF persistent
<1> QED
  BY <1>2, <1>3, <1>5, <1>6, <1>7 DEF Judge

\* The removal is recorded before the payload moves.
LEMMA MarkTruth ==
  ASSUME Inv, Truth, MarkPath \/ MarkState
  PROVE  Truth'
<1>1. op.pc \in {"markPath", "markState"} /\ ~Pending(marker) /\ marker.present
      /\ marker \in Markers /\ op.pc # "idle"
  BY PlacesTyped DEF MarkPath, MarkState, Truth, JobFits, AtRest, RemovalFits
<1>2. CASE RefuseFault
  BY <1>1, <1>2, StoppedTruth
<1>3. CASE MarkPath /\ ~RefuseFault
  <2>1. /\ marker' = [marker EXCEPT !.removal = op.tx] /\ dirs' = dirs /\ Goto("markState")
        /\ op.pc = "markPath"
    BY <1>3 DEF MarkPath, SetMarker
  <2>2. /\ marker'.present = marker.present /\ marker'.state = marker.state
        /\ marker'.version = marker.version /\ marker'.upPending = marker.upPending
        /\ marker'.upVersion = marker.upVersion
    BY <1>1, <2>1 DEF Markers
  <2>3. op'.pc = "markState" /\ op'.job = op.job /\ op'.build = op.build
    BY <2>1, GotoType, PlacesTyped DEF PCs
  <2>4. ~Pending(marker') /\ marker'.present
    BY <1>1, <2>2 DEF Pending
  <2>5. Recorded'
    BY <2>1, <2>2, <2>4 DEF Recorded, Interrupted, Truth
  <2>6. JobFits'
    BY <2>1, <2>3, <2>4, RemovalJob
  <2>7. RemovalFits'
    BY <2>3, <2>4 DEF RemovalFits
  <2> QED
    BY <2>3, <2>5, <2>6, <2>7, RestFitsOnly DEF Truth
<1>4. CASE MarkState /\ ~RefuseFault
  <2>1. /\ marker' = [marker EXCEPT !.state = "removing"] /\ dirs' = dirs /\ Goto("retire")
        /\ op.pc = "markState"
    BY <1>4 DEF MarkState, SetMarker
  <2>2. /\ marker'.present = marker.present /\ marker'.state = "removing"
        /\ marker'.upPending = marker.upPending /\ marker'.upVersion = marker.upVersion
    BY <1>1, <2>1 DEF Markers
  <2>3. op'.pc = "retire" /\ op'.job = op.job /\ op'.build = op.build
    BY <2>1, GotoType, PlacesTyped DEF PCs
  <2>4. ~Pending(marker') /\ marker'.present
    BY <1>1, <2>2 DEF Pending
  <2>5. Recorded'
    BY <2>2, <2>4, RecordedNothing
  <2>6. JobFits'
    BY <2>1, <2>3, <2>4, RemovalJob
  <2>7. RemovalFits'
    BY <2>2, <2>3 DEF RemovalFits
  <2> QED
    BY <2>3, <2>5, <2>6, <2>7, RestFitsOnly DEF Truth
<1> QED
  BY <1>1, <1>2, <1>3, <1>4

LEMMA RetireTruth ==
  ASSUME Inv, Truth, Retire
  PROVE  Truth'
<1>1. /\ op.pc = "retire" /\ op.pc # "idle" /\ ~Pending(marker) /\ marker.state = "removing"
      /\ marker.present
  BY StatedPresent DEF Retire, Truth, JobFits, AtRest, RemovalFits
<1>2. CASE RefuseFault
  BY <1>1, <1>2, StoppedTruth
<1>3. CASE /\ op' = [op EXCEPT !.pc = "restoreUser", !.did = {"retire"}] /\ marker' = marker
  <2>1. op'.pc = "restoreUser" /\ op'.job = op.job /\ op'.build = op.build
    BY <1>3, PlacesTyped DEF Ops
  <2>2. ~Pending(marker') /\ marker'.present /\ marker'.state = "removing"
    BY <1>1, <1>3
  <2>3. JobFits'
    BY <1>1, <2>1, <2>2, RemovalJob
  <2>4. RemovalFits'
    BY <2>1, <2>2 DEF RemovalFits
  <2>5. Recorded'
    BY <2>2, RecordedNothing
  <2> QED
    BY <2>1, <2>3, <2>4, <2>5, RestFitsOnly DEF Truth
<1> QED
  BY <1>2, <1>3 DEF Retire

LEMMA RestoreUserTruth ==
  ASSUME Inv, Truth, RestoreUser
  PROVE  Truth'
<1>1. /\ op.pc = "restoreUser" /\ op.pc # "idle" /\ ~Pending(marker)
      /\ "retire" \in op.did => marker.state = "removing"
  BY DEF RestoreUser, Truth, JobFits, AtRest, RemovalFits
<1>2. CASE RefuseFault
  BY <1>1, <1>2, StoppedTruth
<1>3. CASE SetAutoRun(Original, "forget")
  <2>1. UNCHANGED <<marker, dirs>> /\ Goto("forget")
    BY <1>3 DEF SetAutoRun
  <2>2. "forget" \in Outer
    BY DEF Outer, PCs, InstallPCs, UndoPCs
  <2>3. op'.pc = "forget" /\ ~Pending(marker')
    BY <1>1, <2>1, GotoType, PlacesTyped DEF PCs
  <2>4. ~Unbegun'
    BY <2>3 DEF Unbegun
  <2> QED
    BY <1>1, <2>1, <2>2, <2>3, <2>4, JumpOuter, Unwritten
<1>4. CASE PutPayloadBack /\ Fault("unretire")
  <2>1. UNCHANGED <<marker, dirs>> /\ Goto("unretire") /\ marker.state = "removing"
    BY <1>1, <1>4 DEF Fault, persistent, PutPayloadBack
  <2>2. op'.pc = "unretire" /\ op'.job = op.job /\ op'.build = op.build
    BY <2>1, GotoType, PlacesTyped DEF PCs
  <2>3. ~Pending(marker')
    BY <1>1, <2>1
  <2>4. JobFits'
    BY <1>1, <2>2, <2>3, RemovalJob
  <2>5. RemovalFits'
    BY <2>1, <2>2 DEF RemovalFits
  <2> QED
    BY <2>1, <2>2, <2>4, <2>5, RestFitsOnly, Unwritten DEF Truth
<1> QED
  BY <1>2, <1>3, <1>4 DEF RestoreUser

LEMMA UnretireTruth ==
  ASSUME Inv, Truth, Unretire
  PROVE  Truth'
<1>1. /\ op.pc = "unretire" /\ op.pc # "idle" /\ ~Pending(marker)
      /\ marker.state = "removing" /\ marker.present
  BY StatedPresent DEF Unretire, Truth, JobFits, AtRest, RemovalFits
<1>2. CASE RefuseFault
  BY <1>1, <1>2, StoppedTruth
<1>3. CASE Return("failed") /\ marker' = marker
  <2>1. Recorded'
    BY <1>1, <1>3, RecordedNothing
  <2> QED
    BY <1>1, <1>3, <2>1, ReturnTruth
<1> QED
  BY <1>2, <1>3 DEF Unretire

LEMMA ForgetTruth ==
  ASSUME Inv, Truth, Forget
  PROVE  Truth'
<1>1. op.pc = "forget" /\ op.pc # "idle"
  BY DEF Forget
<1>2. CASE RefuseFault
  BY <1>1, <1>2, StoppedTruth
<1>3. CASE marker' = NoMarker /\ Goto(UninstallDone)
  <2>1. UninstallDone \in {"strip", "prune"} /\ (UninstallDone = "strip" => op.job = "repair")
    BY DEF UninstallDone
  <2>2. UninstallDone \in Outer /\ UninstallDone \in PCs
    BY <2>1 DEF Outer, PCs, InstallPCs, UndoPCs
  <2>3. op'.pc \in {"strip", "prune"}
    BY <1>3, <2>1, <2>2, GotoType, PlacesTyped
  <2>4. ~AtRest' /\ ~Unbegun'
    BY <2>3 DEF AtRest, Unbegun
  <2> QED
    BY <1>1, <1>3, <2>1, <2>2, <2>4, JumpOuter, RecordedNothing
<1> QED
  BY <1>2, <1>3 DEF Forget

-----------------------------------------------------------------------------
(* Stripping, burying, sweeping.                                            *)

LEMMA StripTruth ==
  ASSUME Inv, Truth, StripRead \/ StripWrite
  PROVE  Truth'
<1>1. op.pc \in {"strip", "stripWrite"} /\ op.pc # "idle" /\ op.job \in {"repair", "orphan"}
  BY DEF StripRead, StripWrite, Truth, JobFits
<1>2. /\ AfterStrip \in {"wipe", "repaired"} /\ (AfterStrip = "repaired" => op.job = "repair")
  BY <1>1 DEF AfterStrip
<1>3. AfterStrip \in Outer /\ AfterStrip \in PCs
  BY <1>2 DEF Outer, PCs, InstallPCs, UndoPCs
<1>4. CASE Goto(AfterStrip) /\ UNCHANGED <<marker, dirs>>
  <2>1. op'.pc \in {"wipe", "repaired"}
    BY <1>2, <1>3, <1>4, GotoType, PlacesTyped
  <2>2. ~AtRest' /\ ~Unbegun'
    BY <2>1 DEF AtRest, Unbegun
  <2> QED
    BY <1>1, <1>2, <1>3, <1>4, <2>2, JumpOuter, Unwritten
<1>5. CASE op' = [op EXCEPT !.pc = "stripWrite", !.seen = autorun] /\ UNCHANGED persistent
  <2>1. op'.pc = "stripWrite" /\ op'.job = op.job /\ op'.build = op.build
    BY <1>5, PlacesTyped DEF Ops
  <2>2. "stripWrite" \in Outer /\ "stripWrite" \in PCs
    BY DEF Outer, PCs, InstallPCs, UndoPCs
  <2>3. JobFits'
    BY <1>1, <2>1, <2>2, JumpJob DEF AtRest, Unbegun, InstallPCs
  <2> QED
    BY <1>5, <2>1, <2>2, <2>3, OuterFits, Unwritten DEF Truth, persistent
<1> QED
  BY <1>4, <1>5 DEF StripRead, StripWrite, Still, SetAutoRun, Fault, persistent

LEMMA WipeTruth ==
  ASSUME Inv, Truth, Wipe \/ Bury
  PROVE  Truth'
<1>1. CASE Wipe
  <2>1. op.pc = "wipe" /\ op.pc # "idle" /\ marker' = NoMarker /\ Goto("bury")
    BY <1>1 DEF Wipe, SetMarker
  <2>2. "bury" \in Outer /\ op'.pc = "bury"
    BY <2>1, GotoType, PlacesTyped DEF Outer, PCs, InstallPCs, UndoPCs
  <2>3. ~AtRest' /\ ~Unbegun' /\ ~NoMarker.present
    BY <2>2 DEF AtRest, Unbegun, NoMarker
  <2> QED
    BY <2>1, <2>2, <2>3, JumpOuter, RecordedNothing
<1>2. CASE Bury
  <2>1. ~marker.present /\ marker' = marker /\ op' = Idle
    BY <1>2 DEF Bury, Truth, JobFits
  <2>2. Recorded'
    BY <2>1, RecordedNothing DEF Truth, Recorded
  <2> QED
    BY <2>1, <2>2, EndTruth
<1> QED
  BY <1>1, <1>2

LEMMA PruneTruth ==
  ASSUME Inv, Truth, Prune
  PROVE  Truth'
<1>1. /\ op.pc = "prune" /\ UNCHANGED <<marker, dirs>>
      /\ op' = [op EXCEPT !.pc = "recover", !.then = "sweep", !.at = 1]
  BY DEF Prune, persistent
<1>2. op'.pc = "recover" /\ op'.then = "sweep" /\ op'.job = op.job /\ op'.build = op.build
  BY <1>1, PlacesTyped DEF Ops
<1>3. "recover" \in Outer /\ "recover" \in PCs
  BY DEF Outer, PCs, InstallPCs, UndoPCs
<1>4. JobFits'
  BY <1>1, <1>2, <1>3, JumpJob DEF AtRest, Unbegun, InstallPCs
<1> QED
  BY <1>1, <1>2, <1>3, <1>4, OuterFits, Unwritten DEF Truth

\* The sweep spares what a marker names (active_upgrade_paths).
LEMMA SweepTruth ==
  ASSUME Inv, Truth, Sweep
  PROVE  Truth'
<1>1. /\ op.pc = "sweep" /\ op.pc # "idle" /\ marker' = marker
      /\ Drop(DirNames \ (Protected \cup {Root}))
  BY DEF Sweep
<1>2. dirs'[Root] = dirs[Root]
  BY <1>1, DropValue, Constants
<1>3. Pending(marker) => dirs'[RollbackDir] = dirs[RollbackDir]
  <2> SUFFICES ASSUME Pending(marker) PROVE dirs'[RollbackDir] = dirs[RollbackDir]
    OBVIOUS
  <2>1. RollbackDir \in DirNames
    BY TxDirs DEF RollbackDir, Inv, Wired
  <2>2. RollbackDir \in Protected
    BY DEF RollbackDir, Protected
  <2> QED
    BY <1>1, <2>1, <2>2, DropValue
<1>4. Recorded'
  BY <1>1, <1>2, <1>3, RecordedSame DEF Truth
<1>5. CASE op.job = "orphan" /\ Goto("strip")
  <2>1. "strip" \in Outer /\ op'.pc = "strip"
    BY <1>5, GotoType, PlacesTyped DEF Outer, PCs, InstallPCs, UndoPCs
  <2>2. ~AtRest' /\ ~Unbegun'
    BY <2>1 DEF AtRest, Unbegun
  <2> QED
    BY <1>1, <1>4, <1>5, <2>1, <2>2, JumpOuter
<1>6. CASE op' = Idle
  BY <1>4, <1>6, EndTruth
<1> QED
  BY <1>5, <1>6 DEF Sweep

\* A step that leaves command, marker and directories as they are.
LEMMA SameTruth ==
  ASSUME Truth, UNCHANGED <<op, marker, dirs>>
  PROVE  Truth'
<1>1. Recorded'
  BY Unwritten
<1>2. JobFits' /\ PrevFits'
  BY DEF Truth, JobFits, PrevFits, AtRest, Unbegun, Upgrading
<1>3. StageFits'
  BY DEF Truth, StageFits, Upgrading, RollbackOf, StagingDir
<1>4. PublishFits' /\ CommitFits'
  BY DEF Truth, PublishFits, CommitFits, Upgrading
<1>5. UndoFits'
  BY DEF Truth, UndoFits, Upgrading, Interrupted, RollbackOf
<1>6. RestoreFits' /\ RemovalFits'
  BY DEF Truth, RestoreFits, RemovalFits
<1> QED
  BY <1>1, <1>2, <1>3, <1>4, <1>5, <1>6 DEF Truth

LEMMA EnvironmentTruth ==
  ASSUME Inv, Truth, Crash \/ Edit \/ Product \/ UNCHANGED vars
  PROVE  Truth'
<1>1. CASE Crash
  <2>1. UNCHANGED <<marker, dirs>> /\ op' = Idle
    BY <1>1 DEF Crash, persistent
  <2> QED
    BY <2>1, Unwritten, EndTruth
<1>2. CASE Edit \/ Product \/ UNCHANGED vars
  BY <1>2, SameTruth DEF Edit, Product, vars, persistent
<1> QED
  BY <1>1, <1>2

-----------------------------------------------------------------------------
LEMMA InitTruth == Init => Truth
<1> SUFFICES ASSUME Init PROVE Truth
  OBVIOUS
<1>1. marker = NoMarker /\ op = Idle
  BY DEF Init
<1>2. /\ ~NoMarker.present /\ NoMarker.state # "installed" /\ Idle.pc = "idle"
  BY DEF NoMarker, Idle
<1>3. Recorded
  BY <1>1, <1>2 DEF Recorded, Interrupted
<1>4. op.pc = "idle"
  BY <1>1, <1>2
<1>5. JobFits /\ PrevFits
  BY <1>4 DEF JobFits, PrevFits, AtRest, Unbegun, InstallPCs, UndoPCs
<1>6. StageFits /\ PublishFits /\ CommitFits
  BY <1>4 DEF StageFits, PublishFits, CommitFits
<1>7. UndoFits /\ RestoreFits /\ RemovalFits
  BY <1>4 DEF UndoFits, RestoreFits, RemovalFits, UndoPCs
<1> QED
  BY <1>3, <1>5, <1>6, <1>7 DEF Truth

LEMMA NextTruth == Inv /\ Truth /\ [Next]_vars => Truth'
<1> SUFFICES ASSUME Inv, Truth, [Next]_vars PROVE Truth'
  OBVIOUS
<1>1. CASE \E job \in Jobs : Start(job)
  BY <1>1, StartTruth
<1>2. CASE Recovery
  BY <1>2, RecoverNothingTruth, RecoverCommittedTruth, RecoverPayloadTruth,
     RecoverMarkerTruth, RestoreTruth, CleanupTruth DEF Recovery
<1>3. CASE Dispatch
  BY <1>3, DispatchTruth
<1>4. CASE Install
  BY <1>4, BeginTruth, StageTruth, SnapshotTruth, RefuseUpgradeTruth, PublishTruth,
     SwapTruth, PromoteTruth, CheckTruth, CommitTruth, DiscardTruth DEF Install
<1>5. CASE Undo
  BY <1>5, UnhookTruth, UndeployTruth, UnswapTruth, UnmarkTruth DEF Undo
<1>6. CASE Uninstall
  BY <1>6, JudgeTruth, MarkTruth, RetireTruth, RestoreUserTruth, UnretireTruth,
     ForgetTruth DEF Uninstall
<1>7. CASE Hygiene
  BY <1>7, StripTruth, WipeTruth, PruneTruth, SweepTruth DEF Hygiene
<1>8. CASE Crash \/ Edit \/ Product \/ UNCHANGED vars
  BY <1>8, EnvironmentTruth
<1> QED
  BY <1>1, <1>2, <1>3, <1>4, <1>5, <1>6, <1>7, <1>8 DEF Next

\* At every instant of every sequence of commands, crashes, failed calls and
\* edits: the marker that says "installed" has the payload it names under the
\* live root, and an interrupted upgrade finds the payload it replaces whole
\* where recover_upgrade looks for it.
THEOREM MarkerStaysTrue == Spec => []MarkerTruthful
<1>1. Recorded => MarkerTruthful
  <2> SUFFICES ASSUME Recorded PROVE MarkerTruthful
    OBVIOUS
  <2>1. InstalledMeansDeployed
    BY DEF Recorded, InstalledMeansDeployed
  <2>2. UpgradeRecoverable
    <3>1. CASE HasRollback
      BY <3>1 DEF Recorded, UpgradeRecoverable
    <3>2. CASE ~HasRollback
      BY <3>2 DEF Recorded, UpgradeRecoverable
    <3> QED
      BY <3>1, <3>2
  <2> QED
    BY <2>1, <2>2 DEF MarkerTruthful
<1>2. Truth => Recorded
  BY DEF Truth
<1> QED
  BY <1>1, <1>2, InitInv, NextInv, InitTruth, NextTruth, PTL DEF Spec

-----------------------------------------------------------------------------
(***************************************************************************)
(* Which kind of command can be where.  An undo finds the marker once it   *)
(* has something to revert, and a repair that strips knows that the        *)
(* payload is gone: Truth says nothing of either.                          *)
(***************************************************************************)

\* Where each kind of command can be, and what it has left of the marker there.
Paths ==
  /\ op.job = "orphan" =>
       /\ op.then # "prune" /\ op.pc \notin {"discard", "pruneTree"}
       /\ op.pc \in {"restore", "cleanup"} /\ op.then = "sweep" => last # "none"
       /\ op.pc \in {"prune", "sweep"} \/ (op.pc = "recover" /\ op.then = "sweep") =>
            (last = "none" => ~marker.present)
  /\ op.pc \in {"strip", "stripWrite"} =>
       /\ op.job = "repair" => ~Pending(marker)
       /\ op.job = "orphan" => ~marker.present
  /\ op.pc = "stripWrite" /\ op.job = "repair" => dirs[Root] = Nothing
  /\ op.pc = "restoreUser" => marker.state # "installed"
  /\ op.pc \in UndoPCs /\ op.did # {} => marker.present

\* Places of which Paths says nothing.
Plain == PCs \ (UndoPCs \cup {"discard", "pruneTree", "restore", "cleanup", "prune",
                "sweep", "recover", "strip", "stripWrite", "restoreUser"})

LEMMA PathsIdle ==
  ASSUME op' = Idle
  PROVE  Paths'
<1>1. op'.pc = "idle" /\ op'.job = "enable"
  BY DEF Idle
<1> QED
  BY <1>1 DEF Paths, UndoPCs

LEMMA PathsPlain ==
  ASSUME Paths, op'.pc \in Plain, op'.job = op.job, op'.then = op.then
  PROVE  Paths'
BY DEF Paths, Plain

\* A jump by Goto keeps the kind of command and the way back.
LEMMA PathsGoto ==
  ASSUME Inv, Paths, NEW p \in Plain, Goto(p)
  PROVE  Paths'
<1>1. p \in PCs
  BY DEF Plain
<1> QED
  BY <1>1, GotoType, PlacesTyped, PathsPlain

LEMMA PathsReturn ==
  ASSUME Inv, Paths, NEW r, r # "none", Return(r), ~Pending(marker')
  PROVE  Paths'
<1>1. CASE op' = Idle
  BY <1>1, PathsIdle
<1>2. CASE op.job = "repair" /\ Goto("strip")
  <2>1. op'.pc = "strip" /\ op'.job = "repair"
    BY <1>2, GotoType, PlacesTyped DEF PCs
  <2> QED
    BY <2>1 DEF Paths, UndoPCs
<1>3. CASE op.job = "orphan" /\ Goto("prune") /\ last' = r
  <2>1. op'.pc = "prune" /\ op'.job = "orphan" /\ op'.then = op.then
    BY <1>3, GotoType, PlacesTyped DEF PCs
  <2> QED
    BY <1>3, <2>1 DEF Paths, UndoPCs
<1> QED
  BY <1>1, <1>2, <1>3 DEF Return

LEMMA PathsStopped ==
  ASSUME Inv, Paths, op.pc # "idle",
         \/ FaultEnds
         \/ \E r \in Results : Finish(r)
         \/ ~Pending(marker) /\ (RefuseFault \/ Refuse("unknown") \/ Refuse("changed"))
  PROVE  Paths'
<1>1. CASE FaultEnds \/ \E r \in Results : Finish(r)
  BY <1>1, PathsIdle DEF FaultEnds, Finish
<1>2. CASE ~Pending(marker) /\ (RefuseFault \/ Refuse("unknown") \/ Refuse("changed"))
  <2>1. marker' = marker /\ \E r : r # "none" /\ Return(r)
    BY <1>2 DEF RefuseFault, Refuse, persistent
  <2>2. ~Pending(marker')
    BY <1>2, <2>1
  <2> QED
    BY <2>1, <2>2, PathsReturn
<1> QED
  BY <1>1, <1>2

LEMMA RecoverPaths ==
  ASSUME Inv, Truth, Paths, Recovery
  PROVE  Paths'
<1>1. CASE RecoverNothing
  <2>1. op.pc = "recover" /\ Goto(op.then) /\ marker' = marker /\ last' = last
    BY <1>1 DEF RecoverNothing, Still, Quiet, persistent
  <2>2. op.then \in {"idle", "dispatch", "prune", "sweep"} /\ op.then \in PCs
    BY DEF Inv, Wired, PCs
  <2>3. op'.pc = op.then /\ op'.job = op.job /\ op'.then = op.then
    BY <2>1, <2>2, GotoType, PlacesTyped
  <2> QED
    BY <2>1, <2>2, <2>3 DEF Paths, UndoPCs
<1>2. CASE RecoverCommitted
  <2>1. op.pc = "recover" /\ Goto("cleanup") /\ marker' = marker /\ last' = last
        /\ marker.present
    BY <1>2 DEF RecoverCommitted, Still, Quiet, persistent
  <2>2. op'.pc = "cleanup" /\ op'.job = op.job /\ op'.then = op.then
    BY <2>1, GotoType, PlacesTyped DEF PCs
  <2> QED
    BY <2>1, <2>2 DEF Paths, UndoPCs
<1>3. CASE RecoverPayload
  <2>1. CASE FaultEnds
    BY <2>1, PathsIdle DEF FaultEnds
  <2>2. CASE ~FaultEnds
    <3>1. op.pc = "recover" /\ Goto("recover") /\ marker' = marker /\ last' = last
      BY <1>3, <2>2 DEF RecoverPayload, SetDirs, Quiet
    <3>2. op'.pc = "recover" /\ op'.job = op.job /\ op'.then = op.then
      BY <3>1, GotoType, PlacesTyped DEF PCs
    <3> QED
      BY <3>1, <3>2 DEF Paths, UndoPCs
  <2> QED
    BY <2>1, <2>2
<1>4. CASE RecoverMarker
  <2>1. /\ op.pc = "recover" /\ marker.present /\ marker' = marker /\ last' = last
        /\ op' = [op EXCEPT !.pc = "restore", !.at = 1,
                    !.want = [marker EXCEPT !.version = marker.upVersion,
                                            !.state = "installed"]]
    BY <1>4 DEF RecoverMarker, Interrupted
  <2>2. op'.pc = "restore" /\ op'.job = op.job /\ op'.then = op.then
    BY <2>1, PlacesTyped DEF Ops
  <2> QED
    BY <2>1, <2>2 DEF Paths, UndoPCs
<1>5. CASE Restore
  <2>1. CASE FaultEnds
    BY <2>1, PathsIdle DEF FaultEnds
  <2>2. CASE PutEach(RestoreSeq, op.want, "cleanup")
    <3>1. op.pc = "restore" /\ op.at \in 1..6 /\ last' = last /\ Len(RestoreSeq) = 6
      BY <1>5, <2>2, SeqFields DEF Restore, Inv, TypeOK, Wired, Ops, PutEach, Quiet
    <3>2. op'.pc \in {"restore", "cleanup"} /\ op'.job = op.job /\ op'.then = op.then
      BY <2>2, <3>1, PutEachMoves DEF PCs
    <3> QED
      BY <3>1, <3>2 DEF Paths, UndoPCs
  <2> QED
    BY <1>5, <2>1, <2>2 DEF Restore
<1>6. CASE Cleanup
  <2>1. op.pc = "cleanup" /\ op.at \in 1..4 /\ Len(CleanupSeq) = 4
        /\ op.then \in {"idle", "dispatch", "prune", "sweep"}
    BY <1>6, SeqFields, PlacesTyped DEF Cleanup, Inv, Wired
  <2>2. CASE FaultEnds \/ op' = Idle
    BY <2>2, PathsIdle DEF FaultEnds
  <2>3. CASE op.then = "prune" /\ Fault("prune")
    <3>1. op'.pc = "prune" /\ op'.job = op.job /\ op'.then = op.then
      BY <2>3, GotoType, PlacesTyped DEF Fault, PCs
    <3> QED
      BY <2>3, <3>1 DEF Paths, UndoPCs
  <2>4. ASSUME NEW p \in {"cleanup", op.then}, PutEach(CleanupSeq, NoMarker, p)
        PROVE  Paths'
    <3>1. last' = last /\ p \in PCs
      BY <2>1, <2>4 DEF PutEach, Quiet, PCs
    <3>2. op'.pc \in {"cleanup", op.then} /\ op'.job = op.job /\ op'.then = op.then
      BY <2>1, <2>4, <3>1, PutEachMoves DEF PCs
    <3> QED
      BY <2>1, <3>1, <3>2 DEF Paths, UndoPCs
  <2> QED
    BY <1>6, <2>1, <2>2, <2>3, <2>4 DEF Cleanup
<1> QED
  BY <1>1, <1>2, <1>3, <1>4, <1>5, <1>6 DEF Recovery

LEMMA DispatchPaths ==
  ASSUME Inv, Truth, Paths, Dispatch
  PROVE  Paths'
<1>1. op.pc # "idle"
  BY DEF Dispatch, DispatchEnable, DispatchDisable, DispatchRepair, DispatchOrphan,
     Repaired, PruneTree
<1>2. {"judge", "begin", "repaired"} \subseteq Plain
  BY DEF Plain, PCs, UndoPCs
<1>3. CASE op.job # "orphan" /\ \E p \in {"prune", "pruneTree"} : Goto(p)
  <2>1. op'.pc \in {"prune", "pruneTree"} /\ op'.job = op.job
    BY <1>3, GotoType, PlacesTyped DEF PCs
  <2> QED
    BY <1>3, <2>1 DEF Paths, UndoPCs
<1>4. CASE \E p \in {"judge", "begin", "repaired"} : Goto(p)
  BY <1>2, <1>4, PathsGoto
<1>5. CASE DispatchEnable
  BY <1>3, <1>4, <1>5 DEF DispatchEnable, Still
<1>6. CASE DispatchDisable
  BY <1>4, <1>6 DEF DispatchDisable, Still
<1>7. CASE DispatchRepair
  <2>1. CASE Still("strip")
    <3>1. op'.pc = "strip" /\ op'.job = "repair" /\ marker' = marker /\ op.pc = "dispatch"
      BY <1>7, <2>1, GotoType, PlacesTyped DEF DispatchRepair, Still, PCs, persistent
    <3>2. ~Pending(marker')
      BY <3>1 DEF Truth, JobFits, AtRest
    <3> QED
      BY <3>1, <3>2 DEF Paths, UndoPCs
  <2> QED
    BY <1>4, <1>7, <2>1 DEF DispatchRepair, Still
<1>8. CASE DispatchOrphan
  BY <1>1, <1>4, <1>8, PathsIdle DEF DispatchOrphan, Still, Finish
<1>9. CASE Repaired
  <2>1. op.job # "orphan"
    BY <1>9 DEF Repaired, Truth, JobFits
  <2> QED
    BY <1>3, <1>9, <2>1 DEF Repaired, Still
<1>10. CASE PruneTree
  <2>1. op.job # "orphan"
    BY <1>10 DEF PruneTree, Paths
  <2>2. Goto("begin") \/ Goto("prune")
    BY <1>10 DEF PruneTree, Still
  <2> QED
    BY <1>3, <1>4, <2>1, <2>2
<1> QED
  BY <1>5, <1>6, <1>7, <1>8, <1>9, <1>10 DEF Dispatch

\* From the staging to the commit: an undo finds a marker once something is done.
LEMMA InstallPaths ==
  ASSUME Inv, Truth, Paths, Install
  PROVE  Paths'
<1>1. /\ op.pc \in InstallPCs \cup {"discard"} /\ op.pc # "idle"
      /\ op.pc \in InstallPCs => op.job = "enable"
  BY DEF Install, Begin, Stage, Copy, Snapshot, SnapshotUpgrade, RefuseUpgrade, Publish, Swap,
     Promote, Check, Hook, Commit, Discard, InstallPCs, Truth, JobFits
<1>2. /\ InstallPCs \subseteq Plain /\ "discard" \notin InstallPCs
      /\ "unhook" \in PCs /\ "discard" \in PCs /\ InstallPCs \subseteq PCs
  BY DEF InstallPCs, Plain, PCs, UndoPCs
<1>3. CASE op' = Idle
  BY <1>3, PathsIdle
<1>4. CASE op'.pc \in InstallPCs /\ op'.job = op.job /\ op'.then = op.then
  BY <1>2, <1>4, PathsPlain
<1>5. CASE \E p \in InstallPCs : Goto(p)
  <2>1. op'.pc \in InstallPCs /\ op'.job = op.job /\ op'.then = op.then
    BY <1>2, <1>5, GotoType, PlacesTyped
  <2> QED
    BY <1>4, <2>1
<1>6. CASE op.pc \in InstallPCs /\ Goto("unhook") /\ (op.did # {} => marker'.present)
  <2>1. op'.pc = "unhook" /\ op'.job = op.job /\ op'.did = op.did
    BY <1>2, <1>6, GotoType, PlacesTyped
  <2> QED
    BY <1>1, <1>6, <2>1 DEF Paths
<1>7. CASE op.pc \in InstallPCs /\ Goto("discard")
  <2>1. op'.pc = "discard" /\ op'.job = "enable"
    BY <1>1, <1>2, <1>7, GotoType, PlacesTyped
  <2> QED
    BY <2>1 DEF Paths, UndoPCs
<1>8. CASE Begin
  <2>1. ASSUME NEW t \in Tx, op' = [op EXCEPT !.pc = "stage", !.tx = t, !.prev = marker,
                                   !.seen = autorun]
        PROVE  Paths'
    <3>1. op'.pc = "stage" /\ op'.job = op.job /\ op'.then = op.then
      BY <2>1, PlacesTyped DEF Ops
    <3> QED
      BY <1>4, <3>1 DEF InstallPCs
  <2> QED
    BY <1>3, <1>8, <2>1 DEF Begin, Finish
<1>9. CASE Stage \/ Copy
  BY <1>3, <1>5, <1>9 DEF Stage, Copy, SetDirs, FaultEnds, InstallPCs
<1>10. CASE Snapshot \/ SnapshotUpgrade
  <2>1. PICK w : op' = [op EXCEPT !.pc = "publish", !.at = 1, !.want = w]
    BY <1>10 DEF Snapshot, SnapshotUpgrade
  <2>2. op'.pc = "publish" /\ op'.job = op.job /\ op'.then = op.then
    BY <2>1, PlacesTyped DEF Ops
  <2> QED
    BY <1>4, <2>2 DEF InstallPCs
<1>11. CASE RefuseUpgrade
  BY <1>3, <1>11 DEF RefuseUpgrade
<1>12. CASE Publish
  <2>1. op.pc = "publish" /\ op.did = {}
    BY <1>12 DEF Publish, Truth, JobFits, Unbegun
  <2>2. CASE Fault("unhook")
    BY <1>6, <2>1, <2>2 DEF Fault, InstallPCs
  <2>3. CASE PutEach(PublishSeq(Upgrading), op.want, "swap")
    <3>1. CASE op' = [op EXCEPT !.pc = "swap", !.at = 1]
      <4>1. op'.pc = "swap" /\ op'.job = op.job /\ op'.then = op.then
        BY <3>1, PlacesTyped DEF Ops
      <4> QED
        BY <1>4, <4>1 DEF InstallPCs
    <3>2. CASE op' = [op EXCEPT !.at = @ + 1]
      <4>1. op'.pc = "publish" /\ op'.job = op.job /\ op'.then = op.then
        BY <2>1, <3>2, PlacesTyped DEF Ops
      <4> QED
        BY <1>4, <4>1 DEF InstallPCs
    <3> QED
      BY <2>3, <3>1, <3>2 DEF PutEach
  <2> QED
    BY <1>12, <2>2, <2>3 DEF Publish
<1>13. CASE Swap
  <2>1. op.pc = "swap" /\ op.did = {}
    BY <1>13 DEF Swap, Truth, JobFits, Unbegun
  <2>2. CASE Fault("unhook")
    BY <1>6, <2>1, <2>2 DEF Fault, InstallPCs
  <2>3. CASE op' = [op EXCEPT !.pc = "promote", !.did = @ \cup {"swap"}]
    <3>1. op'.pc = "promote" /\ op'.job = op.job /\ op'.then = op.then
      BY <2>3, PlacesTyped DEF Ops
    <3> QED
      BY <1>4, <3>1 DEF InstallPCs
  <2> QED
    BY <1>5, <1>13, <2>2, <2>3 DEF Swap, Still, InstallPCs
<1>14. CASE Promote \/ Check \/ Hook \/ Commit
  <2>1. op.pc \in {"promote", "check", "hook", "commit"} /\ marker.present
    BY <1>14 DEF Promote, Check, Hook, Commit, Truth, CommitFits
  <2>2. CASE marker' = marker /\ Goto("unhook")
    BY <1>6, <2>1, <2>2 DEF InstallPCs
  <2>3. ASSUME NEW p \in {"check", "commit"}, NEW s,
               op' = [op EXCEPT !.pc = p, !.did = @ \cup {s}]
        PROVE  Paths'
    <3>1. op'.pc = p /\ op'.job = op.job /\ op'.then = op.then
      BY <2>3, PlacesTyped DEF Ops
    <3> QED
      BY <1>4, <3>1 DEF InstallPCs
  <2>4. CASE Goto("commit") \/ Goto("hook")
    BY <1>5, <2>4 DEF InstallPCs
  <2>5. CASE Goto("discard")
    BY <1>7, <2>1, <2>5 DEF InstallPCs
  <2>6. CASE Promote
    BY <2>2, <2>3, <2>6 DEF Promote, Fault, persistent
  <2>7. CASE Check
    BY <2>2, <2>4, <2>7 DEF Check, Still, persistent
  <2>8. CASE Hook
    BY <2>2, <2>3, <2>8 DEF Hook, Fault, persistent
  <2>9. CASE Commit
    BY <2>2, <2>5, <2>9 DEF Commit, Fault, SetMarker, persistent
  <2> QED
    BY <1>14, <2>6, <2>7, <2>8, <2>9
<1>15. CASE Discard
  <2>1. op.pc = "discard" /\ op' = [op EXCEPT !.pc = "cleanup", !.at = 1, !.then = "prune"]
    BY <1>15 DEF Discard
  <2>2. op'.pc = "cleanup" /\ op'.job = op.job
    BY <2>1, PlacesTyped DEF Ops
  <2>3. op.job # "orphan"
    BY <2>1 DEF Paths
  <2> QED
    BY <2>2, <2>3 DEF Paths, UndoPCs
<1> QED
  BY <1>8, <1>9, <1>10, <1>11, <1>12, <1>13, <1>14, <1>15 DEF Install

LEMMA UndoPaths ==
  ASSUME Inv, Truth, Paths, Undo
  PROVE  Paths'
<1>1. op.pc \in UndoPCs
  BY DEF Undo, Unhook, UnhookWrite, Undeploy, Unswap, Unmark, UndoPCs
<1>2. CASE op' = Idle
  BY <1>2, PathsIdle
<1>3. CASE marker' = marker /\ \E p \in UndoPCs : Goto(p)
  <2>1. UndoPCs \subseteq PCs
    BY DEF UndoPCs, PCs
  <2>2. op'.pc \in UndoPCs /\ op'.job = op.job /\ op'.then = op.then /\ op'.did = op.did
    BY <1>3, <2>1, GotoType, PlacesTyped
  <2> QED
    BY <1>1, <1>3, <2>2 DEF Paths, UndoPCs
<1>4. CASE op' = [op EXCEPT !.pc = "restore", !.at = 1, !.want = op.prev, !.then = "idle"]
  <2>1. op'.pc = "restore" /\ op'.then = "idle"
    BY <1>4, PlacesTyped DEF Ops
  <2> QED
    BY <2>1 DEF Paths, UndoPCs
<1> QED
  BY <1>2, <1>3, <1>4 DEF Undo, Unhook, UnhookWrite, Undeploy, Unswap, Unmark, Still, Finish,
     FaultEnds, SetAutoRun, SetDirs, persistent, UndoPCs

LEMMA UninstallPaths ==
  ASSUME Inv, Truth, Paths, Uninstall
  PROVE  Paths'
<1>1. op.pc # "idle" /\ ~Pending(marker)
  BY DEF Uninstall, Judge, MarkPath, MarkState, Retire, RestoreUser, Unretire, Forget, Truth,
     JobFits, AtRest
<1>2. CASE RefuseFault \/ Refuse("unknown") \/ Refuse("changed")
  BY <1>1, <1>2, PathsStopped
<1>3. CASE \E p \in {"markState", "retire", "forget", "unretire"} : Goto(p)
  <2>1. {"markState", "retire", "forget", "unretire"} \subseteq Plain
    BY DEF Plain, PCs, UndoPCs
  <2> QED
    BY <1>3, <2>1, PathsGoto
<1>4. CASE Goto(UninstallDone) /\ ~marker'.present /\ ~Pending(marker')
  <2>1. UninstallDone \in {"strip", "prune"} /\ (UninstallDone = "strip" => op.job = "repair")
    BY DEF UninstallDone
  <2>2. UninstallDone \in PCs
    BY <2>1 DEF PCs
  <2>3. /\ op'.pc \in {"strip", "prune"} /\ op'.job = op.job /\ op'.then = op.then
        /\ op'.pc = "strip" => op.job = "repair"
    BY <1>4, <2>1, <2>2, GotoType, PlacesTyped
  <2> QED
    BY <1>4, <2>3 DEF Paths, UndoPCs
<1>5. CASE op'.pc \in {"markPath", "restoreUser"} /\ op'.job = op.job /\ op'.then = op.then
           /\ (op'.pc = "restoreUser" => marker'.state # "installed")
  BY <1>5 DEF Paths, UndoPCs
<1>6. CASE Judge
  <2>1. CASE Still(UninstallDone) /\ ~marker.present
    BY <1>1, <1>4, <2>1 DEF Still, persistent
  <2>2. CASE /\ marker' = marker
             /\ \E d, t : op' = [op EXCEPT !.pc = "restoreUser", !.tx = t, !.did = d]
             /\ marker.state = "removing"
    <3>1. op'.pc = "restoreUser" /\ op'.job = op.job /\ op'.then = op.then
      BY <2>2, PlacesTyped DEF Ops
    <3> QED
      BY <1>5, <2>2, <3>1
  <2>3. CASE marker' = marker /\ op' = [op EXCEPT !.pc = "restoreUser"] /\ dirs[Root] = Nothing
    <3>1. op'.pc = "restoreUser" /\ op'.job = op.job /\ op'.then = op.then
      BY <2>3, PlacesTyped DEF Ops
    <3>2. marker.state # "installed"
      BY <2>3, CmdAssumption DEF Truth, Recorded, Builds, Nothing
    <3> QED
      BY <1>5, <2>3, <3>1, <3>2
  <2>4. ASSUME NEW t \in Tx, op' = [op EXCEPT !.pc = "markPath", !.tx = t]
        PROVE  Paths'
    <3>1. op'.pc = "markPath" /\ op'.job = op.job /\ op'.then = op.then
      BY <2>4, PlacesTyped DEF Ops
    <3> QED
      BY <1>5, <3>1
  <2> QED
    BY <1>2, <1>6, <2>1, <2>2, <2>3, <2>4 DEF Judge, persistent
<1>7. CASE MarkPath \/ MarkState
  BY <1>2, <1>3, <1>7 DEF MarkPath, MarkState, SetMarker
<1>8. CASE Retire
  <2>1. CASE marker' = marker /\ op' = [op EXCEPT !.pc = "restoreUser", !.did = {"retire"}]
    <3>1. op'.pc = "restoreUser" /\ op'.job = op.job /\ op'.then = op.then
      BY <2>1, PlacesTyped DEF Ops
    <3>2. marker.state = "removing"
      BY <1>8 DEF Retire, Truth, RemovalFits
    <3> QED
      BY <1>5, <2>1, <3>1, <3>2
  <2> QED
    BY <1>2, <1>8, <2>1 DEF Retire
<1>9. CASE RestoreUser
  BY <1>2, <1>3, <1>9 DEF RestoreUser, SetAutoRun, Fault
<1>10. CASE Unretire
  <2>1. CASE Return("failed") /\ marker' = marker
    <3>1. ~Pending(marker')
      BY <1>1, <2>1
    <3> QED
      BY <2>1, <3>1, PathsReturn
  <2> QED
    BY <1>2, <1>10, <2>1 DEF Unretire
<1>11. CASE Forget
  <2>1. ~NoMarker.present /\ ~Pending(NoMarker)
    BY DEF NoMarker, Pending
  <2>2. CASE marker' = NoMarker /\ Goto(UninstallDone)
    BY <1>4, <2>1, <2>2
  <2> QED
    BY <1>2, <1>11, <2>2 DEF Forget
<1> QED
  BY <1>6, <1>7, <1>8, <1>9, <1>10, <1>11 DEF Uninstall

LEMMA HygienePaths ==
  ASSUME Inv, Truth, Paths, Hygiene
  PROVE  Paths'
<1>1. {"wipe", "repaired", "bury"} \subseteq Plain
  BY DEF Plain, PCs, UndoPCs
<1>2. CASE StripRead \/ StripWrite
  <2>1. CASE Goto(AfterStrip)
    <3>1. AfterStrip \in {"wipe", "repaired"}
      BY DEF AfterStrip
    <3> QED
      BY <1>1, <2>1, <3>1, PathsGoto
  <2>2. CASE /\ op' = [op EXCEPT !.pc = "stripWrite", !.seen = autorun]
             /\ op.job = "repair" => dirs[Root] = Nothing
             /\ UNCHANGED persistent /\ op.pc = "strip"
    <3>1. op'.pc = "stripWrite" /\ op'.job = op.job /\ op'.then = op.then
      BY <2>2, PlacesTyped DEF Ops
    <3>2. marker' = marker /\ dirs' = dirs
      BY <2>2 DEF persistent
    <3> QED
      BY <2>2, <3>1, <3>2 DEF Paths, UndoPCs
  <2> QED
    BY <1>2, <2>1, <2>2 DEF StripRead, StripWrite, Still, Fault, SetAutoRun
<1>3. CASE Wipe \/ Bury
  BY <1>1, <1>3, PathsGoto, PathsIdle DEF Wipe, Bury, SetMarker
<1>4. CASE Prune
  <2>1. /\ op.pc = "prune" /\ marker' = marker /\ last' = last
        /\ op' = [op EXCEPT !.pc = "recover", !.then = "sweep", !.at = 1]
    BY <1>4 DEF Prune, Quiet, persistent
  <2>2. op'.pc = "recover" /\ op'.then = "sweep" /\ op'.job = op.job
    BY <2>1, PlacesTyped DEF Ops
  <2> QED
    BY <2>1, <2>2 DEF Paths, UndoPCs
<1>5. CASE Sweep
  <2>1. CASE op' = Idle
    BY <2>1, PathsIdle
  <2>2. CASE op.job = "orphan" /\ last = "none" /\ Goto("strip")
    <3>1. op'.pc = "strip" /\ op'.job = "orphan" /\ op'.then = op.then
      BY <2>2, GotoType, PlacesTyped DEF PCs
    <3>2. ~marker.present /\ marker' = marker
      BY <1>5, <2>2 DEF Sweep, Paths
    <3> QED
      BY <2>2, <3>1, <3>2 DEF Paths, UndoPCs
  <2> QED
    BY <1>5, <2>1, <2>2 DEF Sweep
<1> QED
  BY <1>2, <1>3, <1>4, <1>5 DEF Hygiene

LEMMA NextPaths == Inv /\ Truth /\ Paths /\ [Next]_vars => Paths'
<1> SUFFICES ASSUME Inv, Truth, Paths, [Next]_vars PROVE Paths'
  OBVIOUS
<1>1. ASSUME NEW job \in Jobs, Start(job) PROVE Paths'
  <2>1. op' = [Idle EXCEPT !.job = job, !.pc = "recover", !.then = "dispatch", !.build = build]
    BY <1>1 DEF Start
  <2>2. op'.pc = "recover" /\ op'.then = "dispatch" /\ op'.job = job
    BY <2>1 DEF Idle
  <2> QED
    BY <2>2 DEF Paths, UndoPCs
<1>2. CASE Crash \/ Edit \/ Product \/ UNCHANGED vars
  <2>1. CASE op' = Idle
    BY <2>1, PathsIdle
  <2>2. CASE UNCHANGED <<op, marker, dirs, last>>
    BY <2>2 DEF Paths
  <2> QED
    BY <1>2, <2>1, <2>2 DEF Crash, Edit, Product, vars, persistent
<1> QED
  BY <1>1, <1>2, RecoverPaths, DispatchPaths, InstallPaths, UndoPaths, UninstallPaths,
     HygienePaths DEF Next

LEMMA InitPaths == Init => Paths
<1> SUFFICES ASSUME Init PROVE Paths
  OBVIOUS
<1>1. op.pc = "idle" /\ op.job = "enable"
  BY DEF Init, Idle
<1> QED
  BY <1>1 DEF Paths, UndoPCs

-----------------------------------------------------------------------------
\* The payload leaves the live directory in this step.
Emptied == dirs[Root] # Nothing /\ dirs'[Root] = Nothing

\* A step that rewrites other directories, or none, leaves it.
LEMMA NotEmptied ==
  ASSUME Inv,
         \/ dirs' = dirs
         \/ \E D : Drop(D) /\ Root \notin D
         \/ \E d \in DirNames \ {Root} : \E v : dirs' = [dirs EXCEPT ![d] = v]
  PROVE  ~Emptied
<1>1. Root \in DirNames /\ dirs \in [DirNames -> Payloads]
  BY PlacesTyped DEF DirNames
<1>2. dirs'[Root] = dirs[Root]
  BY <1>1, DropValue
<1> QED
  BY <1>2 DEF Emptied

LEMMA StillKeeps ==
  ASSUME Inv, \/ Quiet /\ UNCHANGED persistent
              \/ FaultEnds
              \/ \E r : Finish(r) \/ Refuse(r)
              \/ RefuseFault
              \/ \E p : Still(p) \/ Fault(p)
  PROVE  ~Emptied
<1>1. dirs' = dirs
  BY DEF FaultEnds, Finish, Refuse, RefuseFault, Still, Fault, persistent
<1> QED
  BY <1>1, NotEmptied

LEMMA RecoveryKeeps ==
  ASSUME Inv, Recovery, Emptied
  PROVE  marker.present
<1>1. CASE RecoverNothing \/ RecoverCommitted
  BY <1>1, StillKeeps DEF RecoverNothing, RecoverCommitted
<1>2. CASE RecoverPayload
  BY <1>2 DEF RecoverPayload, Interrupted
<1>3. CASE RecoverMarker
  BY <1>3 DEF RecoverMarker, Interrupted
<1>4. CASE Restore
  BY <1>4, NotEmptied, StillKeeps DEF Restore, PutEach
<1>5. CASE Cleanup
  BY <1>5, NotEmptied, StillKeeps DEF Cleanup, PutEach
<1> QED
  BY <1>1, <1>2, <1>3, <1>4, <1>5 DEF Recovery

LEMMA DispatchKeeps ==
  ASSUME Inv, Dispatch, Emptied
  PROVE  op.pc = "pruneTree"
<1>1. CASE PruneTree
  BY <1>1 DEF PruneTree
<1>2. CASE DispatchEnable \/ DispatchDisable \/ DispatchRepair \/ DispatchOrphan \/ Repaired
  BY <1>2, StillKeeps DEF DispatchEnable, DispatchDisable, DispatchRepair, DispatchOrphan,
     Repaired
<1> QED
  BY <1>1, <1>2 DEF Dispatch

LEMMA InstallKeeps ==
  ASSUME Inv, Truth, Install, Emptied
  PROVE  marker.present
<1>1. CASE Begin
  <2>1. dirs' = dirs
    BY <1>1 DEF Begin, Finish, persistent
  <2> QED
    BY <2>1, NotEmptied
<1>2. CASE Stage \/ Copy
  <2>1. op.tx \in Tx
    BY <1>2 DEF Stage, Copy, Inv, Wired, TxPCs
  <2>2. StagingDir \in DirNames \ {Root}
    BY <2>1, TxDirs DEF StagingDir
  <2> QED
    BY <1>2, <2>2, NotEmptied, StillKeeps DEF Stage, Copy, SetDirs
<1>3. CASE Snapshot \/ SnapshotUpgrade
  <2>1. dirs' = dirs
    BY <1>3 DEF Snapshot, SnapshotUpgrade, persistent
  <2> QED
    BY <2>1, NotEmptied
<1>4. CASE RefuseUpgrade
  <2>1. Drop({StagingDir}) /\ op.tx \in Tx
    BY <1>4 DEF RefuseUpgrade, Inv, Wired, TxPCs
  <2>2. Root \notin {StagingDir}
    BY <2>1, TxDirs DEF StagingDir
  <2> QED
    BY <2>1, <2>2, NotEmptied
<1>5. CASE Publish
  BY <1>5, NotEmptied, StillKeeps DEF Publish, PutEach
<1>6. CASE Swap \/ Promote \/ Check \/ Hook \/ Commit
  BY <1>6 DEF Swap, Promote, Check, Hook, Commit, Truth, CommitFits
<1>7. CASE Discard
  <2>1. Drop({RollbackOf}) /\ op.tx \in Tx
    BY <1>7 DEF Discard, RollbackOf, Inv, Wired, TxPCs
  <2>2. Root \notin {RollbackOf}
    BY <2>1, TxDirs DEF RollbackOf
  <2> QED
    BY <2>1, <2>2, NotEmptied
<1> QED
  BY <1>1, <1>2, <1>3, <1>4, <1>5, <1>6, <1>7 DEF Install

LEMMA UndoKeeps ==
  ASSUME Inv, Paths, Undo, Emptied
  PROVE  marker.present
<1>1. CASE op.pc \in UndoPCs /\ op.did # {}
  BY <1>1 DEF Paths
<1>2. CASE Unhook
  BY <1>2, StillKeeps DEF Unhook
<1>3. CASE UnhookWrite
  BY <1>3, NotEmptied, StillKeeps DEF UnhookWrite, SetAutoRun
<1>4. CASE Undeploy \/ Unswap
  BY <1>1, <1>4, StillKeeps DEF Undeploy, Unswap, UndoPCs
<1>5. CASE Unmark
  <2>1. CASE Drop({StagingDir})
    <3>1. op.tx \in Tx
      BY <1>5 DEF Unmark, Inv, Wired, TxPCs
    <3>2. Root \notin {StagingDir}
      BY <3>1, TxDirs DEF StagingDir
    <3> QED
      BY <2>1, <3>2, NotEmptied
  <2> QED
    BY <1>5, <2>1, StillKeeps DEF Unmark
<1> QED
  BY <1>2, <1>3, <1>4, <1>5 DEF Undo

LEMMA UninstallKeeps ==
  ASSUME Inv, Truth, Uninstall, Emptied
  PROVE  marker.present
<1>1. CASE Judge
  <2>1. dirs' = dirs
    BY <1>1 DEF Judge, Still, Refuse, persistent
  <2> QED
    BY <2>1, NotEmptied
<1>2. CASE MarkPath \/ MarkState \/ RestoreUser
  BY <1>2, NotEmptied, StillKeeps DEF MarkPath, MarkState, RestoreUser, SetMarker, SetAutoRun
<1>3. CASE Retire \/ Unretire
  <2>1. marker.state = "removing" /\ Recorded
    BY <1>3 DEF Retire, Unretire, Truth, RemovalFits
  <2> QED
    BY <2>1, StatedPresent
<1>4. CASE Forget
  <2>1. CASE Drop(IF "retire" \in op.did THEN {RemovalDir} ELSE {})
    <3>1. "retire" \in op.did => Root # RemovalDir
      BY TxDirs DEF RemovalDir, Inv, Wired
    <3> QED
      BY <2>1, <3>1, NotEmptied
  <2> QED
    BY <1>4, <2>1, StillKeeps DEF Forget
<1> QED
  BY <1>1, <1>2, <1>3, <1>4 DEF Uninstall

LEMMA HygieneKeeps ==
  ASSUME Inv, Hygiene, Emptied
  PROVE  ~Hooked(autorun)
<1>1. CASE StripRead \/ StripWrite
  BY <1>1, NotEmptied, StillKeeps DEF StripRead, StripWrite, SetAutoRun
<1>2. CASE Wipe \/ Prune
  BY <1>2, NotEmptied, StillKeeps DEF Wipe, Prune, SetMarker
<1>3. CASE Bury
  BY <1>3, NotEmptied DEF Bury, MayBury
<1>4. CASE Sweep
  <2>1. Drop(DirNames \ (Protected \cup {Root}))
    BY <1>4 DEF Sweep
  <2> QED
    BY <2>1, NotEmptied
<1> QED
  BY <1>1, <1>2, <1>3, <1>4 DEF Hygiene

LEMMA EnvironmentKeeps ==
  ASSUME Inv, \/ \E job \in Jobs : Start(job)
              \/ Crash \/ Edit \/ Product \/ UNCHANGED vars
  PROVE  ~Emptied
<1>1. dirs' = dirs
  BY DEF Start, Crash, Edit, Product, vars, persistent
<1> QED
  BY <1>1, NotEmptied

LEMMA NextKeeps ==
  Inv /\ Truth /\ Paths /\ [Next]_vars =>
    (Hooked(autorun) /\ Emptied => marker.present \/ op.pc = "pruneTree")
BY RecoveryKeeps, DispatchKeeps, InstallKeeps, UndoKeeps, UninstallKeeps, HygieneKeeps,
   EnvironmentKeeps DEF Next

\* No step of any command takes the payload from under a live hook unless a marker
\* still says how to restore AutoRun, or it is the prune of a tree no marker names
\* (recover_upgrade, commit_install and its undo, uninstall, cleanup_orphaned).
THEOREM HookKeepsPayload == Spec => HookKeepsPayloadOrMarker
<1>1. Init => Inv /\ Truth /\ Paths
  BY InitInv, InitTruth, InitPaths
<1>2. Inv /\ Truth /\ Paths /\ [Next]_vars => (Inv /\ Truth /\ Paths)'
  BY NextInv, NextTruth, NextPaths
<1>3. Inv /\ Truth /\ Paths /\ [Next]_vars =>
        [Hooked(autorun) /\ dirs[Root] # Nothing /\ dirs'[Root] = Nothing
           => marker.present \/ op.pc = "pruneTree"]_vars
  BY NextKeeps DEF Emptied
<1> QED
  BY <1>1, <1>2, <1>3, PTL DEF Spec, HookKeepsPayloadOrMarker

-----------------------------------------------------------------------------
(***************************************************************************)
(* What is the user's.  PreservesUser is not inductive: what a command     *)
(* will write back was read, recorded and published earlier.  Claims says  *)
(* AutoRun, its owner and the marker say of each other at every write, and *)
(* Places what each place of a transaction has read and will write.  An    *)
(* edit that the code can see excuses the claims about its record          *)
(* (touched), one that it cannot see all of them (raced).                  *)
(***************************************************************************)

\* Two values of AutoRun agree on what is the user's.
SameUser(a, b) ==
  /\ OwnText(a) = OwnText(b)
  /\ OwnText(b) # NoText => a.kind = b.kind

\* A value that is not there has no text.
Whole(ar) == ar.present \/ ar = Absent

\* What a marker records of the user.
SameClaim(a, b) ==
  /\ a.origPresent = b.origPresent /\ a.origKind = b.origKind
  /\ a.origText = b.origText /\ a.instText = b.instText

\* The marker stands for an installed adapter, or for one that an upgrade replaces.
Live == marker.state = "installed" \/ Interrupted

\* AutoRun is one of the two recorded values; or the user's absent or empty one.
Hosts(ar, m) ==
  ar.present /\ ar.kind = m.origKind /\ ar.text \in {m.instText, m.origText}
Matches(ar, m) ==
  \/ Hosts(ar, m)
  \/ ~ar.present /\ (~m.origPresent \/ m.origText = Empty)

\* The record is coherent at every write of it.
RecordFits(m) ==
  /\ ~m.origPresent => m.origText.user = NoText
  /\ m.instText # Empty => m.instText = InstalledText(m.origText)

\* At every place: what AutoRun, its owner and the marker say of each other.
Claims ==
  /\ Whole(autorun) /\ Whole(op.seen)
  /\ RecordFits(marker)
  /\ Live => marker.instText # Empty
  /\ raced \/ SameUser(autorun, owned)
  /\ raced \/ touched \/ ~HalfPublished
       \/ marker.origText.user \in {NoText, OwnText(autorun)}
  /\ touched \/ ~marker.present \/ marker.instText = Empty \/ Matches(autorun, marker)
  /\ touched \/ ~Live \/ Hosts(autorun, marker)

\* An upgrade keeps the record, and has read the value it stands for.
UpgradeClaims ==
  op.pc \in (InstallPCs \ {"begin"}) \cup UndoPCs /\ Upgrading =>
    /\ SameClaim(marker, op.prev) /\ op.prev.instText # Empty /\ Live
    /\ touched \/ Hosts(op.seen, op.prev)

\* A first install publishes the record value by value.
PublishClaims ==
  op.pc = "publish" =>
    /\ op.want.instText = InstalledText(op.want.origText)
    /\ Upgrading => SameClaim(op.want, op.prev)
    /\ ~Upgrading =>
         /\ ~op.want.origPresent => op.want.origText.user = NoText
         /\ raced \/ touched \/ op.want.origText.user = OwnText(autorun)
         /\ touched \/ Matches(autorun, op.want)
         /\ marker.instText = Empty
         /\ op.at <= 7 => marker.origText = Empty
         /\ op.at >= 6 => marker.origPresent = op.want.origPresent
         /\ op.at >= 7 => marker.origKind = op.want.origKind
         /\ op.at >= 8 => marker.origText = op.want.origText

CommitClaims ==
  /\ op.pc \in {"swap", "promote", "check", "hook", "commit"} =>
       /\ op.want.instText = InstalledText(op.want.origText)
       /\ SameClaim(marker, op.want)
  /\ op.pc \in {"swap", "promote", "check", "hook"} => "hook" \notin op.did
  /\ op.pc = "commit" => touched \/ Hosts(autorun, marker)

\* The hook that is about to be written, or was: what it was composed from.
HookClaims ==
  /\ op.pc = "hook" \/ (op.pc \in {"commit"} \cup UndoPCs /\ "hook" \in op.did) =>
       /\ op.want.instText = InstalledText(op.want.origText)
       /\ SameClaim(marker, op.want)
       /\ raced \/ (op.want.origText = Strip(op.seen.text) /\ op.want.origKind = op.seen.kind)
       /\ touched \/ Matches(op.seen, marker)
  /\ op.pc = "hook" => autorun = op.seen \/ (raced /\ touched)
  /\ op.pc = "unhookWrite" =>
       "hook" \in op.did /\ (autorun = HookValue \/ (raced /\ touched))

RestoreClaims ==
  op.pc = "restore" => SameClaim(op.want, marker) /\ op.want.instText # Empty /\ Live

RemovalClaims ==
  /\ op.pc \in {"markPath", "markState", "retire", "restoreUser"} =>
       raced \/ SameUser(Original, owned)
  /\ op.pc = "stripWrite" => op.seen = autorun \/ (raced /\ touched)

Places == /\ UpgradeClaims /\ PublishClaims /\ CommitClaims /\ HookClaims
          /\ RestoreClaims /\ RemovalClaims

-----------------------------------------------------------------------------
\* The values of records and texts.
LEMMA PutRecord ==
  ASSUME marker \in Markers, NEW m \in Markers, NEW f \in Fields
  PROVE  /\ Put(f, m).origPresent = IF f = "origPresent" THEN m.origPresent
                                    ELSE marker.origPresent
         /\ Put(f, m).origKind = IF f = "origKind" THEN m.origKind ELSE marker.origKind
BY DEF Fields, Put, Markers

LEMMA NoMarkerFields ==
  /\ NoMarker.present = FALSE /\ NoMarker.instText = Empty /\ NoMarker.origText = Empty
  /\ NoMarker.origPresent = FALSE /\ NoMarker.state # "installed"
  /\ NoMarker.upPending = FALSE /\ NoMarker.upVersion = 0
BY DEF NoMarker

LEMMA EmptyFields ==
  /\ Empty.user = NoText /\ Empty.hooks = 0 /\ Empty \in Texts
  /\ Absent.present = FALSE /\ Absent.text = Empty
BY DEF Empty, Absent, Texts

LEMMA TextValues ==
  ASSUME NEW t \in Texts
  PROVE  /\ t.user \in Users \cup {NoText} /\ t.hooks \in 0..2
         /\ Strip(t).user = t.user /\ Strip(t).hooks = 0
         /\ InstalledText(t).user = t.user /\ InstalledText(t).hooks \in 1..2
         /\ InstalledText(t) # Empty
         /\ t.hooks = 0 => Strip(t) = t /\ Strip(InstalledText(t)) = t
         /\ t.hooks = 1 => InstalledText(Strip(t)) = t
         /\ Strip(t) = Empty => t.user = NoText
<1>1. t.user \in Users \cup {NoText} /\ t.hooks \in 0..2
      /\ t = [user |-> t.user, hooks |-> t.hooks]
  BY DEF Texts
<1>2. Strip(t) = [user |-> t.user, hooks |-> 0]
  BY <1>1 DEF Strip
<1>3. InstalledText(t) = [user |-> t.user, hooks |-> IF t.hooks < 2 THEN t.hooks + 1 ELSE t.hooks]
  BY <1>1 DEF InstalledText
<1>4. InstalledText(t).hooks \in 1..2 /\ InstalledText(t) # Empty
  BY <1>1, <1>3, EmptyFields
<1>5. CASE t.hooks = 0
  <2>1. InstalledText(t) = [user |-> t.user, hooks |-> 1]
    BY <1>3, <1>5
  <2>2. Strip(InstalledText(t)) = [user |-> t.user, hooks |-> 0]
    BY <2>1 DEF Strip
  <2> QED
    BY <1>1, <1>2, <1>3, <1>4, <1>5, <2>2, EmptyFields
<1>6. CASE t.hooks = 1
  <2>1. InstalledText(Strip(t)) = [user |-> t.user, hooks |-> 1]
    BY <1>2 DEF InstalledText
  <2> QED
    BY <1>1, <1>2, <1>3, <1>4, <1>6, <2>1, EmptyFields
<1>7. CASE t.hooks \notin {0, 1}
  BY <1>1, <1>2, <1>3, <1>4, <1>7, EmptyFields
<1> QED
  BY <1>5, <1>6, <1>7

\* A marker that stands for an adapter is there.
LEMMA LivePresent ==
  ASSUME Recorded, Live
  PROVE  marker.present
BY NoMarkerFields DEF Recorded, Live, Interrupted

LEMMA OwnTextOf ==
  ASSUME NEW ar \in AutoRuns, Whole(ar)
  PROVE  OwnText(ar) = ar.text.user
BY EmptyFields DEF OwnText, Whole
-----------------------------------------------------------------------------
\* Steps that leave AutoRun and what the marker records of it.
SameOwner == /\ autorun' = autorun /\ owned' = owned /\ touched' = touched
             /\ raced => raced'

LEMMA ClaimsSame ==
  ASSUME Inv, Claims, SameOwner, Whole(op'.seen), SameClaim(marker', marker),
         marker'.present => marker.present, Live' => Live
  PROVE  Claims'
BY DEF Claims, SameOwner, SameClaim, RecordFits, Whole, Matches, Hosts, HalfPublished, SameUser,
   OwnText

LEMMA ClaimsForgotten ==
  ASSUME Inv, Claims, SameOwner, Whole(op'.seen), marker' = NoMarker
  PROVE  Claims'
<1>1. ~Live'
  BY NoMarkerFields DEF Live, Interrupted
<1>2. RecordFits(marker')
  BY NoMarkerFields, EmptyFields DEF RecordFits
<1> QED
  BY <1>1, <1>2, NoMarkerFields DEF Claims, SameOwner, Whole, HalfPublished, SameUser, OwnText

LEMMA ClaimsUnwritten ==
  ASSUME Inv, Claims, SameOwner, marker' = marker, op' = Idle \/ op'.seen = op.seen
  PROVE  Claims'
<1>1. Whole(op'.seen)
  BY IdleClean DEF Claims, Whole
<1>2. SameClaim(marker', marker) /\ (Live' => Live)
  BY DEF SameClaim, Live, Interrupted
<1> QED
  BY <1>1, <1>2, ClaimsSame

\* Nothing more is said of the other places.
Free == PCs \ ((InstallPCs \ {"begin"}) \cup UndoPCs \cup
               {"restore", "markPath", "markState", "retire", "restoreUser", "stripWrite"})

LEMMA FreePlaces ==
  ASSUME op'.pc \in Free
  PROVE  Places'
BY DEF Places, Free, UpgradeClaims, PublishClaims, CommitClaims, HookClaims, RestoreClaims,
   RemovalClaims, InstallPCs, UndoPCs

LEMMA IdleFree ==
  /\ Idle.pc \in Free
  /\ {"idle", "recover", "cleanup", "dispatch", "pruneTree", "begin", "discard", "judge",
      "unretire", "forget", "repaired", "strip", "wipe", "bury", "prune", "sweep"} \subseteq Free
BY DEF Idle, Free, PCs, InstallPCs, UndoPCs

\* A command that ends, is refused or jumps to such a place.
LEMMA FreeUser ==
  ASSUME Inv, Claims, SameOwner, marker' = marker,
         op' = Idle \/ \E p \in Free : Goto(p)
  PROVE  Claims' /\ Places'
<1>1. CASE op' = Idle
  BY <1>1, ClaimsUnwritten, FreePlaces, IdleFree
<1>2. ASSUME NEW p \in Free, Goto(p) PROVE Claims' /\ Places'
  <2>1. p \in PCs
    BY DEF Free
  <2>2. op'.pc = p /\ op'.seen = op.seen
    BY <1>2, <2>1, GotoType, PlacesTyped
  <2> QED
    BY <2>2, ClaimsUnwritten, FreePlaces
<1> QED
  BY <1>1, <1>2

LEMMA StoppedUser ==
  ASSUME Inv, Claims, Places,
         \/ FaultEnds \/ RefuseFault
         \/ \E r : Finish(r) \/ Refuse(r)
         \/ \E p \in Free : Still(p) \/ Fault(p)
  PROVE  Claims' /\ Places'
<1>1. SameOwner /\ marker' = marker
  BY DEF FaultEnds, RefuseFault, Finish, Refuse, Return, Still, Fault, Quiet, persistent,
     observers, SameOwner
<1>2. op' = Idle \/ \E p \in Free : Goto(p)
  BY IdleFree DEF FaultEnds, RefuseFault, Finish, Refuse, Return, Still, Fault
<1> QED
  BY <1>1, <1>2, FreeUser

-----------------------------------------------------------------------------
\* Recovery.  The record is rewritten with the values it has.
LEMMA SeenKept ==
  ASSUME Inv, NEW fields, NEW m, NEW p, PutEach(fields, m, p)
  PROVE  /\ op'.seen = op.seen /\ op'.want = op.want /\ op'.prev = op.prev /\ op'.did = op.did
         /\ SameOwner
<1>1. CASE op' = [op EXCEPT !.pc = p, !.at = 1]
  BY <1>1, PlacesTyped DEF PutEach, Ops, SameOwner, Quiet, observers
<1>2. CASE op' = [op EXCEPT !.at = op.at + 1]
  BY <1>2, PlacesTyped DEF PutEach, Ops, SameOwner, Quiet, observers
<1> QED
  BY <1>1, <1>2 DEF PutEach

LEMMA PutSame ==
  ASSUME Inv, NEW f \in Fields, NEW m \in Markers, marker' = Put(f, m),
         \/ f \notin {"origPresent", "origKind", "origText", "instText"}
         \/ SameClaim(m, marker)
  PROVE  SameClaim(marker', marker)
<1>1. /\ marker'.origPresent = IF f = "origPresent" THEN m.origPresent ELSE marker.origPresent
      /\ marker'.origKind = IF f = "origKind" THEN m.origKind ELSE marker.origKind
      /\ marker'.origText = IF f = "origText" THEN m.origText ELSE marker.origText
      /\ marker'.instText = IF f = "instText" THEN m.instText ELSE marker.instText
  <2>1. marker \in Markers
    BY PlacesTyped
  <2>2. /\ Put(f, m).origPresent = IF f = "origPresent" THEN m.origPresent ELSE marker.origPresent
        /\ Put(f, m).origKind = IF f = "origKind" THEN m.origKind ELSE marker.origKind
    BY <2>1, PutRecord
  <2>3. /\ Put(f, m).origText = IF f = "origText" THEN m.origText ELSE marker.origText
        /\ Put(f, m).instText = IF f = "instText" THEN m.instText ELSE marker.instText
    BY <2>1, PutValue
  <2> QED
    BY <2>2, <2>3
<1> QED
  BY <1>1 DEF SameClaim

LEMMA PutLive ==
  ASSUME Inv, Live, NEW f \in Fields, NEW m \in Markers, marker' = Put(f, m),
         f \notin {"upPending", "upVersion"}, f = "state" => m.state = "installed"
  PROVE  Live'
<1>1. /\ marker'.state = IF f = "state" THEN m.state ELSE marker.state
      /\ marker'.upVersion = marker.upVersion /\ marker'.upPending = marker.upPending
      /\ marker'.present
  BY PlacesTyped, PutValue, ZenonT(30)
<1>2. Pending(marker') <=> Pending(marker)
  BY <1>1 DEF Pending
<1> QED
  BY <1>1, <1>2 DEF Live, Interrupted

\* The only place of which anything is said is the restoring one.
LEMMA RestorePlaces ==
  ASSUME op'.pc \in {"restore"} \cup Free, RestoreClaims'
  PROVE  Places'
BY DEF Places, Free, UpgradeClaims, PublishClaims, CommitClaims, HookClaims,
   RemovalClaims, InstallPCs, UndoPCs

LEMMA RecoveryUser ==
  ASSUME Inv, Truth, Claims, Places, Recovery
  PROVE  Claims' /\ Places'
<1>1. CASE RecoverNothing \/ RecoverCommitted
  <2>1. op.then \in Free /\ "cleanup" \in Free
    BY IdleFree DEF Inv, Wired
  <2> QED
    BY <1>1, <2>1, StoppedUser DEF RecoverNothing, RecoverCommitted
<1>2. CASE RecoverPayload
  <2>1. CASE FaultEnds
    BY <2>1, StoppedUser
  <2>2. CASE ~FaultEnds
    <3>1. SameOwner /\ marker' = marker /\ Goto("recover")
      BY <1>2, <2>2 DEF RecoverPayload, SetDirs, Quiet, observers, SameOwner
    <3> QED
      BY <3>1, IdleFree, FreeUser
  <2> QED
    BY <2>1, <2>2
<1>3. CASE RecoverMarker
  <2> DEFINE m == [marker EXCEPT !.version = marker.upVersion, !.state = "installed"]
  <2>1. /\ Interrupted /\ marker' = marker /\ SameOwner
        /\ op' = [op EXCEPT !.pc = "restore", !.at = 1, !.want = m]
    BY <1>3 DEF RecoverMarker, SameOwner, observers
  <2>2. op'.pc = "restore" /\ op'.want = m /\ op'.seen = op.seen
    BY <2>1, PlacesTyped DEF Ops
  <2>3. /\ m.origPresent = marker.origPresent /\ m.origKind = marker.origKind
        /\ m.origText = marker.origText /\ m.instText = marker.instText
    BY PlacesTyped DEF Markers
  <2>4. Live /\ marker.instText # Empty
    BY <2>1 DEF Live, Claims
  <2>5. Live'
    BY <2>1, <2>4 DEF Live, Interrupted
  <2> HIDE DEF m
  <2>6. RestoreClaims'
    BY <2>1, <2>2, <2>3, <2>4, <2>5 DEF RestoreClaims, SameClaim
  <2> QED
    BY <2>1, <2>2, <2>6, ClaimsUnwritten, RestorePlaces
<1>4. CASE Restore
  <2>1. CASE FaultEnds
    BY <2>1, StoppedUser
  <2>2. CASE PutEach(RestoreSeq, op.want, "cleanup")
    <3>1. op.pc = "restore" /\ op.at \in 1..6 /\ Len(RestoreSeq) = 6 /\ "cleanup" \in PCs
      BY <1>4, SeqFields DEF Restore, Inv, TypeOK, Wired, Ops, PCs
    <3>2. /\ SameClaim(op.want, marker) /\ op.want.instText # Empty /\ Live
          /\ op.want.state = "installed" /\ marker.present
      BY <3>1, LivePresent DEF Places, RestoreClaims, Truth, RestoreFits
    <3> DEFINE f == RestoreSeq[op.at]
    <3>3. f \in Fields \ {"upPending", "upVersion"}
      BY <3>1 DEF RestoreSeq, Fields
    <3>4. marker' = Put(f, op.want) /\ op'.pc \in {"restore", "cleanup"} /\ op'.want = op.want
          /\ op'.seen = op.seen /\ SameOwner
      BY <2>2, <3>1, PutEachMoves, SeenKept
    <3> HIDE DEF f
    <3>5. SameClaim(marker', marker) /\ Live'
      BY <3>2, <3>3, <3>4, PutSame, PutLive, PlacesTyped
    <3>6. Whole(op'.seen)
      BY <3>4 DEF Claims
    <3>7. Claims'
      BY <3>2, <3>4, <3>5, <3>6, ClaimsSame
    <3>8. RestoreClaims'
      BY <3>2, <3>4, <3>5 DEF RestoreClaims, SameClaim
    <3> QED
      BY <3>4, <3>7, <3>8, RestorePlaces, IdleFree
  <2> QED
    BY <1>4, <2>1, <2>2 DEF Restore
<1>5. CASE Cleanup
  <2>1. /\ op.pc = "cleanup" /\ op.at \in 1..4 /\ marker.state = "installed"
        /\ Len(CleanupSeq) = 4 /\ NoMarker \in Markers /\ op.then \in Free /\ op.then \in PCs
    BY <1>5, SeqFields, PlacesTyped, Constants, IdleFree
       DEF Cleanup, Truth, RestoreFits, Inv, Wired
  <2> DEFINE f == CleanupSeq[op.at]
  <2>2. f \in Fields \ {"state", "origPresent", "origKind", "origText", "instText"}
    BY <2>1 DEF CleanupSeq, Fields
  <2>3. CASE FaultEnds \/ Fault("prune")
    BY <2>3, StoppedUser, IdleFree
  <2>4. ASSUME marker' = Put(f, NoMarker), SameOwner, Whole(op'.seen)
        PROVE  Claims'
    <3> HIDE DEF f
    <3>1. SameClaim(marker', marker)
      BY <2>1, <2>2, <2>4, PutSame
    <3>2. Live
      BY <2>1 DEF Live
    <3>3. marker.present
      BY <3>2, LivePresent DEF Truth
    <3> QED
      BY <2>4, <3>1, <3>2, <3>3, ClaimsSame
  <2>5. ASSUME NEW p \in {"cleanup", op.then}, PutEach(CleanupSeq, NoMarker, p)
        PROVE  Claims' /\ Places'
    <3>1. p \in Free /\ p \in PCs /\ "cleanup" \in Free
      BY <2>1, IdleFree DEF PCs
    <3>2. marker' = Put(f, NoMarker) /\ op'.pc \in {"cleanup", p}
      BY <2>1, <2>5, <3>1, PutEachMoves
    <3>3. op'.seen = op.seen /\ SameOwner
      BY <2>5, SeenKept
    <3>4. Whole(op'.seen)
      BY <3>3 DEF Claims
    <3> QED
      BY <2>4, <3>1, <3>2, <3>3, <3>4, FreePlaces
  <2>6. CASE marker' = Put(f, NoMarker) /\ op' = Idle /\ UNCHANGED observers
             /\ autorun' = autorun
    <3>1. SameOwner /\ Whole(op'.seen)
      BY <2>6, IdleClean DEF SameOwner, observers, Whole
    <3> QED
      BY <2>4, <2>6, <3>1, FreePlaces, IdleFree
  <2> QED
    BY <1>5, <2>3, <2>5, <2>6 DEF Cleanup
<1> QED
  BY <1>1, <1>2, <1>3, <1>4, <1>5 DEF Recovery

LEMMA DispatchUser ==
  ASSUME Inv, Claims, Places, Dispatch
  PROVE  Claims' /\ Places'
<1>1. CASE PruneTree
  <2>1. CASE \E p \in {"begin", "prune"} : Still(p)
    BY <2>1, StoppedUser, IdleFree
  <2>2. CASE \E p \in {"begin", "prune"} : Goto(p) /\ SameOwner /\ marker' = marker
    BY <2>2, FreeUser, IdleFree
  <2> QED
    BY <1>1, <2>1, <2>2 DEF PruneTree, SameOwner, observers
<1>2. CASE DispatchEnable \/ DispatchDisable \/ DispatchRepair \/ DispatchOrphan \/ Repaired
  <2>1. CASE \E p \in {"prune", "begin", "pruneTree", "judge", "repaired", "strip"} : Still(p)
    BY <2>1, StoppedUser, IdleFree
  <2>2. CASE Finish("ok")
    BY <2>2, StoppedUser
  <2> QED
    BY <1>2, <2>1, <2>2 DEF DispatchEnable, DispatchDisable, DispatchRepair, DispatchOrphan,
       Repaired
<1> QED
  BY <1>1, <1>2 DEF Dispatch

-----------------------------------------------------------------------------
\* install and upgrade.
Inside == (InstallPCs \ {"begin"}) \cup UndoPCs

LEMMA InsidePlaces ==
  /\ Inside \subseteq PCs
  /\ Inside = {"stage", "copy", "snapshot", "publish", "swap", "promote", "check", "hook",
               "commit", "unhook", "unhookWrite", "undeploy", "unswap", "unmark"}
BY DEF Inside, PCs, InstallPCs, UndoPCs

\* An upgrade stays what it was as long as it keeps what it has read.
LEMMA UpgradeKept ==
  ASSUME Inv, UpgradeClaims, op.pc \in Inside, op'.prev = op.prev, op'.seen = op.seen,
         touched' = touched,
         Upgrading => SameClaim(marker', marker) /\ (Live => Live')
  PROVE  UpgradeClaims'
BY DEF UpgradeClaims, Inside, Upgrading, SameClaim, Hosts

LEMMA UpgradeUnwritten ==
  ASSUME Inv, UpgradeClaims, op.pc \in Inside, op'.prev = op.prev, op'.seen = op.seen,
         touched' = touched, marker' = marker
  PROVE  UpgradeClaims'
<1>1. SameClaim(marker', marker) /\ (Live => Live')
  BY DEF SameClaim, Live, Interrupted
<1> QED
  BY <1>1, UpgradeKept

LEMMA StagePlaces ==
  ASSUME op'.pc \in {"stage", "copy", "snapshot"}, UpgradeClaims'
  PROVE  Places'
BY DEF Places, PublishClaims, CommitClaims, HookClaims, RestoreClaims, RemovalClaims, UndoPCs

\* The undo of a commit_install keeps what the hook was composed from.
LEMMA UndoneUser ==
  ASSUME Inv, Truth, Claims, Places,
         op.pc \in {"publish", "swap", "promote", "check", "hook", "commit"} \cup UndoPCs,
         SameOwner, marker' = marker,
         NEW p \in UndoPCs \ {"unhookWrite"}, Goto(p)
  PROVE  Claims' /\ Places'
<1>1. p \in PCs /\ op.pc \in Inside /\ p \in Inside
  BY InsidePlaces DEF UndoPCs
<1>2. /\ op'.pc = p /\ op'.prev = op.prev /\ op'.seen = op.seen /\ op'.want = op.want
      /\ op'.did = op.did
  BY <1>1, GotoType, PlacesTyped
<1>3. UpgradeClaims'
  BY <1>1, <1>2, UpgradeUnwritten DEF Places, SameOwner
<1>4. "hook" \in op.did => op.pc \in {"commit"} \cup UndoPCs
  BY DEF Places, CommitClaims, Truth, JobFits, Unbegun
<1>5. HookClaims'
  BY <1>2, <1>4 DEF Places, HookClaims, SameOwner, SameClaim, Matches, Hosts, UndoPCs
<1>6. PublishClaims' /\ CommitClaims' /\ RestoreClaims' /\ RemovalClaims'
  BY <1>2 DEF PublishClaims, CommitClaims, RestoreClaims, RemovalClaims, UndoPCs
<1> QED
  BY <1>2, <1>3, <1>5, <1>6, ClaimsUnwritten DEF Places

LEMMA FaultUndone ==
  ASSUME Inv, Truth, Claims, Places,
         op.pc \in {"publish", "swap", "promote", "check", "hook", "commit"} \cup UndoPCs,
         \E p \in UndoPCs \ {"unhookWrite"} : Fault(p) \/ Still(p)
  PROVE  Claims' /\ Places'
<1>1. SameOwner /\ marker' = marker /\ \E p \in UndoPCs \ {"unhookWrite"} : Goto(p)
  BY DEF Fault, Still, Quiet, observers, persistent, SameOwner
<1> QED
  BY <1>1, UndoneUser

LEMMA BeginUser ==
  ASSUME Inv, Truth, Claims, Places, Begin
  PROVE  Claims' /\ Places'
<1>1. CASE Finish("recover")
  BY <1>1, StoppedUser
<1>2. ASSUME NEW t \in Tx, Quiet, UNCHANGED persistent,
             marker.present => marker.state = "installed",
             op' = [op EXCEPT !.pc = "stage", !.tx = t, !.prev = marker, !.seen = autorun]
      PROVE  Claims' /\ Places'
  <2>1. op'.pc = "stage" /\ op'.prev = marker /\ op'.seen = autorun /\ marker' = marker
        /\ SameOwner
    BY <1>2, PlacesTyped DEF Ops, persistent, Quiet, observers, SameOwner
  <2>2. Whole(op'.seen) /\ SameClaim(marker', marker) /\ (Live' <=> Live)
    BY <2>1 DEF Claims, SameClaim, Live, Interrupted
  <2>3. Claims'
    BY <2>1, <2>2, ClaimsSame
  <2>4. Upgrading' => Live
    BY <1>2, <2>1 DEF Upgrading, Live
  <2>5. UpgradeClaims'
    BY <2>1, <2>2, <2>4 DEF UpgradeClaims, Claims, SameClaim, SameOwner, Hosts
  <2> QED
    BY <2>1, <2>3, <2>5, StagePlaces
<1> QED
  BY <1>1, <1>2 DEF Begin

LEMMA StageUser ==
  ASSUME Inv, Truth, Claims, Places, Stage \/ Copy \/ RefuseUpgrade
  PROVE  Claims' /\ Places'
<1>1. CASE FaultEnds
  BY <1>1, StoppedUser
<1>2. CASE op.pc \in {"stage", "copy"} /\ SameOwner /\ marker' = marker
           /\ \E p \in {"copy", "snapshot"} : Goto(p)
  <2>1. op'.pc \in {"copy", "snapshot"} /\ op'.prev = op.prev /\ op'.seen = op.seen
        /\ op.pc \in Inside
    BY <1>2, GotoType, PlacesTyped, InsidePlaces DEF PCs
  <2>2. UpgradeClaims'
    BY <1>2, <2>1, UpgradeUnwritten DEF Places, SameOwner
  <2> QED
    BY <1>2, <2>1, <2>2, StagePlaces, ClaimsUnwritten
<1>3. CASE RefuseUpgrade
  <2>1. SameOwner /\ marker' = marker /\ op' = Idle
    BY <1>3 DEF RefuseUpgrade, SameOwner, observers
  <2> QED
    BY <2>1, FreeUser
<1> QED
  BY <1>1, <1>2, <1>3 DEF Stage, Copy, SetDirs, Quiet, observers, SameOwner

LEMMA PublishPlaces ==
  ASSUME op'.pc = "publish", UpgradeClaims', PublishClaims'
  PROVE  Places'
BY DEF Places, CommitClaims, HookClaims, RestoreClaims, RemovalClaims, UndoPCs

LEMMA SnapshotUser ==
  ASSUME Inv, Truth, Single, Claims, Places, Snapshot
  PROVE  Claims' /\ Places'
<1> DEFINE w == Prepared(OriginalPresent(autorun), autorun.kind, Strip(autorun.text))
<1>1. /\ op.pc = "snapshot" /\ ~Upgrading /\ autorun' = autorun /\ marker' = marker
      /\ owned' = owned /\ raced' = raced
      /\ op' = [op EXCEPT !.pc = "publish", !.at = 1, !.want = w]
  BY DEF Snapshot, persistent
<1>2. /\ op'.pc = "publish" /\ op'.at = 1 /\ op'.want = w /\ op'.prev = op.prev
      /\ op'.seen = op.seen
  BY <1>1, PlacesTyped DEF Ops
<1>3. marker = NoMarker
  BY <1>1 DEF Truth, StageFits, Recorded, Upgrading
<1>4. /\ w.origPresent = OriginalPresent(autorun) /\ w.origKind = autorun.kind
      /\ w.origText = Strip(autorun.text) /\ w.instText = InstalledText(w.origText)
  BY DEF Prepared
<1> HIDE DEF w
<1> DEFINE t == autorun.text
<1>5. /\ t \in Texts /\ t.hooks <= 1 /\ Whole(autorun) /\ autorun \in AutoRuns
  BY TextsTyped DEF Single, AtMostOneHook, Claims
<1>6. OwnText(autorun) = t.user
  BY <1>5, OwnTextOf
<1>7. ~autorun.present => t = Empty
  BY <1>5, EmptyFields DEF Whole
<1>8. /\ Strip(t).user = t.user /\ Strip(t) \in Texts
      /\ Strip(t) = Empty => t.user = NoText
      /\ t \in {InstalledText(Strip(t)), Strip(t)}
      /\ Strip(Empty) = Empty /\ Empty.user = NoText
  <2>1. t.hooks \in {0, 1}
    BY <1>5, TextValues
  <2> QED
    BY <1>5, <2>1, TextValues, TextType, EmptyFields
<1> HIDE DEF t
<1>9. ~w.origPresent => w.origText.user = NoText
  BY <1>4, <1>6, <1>7, <1>8 DEF OriginalPresent, t
<1>10. w.origText.user = OwnText(autorun)
  BY <1>4, <1>6, <1>8 DEF t
<1>11. Matches(autorun, w)
  BY <1>4, <1>7, <1>8 DEF Matches, Hosts, t
<1>12. PublishClaims'
  BY <1>1, <1>2, <1>3, <1>4, <1>9, <1>10, <1>11, NoMarkerFields
     DEF PublishClaims, Upgrading, Matches, Hosts, OwnText
<1>13. UpgradeClaims'
  BY <1>1, <1>2 DEF UpgradeClaims, Upgrading
<1>14. Claims'
  <2>1. ~Live' /\ ~HalfPublished' /\ ~marker'.present /\ RecordFits(marker')
    BY <1>1, <1>3, NoMarkerFields, EmptyFields DEF Live, Interrupted, HalfPublished, RecordFits
  <2>2. Whole(autorun') /\ Whole(op'.seen) /\ (raced' \/ SameUser(autorun', owned'))
    BY <1>1, <1>2 DEF Claims, Whole, SameUser, OwnText
  <2> QED
    BY <2>1, <2>2 DEF Claims
<1> QED
  BY <1>2, <1>12, <1>13, <1>14, PublishPlaces

LEMMA SnapshotUpgradeUser ==
  ASSUME Inv, Truth, Claims, Places, SnapshotUpgrade
  PROVE  Claims' /\ Places'
<1> DEFINE w == Prepared(op.prev.origPresent, op.prev.origKind, op.prev.origText)
<1>1. /\ op.pc = "snapshot" /\ Upgrading /\ marker' = marker /\ SameOwner
      /\ op' = [op EXCEPT !.pc = "publish", !.at = 1, !.want = w]
  BY DEF SnapshotUpgrade, persistent, Quiet, observers, SameOwner
<1>2. /\ op'.pc = "publish" /\ op'.want = w /\ op'.prev = op.prev /\ op'.seen = op.seen
      /\ op.pc \in Inside
  BY <1>1, PlacesTyped, InsidePlaces DEF Ops
<1>3. /\ w.origPresent = op.prev.origPresent /\ w.origKind = op.prev.origKind
      /\ w.origText = op.prev.origText /\ w.instText = InstalledText(w.origText)
  BY DEF Prepared
<1> HIDE DEF w
<1>4. /\ SameClaim(marker, op.prev) /\ op.prev.instText # Empty
      /\ RecordFits(marker)
  BY <1>1, <1>2 DEF Places, UpgradeClaims, Inside, Claims
<1>5. SameClaim(w, op.prev)
  BY <1>3, <1>4 DEF SameClaim, RecordFits
<1>6. PublishClaims'
  BY <1>1, <1>2, <1>3, <1>5 DEF PublishClaims, Upgrading, SameClaim
<1>7. UpgradeClaims'
  BY <1>1, <1>2, UpgradeUnwritten DEF Places, SameOwner
<1> QED
  BY <1>1, <1>2, <1>6, <1>7, ClaimsUnwritten, PublishPlaces

\* One value of a publication.
LEMMA PublishMoves ==
  ASSUME Inv, op.pc = "publish", PutEach(PublishSeq(Upgrading), op.want, "swap")
  PROVE  /\ op.at \in 1..(IF Upgrading THEN 10 ELSE 8)
         /\ PublishSeq(Upgrading)[op.at] \in Fields
         /\ marker' = Put(PublishSeq(Upgrading)[op.at], op.want) /\ marker'.present
         /\ op'.prev = op.prev /\ op'.seen = op.seen /\ op'.want = op.want /\ op'.did = op.did
         /\ SameOwner
         /\ IF op.at = IF Upgrading THEN 10 ELSE 8
            THEN op'.pc = "swap" /\ op'.at = 1
            ELSE op'.pc = "publish" /\ op'.at = op.at + 1
<1> DEFINE n == IF Upgrading THEN 10 ELSE 8
           f == PublishSeq(Upgrading)[op.at]
<1>1. op.at \in 1..10 /\ op.at <= n
  BY DEF Inv, Wired, TypeOK, Ops
<1>2. Len(PublishSeq(Upgrading)) = n /\ f \in Fields
  <2>1. CASE Upgrading
    BY <1>1, <2>1, SeqFields DEF PublishSeq
  <2>2. CASE ~Upgrading
    BY <1>1, <2>2, SeqFields DEF PublishSeq
  <2> QED
    BY <2>1, <2>2
<1>3. "swap" \in PCs /\ (op.at # n => op.at + 1 \in 1..10)
  BY <1>1 DEF PCs
<1>4. /\ marker' = Put(f, op.want)
      /\ IF op.at = n THEN op'.pc = "swap" /\ op'.at = 1
                      ELSE op'.pc = "publish" /\ op'.at = op.at + 1
  BY <1>1, <1>2, <1>3, PutEachMoves
<1>5. marker'.present
  <2> HIDE DEF f
  <2> QED
    BY <1>2, <1>4, PutValue, PlacesTyped
<1>6. /\ op'.prev = op.prev /\ op'.seen = op.seen /\ op'.want = op.want /\ op'.did = op.did
      /\ SameOwner
  BY SeenKept
<1> QED
  BY <1>1, <1>2, <1>4, <1>5, <1>6

\* An upgrade still stands for the adapter that it replaces.
LEMMA UpgradeLive ==
  ASSUME Inv', Truth', Upgrading', marker'.present, op'.pc \in {"publish", "swap"}
  PROVE  Live'
<1>1. op'.prev.version \in Builds
  BY DEF Truth, PrevFits, InstallPCs
<1>2. op'.prev.version # 0
  BY <1>1 DEF Builds
<1>3. CASE op'.pc = "publish"
  <2>1. /\ marker'.state = IF op'.at <= 5 THEN "installed" ELSE "prepared"
        /\ op'.at >= 4 => marker'.upVersion = op'.prev.version
    BY <1>3 DEF Truth, PublishFits
  <2>2. op'.at \in 1..10
    BY DEF Inv, TypeOK, Ops
  <2>3. op'.at <= 5 \/ op'.at >= 4
    BY <2>2
  <2> QED
    BY <1>2, <2>1, <2>2, <2>3 DEF Live, Interrupted, Pending
<1>4. CASE op'.pc = "swap"
  BY <1>2, <1>4 DEF Truth, CommitFits, Live, Interrupted, Pending
<1> QED
  BY <1>3, <1>4

LEMMA PublishUpgradeUser ==
  ASSUME Inv, Truth, Claims, Places, Inv', Truth', op.pc = "publish", Upgrading,
         PutEach(PublishSeq(Upgrading), op.want, "swap")
  PROVE  Claims' /\ Places'
<1>1. /\ PublishSeq(Upgrading)[op.at] \in Fields
      /\ marker' = Put(PublishSeq(Upgrading)[op.at], op.want) /\ marker'.present
      /\ op'.prev = op.prev /\ op'.seen = op.seen /\ op'.want = op.want /\ op'.did = op.did
      /\ SameOwner /\ op'.pc \in {"publish", "swap"}
  BY PublishMoves
<1>2. /\ SameClaim(op.want, op.prev) /\ SameClaim(marker, op.prev) /\ Live
      /\ op.want.instText = InstalledText(op.want.origText) /\ op.did = {}
  BY InsidePlaces
     DEF Places, PublishClaims, UpgradeClaims, Inside, Truth, JobFits, Unbegun
<1>3. SameClaim(op.want, marker)
  BY <1>2 DEF SameClaim
<1> DEFINE f == PublishSeq(Upgrading)[op.at]
<1> HIDE DEF f
<1>4. SameClaim(marker', marker)
  <2>1. f \in Fields /\ marker' = Put(f, op.want) /\ op.want \in Markers
    BY <1>1, PlacesTyped DEF f
  <2> QED
    BY <1>3, <2>1, PutSame
<1>5. marker.present /\ Upgrading' /\ Live'
  <2>1. Upgrading'
    BY <1>1 DEF Upgrading
  <2> QED
    BY <1>1, <1>2, <2>1, LivePresent, UpgradeLive DEF Truth
<1>6. Whole(op'.seen)
  BY <1>1 DEF Claims
<1>7. Claims'
  BY <1>1, <1>2, <1>4, <1>5, <1>6, ClaimsSame
<1>8. UpgradeClaims'
  BY <1>1, <1>4, <1>5, UpgradeKept, InsidePlaces DEF Places, SameOwner
<1>9. SameClaim(marker', op'.want)
  BY <1>1, <1>3, <1>4 DEF SameClaim
<1>10. PublishClaims' /\ CommitClaims'
  BY <1>1, <1>2, <1>5, <1>9 DEF PublishClaims, CommitClaims
<1> QED
  BY <1>1, <1>7, <1>8, <1>10
     DEF Places, HookClaims, RestoreClaims, RemovalClaims, UndoPCs

LEMMA PublishFirstUser ==
  ASSUME Inv, Truth, Claims, Places, Truth', op.pc = "publish", ~Upgrading,
         PutEach(PublishSeq(Upgrading), op.want, "swap")
  PROVE  Claims' /\ Places'
<1> DEFINE f == PublishSeq(Upgrading)[op.at]
           w == op.want
<1>1. /\ op.at \in 1..8 /\ f \in Fields /\ marker' = Put(f, w) /\ marker'.present
      /\ op'.prev = op.prev /\ op'.seen = op.seen /\ op'.want = w /\ op'.did = op.did
      /\ SameOwner
      /\ IF op.at = 8 THEN op'.pc = "swap" /\ op'.at = 1
                      ELSE op'.pc = "publish" /\ op'.at = op.at + 1
  BY PublishMoves
<1>2. /\ w.instText = InstalledText(w.origText) /\ op.did = {}
      /\ ~w.origPresent => w.origText.user = NoText
      /\ raced \/ touched \/ w.origText.user = OwnText(autorun)
      /\ touched \/ Matches(autorun, w)
      /\ marker.instText = Empty
      /\ op.at <= 7 => marker.origText = Empty
      /\ op.at >= 6 => marker.origPresent = w.origPresent
      /\ op.at >= 7 => marker.origKind = w.origKind
      /\ op.at >= 8 => marker.origText = w.origText
  BY DEF Places, PublishClaims, Truth, JobFits, Unbegun
<1>3. /\ f = "origPresent" <=> op.at = 5
      /\ f = "origKind" <=> op.at = 6
      /\ f = "origText" <=> op.at = 7
      /\ f = "instText" <=> op.at = 8
  BY <1>1 DEF PublishSeq
<1> HIDE DEF f
<1>4. /\ marker'.origPresent = IF op.at = 5 THEN w.origPresent ELSE marker.origPresent
      /\ marker'.origKind = IF op.at = 6 THEN w.origKind ELSE marker.origKind
      /\ marker'.origText = IF op.at = 7 THEN w.origText ELSE marker.origText
      /\ marker'.instText = IF op.at = 8 THEN w.instText ELSE marker.instText
  <2>1. marker \in Markers /\ w \in Markers
    BY PlacesTyped
  <2>2. /\ Put(f, w).origPresent = IF f = "origPresent" THEN w.origPresent ELSE marker.origPresent
        /\ Put(f, w).origKind = IF f = "origKind" THEN w.origKind ELSE marker.origKind
    BY <1>1, <2>1, PutRecord
  <2>3. /\ Put(f, w).origText = IF f = "origText" THEN w.origText ELSE marker.origText
        /\ Put(f, w).instText = IF f = "instText" THEN w.instText ELSE marker.instText
    BY <1>1, <2>1, PutValue
  <2> QED
    BY <1>1, <1>3, <2>2, <2>3
<1> HIDE DEF w
<1>5. ~Upgrading' /\ ~Live'
  <2>1. ~Upgrading'
    BY <1>1 DEF Upgrading
  <2>2. ~Pending(marker') /\ marker'.state # "installed"
    BY <1>1, <2>1 DEF Truth, PublishFits, CommitFits
  <2> QED
    BY <2>1, <2>2 DEF Live, Interrupted
<1>6. /\ op.at # 8 => marker'.instText = Empty
      /\ op.at = 8 => SameClaim(marker', w)
  BY <1>1, <1>2, <1>4 DEF SameClaim
<1>7. RecordFits(marker')
  <2>1. ~marker'.origPresent => marker'.origText.user = NoText
    <3>1. CASE op.at <= 6
      BY <1>1, <1>2, <1>4, <3>1, EmptyFields
    <3>2. CASE op.at > 6
      BY <1>1, <1>2, <1>4, <3>2
    <3> QED
      BY <1>1, <3>1, <3>2
  <2>2. marker'.instText # Empty => marker'.instText = InstalledText(marker'.origText)
    BY <1>2, <1>6 DEF SameClaim
  <2> QED
    BY <2>1, <2>2 DEF RecordFits
<1>8. raced \/ touched \/ marker'.origText.user \in {NoText, OwnText(autorun)}
  <2>1. marker'.origText \in {Empty, w.origText}
    BY <1>1, <1>2, <1>4
  <2> QED
    BY <1>2, <2>1, EmptyFields
<1>9. touched \/ marker'.instText = Empty \/ Matches(autorun, marker')
  BY <1>1, <1>2, <1>6 DEF SameClaim, Matches, Hosts
<1>10. Claims'
  <2>1. Whole(autorun') /\ Whole(op'.seen) /\ (raced' \/ SameUser(autorun', owned'))
    BY <1>1 DEF Claims, SameOwner, SameUser, OwnText, Whole
  <2>2. autorun' = autorun /\ touched' = touched /\ (raced => raced')
    BY <1>1 DEF SameOwner
  <2> QED
    BY <1>5, <1>7, <1>8, <1>9, <2>1, <2>2 DEF Claims, OwnText, Matches, Hosts
<1>11. PublishClaims'
  <2>1. CASE op'.pc = "publish"
    <3>1. op.at \in 1..7 /\ op'.at = op.at + 1
      BY <1>1, <2>1
    <3>2. /\ marker'.instText = Empty
          /\ op'.at <= 7 => marker'.origText = Empty
          /\ op'.at >= 6 => marker'.origPresent = w.origPresent
          /\ op'.at >= 7 => marker'.origKind = w.origKind
          /\ op'.at >= 8 => marker'.origText = w.origText
      BY <1>2, <1>4, <1>6, <3>1
    <3>3. op'.want = w /\ autorun' = autorun /\ touched' = touched /\ (raced => raced')
      BY <1>1 DEF SameOwner
    <3> QED
      BY <1>2, <1>5, <3>2, <3>3 DEF PublishClaims, OwnText, Matches, Hosts
  <2>2. CASE op'.pc # "publish"
    BY <2>2 DEF PublishClaims
  <2> QED
    BY <2>1, <2>2
<1>12. CommitClaims'
  BY <1>1, <1>2, <1>6 DEF CommitClaims
<1> QED
  BY <1>1, <1>5, <1>10, <1>11, <1>12
     DEF Places, UpgradeClaims, HookClaims, RestoreClaims, RemovalClaims, UndoPCs

LEMMA CommitPlaces ==
  ASSUME op'.pc \in {"swap", "promote", "check", "hook", "commit"},
         UpgradeClaims', CommitClaims', HookClaims'
  PROVE  Places'
BY DEF Places, PublishClaims, RestoreClaims, RemovalClaims, UndoPCs

\* From the published record to the check of AutoRun, the record stays.
LEMMA CommitUnwritten ==
  ASSUME Inv, Truth, Claims, Places, SameOwner, marker' = marker,
         op.pc \in {"swap", "promote"}, op'.pc \in {"promote", "check"},
         op'.prev = op.prev, op'.seen = op.seen, op'.want = op.want,
         "hook" \in op'.did => "hook" \in op.did
  PROVE  Claims' /\ Places'
<1>1. UpgradeClaims'
  BY InsidePlaces, UpgradeUnwritten DEF Places, SameOwner
<1>2. CommitClaims' /\ HookClaims'
  BY DEF Places, CommitClaims, HookClaims, SameClaim, UndoPCs
<1> QED
  BY <1>1, <1>2, ClaimsUnwritten, CommitPlaces

LEMMA DeployUser ==
  ASSUME Inv, Truth, Claims, Places, Swap \/ Promote
  PROVE  Claims' /\ Places'
<1>1. op.pc \in {"swap", "promote"}
  BY DEF Swap, Promote
<1>2. CASE Fault("unhook")
  <2>1. "unhook" \in UndoPCs \ {"unhookWrite"}
    BY DEF UndoPCs
  <2> QED
    BY <1>1, <1>2, <2>1, FaultUndone
<1>3. CASE Still("promote") /\ op.pc = "swap"
  <2>1. SameOwner /\ marker' = marker /\ Goto("promote") /\ "promote" \in PCs
    BY <1>3 DEF Still, Quiet, observers, persistent, SameOwner, PCs
  <2>2. /\ op'.pc = "promote" /\ op'.prev = op.prev /\ op'.seen = op.seen
        /\ op'.want = op.want /\ op'.did = op.did
    BY <2>1, GotoType, PlacesTyped
  <2> QED
    BY <1>3, <2>1, <2>2, CommitUnwritten
<1>4. ASSUME NEW p \in {"promote", "check"}, NEW s \in {"swap", "promote"},
             op' = [op EXCEPT !.pc = p, !.did = @ \cup {s}],
             Quiet, marker' = marker, autorun' = autorun
      PROVE  Claims' /\ Places'
  <2>1. SameOwner
    BY <1>4 DEF Quiet, observers, SameOwner
  <2>2. /\ op'.pc = p /\ op'.prev = op.prev /\ op'.seen = op.seen
        /\ op'.want = op.want /\ op'.did = op.did \cup {s}
    BY <1>4, PlacesTyped DEF Ops
  <2> QED
    BY <1>1, <1>4, <2>1, <2>2, CommitUnwritten
<1> QED
  BY <1>2, <1>3, <1>4 DEF Swap, Promote

LEMMA CheckUser ==
  ASSUME Inv, Truth, Claims, Places, Check
  PROVE  Claims' /\ Places'
<1>1. /\ op.pc = "check" /\ op.pc \in Inside /\ {"commit", "hook"} \subseteq PCs
      /\ "unhook" \in UndoPCs \ {"unhookWrite"}
  BY InsidePlaces DEF Check, PCs, UndoPCs
<1>2. /\ op.want.instText = InstalledText(op.want.origText)
      /\ SameClaim(marker, op.want) /\ "hook" \notin op.did /\ marker.present
  BY <1>1 DEF Places, CommitClaims, Truth, CommitFits
<1>3. marker.instText # Empty
  BY <1>2, TextValues, TextsTyped DEF SameClaim
<1>4. touched \/ Matches(autorun, marker)
  BY <1>2, <1>3 DEF Claims
<1>5. CASE Still("unhook")
  BY <1>1, <1>5, FaultUndone
<1>6. CASE Still("commit") /\ autorun.present
  <2>1. SameOwner /\ marker' = marker /\ Goto("commit") /\ autorun' = autorun
    BY <1>6 DEF Still, Quiet, observers, persistent, SameOwner
  <2>2. /\ op'.pc = "commit" /\ op'.prev = op.prev /\ op'.seen = op.seen
        /\ op'.want = op.want /\ op'.did = op.did
    BY <1>1, <2>1, GotoType, PlacesTyped
  <2>3. touched' \/ Hosts(autorun', marker')
    BY <1>4, <1>6, <2>1 DEF Matches, Hosts, SameOwner
  <2>4. CommitClaims' /\ HookClaims'
    BY <1>2, <2>1, <2>2, <2>3 DEF CommitClaims, HookClaims, SameClaim, UndoPCs
  <2>5. UpgradeClaims'
    BY <1>1, <2>1, <2>2, UpgradeUnwritten DEF Places, SameOwner
  <2> QED
    BY <2>1, <2>2, <2>4, <2>5, ClaimsUnwritten, CommitPlaces
<1>7. CASE /\ Goto("hook") /\ raced' = (raced \/ Stale) /\ autorun = op.seen
           /\ UNCHANGED <<persistent, owned, touched>>
  <2>1. SameOwner /\ marker' = marker /\ autorun' = autorun
    BY <1>7 DEF persistent, SameOwner
  <2>2. /\ op'.pc = "hook" /\ op'.prev = op.prev /\ op'.seen = op.seen
        /\ op'.want = op.want /\ op'.did = op.did
    BY <1>1, <1>7, GotoType, PlacesTyped
  <2>3. UpgradeClaims'
    BY <1>1, <2>1, <2>2, UpgradeUnwritten DEF Places, SameOwner
  <2>4. CommitClaims'
    BY <1>2, <2>1, <2>2 DEF CommitClaims, SameClaim
  <2>5. raced' \/ (op.want.origText = Strip(op.seen.text) /\ op.want.origKind = op.seen.kind)
    BY <1>7 DEF Stale
  <2>6. touched' \/ Matches(op'.seen, marker')
    BY <1>4, <1>7, <2>1, <2>2 DEF Matches, Hosts, SameOwner
  <2>7. HookClaims'
    BY <1>2, <1>7, <2>1, <2>2, <2>5, <2>6 DEF HookClaims, SameClaim, UndoPCs
  <2> QED
    BY <2>1, <2>2, <2>3, <2>4, <2>7, ClaimsUnwritten, CommitPlaces
<1> QED
  BY <1>5, <1>6, <1>7 DEF Check

\* The hook keeps the user's part of what it was composed from.
LEMMA HookUser ==
  ASSUME Inv, Truth, Claims, Places, Hook
  PROVE  Claims' /\ Places'
<1>1. /\ op.pc = "hook" /\ op.pc \in Inside
      /\ "unhook" \in UndoPCs \ {"unhookWrite"}
  BY InsidePlaces DEF Hook, UndoPCs
<1>2. /\ op.want.instText = InstalledText(op.want.origText) /\ SameClaim(marker, op.want)
      /\ raced \/ (op.want.origText = Strip(op.seen.text) /\ op.want.origKind = op.seen.kind)
      /\ touched \/ Matches(op.seen, marker)
      /\ autorun = op.seen \/ (raced /\ touched)
  BY <1>1 DEF Places, HookClaims
<1>3. CASE Fault("unhook")
  BY <1>1, <1>3, FaultUndone
<1>4. CASE /\ autorun' = HookValue /\ Quiet /\ marker' = marker
           /\ op' = [op EXCEPT !.pc = "commit", !.did = @ \cup {"hook"}]
  <2>1. /\ op'.pc = "commit" /\ op'.prev = op.prev /\ op'.seen = op.seen
        /\ op'.want = op.want /\ op'.did = op.did \cup {"hook"}
        /\ UNCHANGED <<owned, raced, touched>>
    BY <1>4, PlacesTyped DEF Ops, Quiet, observers
  <2>2. /\ autorun'.present = TRUE /\ autorun'.kind = op.want.origKind
        /\ autorun'.text = op.want.instText
    BY <1>4 DEF HookValue
  <2>3. Hosts(autorun', marker')
    BY <1>2, <1>4, <2>2 DEF Hosts, SameClaim
  <2>4. marker.instText # Empty
    BY <1>2, TextValues, TextsTyped DEF SameClaim
  <2>5. raced \/ SameUser(autorun', owned)
    <3>1. CASE ~raced
      <4>1. autorun = op.seen /\ Whole(autorun) /\ SameUser(autorun, owned)
        BY <1>2, <3>1 DEF Claims
      <4>2. /\ op.want.origText.user = autorun.text.user /\ op.want.origKind = autorun.kind
            /\ op.want.instText.user = autorun.text.user
        BY <1>2, <3>1, <4>1, TextValues, TextsTyped
      <4>3. OwnText(autorun) = autorun.text.user
        BY <4>1, OwnTextOf, TextsTyped
      <4>4. OwnText(autorun') = autorun.text.user /\ autorun'.kind = autorun.kind
        BY <2>2, <4>2 DEF OwnText
      <4> QED
        BY <4>1, <4>3, <4>4 DEF SameUser
    <3> QED
      BY <3>1
  <2>6. Claims'
    <3>1. /\ Whole(autorun') /\ Whole(op'.seen) /\ RecordFits(marker')
          /\ ~HalfPublished' /\ (Live' => marker'.instText # Empty)
      BY <1>4, <2>1, <2>2, <2>4 DEF Claims, Whole, RecordFits, HalfPublished
    <3>2. Matches(autorun', marker') /\ (raced' \/ SameUser(autorun', owned'))
      BY <2>1, <2>3, <2>5 DEF Matches, SameUser, OwnText
    <3> QED
      BY <2>3, <3>1, <3>2 DEF Claims
  <2>7. UpgradeClaims'
    BY <1>1, <1>4, <2>1, UpgradeUnwritten DEF Places
  <2>8. CommitClaims' /\ HookClaims'
    BY <1>2, <1>4, <2>1, <2>3 DEF CommitClaims, HookClaims, SameClaim, Matches, Hosts
  <2> QED
    BY <2>1, <2>6, <2>7, <2>8, CommitPlaces
<1> QED
  BY <1>3, <1>4 DEF Hook

LEMMA CommitUser ==
  ASSUME Inv, Truth, Claims, Places, Commit \/ Discard
  PROVE  Claims' /\ Places'
<1>1. CASE Discard
  <2>1. /\ SameOwner /\ marker' = marker
        /\ op' = [op EXCEPT !.pc = "cleanup", !.at = 1, !.then = "prune"]
    BY <1>1 DEF Discard, SameOwner, observers
  <2>2. op'.pc = "cleanup" /\ op'.seen = op.seen
    BY <2>1, PlacesTyped DEF Ops
  <2> QED
    BY <2>1, <2>2, ClaimsUnwritten, FreePlaces, IdleFree
<1>2. CASE op.pc = "commit" /\ Fault("unhook")
  <2>1. "unhook" \in UndoPCs \ {"unhookWrite"}
    BY DEF UndoPCs
  <2> QED
    BY <1>2, <2>1, FaultUndone
<1>3. CASE op.pc = "commit" /\ SetMarker([marker EXCEPT !.state = "installed"], "discard")
  <2> DEFINE m == [marker EXCEPT !.state = "installed"]
  <2>1. marker' = m /\ Goto("discard") /\ SameOwner
    BY <1>3 DEF SetMarker, Quiet, observers, SameOwner
  <2>2. /\ m.origPresent = marker.origPresent /\ m.origKind = marker.origKind
        /\ m.origText = marker.origText /\ m.instText = marker.instText
        /\ m.present = marker.present
    BY PlacesTyped DEF Markers
  <2> HIDE DEF m
  <2>3. op'.pc = "discard" /\ op'.seen = op.seen
    BY <2>1, GotoType, PlacesTyped DEF PCs
  <2>4. /\ op.want.instText = InstalledText(op.want.origText) /\ SameClaim(marker, op.want)
        /\ touched \/ Hosts(autorun, marker)
    BY <1>3 DEF Places, CommitClaims
  <2>5. marker.instText # Empty
    BY <2>4, TextValues, TextsTyped DEF SameClaim
  <2>6. Claims'
    BY <2>1, <2>2, <2>3, <2>4, <2>5
       DEF Claims, SameOwner, Whole, RecordFits, HalfPublished, SameUser, OwnText, Matches, Hosts
  <2> QED
    BY <2>3, <2>6, FreePlaces, IdleFree
<1> QED
  BY <1>1, <1>2, <1>3 DEF Commit

-----------------------------------------------------------------------------
\* undo.
LEMMA UndoPlaces ==
  ASSUME op'.pc \in UndoPCs, UpgradeClaims', HookClaims'
  PROVE  Places'
BY DEF Places, PublishClaims, CommitClaims, RestoreClaims, RemovalClaims, UndoPCs

LEMMA UnhookUser ==
  ASSUME Inv, Truth, Claims, Places, Unhook
  PROVE  Claims' /\ Places'
<1>1. /\ op.pc = "unhook" /\ op.pc \in Inside /\ op.pc \in UndoPCs
      /\ "undeploy" \in UndoPCs \ {"unhookWrite"} /\ "unhookWrite" \in PCs \cap UndoPCs
  BY InsidePlaces DEF Unhook, UndoPCs, PCs
<1>2. CASE Still("undeploy")
  BY <1>1, <1>2, FaultUndone
<1>3. CASE Finish("failed")
  BY <1>3, StoppedUser
<1>4. CASE "hook" \in op.did /\ autorun = HookValue /\ Still("unhookWrite")
  <2>1. SameOwner /\ marker' = marker /\ Goto("unhookWrite") /\ autorun' = autorun
    BY <1>4 DEF Still, Quiet, observers, persistent, SameOwner
  <2>2. /\ op'.pc = "unhookWrite" /\ op'.prev = op.prev /\ op'.seen = op.seen
        /\ op'.want = op.want /\ op'.did = op.did
    BY <1>1, <2>1, GotoType, PlacesTyped
  <2>3. UpgradeClaims'
    BY <1>1, <2>1, <2>2, UpgradeUnwritten DEF Places, SameOwner
  <2>4. HookValue' = HookValue
    BY <2>2 DEF HookValue
  <2>5. HookClaims'
    BY <1>1, <1>4, <2>1, <2>2, <2>4
       DEF Places, HookClaims, SameOwner, SameClaim, Matches, Hosts
  <2> QED
    BY <1>1, <2>1, <2>2, <2>3, <2>5, ClaimsUnwritten, UndoPlaces
<1> QED
  BY <1>2, <1>3, <1>4 DEF Unhook

\* The value that goes back is the one the hook was composed from.
LEMMA UnhookWriteUser ==
  ASSUME Inv, Truth, Claims, Places, UnhookWrite
  PROVE  Claims' /\ Places'
<1>1. /\ op.pc = "unhookWrite" /\ op.pc \in Inside /\ op.pc \in UndoPCs
      /\ "undeploy" \in UndoPCs /\ "undeploy" \in PCs
  BY InsidePlaces DEF UnhookWrite, UndoPCs, PCs
<1>2. /\ op.want.instText = InstalledText(op.want.origText) /\ SameClaim(marker, op.want)
      /\ raced \/ (op.want.origText = Strip(op.seen.text) /\ op.want.origKind = op.seen.kind)
      /\ touched \/ Matches(op.seen, marker)
      /\ autorun = HookValue \/ (raced /\ touched)
      /\ "hook" \in op.did
  BY <1>1 DEF Places, HookClaims
<1>3. CASE FaultEnds
  BY <1>3, StoppedUser
<1>4. CASE SetAutoRun(op.seen, "undeploy")
  <2>1. /\ autorun' = op.seen /\ marker' = marker /\ Goto("undeploy")
        /\ UNCHANGED <<owned, raced, touched>>
    BY <1>4 DEF SetAutoRun, Quiet, observers
  <2>2. /\ op'.pc = "undeploy" /\ op'.prev = op.prev /\ op'.seen = op.seen
        /\ op'.want = op.want /\ op'.did = op.did
    BY <1>1, <2>1, GotoType, PlacesTyped
  <2>3. marker.instText # Empty
    BY <1>2, TextValues, TextsTyped DEF SameClaim
  <2>4. raced \/ SameUser(op.seen, owned)
    <3>1. CASE ~raced
      <4>1. autorun = HookValue /\ Whole(op.seen) /\ SameUser(autorun, owned)
        BY <1>2, <3>1 DEF Claims
      <4>2. /\ op.want.instText.user = op.seen.text.user /\ op.want.origKind = op.seen.kind
        BY <1>2, <3>1, TextValues, TextsTyped
      <4>3. OwnText(op.seen) = op.seen.text.user
        BY <4>1, OwnTextOf, TextsTyped
      <4>4. OwnText(autorun) = op.seen.text.user /\ autorun.kind = op.seen.kind
        BY <4>1, <4>2 DEF OwnText, HookValue
      <4> QED
        BY <4>1, <4>3, <4>4 DEF SameUser
    <3> QED
      BY <3>1
  <2>5. touched \/ ~Live \/ Hosts(op.seen, marker)
    <3>1. CASE Upgrading
      <4>1. SameClaim(marker, op.prev) /\ (touched \/ Hosts(op.seen, op.prev))
        BY <1>1, <3>1 DEF Places, UpgradeClaims, Inside
      <4> QED
        BY <4>1 DEF SameClaim, Hosts
    <3>2. CASE ~Upgrading
      BY <1>1, <3>2 DEF Truth, UndoFits, Live, Interrupted
    <3> QED
      BY <3>1, <3>2
  <2>6. Claims'
    <3>1. /\ Whole(autorun') /\ Whole(op'.seen) /\ RecordFits(marker')
          /\ ~HalfPublished' /\ (Live' => marker'.instText # Empty)
      BY <2>1, <2>2, <2>3 DEF Claims, Whole, RecordFits, HalfPublished
    <3>2. /\ raced' \/ SameUser(autorun', owned')
          /\ touched' \/ Matches(autorun', marker')
      BY <1>2, <2>1, <2>4 DEF Matches, Hosts, SameUser, OwnText
    <3>3. Live' => Live
      BY <2>1 DEF Live, Interrupted
    <3>4. touched' \/ ~Live' \/ Hosts(autorun', marker')
      BY <2>1, <2>5, <3>3 DEF Hosts
    <3> QED
      BY <3>1, <3>2, <3>4 DEF Claims
  <2>7. UpgradeClaims'
    BY <1>1, <2>1, <2>2, UpgradeUnwritten DEF Places
  <2>8. HookClaims'
    BY <1>2, <2>1, <2>2 DEF HookClaims, SameClaim, Matches, Hosts
  <2> QED
    BY <1>1, <2>2, <2>6, <2>7, <2>8, UndoPlaces
<1> QED
  BY <1>3, <1>4 DEF UnhookWrite

LEMMA UndeployUser ==
  ASSUME Inv, Truth, Claims, Places, Undeploy \/ Unswap
  PROVE  Claims' /\ Places'
<1>1. op.pc \in UndoPCs /\ {"undeploy", "unswap", "unmark"} \subseteq UndoPCs \ {"unhookWrite"}
  BY DEF Undeploy, Unswap, UndoPCs
<1>2. CASE FaultEnds
  BY <1>2, StoppedUser
<1>3. CASE SameOwner /\ marker' = marker /\ \E p \in {"undeploy", "unswap", "unmark"} : Goto(p)
  BY <1>1, <1>3, UndoneUser
<1> QED
  BY <1>2, <1>3 DEF Undeploy, Unswap, Still, SetDirs, Quiet, observers, persistent, SameOwner

LEMMA UnmarkUser ==
  ASSUME Inv, Truth, Claims, Places, Unmark
  PROVE  Claims' /\ Places'
<1>1. op.pc = "unmark" /\ op.pc \in Inside
  BY InsidePlaces DEF Unmark
<1>2. CASE FaultEnds
  BY <1>2, StoppedUser
<1>3. CASE /\ Upgrading /\ SameOwner /\ marker' = marker
           /\ op' = [op EXCEPT !.pc = "restore", !.at = 1, !.want = op.prev, !.then = "idle"]
  <2>1. op'.pc = "restore" /\ op'.want = op.prev /\ op'.seen = op.seen
    BY <1>3, PlacesTyped DEF Ops
  <2>2. SameClaim(marker, op.prev) /\ op.prev.instText # Empty /\ Live
    BY <1>1, <1>3 DEF Places, UpgradeClaims, Inside
  <2>3. RestoreClaims'
    BY <1>3, <2>1, <2>2 DEF RestoreClaims, SameClaim, Live, Interrupted
  <2> QED
    BY <1>3, <2>1, <2>3, ClaimsUnwritten, RestorePlaces
<1>4. CASE marker' = NoMarker /\ op' = Idle /\ SameOwner
  <2>1. Whole(op'.seen)
    BY <1>4, IdleClean DEF Whole
  <2> QED
    BY <1>4, <2>1, ClaimsForgotten, FreePlaces, IdleFree
<1> QED
  BY <1>2, <1>3, <1>4 DEF Unmark, observers, SameOwner

LEMMA UndoUser ==
  ASSUME Inv, Truth, Claims, Places, Undo
  PROVE  Claims' /\ Places'
BY UnhookUser, UnhookWriteUser, UndeployUser, UnmarkUser DEF Undo

-----------------------------------------------------------------------------
\* uninstall.
LEMMA RemovalPlaces ==
  ASSUME op'.pc \in {"markPath", "markState", "retire", "restoreUser"},
         raced' \/ SameUser(Original', owned')
  PROVE  Places'
BY DEF Places, UpgradeClaims, PublishClaims, CommitClaims, HookClaims, RestoreClaims,
   RemovalClaims, InstallPCs, UndoPCs

\* A value that the judgement accepts keeps what is the user's in the recorded one.
LEMMA JudgedOriginal ==
  ASSUME Inv, Claims, marker.present, JudgeMatches(autorun, marker),
         ~raced, ~(HalfPublished /\ touched)
  PROVE  SameUser(Original, owned)
<1>1. /\ Whole(autorun) /\ RecordFits(marker) /\ SameUser(autorun, owned)
      /\ touched \/ ~HalfPublished \/ marker.origText.user \in {NoText, OwnText(autorun)}
  BY DEF Claims
<1>2. OwnText(Original) = IF marker.origPresent THEN marker.origText.user ELSE NoText
  BY EmptyFields DEF Original, OwnText
<1>3. OwnText(Original) = marker.origText.user
  BY <1>1, <1>2 DEF RecordFits
<1>4. OwnText(autorun) = autorun.text.user
  BY <1>1, OwnTextOf, TextsTyped
<1>5. OwnText(Original) = OwnText(autorun)
  <2>1. CASE ~autorun.present
    BY <1>1, <1>2, <2>1, EmptyFields DEF JudgeMatches, Whole, OwnText
  <2>2. CASE autorun.present /\ autorun.text = marker.origText
    BY <1>3, <1>4, <2>2
  <2>3. CASE autorun.present /\ autorun.text = marker.instText
    <3>1. CASE marker.instText # Empty
      <4>1. autorun.text = InstalledText(marker.origText)
        BY <1>1, <2>3, <3>1 DEF RecordFits
      <4>2. autorun.text.user = marker.origText.user
        BY <4>1, TextValues, TextsTyped
      <4> QED
        BY <1>3, <1>4, <4>2
    <3>2. CASE marker.instText = Empty
      <4>1. marker.origText.user \in {NoText, OwnText(autorun)}
        BY <1>1, <3>2 DEF HalfPublished
      <4>2. OwnText(autorun) = NoText
        BY <1>4, <2>3, <3>2, EmptyFields
      <4> QED
        BY <1>3, <4>1, <4>2
    <3> QED
      BY <3>1, <3>2
  <2> QED
    BY <2>1, <2>2, <2>3 DEF JudgeMatches
<1>6. ASSUME OwnText(owned) # NoText PROVE Original.kind = owned.kind
  <2>1. OwnText(autorun) # NoText /\ autorun.kind = owned.kind
    BY <1>1, <1>6 DEF SameUser
  <2>2. autorun.present /\ marker.origPresent
    BY <1>2, <1>5, <2>1 DEF OwnText
  <2>3. Original.kind = marker.origKind /\ autorun.kind = marker.origKind
    BY <2>2 DEF Original, JudgeMatches
  <2> QED
    BY <2>1, <2>3
<1> QED
  BY <1>1, <1>5, <1>6 DEF SameUser

LEMMA JudgeUser ==
  ASSUME Inv, Truth, Claims, Places, Judge
  PROVE  Claims' /\ Places'
<1>1. CASE Still(UninstallDone) \/ Refuse("unknown") \/ Refuse("changed")
  <2>1. UninstallDone \in Free
    BY IdleFree DEF UninstallDone
  <2> QED
    BY <1>1, <2>1, StoppedUser
<1>2. CASE /\ marker.present /\ JudgeMatches(autorun, marker)
           /\ raced' = (raced \/ (HalfPublished /\ touched))
           /\ UNCHANGED <<persistent, owned, touched>>
           /\ op'.pc \in {"markPath", "restoreUser"} /\ op'.seen = op.seen
  <2>1. SameOwner /\ marker' = marker /\ owned' = owned
    BY <1>2 DEF SameOwner, persistent
  <2>2. raced' \/ SameUser(Original, owned)
    BY <1>2, JudgedOriginal
  <2>3. Original' = Original
    BY <2>1 DEF Original
  <2>4. raced' \/ SameUser(Original', owned')
    BY <2>1, <2>2, <2>3 DEF SameUser, OwnText
  <2> QED
    BY <1>2, <2>1, <2>4, ClaimsUnwritten, RemovalPlaces
<1>3. ASSUME NEW t, NEW d, \/ op' = [op EXCEPT !.pc = "restoreUser", !.tx = t, !.did = d]
                           \/ op' = [op EXCEPT !.pc = "restoreUser"]
                           \/ op' = [op EXCEPT !.pc = "markPath", !.tx = t]
      PROVE  op'.pc \in {"markPath", "restoreUser"} /\ op'.seen = op.seen
  BY <1>3, PlacesTyped DEF Ops
<1>4. CASE /\ marker.present /\ JudgeMatches(autorun, marker)
           /\ raced' = (raced \/ (HalfPublished /\ touched))
           /\ UNCHANGED <<persistent, owned, touched>>
           /\ \E t, d : \/ op' = [op EXCEPT !.pc = "restoreUser", !.tx = t, !.did = d]
                        \/ op' = [op EXCEPT !.pc = "restoreUser"]
                        \/ op' = [op EXCEPT !.pc = "markPath", !.tx = t]
  BY <1>2, <1>3, <1>4
<1> QED
  BY <1>1, <1>4, ZenonT(30) DEF Judge

LEMMA MarkUser ==
  ASSUME Inv, Truth, Claims, Places, MarkPath \/ MarkState
  PROVE  Claims' /\ Places'
<1>1. /\ op.pc \in {"markPath", "markState"} /\ ~Pending(marker)
      /\ raced \/ SameUser(Original, owned)
  BY DEF MarkPath, MarkState, Places, RemovalClaims, Truth, JobFits, AtRest
<1>2. CASE RefuseFault
  BY <1>2, StoppedUser
<1>3. ASSUME NEW m, SameClaim(m, marker), m.present = marker.present,
             m.state = "installed" => marker.state = "installed",
             m.upPending = marker.upPending, m.upVersion = marker.upVersion,
             NEW p \in {"markState", "retire"}, SetMarker(m, p)
      PROVE  Claims' /\ Places'
  <2>1. /\ marker' = m /\ Goto(p) /\ SameOwner /\ UNCHANGED <<owned, raced>> /\ p \in PCs
    BY <1>3 DEF SetMarker, Quiet, observers, SameOwner, PCs
  <2>2. op'.pc = p /\ op'.seen = op.seen
    BY <2>1, GotoType, PlacesTyped
  <2>3. Whole(op'.seen)
    BY <2>2 DEF Claims
  <2>4. Live' => Live
    BY <1>1, <1>3, <2>1 DEF Live, Interrupted, Pending
  <2>5. Claims'
    BY <1>3, <2>1, <2>3, <2>4, ClaimsSame
  <2>6. Original' = Original
    BY <1>3, <2>1 DEF Original, SameClaim
  <2>7. raced' \/ SameUser(Original', owned')
    BY <1>1, <2>1, <2>6 DEF SameUser, OwnText
  <2> QED
    BY <2>2, <2>5, <2>7, RemovalPlaces
<1>4. CASE SetMarker([marker EXCEPT !.removal = op.tx], "markState")
  <2> DEFINE m == [marker EXCEPT !.removal = op.tx]
  <2>1. /\ m.origPresent = marker.origPresent /\ m.origKind = marker.origKind
        /\ m.origText = marker.origText /\ m.instText = marker.instText
        /\ m.present = marker.present /\ m.state = marker.state
        /\ m.upPending = marker.upPending /\ m.upVersion = marker.upVersion
    BY PlacesTyped DEF Markers
  <2>2. SetMarker(m, "markState")
    BY <1>4
  <2> HIDE DEF m
  <2> QED
    BY <1>3, <2>1, <2>2 DEF SameClaim
<1>5. CASE SetMarker([marker EXCEPT !.state = "removing"], "retire")
  <2> DEFINE m == [marker EXCEPT !.state = "removing"]
  <2>1. /\ m.origPresent = marker.origPresent /\ m.origKind = marker.origKind
        /\ m.origText = marker.origText /\ m.instText = marker.instText
        /\ m.present = marker.present /\ m.state = "removing"
        /\ m.upPending = marker.upPending /\ m.upVersion = marker.upVersion
    BY PlacesTyped DEF Markers
  <2>2. SetMarker(m, "retire")
    BY <1>5
  <2> HIDE DEF m
  <2> QED
    BY <1>3, <2>1, <2>2 DEF SameClaim
<1> QED
  BY <1>2, <1>4, <1>5 DEF MarkPath, MarkState

LEMMA RetireUser ==
  ASSUME Inv, Truth, Claims, Places, Retire
  PROVE  Claims' /\ Places'
<1>1. op.pc = "retire" /\ (raced \/ SameUser(Original, owned))
  BY DEF Retire, Places, RemovalClaims
<1>2. CASE RefuseFault
  BY <1>2, StoppedUser
<1>3. CASE /\ op' = [op EXCEPT !.pc = "restoreUser", !.did = {"retire"}]
           /\ Quiet /\ UNCHANGED <<autorun, marker>>
  <2>1. op'.pc = "restoreUser" /\ op'.seen = op.seen
    BY <1>3, PlacesTyped DEF Ops
  <2>2. SameOwner /\ UNCHANGED <<owned, raced, marker>>
    BY <1>3 DEF Quiet, observers, SameOwner
  <2>3. Original' = Original
    BY <2>2 DEF Original
  <2>4. raced' \/ SameUser(Original', owned')
    BY <1>1, <2>2, <2>3 DEF SameUser, OwnText
  <2> QED
    BY <2>1, <2>2, <2>4, ClaimsUnwritten, RemovalPlaces
<1> QED
  BY <1>2, <1>3 DEF Retire

\* The recorded original goes back, whatever AutoRun holds by now.
LEMMA RestoreUserUser ==
  ASSUME Inv, Truth, Paths, Claims, Places, RestoreUser
  PROVE  Claims' /\ Places'
<1>1. /\ op.pc = "restoreUser" /\ (raced \/ SameUser(Original, owned))
      /\ ~Pending(marker) /\ marker.state # "installed" /\ RecordFits(marker)
  BY DEF RestoreUser, Places, RemovalClaims, Truth, JobFits, AtRest, Paths, Claims
<1>2. CASE RefuseFault \/ Fault("unretire")
  BY <1>2, StoppedUser, IdleFree
<1>3. CASE SetAutoRun(Original, "forget")
  <2>1. /\ autorun' = Original /\ marker' = marker /\ Goto("forget")
        /\ UNCHANGED <<owned, raced, touched>>
    BY <1>3 DEF SetAutoRun, Quiet, observers
  <2>2. op'.pc = "forget" /\ op'.seen = op.seen
    BY <2>1, GotoType, PlacesTyped DEF PCs
  <2>3. OwnText(Original) = marker.origText.user
    BY <1>1, EmptyFields DEF Original, OwnText, RecordFits
  <2>4. Whole(Original)
    BY DEF Original, Whole
  <2>5. Matches(Original, marker)
    BY EmptyFields DEF Original, Matches, Hosts
  <2>6. ~Live'
    BY <1>1, <2>1 DEF Live, Interrupted
  <2>7. Claims'
    <3>1. Whole(autorun') /\ Whole(op'.seen) /\ RecordFits(marker')
      BY <1>1, <2>1, <2>2, <2>4 DEF Claims, Whole
    <3>2. /\ raced' \/ SameUser(autorun', owned')
          /\ Matches(autorun', marker')
          /\ marker'.origText.user = OwnText(autorun')
      BY <1>1, <2>1, <2>3, <2>5 DEF SameUser, OwnText, Matches, Hosts
    <3> QED
      BY <2>6, <3>1, <3>2 DEF Claims
  <2> QED
    BY <2>2, <2>7, FreePlaces, IdleFree
<1> QED
  BY <1>2, <1>3 DEF RestoreUser

LEMMA ForgetUser ==
  ASSUME Inv, Truth, Claims, Places, Unretire \/ Forget
  PROVE  Claims' /\ Places'
<1>1. CASE RefuseFault
  BY <1>1, StoppedUser
<1>2. CASE Return("failed") /\ UNCHANGED <<autorun, marker>>
  <2>1. SameOwner /\ (op' = Idle \/ \E p \in Free : Goto(p))
    BY <1>2, IdleFree DEF Return, observers, SameOwner
  <2> QED
    BY <1>2, <2>1, FreeUser
<1>3. CASE marker' = NoMarker /\ Goto(UninstallDone) /\ autorun' = autorun /\ UNCHANGED observers
  <2>1. UninstallDone \in Free /\ UninstallDone \in PCs
    BY IdleFree DEF UninstallDone, PCs
  <2>2. op'.pc = UninstallDone /\ op'.seen = op.seen /\ SameOwner
    BY <1>3, <2>1, GotoType, PlacesTyped DEF observers, SameOwner
  <2>3. Whole(op'.seen)
    BY <2>2 DEF Claims
  <2> QED
    BY <1>3, <2>1, <2>2, <2>3, ClaimsForgotten, FreePlaces
<1> QED
  BY <1>1, <1>2, <1>3 DEF Unretire, Forget

LEMMA UninstallUser ==
  ASSUME Inv, Truth, Paths, Claims, Places, Uninstall
  PROVE  Claims' /\ Places'
BY JudgeUser, MarkUser, RetireUser, RestoreUserUser, ForgetUser DEF Uninstall

-----------------------------------------------------------------------------
\* strip_autorun_hook and the prunes.
StrippedOf(ar) ==
  IF Strip(ar.text) = Empty THEN Absent ELSE [ar EXCEPT !.text = Strip(ar.text)]

LEMMA StrippedValues ==
  ASSUME NEW ar \in AutoRuns, Whole(ar)
  PROVE  /\ Whole(StrippedOf(ar)) /\ OwnText(StrippedOf(ar)) = OwnText(ar)
         /\ OwnText(ar) # NoText => StrippedOf(ar).kind = ar.kind
         /\ IF Strip(ar.text) = Empty THEN ~StrippedOf(ar).present
            ELSE /\ StrippedOf(ar).present /\ StrippedOf(ar).kind = ar.kind
                 /\ StrippedOf(ar).text = Strip(ar.text)
<1>1. ar.text \in Texts
  BY DEF AutoRuns
<1>2. OwnText(ar) = ar.text.user
  BY OwnTextOf
<1>3. CASE Strip(ar.text) = Empty
  <2>1. StrippedOf(ar) = Absent
    BY <1>3 DEF StrippedOf
  <2> QED
    BY <1>1, <1>2, <1>3, <2>1, TextValues, EmptyFields DEF Whole, OwnText
<1>4. CASE Strip(ar.text) # Empty
  <2>1. ar.present
    <3>1. CASE ar = Absent
      <4>1. ar.text = Empty /\ Strip(Empty) = Empty
        BY <3>1, TextValues, EmptyFields
      <4> QED
        BY <1>4, <4>1
    <3> QED
      BY <3>1 DEF Whole
  <2>2. StrippedOf(ar) = [ar EXCEPT !.text = Strip(ar.text)]
    BY <1>4 DEF StrippedOf
  <2>3. /\ StrippedOf(ar).present = ar.present /\ StrippedOf(ar).kind = ar.kind
        /\ StrippedOf(ar).text = Strip(ar.text)
    BY <2>2 DEF AutoRuns
  <2>4. OwnText(StrippedOf(ar)) = ar.text.user
    BY <1>1, <2>1, <2>3, TextValues DEF OwnText
  <2> QED
    BY <1>2, <1>4, <2>1, <2>3, <2>4 DEF Whole
<1> QED
  BY <1>3, <1>4

LEMMA StripUser ==
  ASSUME Inv, Truth, Paths, Single, Claims, Places, StripRead \/ StripWrite
  PROVE  Claims' /\ Places'
<1>1. AfterStrip \in Free /\ AfterStrip \in PCs
  BY IdleFree DEF AfterStrip, PCs
<1>2. CASE Still(AfterStrip) \/ Fault(AfterStrip)
  BY <1>1, <1>2, StoppedUser
<1>3. CASE /\ op' = [op EXCEPT !.pc = "stripWrite", !.seen = autorun]
           /\ Quiet /\ UNCHANGED persistent
  <2>1. /\ op'.pc = "stripWrite" /\ op'.seen = autorun /\ SameOwner /\ marker' = marker
        /\ autorun' = autorun
    BY <1>3, PlacesTyped DEF Ops, Quiet, observers, persistent, SameOwner
  <2>2. Whole(op'.seen) /\ SameClaim(marker', marker) /\ (Live' => Live)
    BY <2>1 DEF Claims, SameClaim, Live, Interrupted
  <2>3. Claims'
    BY <2>1, <2>2, ClaimsSame
  <2>4. Places'
    BY <2>1 DEF Places, UpgradeClaims, PublishClaims, CommitClaims, HookClaims, RestoreClaims,
       RemovalClaims, InstallPCs, UndoPCs
  <2> QED
    BY <2>3, <2>4
<1>4. CASE op.pc = "stripWrite" /\ SetAutoRun(StrippedOf(op.seen), AfterStrip)
  <2>1. /\ autorun' = StrippedOf(op.seen) /\ marker' = marker /\ Goto(AfterStrip)
        /\ UNCHANGED <<owned, raced, touched>>
    BY <1>4 DEF SetAutoRun, Quiet, observers
  <2>2. op'.pc = AfterStrip /\ op'.seen = op.seen
    BY <1>1, <2>1, GotoType, PlacesTyped
  <2>3. /\ op.seen = autorun \/ (raced /\ touched)
        /\ Whole(op.seen) /\ Whole(autorun) /\ RecordFits(marker)
    BY <1>4 DEF Places, RemovalClaims, Claims
  <2>4. ~Live
    <3>1. CASE op.job = "orphan"
      <4>1. ~marker.present
        BY <1>4, <3>1 DEF Paths
      <4> QED
        BY <4>1, LivePresent DEF Truth
    <3>2. CASE op.job = "repair"
      <4>1. ~Pending(marker) /\ dirs[Root] = Nothing
        BY <1>4, <3>2 DEF Paths
      <4>2. marker.state = "installed" => dirs[Root] \in Builds
        BY DEF Truth, Recorded
      <4> QED
        BY <4>1, <4>2 DEF Live, Interrupted, Builds, Nothing
    <3> QED
      BY <1>4, <3>1, <3>2 DEF Truth, JobFits
  <2>5. ~Live'
    BY <2>1, <2>4 DEF Live, Interrupted
  <2>6. op.seen \in AutoRuns /\ autorun \in AutoRuns
    BY TextsTyped
  <2>7. raced \/ (OwnText(autorun') = OwnText(autorun) /\ SameUser(autorun', owned))
    <3>1. CASE ~raced
      <4>1. op.seen = autorun /\ SameUser(autorun, owned)
        BY <2>3, <3>1 DEF Claims
      <4>2. /\ OwnText(autorun') = OwnText(autorun)
            /\ OwnText(autorun) # NoText => autorun'.kind = autorun.kind
        BY <2>1, <2>3, <2>6, <4>1, StrippedValues
      <4> QED
        BY <4>1, <4>2 DEF SameUser
    <3> QED
      BY <3>1
  <2>8. touched \/ ~marker.present \/ marker.instText = Empty \/ Matches(autorun', marker)
    <3> SUFFICES ASSUME ~touched, marker.present, marker.instText # Empty
                 PROVE  Matches(autorun', marker)
      OBVIOUS
    <3>1. op.seen = autorun /\ Matches(autorun, marker)
      BY <2>3 DEF Claims
    <3>2. marker.origText.hooks = 0 /\ marker.instText = InstalledText(marker.origText)
      BY <2>3 DEF Single, Clean, RecordFits
    <3>3. CASE Hosts(autorun, marker)
      <4>1. Strip(autorun.text) = marker.origText
        BY <3>2, <3>3, TextValues, TextsTyped DEF Hosts
      <4>2. autorun.kind = marker.origKind
        BY <3>3 DEF Hosts
      <4>3. IF marker.origText = Empty THEN ~autorun'.present
            ELSE autorun'.present /\ autorun'.kind = autorun.kind /\ autorun'.text = marker.origText
        BY <2>1, <2>3, <2>6, <3>1, <4>1, StrippedValues
      <4> HIDE DEF Empty
      <4> QED
        BY <4>2, <4>3 DEF Matches, Hosts
    <3>4. CASE ~Hosts(autorun, marker)
      <4>1. ~autorun.present /\ (~marker.origPresent \/ marker.origText = Empty)
        BY <3>1, <3>4 DEF Matches
      <4>2. autorun.text = Empty
        BY <2>3, <4>1, EmptyFields DEF Whole
      <4>3. Strip(autorun.text) = Empty
        BY <4>2, TextValues, EmptyFields
      <4>4. ~autorun'.present
        BY <2>1, <2>3, <2>6, <3>1, <4>3, StrippedValues
      <4> QED
        BY <4>1, <4>4 DEF Matches
    <3> QED
      BY <3>3, <3>4
  <2>9. Claims'
    <3>1. Whole(autorun') /\ Whole(op'.seen) /\ RecordFits(marker')
      BY <2>1, <2>2, <2>3, <2>6, StrippedValues DEF Whole
    <3>2. raced' \/ SameUser(autorun', owned')
      BY <2>1, <2>7 DEF SameUser, OwnText
    <3>3. raced' \/ touched' \/ ~HalfPublished'
            \/ marker'.origText.user \in {NoText, OwnText(autorun')}
      <4>1. HalfPublished' <=> HalfPublished
        BY <2>1 DEF HalfPublished
      <4>2. raced \/ touched \/ ~HalfPublished
              \/ marker.origText.user \in {NoText, OwnText(autorun)}
        BY DEF Claims
      <4>3. raced \/ OwnText(autorun') = OwnText(autorun)
        BY <2>7
      <4>4. OwnText(autorun)' = OwnText(autorun')
        BY DEF OwnText
      <4> QED
        BY <2>1, <4>1, <4>2, <4>3, <4>4
    <3>4. touched' \/ ~marker'.present \/ marker'.instText = Empty \/ Matches(autorun', marker')
      BY <2>1, <2>8 DEF Matches, Hosts
    <3> QED
      BY <2>5, <3>1, <3>2, <3>3, <3>4 DEF Claims
  <2> QED
    BY <1>1, <2>2, <2>9, FreePlaces
<1> QED
  BY <1>2, <1>3, <1>4 DEF StripRead, StripWrite, StrippedOf

LEMMA HygieneUser ==
  ASSUME Inv, Truth, Paths, Single, Claims, Places, Hygiene
  PROVE  Claims' /\ Places'
<1>1. CASE StripRead \/ StripWrite
  BY <1>1, StripUser
<1>2. CASE Wipe
  <2>1. marker' = NoMarker /\ Goto("bury") /\ SameOwner
    BY <1>2 DEF Wipe, SetMarker, Quiet, observers, SameOwner
  <2>2. op'.pc = "bury" /\ op'.seen = op.seen
    BY <2>1, GotoType, PlacesTyped DEF PCs
  <2>3. Whole(op'.seen)
    BY <2>2 DEF Claims
  <2> QED
    BY <2>1, <2>2, <2>3, ClaimsForgotten, FreePlaces, IdleFree
<1>3. CASE Bury \/ Sweep
  <2>1. SameOwner /\ marker' = marker /\ (op' = Idle \/ Goto("strip"))
    BY <1>3 DEF Bury, Sweep, observers, SameOwner
  <2> QED
    BY <2>1, FreeUser, IdleFree
<1>4. CASE Prune
  <2>1. /\ SameOwner /\ marker' = marker
        /\ op' = [op EXCEPT !.pc = "recover", !.then = "sweep", !.at = 1]
    BY <1>4 DEF Prune, Quiet, observers, persistent, SameOwner
  <2>2. op'.pc = "recover" /\ op'.seen = op.seen
    BY <2>1, PlacesTyped DEF Ops
  <2> QED
    BY <2>1, <2>2, ClaimsUnwritten, FreePlaces, IdleFree
<1> QED
  BY <1>1, <1>2, <1>3, <1>4 DEF Hygiene

-----------------------------------------------------------------------------
\* The environment.  An edit is the user's new value; the claims that it breaks are
\* those that touched and raced excuse.
LEMMA EditUser ==
  ASSUME Inv, Claims, Places, Edit
  PROVE  Claims' /\ Places'
<1>1. /\ op' = op /\ marker' = marker /\ touched' = TRUE
      /\ raced' = (raced \/ op.pc \in Windows)
      /\ owned' = [autorun' EXCEPT !.text = Strip(autorun'.text)]
      /\ autorun' \in AutoRuns /\ Whole(autorun')
  BY DEF Edit, Whole
<1>2. autorun'.text \in Texts
  BY <1>1 DEF AutoRuns
<1>3. /\ owned'.present = autorun'.present /\ owned'.kind = autorun'.kind
      /\ owned'.text = Strip(autorun'.text)
  BY <1>1 DEF AutoRuns
<1>4. SameUser(autorun', owned')
  BY <1>2, <1>3, TextValues DEF SameUser, OwnText
<1>5. Live' <=> Live
  BY <1>1 DEF Live, Interrupted
<1>6. Claims'
  BY <1>1, <1>4, <1>5 DEF Claims, Whole, RecordFits, SameUser, OwnText
<1>7. UpgradeClaims' /\ PublishClaims' /\ CommitClaims' /\ RestoreClaims'
  BY <1>1, <1>5 DEF Places, UpgradeClaims, PublishClaims, CommitClaims, RestoreClaims,
     Upgrading, SameClaim
<1>8. HookClaims' /\ RemovalClaims'
  BY <1>1 DEF Places, HookClaims, RemovalClaims, SameClaim, Windows
<1> QED
  BY <1>6, <1>7, <1>8 DEF Places

LEMMA EnvironmentUser ==
  ASSUME Inv, Claims, Places,
         \/ \E job \in Jobs : Start(job)
         \/ Crash \/ Edit \/ Product \/ UNCHANGED vars
  PROVE  Claims' /\ Places'
<1>1. ASSUME NEW job \in Jobs, Start(job) PROVE Claims' /\ Places'
  <2>1. /\ SameOwner /\ marker' = marker
        /\ op' = [Idle EXCEPT !.job = job, !.pc = "recover", !.then = "dispatch",
                              !.build = build]
    BY <1>1 DEF Start, persistent, observers, SameOwner
  <2>2. op'.pc = "recover" /\ op'.seen = Idle.seen
    BY <2>1 DEF Idle
  <2>3. Whole(op'.seen) /\ SameClaim(marker', marker) /\ (Live' => Live)
    BY <2>1, <2>2, IdleClean DEF Whole, SameClaim, Live, Interrupted
  <2> QED
    BY <2>1, <2>2, <2>3, ClaimsSame, FreePlaces, IdleFree
<1>2. CASE Crash
  <2>1. SameOwner /\ marker' = marker /\ op' = Idle
    BY <1>2 DEF Crash, persistent, observers, SameOwner
  <2> QED
    BY <2>1, FreeUser
<1>3. CASE Product \/ UNCHANGED vars
  <2>1. UNCHANGED <<op, marker, autorun, owned, raced, touched>>
    BY <1>3 DEF Product, vars, persistent, observers
  <2>2. (Live' <=> Live) /\ Original' = Original /\ HookValue' = HookValue
    BY <2>1 DEF Live, Interrupted, Original, HookValue
  <2>3. Claims'
    BY <2>1, ClaimsUnwritten DEF SameOwner
  <2>4. Places'
    BY <2>1, <2>2 DEF Places, UpgradeClaims, PublishClaims, CommitClaims, HookClaims,
       RestoreClaims, RemovalClaims, Upgrading, SameClaim, SameUser, OwnText, Matches, Hosts
  <2> QED
    BY <2>3, <2>4
<1> QED
  BY <1>1, <1>2, <1>3, EditUser

LEMMA InitUser == Init => Claims /\ Places
<1> SUFFICES ASSUME Init PROVE Claims /\ Places
  OBVIOUS
<1>1. /\ op = Idle /\ marker = NoMarker /\ autorun \in AutoRuns /\ Whole(autorun)
      /\ owned = [autorun EXCEPT !.text = Strip(autorun.text)]
  BY DEF Init, Whole
<1>2. op.pc = "idle" /\ op.seen = Absent
  BY <1>1, IdleClean DEF Idle
<1>3. autorun.text \in Texts
  BY <1>1 DEF AutoRuns
<1>4. /\ owned.present = autorun.present /\ owned.kind = autorun.kind
      /\ owned.text = Strip(autorun.text)
  BY <1>1 DEF AutoRuns
<1>5. SameUser(autorun, owned)
  BY <1>3, <1>4, TextValues DEF SameUser, OwnText
<1>6. ~Live /\ ~HalfPublished /\ ~marker.present /\ RecordFits(marker)
  BY <1>1, NoMarkerFields, EmptyFields DEF Live, Interrupted, HalfPublished, RecordFits
<1>7. Claims
  BY <1>1, <1>2, <1>5, <1>6 DEF Claims, Whole
<1>8. Places
  BY <1>2 DEF Places, UpgradeClaims, PublishClaims, CommitClaims, HookClaims, RestoreClaims,
     RemovalClaims, InstallPCs, UndoPCs
<1> QED
  BY <1>7, <1>8

LEMMA InstallUser ==
  ASSUME Inv, Truth, Single, Claims, Places, Inv', Truth', Install
  PROVE  Claims' /\ Places'
<1>1. CASE Publish
  <2>1. op.pc = "publish" /\ "unhook" \in UndoPCs \ {"unhookWrite"}
    BY <1>1 DEF Publish, UndoPCs
  <2>2. CASE Fault("unhook")
    BY <2>1, <2>2, FaultUndone
  <2>3. CASE PutEach(PublishSeq(Upgrading), op.want, "swap")
    BY <2>1, <2>3, PublishUpgradeUser, PublishFirstUser
  <2> QED
    BY <1>1, <2>2, <2>3 DEF Publish
<1> QED
  BY <1>1, BeginUser, StageUser, SnapshotUser, SnapshotUpgradeUser, DeployUser, CheckUser,
     HookUser, CommitUser DEF Install

Whose == Inv /\ Truth /\ Single /\ Paths /\ Claims /\ Places

LEMMA NextUser == Whose /\ [Next]_vars => Whose'
<1> SUFFICES ASSUME Inv, Truth, Single, Paths, Claims, Places, [Next]_vars PROVE Whose'
  BY DEF Whose
<1>1. Inv' /\ Truth' /\ Single' /\ Paths'
  BY NextInv, NextTruth, NextSingle, NextPaths
<1>2. Claims' /\ Places'
  BY <1>1, RecoveryUser, DispatchUser, InstallUser, UndoUser, UninstallUser, HygieneUser,
     EnvironmentUser DEF Next
<1> QED
  BY <1>1, <1>2 DEF Whose

\* Whatever dies, fails or is refused, in any order of commands, the user's own
\* AutoRun survives every write of every command (install, upgrade, its undo,
\* disable, repair, orphan clean), for any number of crashes, faults and edits,
\* except where an edit landed out of the code's sight.
THEOREM UserKept == Spec => []PreservesUser
<1>1. Init => Whose
  BY InitInv, InitTruth, InitSingle, InitPaths, InitUser DEF Whose
<1>2. Whose /\ [Next]_vars => Whose'
  BY NextUser
<1>3. Whose => PreservesUser
  BY DEF Whose, Claims, SameUser, PreservesUser
<1> QED
  BY <1>1, <1>2, <1>3, PTL DEF Spec

-----------------------------------------------------------------------------
\* Refusals.  Only the two steps that compare AutoRun say that it changed.
Said == last # "changed" /\ last' = "changed"

LEMMA NotSaid ==
  ASSUME \/ last' = last
         \/ last' \in {"none", "ok", "recover", "unknown", "failed"}
         \/ Quiet \/ FaultEnds \/ RefuseFault
         \/ \E r \in {"none", "ok", "recover", "unknown", "failed"} :
              Finish(r) \/ Refuse(r) \/ Return(r)
         \/ \E p : Still(p) \/ Fault(p)
  PROVE  ~Said
BY DEF Said, Quiet, FaultEnds, RefuseFault, Finish, Refuse, Return, Still, Fault

LEMMA SaidBy ==
  ASSUME Next, Said
  PROVE  RefuseUpgrade \/ Judge
<1>1. CASE \E job \in Jobs : Start(job)
  BY <1>1, NotSaid DEF Start
<1>2. CASE Recovery
  <2>1. CASE RecoverNothing \/ RecoverCommitted \/ RecoverPayload \/ RecoverMarker \/ Restore
    BY <2>1, NotSaid DEF RecoverNothing, RecoverCommitted, RecoverPayload, RecoverMarker,
       Restore, SetDirs, PutEach
  <2>2. CASE Cleanup
    BY <2>2, NotSaid DEF Cleanup, PutEach
  <2> QED
    BY <1>2, <2>1, <2>2 DEF Recovery
<1>3. CASE Dispatch
  BY <1>3, NotSaid DEF Dispatch, DispatchEnable, DispatchDisable, DispatchRepair,
     DispatchOrphan, Repaired, PruneTree
<1>4. CASE Install
  BY <1>4, NotSaid DEF Install, Begin, Stage, Copy, SetDirs, Snapshot, SnapshotUpgrade, Publish,
     PutEach, Swap, Promote, Check, Hook, Commit, SetMarker, Discard
<1>5. CASE Undo
  BY <1>5, NotSaid DEF Undo, Unhook, UnhookWrite, SetAutoRun, Undeploy, SetDirs, Unswap, Unmark
<1>6. CASE Uninstall
  BY <1>6, NotSaid DEF Uninstall, MarkPath, MarkState, SetMarker, Retire, RestoreUser,
     SetAutoRun, Unretire, Forget
<1>7. CASE Hygiene
  BY <1>7, NotSaid DEF Hygiene, StripRead, StripWrite, SetAutoRun, Wipe, SetMarker, Bury, Prune,
     Sweep
<1>8. CASE Crash \/ Edit \/ Product
  BY <1>8, NotSaid DEF Crash, Edit, Product
<1> QED
  BY <1>1, <1>2, <1>3, <1>4, <1>5, <1>6, <1>7, <1>8 DEF Next

LEMMA RefusedFor ==
  ASSUME Whose, Next, Said
  PROVE  touched \/ HalfPublished \/ EmptyStripped
<1>0. Inv /\ Truth /\ Claims /\ Places
  BY DEF Whose
<1>1. CASE RefuseUpgrade
  <2>1. op.pc \in Inside /\ Upgrading /\ ~Retained
    BY <1>1, InsidePlaces DEF RefuseUpgrade
  <2>2. touched \/ Hosts(op.seen, op.prev)
    BY <1>0, <2>1 DEF Places, UpgradeClaims, Inside
  <2> QED
    BY <2>1, <2>2 DEF Retained, Hosts
<1>2. CASE Judge
  <2>1. marker.present /\ ~JudgeMatches(autorun, marker)
    <3>1. ~Refuse("unknown") /\ ~Still(UninstallDone) /\ last' # last
      BY NotSaid DEF Said
    <3> QED
      BY <1>2, <3>1 DEF Judge
  <2>2. CASE ~touched /\ ~HalfPublished
    <3>1. Matches(autorun, marker)
      BY <1>0, <2>1, <2>2 DEF Claims, HalfPublished
    <3>2. ~Hosts(autorun, marker)
      BY <2>1 DEF Hosts, JudgeMatches
    <3>3. ~autorun.present /\ (~marker.origPresent \/ marker.origText = Empty)
      BY <3>1, <3>2 DEF Matches
    <3> QED
      BY <2>1, <3>3 DEF JudgeMatches, EmptyStripped
  <2> QED
    BY <2>2
<1> QED
  BY <1>1, <1>2, SaidBy

\* A command says that AutoRun changed only when another program did edit it, when
\* a crash cut the marker's publication short, or when a repair has deleted a value
\* that was empty before the hook (retain_upgrade_snapshot, judge_current_autorun).
THEOREM RefusesForCause == Spec => RefusalJustified
<1>1. Init => Whose
  BY InitInv, InitTruth, InitSingle, InitPaths, InitUser DEF Whose
<1>2. Whose /\ [Next]_vars => Whose'
  BY NextUser
<1>3. Whose /\ [Next]_vars =>
        [last # "changed" /\ last' = "changed" => touched \/ HalfPublished \/ EmptyStripped]_vars
  BY RefusedFor DEF Said
<1> QED
  BY <1>1, <1>2, <1>3, PTL DEF Spec, RefusalJustified
===============================================================================
