----------------------- MODULE PowerShellProfileProofs ----------------------
(***************************************************************************)
(* PreservesText: the user's text in the PowerShell profiles outlives every *)
(* installation, removal, crash and recovery.  What could cost the user a   *)
(* profile is a file that was there before fwdslash, but empty: without our *)
(* block nothing in it tells it from a file that we made.  Three layers     *)
(* stand on those of PowerShellAdapterProofs:                               *)
(*                                                                          *)
(*   Versions   a marker and a journal name a version that exists;          *)
(*   EmptyKept  what is written down of such a file, in the marker, the     *)
(*              journal and the recovery directories, says it was there;    *)
(*   SeenHere   what a step has read of it.                                 *)
(*                                                                          *)
(* BlockFindsModule: a block in a profile finds what it calls, although two *)
(* hosts share the payload, which every command may swap, and all may stop  *)
(* between two steps.  Five more layers:                                    *)
(*                                                                          *)
(*   CommitsKept  a committed journal is cleared away before the payload's; *)
(*   Leaving      a removal drops the marker before what it speaks for;     *)
(*   Blocked      a block has a marker, an old one's names the old payload, *)
(*                and so it is with what an open transaction would restore; *)
(*   PayloadKept  a block of ours has the payload, or its previous bytes    *)
(*                under the name in the open journal of the payload;        *)
(*   PayloadSeen  what a step finds of the payload.                         *)
(***************************************************************************)
EXTENDS PowerShellAdapterProofs

-----------------------------------------------------------------------------
Empty(e) == owned[e].file /\ owned[e].text = NoText
Bare(e)  == profile[e].block = "none"

\* A marker names a version, and a journal the version of the marker that was
\* replaced: 0 means that there was none.
Versions == build # 0 => \A e \in Edition : marker[e].present => marker[e].version # 0

\* What is written down of such a file says that it was there, and our block is
\* in it only when an installation says so.
RecoveryAt(e) == LET s == snap[e][Stg(journal[e].tx)] IN IF s.kind = "none" THEN snap[e][Live] ELSE s
FilesAt(e)   == \A n \in Names : snap[e][n].kind # "none" => snap[e][n].before.present /\ snap[e][n].orig
MarkerAt(e)  == marker[e].present => marker[e].orig
JournalAt(e) == journal[e].prev # 0 => journal[e].orig
BareAt(e) ==
  build # 0 /\ journal[e].phase # "open" /\ (~marker[e].present \/ marker[e].state \in {"", "prepared"})
    => Bare(e)
BeforeAt(e) ==
  journal[e].phase = "open" /\ journal[e].prev = 0 /\ RecoveryAt(e).kind = "full"
    => RecoveryAt(e).before.block = "none"
EmptyAt(e) == FilesAt(e) /\ MarkerAt(e) /\ JournalAt(e) /\ BareAt(e) /\ BeforeAt(e)
EmptyKept == \A e \in Edition : Empty(e) => EmptyAt(e)

\* What an installation has read.
ReadWell ==
  /\ op.was.present => op.was.version # 0
  /\ Empty(Cur) => /\ op.seen.present
                   /\ op.was.present => op.was.orig
                   /\ ~op.was.present => op.seen.block = "none"
Reading ==
  /\ op.pc \in Before \cup {"publish"} => ReadWell
  /\ op.pc = "journal" => snap[Cur][Stg(T)].before = op.seen
  /\ op.pc \in {"verify", "commit"} => marker[Cur].state = "installed"

\* What a rollback has read and put back.
Rolled == op.pc = "rolled" \/ (Len(op.todo) > 1 /\ op.todo[2][1] = "rolled")
Backing ==
  /\ op.pc = "restore" => op.seen = Installed(Recovery)
  /\ Empty(Cur) /\ (op.pc = "unpublish" \/ RollingBack) /\ J.prev = 0 => Bare(Cur)
  /\ op.pc = "state" /\ J.prev # 0 => marker[Cur].present
  /\ Rolled /\ J.prev # 0 => InstalledMarker(Cur)

\* What an uninstall has read.
Undoing == op.was.state = "prepared" /\ Kind(Cur, Live) # "old"
UndoWell ==
  /\ op.was.state # ""
  /\ Empty(Cur) => op.was.orig /\ (build # 0 /\ op.was.state = "prepared" => Bare(Cur))
CutWell ==
  /\ Undoing => op.seen = Installed(snap[Cur][Live])
  /\ Empty(Cur) /\ build # 0 => ~Undoing
Removing ==
  /\ op.pc = "adopted" => marker[Cur].state = ""
  /\ op.pc \in {"examine", "excise", "restate"} => UndoWell
  /\ op.pc = "excise" => CutWell
  /\ op.pc \in {"forget", "erase"} => Kind(Cur, Live) \in Good
  /\ op.pc = "forget" /\ Empty(Cur) /\ build # 0 => Bare(Cur)
SeenHere == Reading /\ Backing /\ Removing

\* No file becomes an empty one of the user's, and no product comes back.
Fewer == /\ \A e \in Edition : Empty(e)' => Empty(e)
         /\ build' # 0 => build # 0

\* The steps that write a profile, or say whose it is.
LEMMA TextWriters ==
  ASSUME Next
  PROVE UNCHANGED <<profile, owned>> \/ Restore \/ Write \/ Excise \/ StripBlocks \/ Edit
  <1>1. CASE Recovers
    BY <1>1 DEF Recovers, Recover, Unpublish, Unretire, RestoreValues, RestoreState, RolledBack,
                TidySwap, TidyDrop, TidyState, DropJournal, Swap, SwapRoot, SwapRename, SwapClean, SwapDrop,
                disk, world
  <1>2. CASE Enables
    BY <1>2 DEF Enables, Enable, Tree, Install, Reinstall, Adopt, Adopted, Resume, Begin, Ensure, SwapJournal,
                Aside, Deploy, Stage, OpenJournal, Publish, Prepared, Retire, GoLive, MarkInstalled,
                Verify, Commit, Finish, FinishSwap, FinishState, FinishJournal, Undo, UndoRoot, UndoName,
                UndoClean, Upgrade, CommitSwap, Version, disk, world
  <1>3. CASE Removes
    BY <1>3 DEF Removes, Uninstalls, Examine, Restate, Forget, Erase, Erased, Cleanup, CleanPayload,
                disk, world
  <1>4. CASE Tidies
    BY <1>4 DEF Tidies, Repair, ReadStrip, Modules, Leftovers, Swept, Wipe, RetireTree, disk, world
  <1>5. CASE World
    BY <1>5 DEF World, UserCommand, SweepStart, BackgroundEnable, BackgroundRepair, OrphanClean, Command,
                NewBuild, Remove, Crash, Fail, disk
  <1> QED BY <1>1, <1>2, <1>3, <1>4, <1>5 DEF Next

\* The steps that write a marker.
LEMMA MarkerWriters ==
  ASSUME Next
  PROVE \/ UNCHANGED marker \/ RestoreValues \/ RestoreState \/ Adopt \/ Adopted \/ Publish \/ Prepared
        \/ MarkInstalled \/ Version \/ Uninstalls \/ Restate \/ Forget \/ Wipe
  <1>1. CASE Recovers
    BY <1>1 DEF Recovers, Recover, Restore, Unpublish, Unretire, RolledBack,
                TidySwap, TidyDrop, TidyState, DropJournal, Swap, SwapRoot, SwapRename, SwapClean, SwapDrop,
                disk
  <1>2. CASE Enables
    BY <1>2 DEF Enables, Enable, Tree, Install, Reinstall, Resume, Begin, Ensure, SwapJournal,
                Aside, Deploy, Stage, OpenJournal, Retire, GoLive, Write,
                Verify, Commit, Finish, FinishSwap, FinishState, FinishJournal, Undo, UndoRoot, UndoName,
                UndoClean, Upgrade, CommitSwap, disk
  <1>3. CASE Removes
    BY <1>3 DEF Removes, Examine, Excise, Erase, Erased, Cleanup, CleanPayload, disk
  <1>4. CASE Tidies
    BY <1>4 DEF Tidies, Repair, ReadStrip, StripBlocks, Modules, Leftovers, Swept, RetireTree, disk
  <1>5. CASE World
    BY <1>5 DEF World, UserCommand, SweepStart, BackgroundEnable, BackgroundRepair, OrphanClean, Command,
                NewBuild, Remove, Edit, Crash, Fail, disk
  <1> QED BY <1>1, <1>2, <1>3, <1>4, <1>5 DEF Next

LEMMA BuildKept ==
  ASSUME [Next]_vars
  PROVE build' # 0 => build # 0
  <1>1. CASE Recovers
    BY <1>1 DEF Recovers, Recover, Restore, Unpublish, Unretire, RestoreValues, RestoreState, RolledBack,
                TidySwap, TidyDrop, TidyState, DropJournal, Swap, SwapRoot, SwapRename, SwapClean, SwapDrop,
                world
  <1>2. CASE Enables
    BY <1>2 DEF Enables, Enable, Tree, Install, Reinstall, Adopt, Adopted, Resume, Begin, Ensure, SwapJournal,
                Aside, Deploy, Stage, OpenJournal, Publish, Prepared, Retire, GoLive, Write, MarkInstalled,
                Verify, Commit, Finish, FinishSwap, FinishState, FinishJournal, Undo, UndoRoot, UndoName,
                UndoClean, Upgrade, CommitSwap, Version, world
  <1>3. CASE Removes
    BY <1>3 DEF Removes, Uninstalls, Examine, Excise, Restate, Forget, Erase, Erased, Cleanup, CleanPayload, world
  <1>4. CASE Tidies
    BY <1>4 DEF Tidies, Repair, ReadStrip, StripBlocks, Modules, Leftovers, Swept, Wipe, RetireTree, world
  <1>5. CASE World
    BY <1>5 DEF World, UserCommand, SweepStart, BackgroundEnable, BackgroundRepair, OrphanClean, Command,
                NewBuild, Remove, Edit, Crash, Fail
  <1>6. CASE UNCHANGED vars BY <1>6 DEF vars
  <1> QED BY <1>1, <1>2, <1>3, <1>4, <1>5, <1>6 DEF Next

LEMMA FewerStep ==
  ASSUME Types, Types', [Next]_vars
  PROVE Fewer
  <1>0. /\ owned \in [Edition -> [text : Texts, file : BOOLEAN]] /\ profile \in [Edition -> Files]
        /\ profile' \in [Edition -> Files]
    BY DEF Types
  <1> SUFFICES ASSUME NEW e \in Edition, Empty(e)' PROVE Empty(e) BY BuildKept DEF Fewer
  <1>1. CASE UNCHANGED owned BY <1>1 DEF Empty
  <1>2. CASE StripBlocks
    <2>1. owned' = [owned EXCEPT ![Cur].file = @ /\ profile'[Cur].present] BY <1>2 DEF StripBlocks
    <2>2. owned'[e].text = owned[e].text /\ (owned'[e].file => owned[e].file) BY <1>0, <2>1
    <2> QED BY <2>2 DEF Empty
  <1>3. CASE Edit
    <2>1. PICK f \in Edition : \E x \in Files : owned' = [owned EXCEPT ![f] = UsersFile(x)]
      <3>1. Troubled \subseteq Edition BY PowerShellAssumption, Zenon
      <3>2. \E f \in Troubled : \E x : profile' = [profile EXCEPT ![f] = x] /\ owned' = [owned EXCEPT ![f] = UsersFile(x)]
        BY <1>3 DEF Edit, SetProfile
      <3> QED BY <3>1, <3>2, <1>0
    <2>2. CASE f = e
      <3>1. PICK x \in Files : owned' = [owned EXCEPT ![f] = UsersFile(x)] BY <2>1
      <3> DEFINE r == UsersFile(x)
      <3>2. r.file => r.text # NoText BY DEF UsersFile
      <3>3. owned' = [owned EXCEPT ![f] = r] BY <3>1
      <3> HIDE DEF r
      <3>4. owned'[e] = r BY <1>0, <2>2, <3>3
      <3> QED BY <3>2, <3>4 DEF Empty
    <2>3. CASE f # e BY <1>0, <2>1, <2>3 DEF Empty
    <2> QED BY <2>2, <2>3
  <1>4. UNCHANGED vars => UNCHANGED owned BY DEF vars
  <1>5. Restore \/ Write \/ Excise => UNCHANGED owned BY DEF Restore, Write, Excise, world
  <1> QED BY <1>1, <1>2, <1>3, <1>4, <1>5, TextWriters

LEMMA VersionsStep ==
  ASSUME Types, Control, Versions, [Next]_vars
  PROVE Versions'
  <1>0. marker \in [Edition -> Marked] /\ Cur \in Edition BY Running DEF Types
  <1> SUFFICES ASSUME build' # 0, NEW e \in Edition, marker'[e].present PROVE marker'[e].version # 0
    BY DEF Versions
  <1>1. build # 0 /\ (marker[e].present => marker[e].version # 0) BY BuildKept DEF Versions
  <1>2. ~NoMarker.present BY DEF NoMarker
  \* Only the state of a marker.
  <1>s. ASSUME NEW x, marker' = [marker EXCEPT ![Cur].state = x] PROVE marker'[e].version # 0
    <2>1. marker'[e].version = marker[e].version /\ marker'[e].present = marker[e].present
      BY <1>s, <1>0 DEF Marked, Markers
    <2> QED BY <2>1, <1>1
  <1>3. CASE UNCHANGED marker BY <1>1, <1>3
  <1>4. CASE RestoreValues
    <2>1. marker' = [marker EXCEPT ![Cur] = IF J.prev = 0 THEN NoMarker
                    ELSE [marker[Cur] EXCEPT !.present = TRUE, !.version = J.prev, !.orig = J.orig]]
      BY <1>4 DEF RestoreValues, SetMarker
    <2>2. CASE e = Cur /\ J.prev # 0
      <3> DEFINE p == J.prev
                 o == J.orig
      <3>1. marker'[e] = [marker[Cur] EXCEPT !.present = TRUE, !.version = p, !.orig = o]
        BY <2>1, <2>2, <1>0
      <3>2. p # 0 BY <2>2
      <3> HIDE DEF p, o
      <3>3. marker'[e].version = p BY <3>1, <1>0 DEF Marked, Markers
      <3> QED BY <3>2, <3>3
    <2>3. CASE e = Cur /\ J.prev = 0 BY <2>1, <2>3, <1>0, <1>2
    <2>4. CASE e # Cur BY <2>1, <2>4, <1>0, <1>1
    <2> QED BY <2>2, <2>3, <2>4
  <1>5. CASE RestoreState BY <1>5, <1>3, <1>s DEF RestoreState
  <1>6. CASE Adopt
    <2>1. UNCHANGED marker \/ \E b \in BOOLEAN : marker' = [marker EXCEPT ![Cur] =
             [present |-> TRUE, state |-> "", version |-> build, orig |-> b]]
      <3>1. snap[Cur][Live].orig \in BOOLEAN BY <1>0, Named DEF Types, Saved
      <3> QED BY <1>6, <3>1 DEF Adopt, SetMarker
    <2>2. ASSUME NEW b \in BOOLEAN, marker' = [marker EXCEPT ![Cur] = [present |-> TRUE, state |-> "", version |-> build, orig |-> b]]
          PROVE marker'[e].version # 0
      <3>1. CASE e = Cur
        <4> DEFINE r == [present |-> TRUE, state |-> "", version |-> build, orig |-> b]
        <4>1. r.version = build OBVIOUS
        <4>2. marker' = [marker EXCEPT ![Cur] = r] BY <2>2
        <4> HIDE DEF r
        <4>3. marker'[e] = r BY <4>2, <3>1, <1>0
        <4> QED BY <4>1, <4>3, <1>1
      <3>2. CASE e # Cur BY <2>2, <3>2, <1>0, <1>1
      <3> QED BY <3>1, <3>2
    <2> QED BY <2>1, <2>2, <1>3
  <1>7. CASE Publish
    <2>1. marker' = [marker EXCEPT ![Cur] = [marker[Cur] EXCEPT !.present = TRUE, !.version = build,
                                        !.orig = OriginalPresent(op.seen, op.was)]]
      BY <1>7 DEF Publish, SetMarker
    <2>2. e = Cur => marker'[e].version = build
      <3> DEFINE b == OriginalPresent(op.seen, op.was)
      <3>1. marker' = [marker EXCEPT ![Cur] = [marker[Cur] EXCEPT !.present = TRUE, !.version = build, !.orig = b]]
        BY <2>1
      <3> HIDE DEF b
      <3> QED BY <3>1, <1>0 DEF Marked, Markers
    <2> QED BY <2>1, <2>2, <1>0, <1>1
  <1>8. CASE Version
    <2>1. marker' = [marker EXCEPT ![Cur].version = build] BY <1>8 DEF Version
    <2>2. e = Cur => marker'[e].version = build BY <2>1, <1>0 DEF Marked, Markers
    <2> QED BY <2>1, <2>2, <1>0, <1>1
  <1>9. CASE Adopted \/ Prepared \/ MarkInstalled \/ Restate
    BY <1>9, <1>s DEF Adopted, Prepared, MarkInstalled, Restate
  <1>10. CASE Uninstalls BY <1>10, <1>3, <1>s DEF Uninstalls
  <1>11. CASE Forget
    <2>1. marker' = [marker EXCEPT ![Cur] = NoMarker] BY <1>11 DEF Forget, SetMarker
    <2> QED BY <2>1, <1>0, <1>1, <1>2
  <1>12. CASE Wipe
    <2>1. marker' = [f \in Edition |-> NoMarker] BY <1>12 DEF Wipe
    <2> QED BY <2>1, <1>2
  <1>13. UNCHANGED vars => UNCHANGED marker BY DEF vars, disk
  <1> QED BY <1>3, <1>4, <1>5, <1>6, <1>7, <1>8, <1>9, <1>10, <1>11, <1>12, <1>13, MarkerWriters

\* The texts that an adapter writes into a profile are the text it read there.
LEMMA PreservesStep ==
  ASSUME Types, Control, Midway, Held, EmptyKept, SeenHere, PreservesText, Types', [Next]_vars
  PROVE PreservesText'
  <1>0. /\ profile \in [Edition -> Files] /\ owned \in [Edition -> [text : Texts, file : BOOLEAN]]
        /\ snap \in [Edition -> [Names -> Saved]] /\ profile' \in [Edition -> Files]
        /\ op.pc # "idle" => op # Idle
    BY Running DEF Types
  <1>c. PICK c \in Edition : c = Cur BY Running
  <1>p. profile[c].text = owned[c].text /\ (owned[c].file => profile[c].present) BY DEF PreservesText
  <1>n. Live \in Names BY Named
  <1>f. \A x \in Files : x.text # NoText => x.present BY DEF Files
  \* A write of the host's profile.
  <1>w. ASSUME NEW x \in Files, profile' = [profile EXCEPT ![c] = x], UNCHANGED owned,
               x.text = profile[c].text, Empty(c) => x.present
        PROVE PreservesText'
    <2> SUFFICES ASSUME NEW e \in Edition
                 PROVE profile'[e].text = owned'[e].text /\ (owned'[e].file => profile'[e].present)
      BY DEF PreservesText
    <2>1. CASE e # c BY <1>w, <2>1, <1>0 DEF PreservesText
    <2>2. CASE e = c
      <3>1. profile'[e] = x /\ owned'[e] = owned[c] BY <1>w, <2>2, <1>0
      <3>2. owned[c].file => x.present BY <1>w, <1>p, <1>f DEF Empty
      <3> QED BY <3>1, <3>2, <1>w, <1>p
    <2> QED BY <2>1, <2>2
  <1>1. CASE UNCHANGED <<profile, owned>> BY <1>1 DEF PreservesText
  <1>2. CASE Restore
    <2>1. op.pc = "restore" /\ UNCHANGED owned /\ op.seen = Installed(Recovery) /\ Recovery.kind = "full"
      BY <1>2 DEF Restore, At, world, SeenHere, Backing, Held
    <2>2. UNCHANGED profile \/ (profile[c] = op.seen /\ profile' = [profile EXCEPT ![c] = Recovery.before])
      BY <1>2, <1>c DEF Restore, Replaced, SetProfile
    <2>3. J.phase = "open" /\ J.tx \in Tx
      <3>1. J.phase = "open" BY <2>1 DEF Midway, Phased
      <3> QED BY <3>1, Ids DEF Midway
    <2>4. PICK n \in Names : Recovery = snap[c][n]
      BY <1>c, <1>n, <2>3, Named DEF Recovery, Published, Staged
    <2> DEFINE x == Recovery.before
    <2>5. x \in Files BY <2>4, <1>0 DEF Saved
    <2>6. Installed(Recovery) = WithBlock(x) BY <2>1 DEF Installed
    <2>7. profile[c] = op.seen => x.text = profile[c].text BY <2>1, <2>6 DEF WithBlock
    <2>8. Empty(c) => x.present BY <2>1, <2>4 DEF EmptyKept, EmptyAt, FilesAt
    <2>9. CASE UNCHANGED profile BY <2>1, <2>9, <1>1
    <2>10. CASE profile[c] = op.seen /\ profile' = [profile EXCEPT ![c] = x]
      <3> HIDE DEF x
      <3> QED BY <2>1, <2>5, <2>7, <2>8, <2>10, <1>w
    <2> QED BY <2>2, <2>9, <2>10
  <1>3. CASE Write
    <2>1. UNCHANGED owned BY <1>3 DEF Write, world
    <2>2. UNCHANGED profile \/ (profile[c] = op.seen /\ profile' = [profile EXCEPT ![c] = WithBlock(op.seen)])
      BY <1>3, <1>c DEF Write, Replaced, SetProfile
    <2> DEFINE x == WithBlock(op.seen)
    <2>3. op.seen \in Files BY DEF Types, Jobs
    <2>4. x \in Files BY <2>3, FileKept
    <2>5. x.present /\ x.text = op.seen.text BY DEF WithBlock
    <2>6. CASE UNCHANGED profile BY <2>1, <2>6, <1>1
    <2>7. CASE profile[c] = op.seen /\ profile' = [profile EXCEPT ![c] = x]
      <3> HIDE DEF x
      <3> QED BY <2>1, <2>4, <2>5, <2>7, <1>w
    <2> QED BY <2>2, <2>6, <2>7
  <1>4. CASE Excise
    <2>1. op.pc = "excise" /\ UNCHANGED owned /\ UndoWell /\ CutWell
      BY <1>4 DEF Excise, At, world, SeenHere, Removing
    <2>2. UNCHANGED profile \/ (profile[c] = op.seen /\ profile' = [profile EXCEPT ![c] = ToExcise])
      BY <1>4, <1>c DEF Excise, Replaced, SetProfile
    <2>3. op.seen \in Files /\ op.was.orig \in BOOLEAN BY DEF Types, Jobs, Marked, Markers
    <2>4. Kind(Cur, Live) \in Good BY <2>1 DEF Held
    <2> DEFINE x == ToExcise
    <2>5. CASE UNCHANGED profile BY <2>1, <2>5, <1>1
    <2>6. CASE profile[c] = op.seen /\ profile' = [profile EXCEPT ![c] = x] /\ Undoing
      <3>1. x = snap[c][Live].before BY <2>6, <1>c DEF ToExcise, Undoing, Kind
      <3>2. x \in Files BY <3>1, <1>0, <1>n DEF Saved
      <3>3. op.seen = Installed(snap[c][Live]) BY <2>1, <2>6, <1>c DEF CutWell
      <3>4. op.seen.text = snap[c][Live].before.text
        <4>1. snap[c][Live].before \in Contents BY <1>0, <1>n DEF Saved, Files
        <4> QED BY <3>3, <4>1 DEF Installed, WithBlock, Contents
      <3>5. Empty(c) => x.present BY <2>4, <3>1, <1>c, <1>n DEF EmptyKept, EmptyAt, FilesAt, Kind, Good
      <3> HIDE DEF x
      <3> QED BY <2>1, <2>6, <3>1, <3>2, <3>4, <3>5, <1>w
    <2>7. CASE profile[c] = op.seen /\ profile' = [profile EXCEPT ![c] = x] /\ ~Undoing
      <3>1. x = Cleaned(op.seen, op.was.orig) BY <2>7 DEF ToExcise, Undoing, Kind
      <3>2. x \in Files BY <3>1, <2>3, FileKept
      <3>3. op.seen \in Contents BY <2>3 DEF Files
      <3>4. x.text = op.seen.text BY <3>1, <3>3 DEF Cleaned, Strip, Absent, Contents
      <3>5. Empty(c) => op.was.orig BY <2>1, <1>c DEF UndoWell
      <3>6. Empty(c) => op.seen.present BY <2>7, <1>p DEF Empty
      <3>7. op.was.orig => x.present = op.seen.present BY <3>1, <3>3 DEF Cleaned, Strip, Contents
      <3> HIDE DEF x
      <3> QED BY <2>1, <2>7, <3>2, <3>4, <3>5, <3>6, <3>7, <1>w
    <2> QED BY <2>2, <2>5, <2>6, <2>7
  <1>5. CASE StripBlocks
    <2>1. owned' = [owned EXCEPT ![c].file = @ /\ profile'[c].present] BY <1>5, <1>c DEF StripBlocks
    <2>2. UNCHANGED profile \/ (profile[c] = op.seen /\ profile' = [profile EXCEPT ![c] = Cleaned(op.seen, FALSE)])
      BY <1>5, <1>c DEF StripBlocks, Replaced, SetProfile
    <2>3. op.seen \in Contents BY DEF Types, Jobs, Files
    <2>4. Cleaned(op.seen, FALSE).text = op.seen.text BY <2>3 DEF Cleaned, Strip, Absent, Contents
    <2>5. profile'[c].text = profile[c].text
      <3> DEFINE x == Cleaned(op.seen, FALSE)
      <3>1. UNCHANGED profile \/ (profile[c] = op.seen /\ profile' = [profile EXCEPT ![c] = x]) BY <2>2
      <3>2. x.text = op.seen.text BY <2>4
      <3> HIDE DEF x
      <3> QED BY <3>1, <3>2, <1>0
    <2>6. \A e \in Edition \ {c} : profile'[e] = profile[e]
      <3> DEFINE x == Cleaned(op.seen, FALSE)
      <3>1. UNCHANGED profile \/ (profile[c] = op.seen /\ profile' = [profile EXCEPT ![c] = x]) BY <2>2
      <3> HIDE DEF x
      <3> QED BY <3>1, <1>0
    <2>7. owned'[c].text = owned[c].text /\ owned'[c].file = (owned[c].file /\ profile'[c].present)
          /\ \A e \in Edition \ {c} : owned'[e] = owned[e]
      BY <2>1, <1>0
    <2> SUFFICES ASSUME NEW e \in Edition
                 PROVE profile'[e].text = owned'[e].text /\ (owned'[e].file => profile'[e].present)
      BY DEF PreservesText
    <2>8. CASE e = c BY <2>5, <2>7, <2>8, <1>p
    <2>9. CASE e # c BY <2>6, <2>7, <2>9 DEF PreservesText
    <2> QED BY <2>8, <2>9
  <1>6. CASE Edit
    <2>1. PICK f \in Edition : \E x : /\ profile' = [profile EXCEPT ![f] = x]
                                       /\ owned' = [owned EXCEPT ![f] = UsersFile(x)]
      <3>1. Troubled \subseteq Edition BY PowerShellAssumption, Zenon
      <3>2. \E f \in Troubled : \E x : /\ profile' = [profile EXCEPT ![f] = x]
                                       /\ owned' = [owned EXCEPT ![f] = UsersFile(x)]
        BY <1>6 DEF Edit, SetProfile
      <3> QED BY <3>1, <3>2
    <2>x. PICK x : /\ profile' = [profile EXCEPT ![f] = x]
                   /\ owned' = [owned EXCEPT ![f] = UsersFile(x)]
      BY <2>1
    <2>2. x \in Files BY <2>x, <1>0
    <2>3. x.text # NoText => x.present BY <2>2, <1>f
    <2> SUFFICES ASSUME NEW e \in Edition
                 PROVE profile'[e].text = owned'[e].text /\ (owned'[e].file => profile'[e].present)
      BY DEF PreservesText
    <2>4. CASE e = f
      <3> DEFINE r == UsersFile(x)
      <3>1. r.text = x.text /\ (r.file => x.text # NoText) BY DEF UsersFile
      <3>2. owned' = [owned EXCEPT ![f] = r] BY <2>x
      <3> HIDE DEF r
      <3>3. profile'[e] = x /\ owned'[e] = r BY <2>x, <2>4, <3>2, <1>0
      <3> QED BY <2>3, <3>1, <3>3
    <2>5. CASE e # f BY <2>x, <2>5, <1>0 DEF PreservesText
    <2> QED BY <2>4, <2>5
  <1>7. UNCHANGED vars => UNCHANGED <<profile, owned>> BY DEF vars, disk
  <1> QED BY <1>1, <1>2, <1>3, <1>4, <1>5, <1>6, <1>7, TextWriters


-----------------------------------------------------------------------------
(* What is written down of an empty file of the user's, from step to step.  *)

LEMMA EmptyOne ==
  ASSUME NEW c \in Edition, EmptyKept, Fewer,
         \A e \in Edition \ {c} : /\ profile'[e] = profile[e] /\ marker'[e] = marker[e]
                                  /\ snap'[e] = snap[e] /\ journal'[e] = journal[e],
         Empty(c) /\ EmptyAt(c) => EmptyAt(c)'
  PROVE EmptyKept'
  <1> SUFFICES ASSUME NEW e \in Edition, Empty(e)' PROVE EmptyAt(e)' BY DEF EmptyKept
  <1>1. Empty(e) /\ (build' # 0 => build # 0) BY DEF Fewer
  <1>2. EmptyAt(e) BY <1>1 DEF EmptyKept
  <1>3. CASE e = c BY <1>1, <1>2, <1>3
  <1>4. CASE e # c
    <2>1. profile'[e] = profile[e] /\ marker'[e] = marker[e] /\ snap'[e] = snap[e] /\ journal'[e] = journal[e]
      BY <1>4
    <2>2. FilesAt(e)' /\ MarkerAt(e)' /\ JournalAt(e)' BY <1>2, <2>1 DEF EmptyAt, FilesAt, MarkerAt, JournalAt
    <2>3. BareAt(e)' BY <1>1, <1>2, <2>1 DEF EmptyAt, BareAt, Bare
    <2>4. BeforeAt(e)' BY <1>2, <2>1 DEF EmptyAt, BeforeAt, RecoveryAt
    <2> QED BY <2>2, <2>3, <2>4 DEF EmptyAt
  <1> QED BY <1>3, <1>4

\* A step that writes the profile of a host, its marker, its directories or its
\* journal, and none of the others.
LEMMA EmptyText ==
  ASSUME NEW c \in Edition, EmptyKept, Fewer, UNCHANGED <<marker, snap, journal>>,
         \A e \in Edition \ {c} : profile'[e] = profile[e],
         Empty(c) /\ EmptyAt(c) => BareAt(c)'
  PROVE EmptyKept'
  <1>1. ASSUME Empty(c), EmptyAt(c) PROVE EmptyAt(c)'
    BY <1>1 DEF EmptyAt, FilesAt, MarkerAt, JournalAt, BeforeAt, RecoveryAt
  <1> QED BY <1>1, EmptyOne

LEMMA EmptyMark ==
  ASSUME NEW c \in Edition, EmptyKept, Fewer, UNCHANGED <<profile, snap, journal>>,
         \A e \in Edition \ {c} : marker'[e] = marker[e],
         Empty(c) /\ EmptyAt(c) => MarkerAt(c)' /\ BareAt(c)'
  PROVE EmptyKept'
  <1>1. ASSUME Empty(c), EmptyAt(c) PROVE EmptyAt(c)'
    BY <1>1 DEF EmptyAt, FilesAt, JournalAt, BeforeAt, RecoveryAt
  <1> QED BY <1>1, EmptyOne

LEMMA EmptyFiles ==
  ASSUME NEW c \in Edition, EmptyKept, Fewer, UNCHANGED <<profile, marker, journal>>,
         \A e \in Edition \ {c} : snap'[e] = snap[e],
         Empty(c) /\ EmptyAt(c) => FilesAt(c)' /\ BeforeAt(c)'
  PROVE EmptyKept'
  <1>1. ASSUME Empty(c), EmptyAt(c) PROVE EmptyAt(c)'
    <2>1. BareAt(c)' BY <1>1 DEF EmptyAt, BareAt, Bare, Fewer
    <2>2. MarkerAt(c)' /\ JournalAt(c)' BY <1>1 DEF EmptyAt, MarkerAt, JournalAt
    <2> QED BY <1>1, <2>1, <2>2 DEF EmptyAt
  <1> QED BY <1>1, EmptyOne

LEMMA EmptyJournal ==
  ASSUME NEW c \in Edition, EmptyKept, Fewer, UNCHANGED <<profile, marker, snap>>,
         \A e \in Edition \ {c} : journal'[e] = journal[e],
         Empty(c) /\ EmptyAt(c) => JournalAt(c)' /\ BareAt(c)' /\ BeforeAt(c)'
  PROVE EmptyKept'
  <1>1. ASSUME Empty(c), EmptyAt(c) PROVE EmptyAt(c)'
    BY <1>1 DEF EmptyAt, FilesAt, MarkerAt
  <1> QED BY <1>1, EmptyOne

LEMMA EmptySame ==
  ASSUME EmptyKept, Fewer, UNCHANGED <<profile, marker, snap, journal>>
  PROVE EmptyKept'
  <1> SUFFICES ASSUME NEW e \in Edition, Empty(e)' PROVE EmptyAt(e)' BY DEF EmptyKept
  <1>1. EmptyAt(e) /\ (build' # 0 => build # 0) BY DEF Fewer, EmptyKept
  <1>2. FilesAt(e)' /\ MarkerAt(e)' /\ JournalAt(e)' BY <1>1 DEF EmptyAt, FilesAt, MarkerAt, JournalAt
  <1>3. BareAt(e)' BY <1>1 DEF EmptyAt, BareAt, Bare
  <1>4. BeforeAt(e)' BY <1>1 DEF EmptyAt, BeforeAt, RecoveryAt
  <1> QED BY <1>2, <1>3, <1>4 DEF EmptyAt

\* The state of a marker, and nothing else of it.
LEMMA StateOnly ==
  ASSUME Types, NEW c \in Edition, NEW x, marker' = [marker EXCEPT ![c].state = x]
  PROVE /\ \A e \in Edition \ {c} : marker'[e] = marker[e]
        /\ marker'[c].present = marker[c].present /\ marker'[c].orig = marker[c].orig
        /\ marker'[c].version = marker[c].version /\ marker'[c].state = x
  <1>1. marker \in [Edition -> Marked] BY DEF Types
  <1> QED BY <1>1 DEF Marked, Markers

\* A directory that is renamed.
LEMMA MovedFiles ==
  ASSUME Types, NEW c \in Edition, NEW a \in Names, NEW b \in Names, a # b,
         snap' = [snap EXCEPT ![c] = Moved(@, a, b, NoSnap)]
  PROVE /\ \A e \in Edition \ {c} : snap'[e] = snap[e]
        /\ snap'[c][b] = snap[c][a] /\ snap'[c][a] = NoSnap
        /\ \A n \in Names \ {a, b} : snap'[c][n] = snap[c][n]
        /\ FilesAt(c) => FilesAt(c)'
  <1>1. snap \in [Edition -> [Names -> Saved]] BY DEF Types
  <1>2. /\ \A e \in Edition \ {c} : snap'[e] = snap[e]
        /\ snap'[c][b] = snap[c][a] /\ snap'[c][a] = NoSnap
        /\ \A n \in Names \ {a, b} : snap'[c][n] = snap[c][n]
    BY <1>1 DEF Moved
  <1>3. ASSUME FilesAt(c), NEW n \in Names, snap'[c][n].kind # "none"
        PROVE snap'[c][n].before.present /\ snap'[c][n].orig
    <2>1. CASE n = a BY <1>2, <1>3, <2>1 DEF NoSnap
    <2>2. CASE n = b BY <1>2, <1>3, <2>2 DEF FilesAt
    <2>3. CASE n \in Names \ {a, b} BY <1>2, <1>3, <2>3 DEF FilesAt
    <2> QED BY <2>1, <2>2, <2>3
  <1> QED BY <1>2, <1>3 DEF FilesAt

LEMMA RecoversEmpty ==
  ASSUME Types, Control, Midway, Held, EmptyKept, SeenHere, Fewer, Recovers
  PROVE EmptyKept'
  <1>0. /\ J \in Journals /\ (J.phase # "none" => J.tx \in Tx) /\ (op.pc # "idle" => op # Idle)
        /\ journal \in [Edition -> Journals] /\ profile \in [Edition -> Files]
        /\ marker \in [Edition -> Marked] /\ snap \in [Edition -> [Names -> Saved]]
    BY Ids, Running DEF Midway, Types
  <1>c. PICK c \in Edition : c = Cur BY Running
  <1>j. journal[c] = J /\ (build' # 0 => build # 0) BY <1>c DEF J, Fewer
  <1>o. op.pc \in {"restore", "unpublish", "unretire", "values", "state", "rolled"} => J.phase = "open"
    BY SMT DEF Midway, Phased, RollingBack
  <1>n. Live \in Names /\ (J.phase = "open" => /\ Stg(J.tx) \in Names /\ Rmv(J.tx) \in Names
                                               /\ Stg(J.tx) # Live /\ Rmv(J.tx) # Live /\ Stg(J.tx) # Rmv(J.tx))
    BY <1>0, Named DEF Stg, Rmv
  \* The marker counts again only after the journal.
  <1>b. ASSUME J.phase = "open", UNCHANGED journal PROVE BareAt(c)' BY <1>b, <1>j DEF BareAt
  <1>1. CASE Restore
    <2>1. op.pc = "restore" /\ UNCHANGED <<marker, snap, journal>> BY <1>1 DEF Restore, At
    <2>2. UNCHANGED profile \/ profile' = [profile EXCEPT ![c] = Recovery.before]
      BY <1>1, <1>c DEF Restore, Replaced, SetProfile
    <2>3. \A e \in Edition \ {c} : profile'[e] = profile[e]
      <3> DEFINE x == Recovery.before
      <3>1. UNCHANGED profile \/ profile' = [profile EXCEPT ![c] = x] BY <2>2
      <3> HIDE DEF x
      <3> QED BY <3>1, <1>0
    <2> QED BY <2>1, <2>3, <1>b, <1>o, EmptyText
  <1>2. CASE Unpublish
    <2> DEFINE g == Stg(J.tx)
    <2>1. op.pc = "unpublish" /\ UNCHANGED <<profile, marker, journal>> BY <1>2 DEF Unpublish, At
    <2>2. IF snap[c][g].kind = "none" THEN snap' = [snap EXCEPT ![c] = Moved(@, Live, g, NoSnap)] ELSE snap' = snap
      BY <1>2, <1>c DEF Unpublish, Published, Staged, Stg
    <2>3. g \in Names /\ g # Live /\ J.phase = "open" BY <2>1, <1>o, <1>n
    <2>4. snap[c][g].kind = "none" => snap[c][Live].kind = "full"
      BY <2>1, <1>c DEF Held, Recovery, Published, Staged, Stg
    <2> HIDE DEF g
    <2>5. CASE snap[c][g].kind = "none"
      <3>1. snap' = [snap EXCEPT ![c] = Moved(@, Live, g, NoSnap)] BY <2>2, <2>5
      <3>2. /\ \A e \in Edition \ {c} : snap'[e] = snap[e]
            /\ snap'[c][g] = snap[c][Live] /\ (FilesAt(c) => FilesAt(c)')
        BY <3>1, <2>3, <1>n, MovedFiles
      <3>3. BeforeAt(c) => BeforeAt(c)'
        <4>1. Stg(journal[c].tx) = g /\ Stg(journal'[c].tx) = g BY <2>1, <1>j DEF g
        <4>2. RecoveryAt(c) = snap[c][Live] BY <4>1, <2>5 DEF RecoveryAt
        <4>3. RecoveryAt(c)' = snap[c][Live] BY <4>1, <2>4, <2>5, <3>2 DEF RecoveryAt
        <4> QED BY <2>1, <4>2, <4>3 DEF BeforeAt
      <3> QED BY <2>1, <3>2, <3>3, EmptyFiles DEF EmptyAt
    <2>6. CASE snap[c][g].kind # "none"
      <3>1. snap' = snap BY <2>2, <2>6
      <3> QED BY <2>1, <3>1, EmptySame
    <2> QED BY <2>5, <2>6
  <1>3. CASE Unretire
    <2> DEFINE g == Stg(J.tx)
               r == Rmv(J.tx)
    <2>1. op.pc = "unretire" /\ UNCHANGED <<profile, marker, journal>> BY <1>3 DEF Unretire, At
    <2>2. snap' = [snap EXCEPT ![c] = Moved(@, r, Live, NoSnap)] \/ snap' = snap
      BY <1>3, <1>c DEF Unretire, Rmv
    <2>3. g \in Names /\ g # Live /\ r \in Names /\ r # Live /\ g # r BY <2>1, <1>o, <1>n
    <2>4. snap[c][g].kind # "none" BY <2>1, <1>c, SMT DEF Held, RollingBack, Kind
    <2>e. Stg(journal[c].tx) = g /\ Stg(journal'[c].tx) = g BY <2>1, <1>j
    <2> HIDE DEF g, r
    <2>5. CASE snap' = [snap EXCEPT ![c] = Moved(@, r, Live, NoSnap)]
      <3>2. /\ \A e \in Edition \ {c} : snap'[e] = snap[e]
            /\ FilesAt(c) => FilesAt(c)'
        BY <2>3, <2>5, <1>n, MovedFiles
      <3>3. BeforeAt(c) => BeforeAt(c)'
        <4>1. snap'[c][g] = snap[c][g] BY <2>3, <2>5, <1>0, <1>n DEF Moved
        <4>2. RecoveryAt(c) = snap[c][g] BY <2>4, <2>e DEF RecoveryAt
        <4>3. RecoveryAt(c)' = snap[c][g] BY <4>1, <2>4, <2>e DEF RecoveryAt
        <4> QED BY <2>1, <4>2, <4>3 DEF BeforeAt
      <3> QED BY <2>1, <3>2, <3>3, EmptyFiles DEF EmptyAt
    <2>6. CASE snap' = snap BY <2>1, <2>6, EmptySame
    <2> QED BY <2>2, <2>5, <2>6
  <1>4. CASE RestoreValues
    <2> DEFINE p == J.prev
               o == J.orig
    <2>1. op.pc = "values" /\ UNCHANGED <<profile, snap, journal>>
          /\ marker' = [marker EXCEPT ![c] = IF p = 0 THEN NoMarker
                          ELSE [marker[c] EXCEPT !.present = TRUE, !.version = p, !.orig = o]]
      BY <1>4, <1>c DEF RestoreValues, At, SetMarker
    <2>2. o \in BOOLEAN /\ (JournalAt(c) => (p # 0 => o)) BY <1>0, <1>j DEF JournalAt, Journals, Entries
    <2> HIDE DEF p, o
    <2>3. \A e \in Edition \ {c} : marker'[e] = marker[e] BY <2>1, <1>0
    <2>4. JournalAt(c) => MarkerAt(c)'
      <3>1. CASE p = 0
        <4>1. marker'[c] = NoMarker BY <2>1, <3>1, <1>0
        <4>2. ~NoMarker.present BY DEF NoMarker
        <4> QED BY <4>1, <4>2 DEF MarkerAt
      <3>2. CASE p # 0
        <4>1. marker'[c] = [marker[c] EXCEPT !.present = TRUE, !.version = p, !.orig = o] BY <2>1, <3>2, <1>0
        <4>2. marker[c] \in Markers BY <1>0 DEF Marked
        <4>3. [marker[c] EXCEPT !.present = TRUE, !.version = p, !.orig = o].orig = o BY <4>2 DEF Markers
        <4>4. marker'[c].orig = o BY <4>1, <4>3, Zenon
        <4> QED BY <2>2, <3>2, <4>4 DEF MarkerAt
      <3> QED BY <3>1, <3>2
    <2> QED BY <2>1, <2>3, <2>4, <1>b, <1>o, EmptyMark DEF EmptyAt
  <1>5. CASE RestoreState
    <2>1. op.pc = "state" /\ UNCHANGED <<profile, snap, journal>>
          /\ (marker' = [marker EXCEPT ![c].state = "installed"] \/ marker' = marker)
      BY <1>5, <1>c DEF RestoreState, At
    <2>2. CASE marker' = [marker EXCEPT ![c].state = "installed"]
      <3>1. /\ \A e \in Edition \ {c} : marker'[e] = marker[e]
            /\ marker'[c].present = marker[c].present /\ marker'[c].orig = marker[c].orig
        BY <2>2, StateOnly
      <3>2. MarkerAt(c) => MarkerAt(c)' BY <3>1 DEF MarkerAt
      <3> QED BY <2>1, <3>1, <3>2, <1>b, <1>o, EmptyMark DEF EmptyAt
    <2>3. CASE marker' = marker BY <2>1, <2>3, EmptySame
    <2> QED BY <2>1, <2>2, <2>3
  <1>6. CASE RolledBack
    <2>1. op.pc = "rolled" /\ UNCHANGED <<profile, marker, snap>>
          /\ journal' = [journal EXCEPT ![c].phase = "rolledback"]
      BY <1>6, <1>c DEF RolledBack, At, SetJournal
    <2>2. /\ \A e \in Edition \ {c} : journal'[e] = journal[e]
          /\ journal'[c].phase = "rolledback" /\ journal'[c].prev = journal[c].prev /\ journal'[c].orig = journal[c].orig
      BY <2>1, <1>0 DEF Journals, Entries
    <2>3. RollingBack /\ Rolled BY <2>1 DEF RollingBack, Rolled
    <2>4. Empty(c) /\ J.prev = 0 => Bare(c) BY <2>3, <1>c DEF SeenHere, Backing
    <2>5. J.prev # 0 => marker[c].present /\ marker[c].state = "installed"
      BY <2>3, <1>c DEF SeenHere, Backing, InstalledMarker
    <2>6. Empty(c) => BareAt(c)' BY <2>1, <2>4, <2>5 DEF BareAt, Bare
    <2>7. (JournalAt(c) => JournalAt(c)') /\ BeforeAt(c)' BY <2>2 DEF JournalAt, BeforeAt
    <2> QED BY <2>1, <2>2, <2>6, <2>7, EmptyJournal DEF EmptyAt
  <1>7. CASE TidyState
    <2> DEFINE g == Stg(J.tx)
               r == Rmv(J.tx)
    <2>1. op.pc = "tidystate" /\ UNCHANGED <<profile, marker, journal>>
          /\ snap' = [snap EXCEPT ![c][g] = NoSnap, ![c][r] = NoSnap]
      BY <1>7, <1>c DEF TidyState, At, Stg, Rmv
    <2>2. J.phase \in {"committed", "rolledback"} BY <2>1 DEF Midway, Phased
    <2>3. g \in Names /\ r \in Names BY <2>2, <1>0, Named DEF Stg, Rmv
    <2> HIDE DEF g, r
    <2>4. /\ \A e \in Edition \ {c} : snap'[e] = snap[e]
          /\ \A n \in Names : snap'[c][n] = snap[c][n] \/ snap'[c][n] = NoSnap
      BY <2>1, <2>3, <1>0
    <2>5. FilesAt(c) => FilesAt(c)' BY <2>4 DEF FilesAt, NoSnap
    <2>6. BeforeAt(c)' BY <2>1, <2>2, <1>j DEF BeforeAt
    <2> QED BY <2>1, <2>4, <2>5, <2>6, EmptyFiles DEF EmptyAt
  <1>8. CASE DropJournal
    <2>1. op.pc = "dropjournal" /\ UNCHANGED <<profile, marker, snap>> /\ journal' = [journal EXCEPT ![c] = NoEntry]
      BY <1>8, <1>c DEF DropJournal, At
    <2>2. J.phase \in {"committed", "rolledback"} BY <2>1 DEF Midway, Phased
    <2>3. (\A e \in Edition \ {c} : journal'[e] = journal[e]) /\ journal'[c] = NoEntry BY <2>1, <1>0
    <2>4. JournalAt(c)' /\ BeforeAt(c)' BY <2>3 DEF JournalAt, BeforeAt, NoEntry
    <2>5. BareAt(c) => BareAt(c)' BY <2>1, <2>2, <1>j DEF BareAt, Bare
    <2> QED BY <2>1, <2>3, <2>4, <2>5, EmptyJournal DEF EmptyAt
  <1>9. Recover \/ TidySwap \/ TidyDrop \/ Swap \/ SwapRoot \/ SwapRename \/ SwapClean \/ SwapDrop
          => UNCHANGED <<profile, marker, snap, journal>>
    BY DEF Recover, TidySwap, TidyDrop, Swap, SwapRoot, SwapRename, SwapClean, SwapDrop, disk
  <1> QED BY <1>1, <1>2, <1>3, <1>4, <1>5, <1>6, <1>7, <1>8, <1>9, EmptySame DEF Recovers

LEMMA EnablesEmpty ==
  ASSUME Types, Control, Midway, Held, EmptyKept, SeenHere, Fewer, Enables
  PROVE EmptyKept'
  <1>0. /\ (op.pc # "idle" => op # Idle) /\ (op.pc \in Stated => T \in Tx)
        /\ journal \in [Edition -> Journals] /\ profile \in [Edition -> Files]
        /\ marker \in [Edition -> Marked] /\ snap \in [Edition -> [Names -> Saved]]
        /\ op.was \in Marked /\ op.seen \in Files
    BY Ids, Running DEF Midway, Types, Jobs
  <1>c. PICK c \in Edition : c = Cur BY Running
  <1>j. journal[c] = J /\ (build' # 0 => build # 0) BY <1>c DEF J, Fewer
  <1>o. op.pc \in Open => J.phase = "open" /\ J.tx = T BY DEF Midway, Phased, Held
  <1>n. Live \in Names /\ \A t \in Tx : /\ Stg(t) \in Names /\ Rmv(t) \in Names
                                        /\ Stg(t) # Live /\ Rmv(t) # Live /\ Stg(t) # Rmv(t)
    BY Named DEF Stg, Rmv
  <1>w. op.pc \in Whole => op.pc \in Stated BY DEF Stated
  \* The marker counts again only after the journal.
  <1>b. ASSUME J.phase = "open", UNCHANGED journal PROVE BareAt(c)' BY <1>b, <1>j DEF BareAt
  <1>q. op.pc # "idle" /\ op.pc \notin Recovering /\ op.pc \notin Opens => J.phase # "open"
    BY <1>c, <1>j, TaskKind, Quiet
  <1>1. CASE Adopt
    <2>1. op.pc = "adopt" /\ UNCHANGED <<profile, journal>> BY <1>1 DEF Adopt, At
    <2>2. J.phase # "open" BY <2>1, <1>q, SMT DEF Recovering, Opens
    <2>3. CASE UNCHANGED <<marker, snap>> BY <2>1, <2>3, EmptySame
    <2>4. CASE /\ ~marker[c].present /\ snap[c][Live].kind # "none"
               /\ snap' = [snap EXCEPT ![c][Live].kind = IF snap[c][Live].kind = "old" THEN "adopted" ELSE @]
               /\ marker' = [marker EXCEPT ![c] =
                    [present |-> TRUE, state |-> "", version |-> build, orig |-> snap[c][Live].orig]]
      <3> DEFINE s == snap[c][Live]
                 b == snap[c][Live].orig
                 m == [present |-> TRUE, state |-> "", version |-> build, orig |-> b]
      <3>1. s \in Saved /\ b \in BOOLEAN BY <1>0, <1>n DEF Saved
      <3>2. m.orig = b BY <3>1
      <3>3. marker' = [marker EXCEPT ![c] = m] BY <2>4
      <3>4. /\ \A e \in Edition \ {c} : marker'[e] = marker[e]
            /\ marker'[c] = m
        <4> HIDE DEF m
        <4> QED BY <3>3, <1>0
      <3>5. /\ \A e \in Edition \ {c} : snap'[e] = snap[e]
            /\ \A n \in Names \ {Live} : snap'[c][n] = snap[c][n]
            /\ snap'[c][Live].before = s.before /\ snap'[c][Live].orig = b
        <4> DEFINE k == IF snap[c][Live].kind = "old" THEN "adopted" ELSE snap[c][Live].kind
        <4>1. snap' = [snap EXCEPT ![c][Live].kind = k] BY <2>4
        <4>2. s \in [kind : {"none", "full", "old", "adopted", "torn"}, before : Files, orig : BOOLEAN] BY <3>1 DEF Saved
        <4> HIDE DEF m, k
        <4>3. snap'[c][Live] = [s EXCEPT !.kind = k] BY <4>1, <1>0, <1>n
        <4>4. [s EXCEPT !.kind = k].before = s.before /\ [s EXCEPT !.kind = k].orig = s.orig BY <4>2
        <4> HIDE DEF s
        <4>5. snap'[c][Live].before = s.before /\ snap'[c][Live].orig = s.orig BY <4>3, <4>4
        <4> QED BY <4>1, <4>5, <1>0, <1>n DEF s
      <3>6. ASSUME Empty(c), EmptyAt(c) PROVE EmptyAt(c)'
        <4>1. b /\ s.before.present BY <2>4, <3>6, <1>n DEF EmptyAt, FilesAt
        <4>2. MarkerAt(c)'
          <5>1. marker'[c].orig = b
            <6> HIDE DEF b
            <6> QED BY <3>2, <3>4
          <5> QED BY <4>1, <5>1 DEF MarkerAt
        <4>3. FilesAt(c)'
          <5> SUFFICES ASSUME NEW n \in Names, snap'[c][n].kind # "none"
                       PROVE snap'[c][n].before.present /\ snap'[c][n].orig
            BY DEF FilesAt
          <5>1. CASE n = Live BY <5>1, <3>5, <4>1
          <5>2. CASE n # Live BY <5>2, <3>5, <3>6 DEF EmptyAt, FilesAt
          <5> QED BY <5>1, <5>2
        <4>4. BareAt(c)'
          <5>1. build' # 0 => Bare(c) BY <2>2, <2>4, <3>6, <1>j DEF EmptyAt, BareAt
          <5> QED BY <5>1, <2>1 DEF BareAt, Bare
        <4>5. JournalAt(c)' BY <2>1, <3>6 DEF EmptyAt, JournalAt
        <4>6. BeforeAt(c)' BY <2>1, <2>2, <1>j DEF BeforeAt
        <4> QED BY <4>2, <4>3, <4>4, <4>5, <4>6 DEF EmptyAt
      <3> HIDE DEF s, b, m
      <3> QED BY <2>1, <3>4, <3>5, <3>6, EmptyOne
    <2> QED BY <1>1, <1>c, <2>3, <2>4 DEF Adopt, SetMarker
  <1>2. CASE Adopted
    <2>1. op.pc = "adopted" /\ UNCHANGED <<profile, snap, journal>>
          /\ marker' = [marker EXCEPT ![c].state = "prepared"]
      BY <1>2, <1>c DEF Adopted, At
    <2>2. /\ \A e \in Edition \ {c} : marker'[e] = marker[e]
          /\ marker'[c].present = marker[c].present /\ marker'[c].orig = marker[c].orig
      BY <2>1, StateOnly
    <2>3. marker[c].state = "" BY <2>1, <1>c DEF SeenHere, Removing
    <2>4. MarkerAt(c) => MarkerAt(c)' BY <2>2 DEF MarkerAt
    <2>5. BareAt(c) => BareAt(c)' BY <2>1, <2>2, <2>3, <1>j DEF BareAt, Bare
    <2> QED BY <2>1, <2>2, <2>4, <2>5, EmptyMark DEF EmptyAt
  <1>3. CASE Stage
    <2> DEFINE g == Stg(T)
               b == OriginalPresent(op.seen, op.was)
               s == [kind |-> "full", before |-> op.seen, orig |-> OriginalPresent(op.seen, op.was)]
    <2>1. op.pc = "stage" /\ UNCHANGED <<profile, marker, journal>> /\ snap' = [snap EXCEPT ![c][g] = s]
      BY <1>3, <1>c DEF Stage, At, Stg
    <2>2. J.phase # "open" BY <2>1, <1>q, SMT DEF Recovering, Opens
    <2>3. g \in Names BY <2>1, <1>0, <1>n, SMT DEF Stated, Whole
    <2>4. b \in BOOLEAN BY <1>0 DEF OriginalPresent, Marked, Markers, Files, Contents
    <2>5. ReadWell BY <2>1, SMT DEF SeenHere, Reading, Before
    <2>6. Empty(c) => op.seen.present /\ b BY <2>5, <1>c DEF ReadWell, OriginalPresent
    <2>7. Empty(c) => s.before.present /\ s.orig
      <3> HIDE DEF b
      <3>1. s.before = op.seen /\ s.orig = b BY <2>4 DEF b
      <3> QED BY <2>6, <3>1
    <2> HIDE DEF g, s, b
    <2>8. /\ \A e \in Edition \ {c} : snap'[e] = snap[e]
          /\ \A n \in Names \ {g} : snap'[c][n] = snap[c][n]
          /\ snap'[c][g] = s
      BY <2>1, <2>3, <1>0
    <2>9. Empty(c) /\ FilesAt(c) => FilesAt(c)' BY <2>7, <2>8 DEF FilesAt
    <2>10. BeforeAt(c)' BY <2>1, <2>2, <1>j DEF BeforeAt
    <2> QED BY <2>1, <2>8, <2>9, <2>10, EmptyFiles DEF EmptyAt
  <1>4. CASE OpenJournal
    <2> DEFINE x == Opened(T, op.was)
               g == Stg(T)
    <2>1. op.pc = "journal" /\ UNCHANGED <<profile, marker, snap>> /\ journal' = [journal EXCEPT ![c] = x]
      BY <1>4, <1>c DEF OpenJournal, At
    <2>2. x.phase = "open" /\ x.tx = T /\ x.prev = op.was.version /\ x.orig = op.was.orig
      BY <1>0 DEF Opened, Marked, Markers
    <2>3. ReadWell /\ snap[c][g].before = op.seen BY <2>1, <1>c, SMT DEF SeenHere, Reading, Before
    <2>4. snap[c][g].kind = "full" BY <2>1, <1>c, SMT DEF Held, Filed, Kind
    <2>5. op.was.version # 0 => op.was.present
      <3>1. \A m \in Marked : m.version # 0 => m.present
        <4> SUFFICES ASSUME NEW m \in Marked, ~m.present PROVE m.version = 0 OBVIOUS
        <4>1. m = NoMarker BY DEF Marked
        <4>2. NoMarker.version = 0 BY DEF NoMarker
        <4> QED BY <4>1, <4>2
      <3> QED BY <3>1, <1>0
    <2>6. Empty(c) => (x.prev # 0 => x.orig) BY <2>2, <2>3, <2>5, <1>c DEF ReadWell
    <2>7. Empty(c) => (x.prev = 0 => op.seen.block = "none") BY <2>2, <2>3, <1>c DEF ReadWell
    <2> HIDE DEF x
    <2>8. (\A e \in Edition \ {c} : journal'[e] = journal[e]) /\ journal'[c] = x BY <2>1, <1>0
    <2>9. (Empty(c) => JournalAt(c)') /\ BareAt(c)' BY <2>2, <2>6, <2>8 DEF JournalAt, BareAt
    <2>10. Empty(c) => BeforeAt(c)'
      <3>1. Stg(journal'[c].tx) = g BY <2>2, <2>8
      <3> HIDE DEF g
      <3>2. RecoveryAt(c)' = snap[c][g] BY <2>1, <2>4, <3>1 DEF RecoveryAt
      <3> QED BY <2>3, <2>7, <2>8, <3>2 DEF BeforeAt
    <2> QED BY <2>1, <2>8, <2>9, <2>10, EmptyJournal
  <1>5. CASE Publish
    <2> DEFINE b == OriginalPresent(op.seen, op.was)
               v == build
               m == [marker[c] EXCEPT !.present = TRUE, !.version = v, !.orig = b]
    <2>1. op.pc = "publish" /\ UNCHANGED <<profile, snap, journal>> /\ marker' = [marker EXCEPT ![c] = m]
      BY <1>5, <1>c DEF Publish, At, SetMarker
    <2>2. ReadWell BY <2>1, SMT DEF SeenHere, Reading
    <2>3. Empty(c) => b BY <2>2, <1>c DEF ReadWell, OriginalPresent
    <2>4. b \in BOOLEAN BY <1>0 DEF OriginalPresent, Marked, Markers, Files, Contents
    <2> HIDE DEF b, v
    <2>5. m.orig = b
      <3>1. marker[c] \in Markers BY <1>0 DEF Marked
      <3> QED BY <2>4, <3>1 DEF Markers
    <2> HIDE DEF m
    <2>6. (\A e \in Edition \ {c} : marker'[e] = marker[e]) /\ marker'[c] = m BY <2>1, <1>0
    <2>7. Empty(c) => MarkerAt(c)' BY <2>3, <2>5, <2>6 DEF MarkerAt
    <2>8. J.phase = "open" BY <2>1, <1>o DEF Open
    <2> QED BY <2>1, <2>6, <2>7, <2>8, <1>b, EmptyMark
  <1>6. CASE Prepared \/ MarkInstalled
    <2>1. op.pc \in {"prepared", "installed"} /\ UNCHANGED <<profile, snap, journal>>
          /\ \E x : marker' = [marker EXCEPT ![c].state = x]
      BY <1>6, <1>c DEF Prepared, MarkInstalled, At
    <2>2. /\ \A e \in Edition \ {c} : marker'[e] = marker[e]
          /\ marker'[c].present = marker[c].present /\ marker'[c].orig = marker[c].orig
      BY <2>1, StateOnly
    <2>3. MarkerAt(c) => MarkerAt(c)' BY <2>2 DEF MarkerAt
    <2>4. J.phase = "open" BY <2>1, <1>o DEF Open
    <2> QED BY <2>1, <2>2, <2>3, <2>4, <1>b, EmptyMark DEF EmptyAt
  <1>7. CASE Retire
    <2> DEFINE g == Stg(T)
               r == Rmv(T)
    <2>1. op.pc = "retire" /\ UNCHANGED <<profile, marker, journal>>
          /\ (snap' = snap \/ snap' = [snap EXCEPT ![c] = Moved(@, Live, r, NoSnap)])
      BY <1>7, <1>c DEF Retire, At, Rmv
    <2>2. op.pc \in Stated /\ op.pc \in Open /\ op.pc \in Filed BY <2>1, SMT DEF Stated, Whole, Open, Filed
    <2>3. g \in Names /\ r \in Names /\ g # Live /\ r # Live /\ g # r BY <2>2, <1>0, <1>n
    <2>4. snap[c][g].kind = "full" BY <2>2, <1>c DEF Held, Kind
    <2>5. Stg(journal[c].tx) = g /\ Stg(journal'[c].tx) = g BY <2>1, <2>2, <1>j, <1>o
    <2> HIDE DEF g, r
    <2>6. CASE snap' = [snap EXCEPT ![c] = Moved(@, Live, r, NoSnap)]
      <3>1. (\A e \in Edition \ {c} : snap'[e] = snap[e]) /\ (FilesAt(c) => FilesAt(c)')
        BY <2>3, <2>6, <1>n, MovedFiles
      <3>2. snap'[c][g] = snap[c][g] BY <2>3, <2>6, <1>0, <1>n DEF Moved
      <3>3. RecoveryAt(c) = snap[c][g] BY <2>4, <2>5 DEF RecoveryAt
      <3>4. RecoveryAt(c)' = snap[c][g] BY <2>4, <2>5, <3>2 DEF RecoveryAt
      <3>5. BeforeAt(c) => BeforeAt(c)' BY <2>1, <3>3, <3>4 DEF BeforeAt
      <3> QED BY <2>1, <3>1, <3>5, EmptyFiles DEF EmptyAt
    <2>7. CASE snap' = snap BY <2>1, <2>7, EmptySame
    <2> QED BY <2>1, <2>6, <2>7
  <1>8. CASE GoLive
    <2> DEFINE g == Stg(T)
    <2>1. op.pc = "live" /\ UNCHANGED <<profile, marker, journal>>
          /\ snap' = [snap EXCEPT ![c] = Moved(@, g, Live, NoSnap)]
      BY <1>8, <1>c DEF GoLive, At, Stg
    <2>2. op.pc \in Stated /\ op.pc \in Open /\ op.pc \in Filed BY <2>1, SMT DEF Stated, Whole, Open, Filed
    <2>3. g \in Names /\ g # Live BY <2>2, <1>0, <1>n
    <2>4. snap[c][g].kind = "full" BY <2>2, <1>c DEF Held, Kind
    <2>5. Stg(journal[c].tx) = g /\ Stg(journal'[c].tx) = g BY <2>1, <2>2, <1>j, <1>o
    <2> HIDE DEF g
    <2>6. /\ \A e \in Edition \ {c} : snap'[e] = snap[e]
          /\ snap'[c][Live] = snap[c][g] /\ snap'[c][g] = NoSnap
          /\ FilesAt(c) => FilesAt(c)'
      BY <2>1, <2>3, <1>n, MovedFiles
    <2>7. RecoveryAt(c) = snap[c][g] BY <2>4, <2>5 DEF RecoveryAt
    <2>8. NoSnap.kind = "none" BY DEF NoSnap
    <2>9. RecoveryAt(c)' = snap[c][g] BY <2>5, <2>6, <2>8 DEF RecoveryAt
    <2>10. BeforeAt(c) => BeforeAt(c)' BY <2>1, <2>7, <2>9 DEF BeforeAt
    <2> QED BY <2>1, <2>6, <2>10, EmptyFiles DEF EmptyAt
  <1>9. CASE Write
    <2>1. op.pc = "write" /\ UNCHANGED <<marker, snap, journal>> BY <1>9 DEF Write, At
    <2> DEFINE x == WithBlock(op.seen)
    <2>2. UNCHANGED profile \/ profile' = [profile EXCEPT ![c] = x]
      BY <1>9, <1>c DEF Write, Replaced, SetProfile
    <2> HIDE DEF x
    <2>3. \A e \in Edition \ {c} : profile'[e] = profile[e] BY <2>2, <1>0
    <2>4. J.phase = "open" BY <2>1, <1>o DEF Open
    <2> QED BY <2>1, <2>3, <2>4, <1>b, EmptyText
  <1>10. CASE Commit
    <2>1. op.pc = "commit" /\ UNCHANGED <<profile, marker, snap>>
          /\ journal' = [journal EXCEPT ![c].phase = "committed"]
      BY <1>10, <1>c DEF Commit, At, SetJournal
    <2>2. /\ \A e \in Edition \ {c} : journal'[e] = journal[e]
          /\ journal'[c].phase = "committed" /\ journal'[c].prev = journal[c].prev /\ journal'[c].orig = journal[c].orig
      BY <2>1, <1>0 DEF Journals, Entries
    <2>3. marker[c].present /\ marker[c].state = "installed"
      BY <2>1, <1>c DEF Midway, Presence, MarkerSteps, SeenHere, Reading
    <2>4. BareAt(c)' BY <2>1, <2>3 DEF BareAt
    <2>5. (JournalAt(c) => JournalAt(c)') /\ BeforeAt(c)' BY <2>2 DEF JournalAt, BeforeAt
    <2> QED BY <2>1, <2>2, <2>4, <2>5, EmptyJournal DEF EmptyAt
  <1>11. CASE FinishState
    <2> DEFINE r == Rmv(T)
    <2>1. op.pc = "finishstate" /\ UNCHANGED <<profile, marker, journal>>
          /\ snap' = [snap EXCEPT ![c][r] = NoSnap]
      BY <1>11, <1>c DEF FinishState, At, Rmv
    <2>2. r \in Names BY <2>1, <1>0, <1>n, SMT DEF Stated, Whole
    <2>3. J.phase # "open" BY <2>1, SMT DEF Midway, Phased, Finishes
    <2> HIDE DEF r
    <2>4. /\ \A e \in Edition \ {c} : snap'[e] = snap[e]
          /\ \A n \in Names : snap'[c][n] = snap[c][n] \/ snap'[c][n] = NoSnap
      BY <2>1, <2>2, <1>0
    <2>5. FilesAt(c) => FilesAt(c)' BY <2>4 DEF FilesAt, NoSnap
    <2>6. BeforeAt(c)' BY <2>1, <2>3, <1>j DEF BeforeAt
    <2> QED BY <2>1, <2>4, <2>5, <2>6, EmptyFiles DEF EmptyAt
  <1>12. CASE FinishJournal
    <2>1. op.pc = "finishjournal" /\ UNCHANGED <<profile, marker, snap>> /\ journal' = [journal EXCEPT ![c] = NoEntry]
      BY <1>12, <1>c DEF FinishJournal, At
    <2>2. J.phase # "open" BY <2>1, SMT DEF Midway, Phased, Finishes
    <2>3. (\A e \in Edition \ {c} : journal'[e] = journal[e]) /\ journal'[c] = NoEntry BY <2>1, <1>0
    <2>4. JournalAt(c)' /\ BeforeAt(c)' BY <2>3 DEF JournalAt, BeforeAt, NoEntry
    <2>5. BareAt(c) => BareAt(c)' BY <2>1, <2>2, <1>j DEF BareAt, Bare
    <2> QED BY <2>1, <2>3, <2>4, <2>5, EmptyJournal DEF EmptyAt
  <1>13. CASE Undo
    <2> DEFINE g == Stg(T)
    <2>1. op.pc = "undo" /\ UNCHANGED <<profile, marker, journal>>
          /\ (snap' = snap \/ (J.phase = "none" /\ snap' = [snap EXCEPT ![c][g] = NoSnap]))
      BY <1>13, <1>c DEF Undo, At, Stg, J
    <2>2. g \in Names BY <2>1, <1>0, <1>n, SMT DEF Stated, Shared
    <2> HIDE DEF g
    <2>3. CASE snap' = snap BY <2>1, <2>3, EmptySame
    <2>4. CASE J.phase = "none" /\ snap' = [snap EXCEPT ![c][g] = NoSnap]
      <3>1. /\ \A e \in Edition \ {c} : snap'[e] = snap[e]
            /\ \A n \in Names : snap'[c][n] = snap[c][n] \/ snap'[c][n] = NoSnap
        BY <2>4, <2>2, <1>0
      <3>2. FilesAt(c) => FilesAt(c)' BY <3>1 DEF FilesAt, NoSnap
      <3>3. BeforeAt(c)' BY <2>1, <2>4, <1>j DEF BeforeAt
      <3> QED BY <2>1, <3>1, <3>2, <3>3, EmptyFiles DEF EmptyAt
    <2> QED BY <2>1, <2>3, <2>4
  <1>14. CASE Version
    <2> DEFINE v == build
    <2>1. UNCHANGED <<profile, snap, journal>> /\ marker' = [marker EXCEPT ![c].version = v]
      BY <1>14, <1>c DEF Version
    <2> HIDE DEF v
    <2>2. /\ \A e \in Edition \ {c} : marker'[e] = marker[e]
          /\ marker'[c].present = marker[c].present /\ marker'[c].orig = marker[c].orig
          /\ marker'[c].state = marker[c].state
      BY <2>1, <1>0 DEF Marked, Markers
    <2>3. MarkerAt(c) => MarkerAt(c)' BY <2>2 DEF MarkerAt
    <2>4. BareAt(c) => BareAt(c)' BY <2>1, <2>2, <1>j DEF BareAt, Bare
    <2> QED BY <2>1, <2>2, <2>3, <2>4, EmptyMark DEF EmptyAt
  <1>15. \/ Enable \/ Tree \/ Install \/ Reinstall \/ Resume \/ Begin \/ Ensure \/ SwapJournal \/ Aside \/ Deploy
         \/ Verify \/ Finish \/ FinishSwap \/ UndoRoot \/ UndoName \/ UndoClean \/ Upgrade \/ CommitSwap
         => UNCHANGED <<profile, marker, snap, journal>>
    BY DEF Enable, Tree, Install, Reinstall, Resume, Begin, Ensure, SwapJournal, Aside, Deploy,
           Verify, Finish, FinishSwap, UndoRoot, UndoName, UndoClean, Upgrade, CommitSwap, disk
  <1> QED BY <1>1, <1>2, <1>3, <1>4, <1>5, <1>6, <1>7, <1>8, <1>9, <1>10, <1>11, <1>12, <1>13, <1>14, <1>15,
             EmptySame DEF Enables

LEMMA RemovesEmpty ==
  ASSUME Types, Control, Midway, Held, EmptyKept, SeenHere, Fewer, Removes
  PROVE EmptyKept'
  <1>0. /\ (op.pc # "idle" => op # Idle) /\ profile \in [Edition -> Files]
        /\ marker \in [Edition -> Marked] /\ snap \in [Edition -> [Names -> Saved]]
        /\ op.was \in Marked /\ op.seen \in Files
    BY Running DEF Types, Jobs
  <1>c. PICK c \in Edition : c = Cur BY Running
  <1>j. journal[c] = J /\ (build' # 0 => build # 0) BY <1>c DEF J, Fewer
  <1>n. Live \in Names BY Named
  <1>k. {"uninstall", "excise", "restate", "forget", "erase", "erased"} \cap (Recovering \cup {"idle"} \cup Opens) = {}
    BY SMT DEF Recovering, Opens
  <1>q. op.pc \in {"uninstall", "excise", "restate", "forget", "erase", "erased"} => J.phase # "open"
    BY <1>c, <1>j, <1>k, TaskKind, Quiet
  <1>1. CASE Uninstalls
    <2>1. op.pc = "uninstall" /\ UNCHANGED <<profile, snap, journal>>
          /\ (marker' = marker \/ marker' = [marker EXCEPT ![c].state = "removing"])
      BY <1>1, <1>c DEF Uninstalls, At
    <2>2. CASE marker' = marker BY <2>1, <2>2, EmptySame
    <2>3. CASE marker' = [marker EXCEPT ![c].state = "removing"]
      <3>1. /\ \A e \in Edition \ {c} : marker'[e] = marker[e]
            /\ marker'[c].present = marker[c].present /\ marker'[c].orig = marker[c].orig
            /\ marker'[c].state = "removing"
        BY <2>3, StateOnly
      <3>2. MarkerAt(c) => MarkerAt(c)' BY <3>1 DEF MarkerAt
      <3>3. BareAt(c) => BareAt(c)' BY <2>1, <3>1, <1>j DEF BareAt, Bare
      <3> QED BY <2>1, <3>1, <3>2, <3>3, EmptyMark DEF EmptyAt
    <2> QED BY <2>1, <2>2, <2>3
  <1>2. CASE Excise
    <2> DEFINE x == ToExcise
    <2>1. op.pc = "excise" /\ UNCHANGED <<marker, snap, journal>>
          /\ (profile' = profile \/ profile' = [profile EXCEPT ![c] = x])
      BY <1>2, <1>c DEF Excise, At, Replaced, SetProfile
    <2>2. CASE profile' = profile BY <2>1, <2>2, EmptySame
    <2>3. CASE profile' = [profile EXCEPT ![c] = x]
      <3>1. J.phase # "open" BY <2>1, <1>q
      <3>2. Empty(c) /\ build # 0 => ~Undoing BY <2>1, <1>c DEF SeenHere, Removing, CutWell
      <3>3. ~Undoing => x = Cleaned(op.seen, op.was.orig) BY DEF ToExcise, Undoing, Kind
      <3>4. Cleaned(op.seen, op.was.orig).block = "none"
        <4>1. op.seen \in Contents BY <1>0 DEF Files
        <4> QED BY <4>1 DEF Cleaned, Strip, Absent, Contents
      <3>5. Empty(c) /\ build # 0 => x.block = "none"
        <4> HIDE DEF x
        <4> QED BY <3>2, <3>3, <3>4
      <3> HIDE DEF x
      <3>6. (\A e \in Edition \ {c} : profile'[e] = profile[e]) /\ profile'[c] = x BY <2>3, <1>0
      <3>7. Empty(c) => BareAt(c)' BY <2>1, <3>5, <3>6, <1>j DEF BareAt, Bare
      <3> QED BY <2>1, <3>6, <3>7, EmptyText
    <2> QED BY <2>1, <2>2, <2>3
  <1>3. CASE Restate
    <2> DEFINE x == op.was.state
    <2>1. op.pc = "restate" /\ UNCHANGED <<profile, snap, journal>>
          /\ marker' = [marker EXCEPT ![c].state = x]
      BY <1>3, <1>c DEF Restate, At
    <2>2. x # "" /\ (Empty(c) /\ build # 0 /\ x = "prepared" => Bare(c))
      BY <2>1, <1>c DEF SeenHere, Removing, UndoWell
    <2>3. marker[c].present BY <2>1, <1>c DEF Midway, Presence, MarkerSteps
    <2> HIDE DEF x
    <2>4. /\ \A e \in Edition \ {c} : marker'[e] = marker[e]
          /\ marker'[c].present = marker[c].present /\ marker'[c].orig = marker[c].orig
          /\ marker'[c].state = x
      BY <2>1, StateOnly
    <2>5. MarkerAt(c) => MarkerAt(c)' BY <2>4 DEF MarkerAt
    <2>6. Empty(c) => BareAt(c)' BY <2>1, <2>2, <2>3, <2>4, <1>j DEF BareAt, Bare
    <2> QED BY <2>1, <2>4, <2>5, <2>6, EmptyMark DEF EmptyAt
  <1>4. CASE Forget
    <2>1. op.pc = "forget" /\ UNCHANGED <<profile, snap, journal>> /\ marker' = [marker EXCEPT ![c] = NoMarker]
      BY <1>4, <1>c DEF Forget, At, SetMarker
    <2>2. Empty(c) /\ build # 0 => Bare(c) BY <2>1, <1>c DEF SeenHere, Removing
    <2>3. (\A e \in Edition \ {c} : marker'[e] = marker[e]) /\ marker'[c] = NoMarker BY <2>1, <1>0
    <2>4. ~NoMarker.present BY DEF NoMarker
    <2>5. MarkerAt(c)' BY <2>3, <2>4 DEF MarkerAt
    <2>6. Empty(c) => BareAt(c)' BY <2>1, <2>2, <1>j DEF BareAt, Bare
    <2> QED BY <2>1, <2>3, <2>5, <2>6, EmptyMark
  <1>5. CASE Erase
    <2>1. op.pc = "erase" /\ UNCHANGED <<profile, marker, journal>>
          /\ snap' = [snap EXCEPT ![c][Live].kind = "torn"]
      BY <1>5, <1>c DEF Erase, At
    <2>2. snap[c][Live].kind # "none" BY <2>1, <1>c DEF SeenHere, Removing, Kind, Good
    <2>3. /\ \A e \in Edition \ {c} : snap'[e] = snap[e]
          /\ \A n \in Names \ {Live} : snap'[c][n] = snap[c][n]
          /\ snap'[c][Live].before = snap[c][Live].before /\ snap'[c][Live].orig = snap[c][Live].orig
      BY <2>1, <1>0, <1>n DEF Saved
    <2>4. ASSUME FilesAt(c) PROVE FilesAt(c)'
      <3> SUFFICES ASSUME NEW n \in Names, snap'[c][n].kind # "none"
                   PROVE snap'[c][n].before.present /\ snap'[c][n].orig
        BY DEF FilesAt
      <3>1. CASE n = Live BY <3>1, <2>2, <2>3, <2>4, <1>n DEF FilesAt
      <3>2. CASE n # Live BY <3>2, <2>3, <2>4 DEF FilesAt
      <3> QED BY <3>1, <3>2
    <2>5. BeforeAt(c)' BY <2>1, <1>q, <1>j DEF BeforeAt
    <2> QED BY <2>1, <2>3, <2>4, <2>5, EmptyFiles DEF EmptyAt
  <1>6. CASE Erased
    <2>1. op.pc = "erased" /\ UNCHANGED <<profile, marker, journal>> /\ snap' = [snap EXCEPT ![c][Live] = NoSnap]
      BY <1>6, <1>c DEF Erased, At
    <2>2. /\ \A e \in Edition \ {c} : snap'[e] = snap[e]
          /\ \A n \in Names : snap'[c][n] = snap[c][n] \/ snap'[c][n] = NoSnap
      BY <2>1, <1>0, <1>n
    <2>3. FilesAt(c) => FilesAt(c)' BY <2>2 DEF FilesAt, NoSnap
    <2>4. BeforeAt(c)' BY <2>1, <1>q, <1>j DEF BeforeAt
    <2> QED BY <2>1, <2>2, <2>3, <2>4, EmptyFiles DEF EmptyAt
  <1>7. Examine \/ Cleanup \/ CleanPayload => UNCHANGED <<profile, marker, snap, journal>>
    BY DEF Examine, Cleanup, CleanPayload, disk
  <1> QED BY <1>1, <1>2, <1>3, <1>4, <1>5, <1>6, <1>7, EmptySame DEF Removes

\* Only an orphan clean comes to these steps.
LEMMA Orphan ==
  ASSUME Types, Control, op.pc \in {"wipe", "retiretree"}
  PROVE build = 0
  <1>1. op # Idle /\ op.todo[1][1] = "wipe" BY Running, TaskOf
  <1>2. "wipe" \in TasksOf(op.cmd) BY <1>1, Running
  <1>3. op.cmd = "clean" BY <1>2, SMT DEF TasksOf, Cleans
  <1> QED BY <1>1, <1>3 DEF Control

LEMMA TidiesEmpty ==
  ASSUME Types, Control, EmptyKept, Fewer, Tidies
  PROVE EmptyKept'
  <1>0. profile \in [Edition -> Files] /\ op.seen \in Files BY DEF Types, Jobs
  <1>c. PICK c \in Edition : c = Cur BY Running
  <1>j. build' # 0 => build # 0 BY DEF Fewer
  <1>1. CASE StripBlocks
    <2> DEFINE x == Cleaned(op.seen, FALSE)
    <2>1. UNCHANGED <<marker, snap, journal>> /\ (profile' = profile \/ profile' = [profile EXCEPT ![c] = x])
      BY <1>1, <1>c DEF StripBlocks, Replaced, SetProfile
    <2>2. x.block = "none"
      <3>1. op.seen \in Contents BY <1>0 DEF Files
      <3> QED BY <3>1 DEF Cleaned, Strip, Absent, Contents
    <2> HIDE DEF x
    <2>3. CASE profile' = profile BY <2>1, <2>3, EmptySame
    <2>4. CASE profile' = [profile EXCEPT ![c] = x]
      <3>1. (\A e \in Edition \ {c} : profile'[e] = profile[e]) /\ profile'[c] = x BY <2>4, <1>0
      <3>2. BareAt(c)' BY <2>2, <3>1 DEF BareAt, Bare
      <3> QED BY <2>1, <3>1, <3>2, EmptyText
    <2> QED BY <2>1, <2>3, <2>4
  \* Without a product no one asks whether our block is there.
  <1>2. CASE Wipe
    <2>1. /\ op.pc = "wipe" /\ UNCHANGED <<profile, snap, journal>> /\ marker' = [e \in Edition |-> NoMarker]
      BY <1>2 DEF Wipe, At
    <2>2. build' = 0 BY <2>1, <1>j, Orphan
    <2>3. ~NoMarker.present BY DEF NoMarker
    <2> SUFFICES ASSUME NEW e \in Edition, Empty(e)' PROVE EmptyAt(e)' BY DEF EmptyKept
    <2>4. EmptyAt(e) BY DEF Fewer, EmptyKept
    <2>5. FilesAt(e)' /\ JournalAt(e)' /\ BeforeAt(e)'
      BY <2>1, <2>4 DEF EmptyAt, FilesAt, JournalAt, BeforeAt, RecoveryAt
    <2>6. marker'[e] = NoMarker BY <2>1
    <2>7. MarkerAt(e)' /\ BareAt(e)' BY <2>2, <2>3, <2>6 DEF MarkerAt, BareAt
    <2> QED BY <2>5, <2>7 DEF EmptyAt
  <1>3. CASE RetireTree
    <2>1. /\ op.pc = "retiretree" /\ UNCHANGED <<profile, marker>>
          /\ \/ UNCHANGED <<snap, journal>>
             \/ snap' = [e \in Edition |-> [n \in Names |-> NoSnap]] /\ journal' = [e \in Edition |-> NoEntry]
      BY <1>3 DEF RetireTree, At
    <2>2. build' = 0 BY <2>1, <1>j, Orphan
    <2>3. CASE UNCHANGED <<snap, journal>> BY <2>1, <2>3, EmptySame
    <2>4. CASE snap' = [e \in Edition |-> [n \in Names |-> NoSnap]] /\ journal' = [e \in Edition |-> NoEntry]
      <3> SUFFICES ASSUME NEW e \in Edition, Empty(e)' PROVE EmptyAt(e)' BY DEF EmptyKept
      <3>1. EmptyAt(e) BY DEF Fewer, EmptyKept
      <3>2. journal'[e] = NoEntry /\ \A n \in Names : snap'[e][n] = NoSnap BY <2>4
      <3>3. NoSnap.kind = "none" /\ NoEntry.prev = 0 /\ NoEntry.phase = "none" BY DEF NoSnap, NoEntry
      <3>4. FilesAt(e)' BY <3>2, <3>3 DEF FilesAt
      <3>5. JournalAt(e)' /\ BeforeAt(e)' BY <3>2, <3>3 DEF JournalAt, BeforeAt
      <3>6. MarkerAt(e)' /\ BareAt(e)' BY <2>1, <2>2, <3>1 DEF EmptyAt, MarkerAt, BareAt
      <3> QED BY <3>4, <3>5, <3>6 DEF EmptyAt
    <2> QED BY <2>1, <2>3, <2>4
  <1>4. Repair \/ ReadStrip \/ Modules \/ Leftovers \/ Swept => UNCHANGED <<profile, marker, snap, journal>>
    BY DEF Repair, ReadStrip, Modules, Leftovers, Swept, disk
  <1> QED BY <1>1, <1>2, <1>3, <1>4, EmptySame DEF Tidies

\* An edit: what the user leaves empty is not there before the next command.
LEMMA EditedFull ==
  ASSUME Types, Types', Edit
  PROVE \E f \in Edition : /\ \A e \in Edition \ {f} : profile'[e] = profile[e] /\ owned'[e] = owned[e]
                           /\ ~Empty(f)' /\ (op = Idle \/ f = Cur)
  <1>0. /\ owned \in [Edition -> [text : Texts, file : BOOLEAN]] /\ profile \in [Edition -> Files]
        /\ profile' \in [Edition -> Files]
    BY DEF Types
  <1>1. PICK f \in Edition : /\ op = Idle \/ f = Cur
                             /\ \E x : /\ profile' = [profile EXCEPT ![f] = x]
                                       /\ owned' = [owned EXCEPT ![f] = UsersFile(x)]
    <2>1. Troubled \subseteq Edition BY PowerShellAssumption, Zenon
    <2>2. \E f \in Troubled : /\ op = Idle \/ f = Cur
                              /\ \E x : /\ profile' = [profile EXCEPT ![f] = x]
                                        /\ owned' = [owned EXCEPT ![f] = UsersFile(x)]
      BY DEF Edit, SetProfile
    <2> QED BY <2>1, <2>2
  <1>2. PICK x : profile' = [profile EXCEPT ![f] = x] /\ owned' = [owned EXCEPT ![f] = UsersFile(x)] BY <1>1
  <1>3. x \in Files BY <1>0, <1>2
  <1> DEFINE r == UsersFile(x)
  <1>4. r.file => r.text # NoText BY <1>3 DEF UsersFile
  <1>5. owned' = [owned EXCEPT ![f] = r] BY <1>2
  <1> HIDE DEF r
  <1>6. owned'[f] = r /\ \A e \in Edition \ {f} : profile'[e] = profile[e] /\ owned'[e] = owned[e]
    BY <1>0, <1>2, <1>5
  <1>7. ~Empty(f)' BY <1>4, <1>6 DEF Empty
  <1> QED BY <1>1, <1>6, <1>7

LEMMA WorldEmpty ==
  ASSUME Types, Types', EmptyKept, Fewer, World
  PROVE EmptyKept'
  <1>1. CASE Edit
    <2>1. UNCHANGED <<marker, snap, journal>> BY <1>1 DEF Edit
    <2>2. PICK f \in Edition : (\A e \in Edition \ {f} : profile'[e] = profile[e]) /\ ~Empty(f)'
      BY <1>1, EditedFull
    <2> SUFFICES ASSUME NEW e \in Edition, Empty(e)' PROVE EmptyAt(e)' BY DEF EmptyKept
    <2>3. EmptyAt(e) /\ (build' # 0 => build # 0) BY DEF Fewer, EmptyKept
    <2>4. e # f BY <2>2
    <2>5. profile'[e] = profile[e] BY <2>2, <2>4
    <2>6. FilesAt(e)' /\ MarkerAt(e)' /\ JournalAt(e)' BY <2>1, <2>3 DEF EmptyAt, FilesAt, MarkerAt, JournalAt
    <2>7. BareAt(e)' BY <2>1, <2>3, <2>5 DEF EmptyAt, BareAt, Bare
    <2>8. BeforeAt(e)' BY <2>1, <2>3 DEF EmptyAt, BeforeAt, RecoveryAt
    <2> QED BY <2>6, <2>7, <2>8 DEF EmptyAt
  <1>2. UserCommand \/ SweepStart \/ BackgroundEnable \/ BackgroundRepair \/ OrphanClean \/ NewBuild \/ Remove \/ Crash \/ Fail
          => UNCHANGED <<profile, marker, snap, journal>>
    BY DEF UserCommand, SweepStart, BackgroundEnable, BackgroundRepair, OrphanClean, Command, NewBuild, Remove,
           Crash, Fail, disk
  <1> QED BY <1>1, <1>2, EmptySame DEF World

LEMMA EmptyStep ==
  ASSUME Types, Control, Midway, Held, EmptyKept, SeenHere, Types', [Next]_vars
  PROVE EmptyKept'
  <1>0. Fewer BY FewerStep
  <1>1. CASE Recovers BY <1>0, <1>1, RecoversEmpty
  <1>2. CASE Enables BY <1>0, <1>2, EnablesEmpty
  <1>3. CASE Removes BY <1>0, <1>3, RemovesEmpty
  <1>4. CASE Tidies BY <1>0, <1>4, TidiesEmpty
  <1>5. CASE World BY <1>0, <1>5, WorldEmpty
  <1>6. CASE UNCHANGED vars
    <2>1. UNCHANGED <<profile, marker, snap, journal>> BY <1>6 DEF vars, disk
    <2> QED BY <1>0, <2>1, EmptySame
  <1> QED BY <1>1, <1>2, <1>3, <1>4, <1>5, <1>6 DEF Next

-----------------------------------------------------------------------------
(* What a command has read, from step to step.                              *)

\* Only these steps, and those of a rollback, rely on it.
Minds == Before \cup {"publish", "verify", "commit", "restore", "unpublish", "adopted", "examine",
                      "excise", "restate", "forget", "erase"}

LEMMA SeenLoose ==
  ASSUME op'.pc \notin Minds, ~RollingBack'
  PROVE SeenHere'
  <1>1. ~Rolled' BY DEF Rolled, RollingBack
  <1>2. /\ op'.pc \notin Before \cup {"publish"} /\ op'.pc \notin {"verify", "commit"}
        /\ op'.pc \notin {"restore", "unpublish", "adopted", "forget", "erase", "journal"}
        /\ op'.pc \notin {"examine", "excise", "restate"}
    BY SMT DEF Minds, Before
  <1>3. op'.pc # "state" BY DEF RollingBack
  <1>4. Reading' BY <1>2 DEF Reading
  <1>5. Backing' BY <1>1, <1>2, <1>3 DEF Backing
  <1>6. Removing' BY <1>2 DEF Removing
  <1> QED BY <1>4, <1>5, <1>6 DEF SeenHere

LEMMA SeenBegin ==
  ASSUME op'.pc \in Tasks \cup {"idle"}, ~RollingBack'
  PROVE SeenHere'
  <1>1. op'.pc \notin Minds BY SMT DEF Tasks, Minds, Before
  <1> QED BY <1>1, SeenLoose

LEMMA SeenIdle ==
  ASSUME op' = Idle
  PROVE SeenHere'
  <1>1. op'.pc = "idle" /\ Len(op'.todo) = 0 BY SMT DEF Idle
  <1>2. ~RollingBack' BY <1>1, SMT DEF RollingBack
  <1> QED BY <1>1, <1>2, SeenBegin

LEMMA SeenShut ==
  ASSUME Types', Control', Midway', op'.pc \in Tasks \cup {"idle"}, \A e \in Edition : journal'[e].phase # "open"
  PROVE SeenHere'
  <1>1. Cur' \in Edition
    <2>1. CASE op' = Idle BY <2>1, Somebody DEF Idle, Cur
    <2>2. CASE op' # Idle
      <3>1. op'.todo \in Lists /\ op'.todo # <<>> BY <2>2 DEF Control, Runnable
      <3> QED BY <3>1, Listed DEF Cur
    <2> QED BY <2>1, <2>2
  <1>2. ~RollingBack' BY <1>1 DEF Midway, Phased, J
  <1> QED BY <1>2, SeenBegin

LEMMA EndSeen ==
  ASSUME Types, Control, Midway, Types', Control', Midway', Restarts, op.pc \notin Recovering \cup {"idle"} \cup Opens,
         \A e \in Edition : journal'[e].phase = "open" => journal[e].phase = "open"
  PROVE SeenHere'
  <1>1. \A e \in Edition : journal'[e].phase # "open" BY TaskKind, Quiet
  <1>2. CASE op' = Idle BY <1>2, SeenIdle
  <1>3. CASE op' # Idle
    <2>1. op'.todo \in Lists /\ op'.todo # <<>> BY <1>3 DEF Control, Runnable
    <2>2. op'.pc \in Tasks BY <1>3, <2>1, Listed DEF Restarts
    <2> QED BY <1>1, <2>2, SeenShut
  <1> QED BY <1>2, <1>3

\* Another step of the recovery of a host.
LEMMA HostSeen ==
  ASSUME Types, Control, op.pc # "idle", op.todo[1][1] \in {"recover", "rolled"},
         NEW q \in StepsOf("recover"), op'.todo = op.todo, op'.pc = q,
         q = "restore" => op'.seen = Installed(Recovery)',
         q \in {"unpublish", "unretire", "values", "state", "rolled"} => (Empty(Cur)' /\ J'.prev = 0 => Bare(Cur)'),
         q = "state" /\ J'.prev # 0 => marker'[Cur'].present,
         q = "rolled" /\ J'.prev # 0 => InstalledMarker(Cur)'
  PROVE SeenHere'
  <1>1. ~(Len(op'.todo) > 1 /\ op'.todo[2][1] = "rolled") BY Pending
  <1>2. (RollingBack' <=> q \in {"unretire", "values", "state", "rolled"}) /\ (Rolled' <=> q = "rolled")
    BY <1>1 DEF RollingBack, Rolled
  <1>3. /\ q \notin Before \cup {"publish"} /\ q \notin {"verify", "commit"} /\ q # "journal"
        /\ q \notin {"adopted", "forget", "erase", "examine", "excise", "restate"}
    BY SMT DEF StepsOf, Before
  <1>4. Reading' BY <1>3 DEF Reading
  <1>5. Backing' BY <1>2 DEF Backing
  <1>6. Removing' BY <1>3 DEF Removing
  <1> QED BY <1>4, <1>5, <1>6 DEF SeenHere

\* A step of the payload's, or to the end of a rollback that waited for it.
LEMMA SwapSeen ==
  ASSUME SeenHere, Fewer, Cur \in Edition, Cur' = Cur, UNCHANGED <<profile, marker, journal>>,
         op'.pc \notin Minds \cup {"state"}, RollingBack' => RollingBack, Rolled' => Rolled
  PROVE SeenHere'
  <1>1. J' = J /\ (Empty(Cur)' => Empty(Cur)) /\ (Bare(Cur)' <=> Bare(Cur))
        /\ (InstalledMarker(Cur)' <=> InstalledMarker(Cur))
    BY DEF J, Fewer, Bare, InstalledMarker
  <1>2. /\ op'.pc \notin Before \cup {"publish"} /\ op'.pc \notin {"verify", "commit"}
        /\ op'.pc \notin {"restore", "unpublish", "adopted", "forget", "erase", "journal"}
        /\ op'.pc \notin {"examine", "excise", "restate"} /\ op'.pc # "state"
    BY SMT DEF Minds, Before
  <1>3. Reading' BY <1>2 DEF Reading
  <1>4. Backing' BY <1>1, <1>2 DEF Backing, SeenHere
  <1>5. Removing' BY <1>2 DEF Removing
  <1> QED BY <1>3, <1>4, <1>5 DEF SeenHere

LEMMA SwapGoes ==
  ASSUME Types, Control, SeenHere, Fewer, op.pc \in StepsOf("swap"),
         NEW q \in StepsOf("swap"), op'.todo = op.todo, op'.pc = q, UNCHANGED <<profile, marker, journal>>
  PROVE SeenHere'
  <1>1. /\ q \notin {"unretire", "values", "state", "rolled"} /\ op.pc \notin {"unretire", "values", "state", "rolled"}
        /\ q \notin Minds
    BY SMT DEF StepsOf, Minds, Before
  <1>2. Cur' = Cur /\ Cur \in Edition BY Running DEF Cur
  <1>3. (RollingBack' => RollingBack) /\ (Rolled' => Rolled) BY <1>1 DEF RollingBack, Rolled
  <1> QED BY <1>1, <1>2, <1>3, SwapSeen

\* The next task of a recovery.
LEMMA BackSeen ==
  ASSUME Types, Control, SeenHere, Fewer, Types', Control', op.pc # "idle", Starting(Tail(op.todo)),
         op.todo[1][1] \in Backs,
         op.todo[1][1] = "swap" => UNCHANGED <<profile, marker, journal>>
  PROVE SeenHere'
  <1>1. CASE op' = Idle BY <1>1, SeenIdle
  <1>2. CASE op' # Idle
    <2> DEFINE s == Tail(op.todo)
    <2>0. op # Idle /\ op.todo \in Lists /\ op.todo # <<>> /\ Runnable(op.cmd, op.user, op.todo)
          /\ Cur = op.todo[1][2] /\ op.pc \in StepsOf(op.todo[1][1]) /\ Cur \in Edition
      BY Running DEF Control
    <2>1. s # <<>> /\ op'.todo = s /\ op'.pc = s[1][1] BY <1>2 DEF Starting
    <2>2. /\ s \in Lists /\ Len(s) \in Nat /\ Len(s) = Len(op.todo) - 1 /\ Len(op.todo) \in Nat
          /\ \A i \in 1..Len(s) : s[i] = op.todo[i + 1]
      BY <2>0, Listed, SMT DEF Lists
    <2> HIDE DEF s
    <2>5. Len(s) >= 1 /\ s[1][1] \in Tasks /\ s[1] = op.todo[2] /\ Len(op.todo) > 1 /\ Head(s) = s[1]
      BY <2>1, <2>2, Listed
    <2>6. ~(Len(s) > 1 /\ s[2][1] = "rolled")
      <3>1. Len(s) > 1 => 2 \in 1..Len(s) /\ 3 \in 1..Len(op.todo) /\ s[2] = op.todo[3]
        BY <2>2
      <3>2. \A i \in 1..Len(op.todo) : op.todo[i][1] = "rolled" => i = 1 \/ i = 2
        BY <2>0 DEF Runnable, RolledNext
      <3>3. Len(s) > 1 => op.todo[3][1] # "rolled" BY <3>1, <3>2
      <3> QED BY <3>1, <3>3
    <2>7. op'.pc \in Tasks BY <2>1, <2>5
    <2>8. RollingBack' => op'.pc = "rolled" BY <2>1, <2>6, <2>7, SMT DEF RollingBack, Tasks
    <2>9. CASE ~RollingBack' BY <2>7, <2>9, SeenBegin
    <2>10. CASE RollingBack'
      <3>1. op'.pc = "rolled" /\ op.todo[2][1] = "rolled" BY <2>1, <2>5, <2>8, <2>10
      <3>2. op.todo[1][1] = "swap" /\ op.todo[2][2] = Cur BY <2>5, <3>1, Pending
      <3>3. Cur' = Cur BY <2>1, <2>5, <3>2 DEF Cur
      <3>4. UNCHANGED <<profile, marker, journal>> BY <3>2
      <3>5. RollingBack /\ Rolled BY <2>5, <3>1 DEF RollingBack, Rolled
      <3>6. op'.pc \notin Minds \cup {"state"} BY <3>1, SMT DEF Minds, Before
      <3> QED BY <2>0, <3>3, <3>4, <3>5, <3>6, SwapSeen
    <2> QED BY <2>9, <2>10
  <1> QED BY <1>1, <1>2

LEMMA NotBack ==
  \A q : q \notin Recovering => q \notin {"restore", "unpublish", "unretire", "values", "state", "rolled"}
  BY SMT DEF Recovering

\* Another step of a task past the recovery.
LEMMA TaskSeen ==
  ASSUME Types, Control, op.pc # "idle", op.todo[1][1] \notin Backs, NEW q, op'.todo = op.todo, op'.pc = q,
         q \notin Recovering,
         q \in Before \cup {"publish"} => ReadWell',
         q = "journal" => snap'[Cur'][Stg(T)'].before = op'.seen,
         q \in {"verify", "commit"} => marker'[Cur'].state = "installed",
         q = "adopted" => marker'[Cur'].state = "",
         q \in {"examine", "excise", "restate"} => UndoWell',
         q = "excise" => CutWell',
         q \in {"forget", "erase"} => Kind(Cur, Live)' \in Good,
         q = "forget" => (Empty(Cur)' /\ build' # 0 => Bare(Cur)')
  PROVE SeenHere'
  <1>1. ~(Len(op'.todo) > 1 /\ op'.todo[2][1] = "rolled") BY Pending DEF Backs
  <1>2. q \notin {"restore", "unpublish", "unretire", "values", "state", "rolled"} BY NotBack, Zenon
  <1>3. ~RollingBack' /\ ~Rolled' BY <1>1, <1>2 DEF RollingBack, Rolled
  <1>4. Reading' BY DEF Reading
  <1>5. Backing' BY <1>2, <1>3 DEF Backing
  <1>6. Removing' BY DEF Removing
  <1> QED BY <1>4, <1>5, <1>6 DEF SeenHere

\* A step that no other relies on.
LEMMA PlainSeen ==
  ASSUME Types, Control, op.pc # "idle", op.todo[1][1] \notin Backs, op'.todo = op.todo,
         op'.pc \notin Recovering \cup Minds
  PROVE SeenHere'
  <1>1. ~(Len(op'.todo) > 1 /\ op'.todo[2][1] = "rolled") BY Pending DEF Backs
  <1>2. op'.pc \notin {"unretire", "values", "state", "rolled"} BY SMT DEF Recovering
  <1>3. ~RollingBack' BY <1>1, <1>2 DEF RollingBack
  <1> QED BY <1>3, SeenLoose

\* What a rollback carries from step to step.
LEMMA BareStays ==
  ASSUME Fewer, Cur \in Edition, Cur' = Cur, UNCHANGED journal
  PROVE /\ J' = J /\ (Empty(Cur)' => Empty(Cur))
        /\ UNCHANGED profile => (Bare(Cur)' <=> Bare(Cur))
        /\ UNCHANGED marker => (InstalledMarker(Cur)' <=> InstalledMarker(Cur))
  <1>1. J' = J /\ (Empty(Cur)' => Empty(Cur)) BY DEF J, Fewer
  <1>2. UNCHANGED profile => (Bare(Cur)' <=> Bare(Cur)) BY DEF Bare
  <1>3. UNCHANGED marker => (InstalledMarker(Cur)' <=> InstalledMarker(Cur)) BY DEF InstalledMarker
  <1> QED BY <1>1, <1>2, <1>3

LEMMA RecoversSeen ==
  ASSUME Types, Control, Midway, Held, EmptyKept, SeenHere, Fewer, Types', Control', Recovers
  PROVE SeenHere'
  <1>0. /\ Cur \in Edition /\ (op.pc # "idle" => op # Idle) /\ J \in Journals
        /\ J.phase \in Phases /\ (J.phase # "none" => J.tx \in Tx)
        /\ journal \in [Edition -> Journals] /\ profile \in [Edition -> Files]
        /\ marker \in [Edition -> Marked] /\ snap \in [Edition -> [Names -> Saved]]
    BY Ids, Running DEF Midway, Journals, Entries, Types
  <1>c. PICK c \in Edition : c = Cur BY <1>0
  <1>j. journal[c] = J BY <1>c DEF J
  <1> DEFINE host == {"recover", "restore", "unpublish", "unretire", "values", "state", "rolled",
                      "tidyswap", "tidydrop", "tidystate", "dropjournal"}
  <1>s. op.pc # "idle" => /\ op.pc \in host => op.todo[1][1] \in {"recover", "rolled"}
                          /\ op.pc = "recover" => op.todo[1][1] = "recover"
                          /\ op.pc \in {"swap", "swapdrop"} => op.todo[1][1] = "swap"
    BY TaskOf
  <1>b. {"recover", "rolled", "swap"} \subseteq Backs BY DEF Backs
  <1>q. /\ {"restore", "unpublish", "unretire", "values", "state", "rolled", "tidyswap", "tidydrop",
            "tidystate", "dropjournal"} \subseteq StepsOf("recover")
        /\ {"swap", "swaproot", "swaprename", "swapclean", "swapdrop"} = StepsOf("swap")
    BY SMT DEF StepsOf
  <1>p. op.pc \in {"restore", "unpublish", "unretire", "values", "state", "rolled"} => J.phase = "open"
    BY SMT DEF Midway, Phased, RollingBack
  <1>r. op.pc \in {"restore", "unpublish"} => Recovery.kind = "full"
    BY SMT DEF Held
  <1>e. op.pc \in {"unpublish", "unretire", "values", "state", "rolled"} /\ Empty(Cur) /\ J.prev = 0 => Bare(Cur)
    BY SMT DEF SeenHere, Backing, RollingBack
  <1>a. RecoveryAt(c) = Recovery BY <1>c DEF RecoveryAt, Recovery, Published, Staged, J, Stg
  \* The profile holds what was recorded before the transaction.
  <1>x. ASSUME J.phase = "open", Recovery.kind = "full", Empty(c), J.prev = 0
        PROVE Recovery.before.block = "none"
    <2>1. BeforeAt(c) BY <1>x DEF EmptyKept, EmptyAt
    <2> QED BY <1>a, <1>j, <1>x, <2>1 DEF BeforeAt
  <1>g. ASSUME NEW q, Goto(q) PROVE op'.todo = op.todo /\ op'.pc = q /\ Cur' = Cur
    BY <1>g DEF Goto, Types, Jobs, Cur
  \* A step that only tidies, or that carries what the rollback has put back.
  <1>h. ASSUME NEW q \in StepsOf("recover"), Goto(q), op.pc \in host, q # "restore", q # "state", q # "rolled",
               q \in {"unpublish", "unretire", "values"} =>
                 /\ op.pc \in {"unpublish", "unretire", "values", "state"} /\ UNCHANGED <<profile, journal>>
        PROVE SeenHere'
    <2>1. op'.todo = op.todo /\ op'.pc = q /\ Cur' = Cur BY <1>g, <1>h
    <2>2. op.pc # "idle" BY <1>h
    <2>3. op.todo[1][1] \in {"recover", "rolled"} BY <1>h, <1>s, <2>2
    <2>4. q \in {"unpublish", "unretire", "values"} => (Empty(Cur)' /\ J'.prev = 0 => Bare(Cur)')
      <3> SUFFICES ASSUME q \in {"unpublish", "unretire", "values"} PROVE Empty(Cur)' /\ J'.prev = 0 => Bare(Cur)'
        OBVIOUS
      <3>1. UNCHANGED <<profile, journal>> BY <1>h
      <3>2. J' = J /\ (Empty(Cur)' => Empty(Cur)) /\ (Bare(Cur)' <=> Bare(Cur)) BY <2>1, <3>1, <1>0, BareStays
      <3>3. op.pc \in {"unpublish", "unretire", "values", "state", "rolled"} BY <1>h
      <3> QED BY <3>2, <3>3, <1>e
    <2> HIDE DEF host
    <2> QED BY <2>1, <2>2, <2>3, <2>4, <1>h, HostSeen
  <1>i. ASSUME NEW q \in StepsOf("swap"), Goto(q), op.pc \in StepsOf("swap"), UNCHANGED <<profile, marker, journal>>
        PROVE SeenHere'
    <2>1. op'.todo = op.todo /\ op'.pc = q BY <1>g, <1>i
    <2> QED BY <2>1, <1>i, SwapGoes
  <1>1. CASE Recover
    <2>0. op.pc = "recover" /\ UNCHANGED <<build, profile, marker, snap, journal>> /\ op # Idle
      BY <1>1, <1>0 DEF Recover, At, disk, world
    <2>t. op.todo[1][1] = "recover" BY <2>0, <1>s
    <2>1. \/ Done
          \/ Goto("tidyswap")
          \/ J.phase = "open" /\ Recovery.kind = "full" /\ profile[c] = Recovery.before /\ Goto("unpublish")
          \/ Abort("refused") \/ Abort("confirm")
          \/ profile[c] = Installed(Recovery) /\ op' = [op EXCEPT !.seen = profile[c], !.pc = "restore"]
      BY <1>1, <1>c DEF Recover
    <2>2. CASE Done
      <3>1. Starting(Tail(op.todo)) BY <2>0, <2>2, DoneTo
      <3> QED BY <2>0, <2>t, <3>1, <1>b, BackSeen
    <2>3. CASE Goto("tidyswap") BY <2>0, <2>3, <1>h, <1>q
    <2>4. CASE J.phase = "open" /\ Recovery.kind = "full" /\ profile[c] = Recovery.before /\ Goto("unpublish")
      <3>1. op'.todo = op.todo /\ op'.pc = "unpublish" /\ Cur' = Cur BY <2>4, <1>g
      <3>2. Empty(Cur)' /\ J'.prev = 0 => Bare(Cur)'
        <4>1. J' = J /\ (Empty(Cur)' => Empty(Cur)) /\ (Bare(Cur)' <=> Bare(Cur)) BY <2>0, <3>1, <1>0, BareStays
        <4>2. Empty(c) /\ J.prev = 0 => Bare(c) BY <2>4, <1>x DEF Bare
        <4> QED BY <4>1, <4>2, <1>c
      <3> QED BY <2>0, <2>t, <3>1, <3>2, <1>q, HostSeen
    <2>5. CASE profile[c] = Installed(Recovery) /\ op' = [op EXCEPT !.seen = profile[c], !.pc = "restore"]
      <3>1. op'.todo = op.todo /\ op'.pc = "restore" /\ op'.seen = profile[c] BY <2>5 DEF Types, Jobs
      <3>2. Recovery' = Recovery BY <2>0, <3>1 DEF Recovery, Published, Staged, J, Cur
      <3>3. op'.seen = Installed(Recovery)' BY <2>5, <3>1, <3>2 DEF Installed
      <3> QED BY <2>0, <2>t, <3>1, <3>3, <1>q, HostSeen
    <2>6. CASE Abort("refused") \/ Abort("confirm")
      <3>1. op' = Idle BY <2>0, <2>6, AbortTo DEF Codes, Recovering
      <3> QED BY <3>1, SeenIdle
    <2> QED BY <2>1, <2>2, <2>3, <2>4, <2>5, <2>6
  <1>2. CASE Restore
    <2>1. /\ op.pc = "restore" /\ UNCHANGED <<build, marker, snap, journal>> /\ op # Idle
          /\ \/ profile' = [profile EXCEPT ![c] = Recovery.before] /\ Goto("unpublish")
             \/ Abort("refused")
      BY <1>2, <1>0, <1>c DEF Restore, At, Replaced, SetProfile, world
    <2>2. CASE profile' = [profile EXCEPT ![c] = Recovery.before] /\ Goto("unpublish")
      <3>1. op'.todo = op.todo /\ op'.pc = "unpublish" /\ Cur' = Cur BY <2>2, <1>g
      <3>2. Empty(Cur)' /\ J'.prev = 0 => Bare(Cur)'
        <4> DEFINE x == Recovery.before
        <4>1. J' = J /\ (Empty(Cur)' => Empty(Cur)) BY <2>1, <3>1, <1>0, BareStays
        <4>2. Empty(c) /\ J.prev = 0 => x.block = "none" BY <2>1, <1>p, <1>r, <1>x
        <4>3. profile' = [profile EXCEPT ![c] = x] BY <2>2
        <4> HIDE DEF x
        <4>4. profile'[c] = x BY <4>3, <1>0
        <4>5. Cur' = c /\ Cur = c BY <3>1, <1>c
        <4>6. Bare(Cur)' <=> profile'[c].block = "none" BY <4>5 DEF Bare
        <4> QED BY <4>1, <4>2, <4>4, <4>5, <4>6
      <3> QED BY <2>1, <3>1, <3>2, <1>q, <1>s, HostSeen
    <2>3. CASE Abort("refused")
      <3>1. op' = Idle BY <2>1, <2>3, AbortTo DEF Codes, Recovering
      <3> QED BY <3>1, SeenIdle
    <2> QED BY <2>1, <2>2, <2>3
  <1>3. CASE Unpublish
    <2>1. op.pc = "unpublish" /\ UNCHANGED <<profile, marker, journal>> /\ Goto("unretire")
      BY <1>3 DEF Unpublish, At
    <2> QED BY <2>1, <1>h, <1>q
  <1>4. CASE Unretire
    <2>1. op.pc = "unretire" /\ UNCHANGED <<profile, marker, journal>> /\ Goto("values")
      BY <1>4 DEF Unretire, At
    <2> QED BY <2>1, <1>h, <1>q
  <1>5. CASE RestoreValues
    <2> DEFINE p == J.prev
               o == J.orig
    <2>1. op.pc = "values" /\ UNCHANGED <<profile, snap, journal>> /\ Goto("state")
          /\ marker' = [marker EXCEPT ![c] = IF p = 0 THEN NoMarker
                          ELSE [marker[c] EXCEPT !.present = TRUE, !.version = p, !.orig = o]]
      BY <1>5, <1>c DEF RestoreValues, At, SetMarker
    <2>2. op'.todo = op.todo /\ op'.pc = "state" /\ Cur' = Cur BY <2>1, <1>g
    <2>3. p # 0 => marker'[c].present
      <3> SUFFICES ASSUME p # 0 PROVE marker'[c].present OBVIOUS
      <3> HIDE DEF p, o
      <3>1. marker'[c] = [marker[c] EXCEPT !.present = TRUE, !.version = p, !.orig = o] BY <2>1, <1>0
      <3>2. marker[c] \in Markers BY <1>0 DEF Marked
      <3> QED BY <3>1, <3>2 DEF Markers
    <2>4. J' = J /\ (Empty(Cur)' => Empty(Cur)) /\ (Bare(Cur)' <=> Bare(Cur)) BY <2>1, <2>2, <1>0, BareStays
    <2>5. Empty(Cur)' /\ J'.prev = 0 => Bare(Cur)' BY <2>1, <2>4, <1>e
    <2>6. J'.prev # 0 => marker'[Cur].present BY <2>3, <2>4, <1>c
    <2> QED BY <2>1, <2>2, <2>5, <2>6, <1>q, <1>s, <1>c, HostSeen
  <1>6. CASE RestoreState
    <2>1. /\ op.pc = "state" /\ UNCHANGED <<build, profile, journal>> /\ op # Idle
          /\ marker' = IF marker[c].present THEN [marker EXCEPT ![c].state = "installed"] ELSE marker
          /\ Goto("rolled") \/ Instead(<<<<"swap", Cur>>, <<"rolled", Cur>>>>)
      BY <1>6, <1>0, <1>c DEF RestoreState, At, world
    <2>2. J.prev # 0 => marker[c].present BY <2>1, <1>c DEF SeenHere, Backing
    <2>3. J.prev # 0 => marker'[c].present /\ marker'[c].state = "installed"
      <3> SUFFICES ASSUME marker[c].present PROVE marker'[c].present /\ marker'[c].state = "installed" BY <2>2
      <3>1. marker' = [marker EXCEPT ![c].state = "installed"] BY <2>1
      <3> QED BY <3>1, StateOnly
    \* What is put back holds at the next step of the host.
    <2>k. ASSUME Cur' = Cur
          PROVE /\ Empty(Cur)' /\ J'.prev = 0 => Bare(Cur)'
                /\ J'.prev # 0 => InstalledMarker(Cur)'
      <3>1. J' = J /\ (Empty(Cur)' => Empty(Cur)) /\ (Bare(Cur)' <=> Bare(Cur)) BY <2>1, <2>k, <1>0, BareStays
      <3>2. InstalledMarker(Cur)' <=> marker'[c].present /\ marker'[c].state = "installed"
        BY <2>k, <1>c DEF InstalledMarker
      <3> QED BY <2>1, <2>3, <3>1, <3>2, <1>e
    <2>4. CASE Goto("rolled")
      <3>1. op'.todo = op.todo /\ op'.pc = "rolled" /\ Cur' = Cur BY <2>4, <1>g
      <3> QED BY <2>1, <2>k, <3>1, <1>q, <1>s, HostSeen
    <2>5. CASE Instead(<<<<"swap", Cur>>, <<"rolled", Cur>>>>)
      <3>1. op.todo[1][1] = "recover" BY <2>1, <1>0, TaskOf
      <3>2. Runnable(op.cmd, op.user, Tail(op.todo)) /\ Plainly(Tail(op.todo))
        BY <2>1, <3>1, RestRuns DEF Control
      <3> DEFINE s == RollList(Cur, Tail(op.todo))
                 r == Tail(op.todo)
                 d == Cur
      <3>3. Runnable(op.cmd, op.user, s) BY <3>2, <1>0, RollsOn
      <3>4. op.worst \in BOOLEAN /\ Continues(s, op.worst)
        BY <2>5 DEF Types, Jobs, Instead, Runs, RollList
      <3>a. s = RollList(d, r) /\ d = Cur /\ d \in Edition /\ r \in Lists BY <3>2, <1>0 DEF Runnable
      <3> HIDE DEF s, r, d
      <3>b. s[1][1] = "swap" /\ s[1][2] = Cur BY <3>a, RollAt
      <3>5. Starting(s) BY <2>1, <3>1, <3>3, <3>4, ContinuesTo
      <3>6. CASE op' = Idle BY <3>6, SeenIdle
      <3>7. CASE op' # Idle
        <4>1. op'.todo = s /\ op'.pc = "swap" /\ s # <<>> BY <3>5, <3>7, <3>b DEF Starting
        <4>2. s \in Lists BY <3>3 DEF Runnable
        <4>3. Head(s) = s[1] BY <4>1, <4>2, Listed
        <4>4. Cur' = Cur BY <4>1, <4>3, <3>b DEF Cur
        <4>5. /\ Empty(Cur)' /\ J'.prev = 0 => Bare(Cur)'
              /\ J'.prev # 0 => InstalledMarker(Cur)'
          BY <2>k, <4>4
        <4>6. /\ op'.pc \notin Before \cup {"publish"} /\ op'.pc \notin {"verify", "commit"}
              /\ op'.pc \notin {"restore", "unpublish", "adopted", "forget", "erase", "journal"}
              /\ op'.pc \notin {"examine", "excise", "restate"} /\ op'.pc # "state"
          BY <4>1, SMT DEF Before
        <4>7. Reading' BY <4>6 DEF Reading
        <4>8. Backing' BY <4>5, <4>6 DEF Backing
        <4>9. Removing' BY <4>6 DEF Removing
        <4> QED BY <4>7, <4>8, <4>9 DEF SeenHere
      <3> QED BY <3>6, <3>7
    <2> QED BY <2>1, <2>4, <2>5
  <1>7. CASE RolledBack
    <2>1. op.pc = "rolled" /\ Goto("tidystate") BY <1>7 DEF RolledBack, At
    <2> QED BY <2>1, <1>h, <1>q
  <1>8. CASE TidySwap
    <2>1. op.pc = "tidyswap" /\ (Goto("tidydrop") \/ Goto("tidystate")) BY <1>8 DEF TidySwap, At
    <2> QED BY <2>1, <1>h, <1>q
  <1>9. CASE TidyDrop
    <2>1. op.pc = "tidydrop" /\ Goto("tidystate") BY <1>9 DEF TidyDrop, At
    <2> QED BY <2>1, <1>h, <1>q
  <1>10. CASE TidyState
    <2>1. op.pc = "tidystate" /\ Goto("dropjournal") BY <1>10 DEF TidyState, At
    <2> QED BY <2>1, <1>h, <1>q
  <1>11. CASE DropJournal
    <2>1. op.pc = "dropjournal" /\ UNCHANGED build /\ Done /\ op # Idle /\ op.pc # "idle" BY <1>11, <1>0 DEF DropJournal, At, world
    <2>2. op.todo[1][1] \in {"recover", "rolled"} BY <2>1, <1>s
    <2>3. Starting(Tail(op.todo)) BY <2>1, DoneTo
    <2> QED BY <2>1, <2>2, <2>3, <1>b, BackSeen
  <1>12. CASE Swap
    <2>1. /\ op.pc = "swap" /\ UNCHANGED <<build, profile, marker, journal>> /\ op # Idle /\ op.pc # "idle"
          /\ Done \/ Goto("swaproot") \/ Goto("swapclean")
      BY <1>12, <1>0 DEF Swap, At, disk, world
    <2>2. CASE Done
      <3>1. Starting(Tail(op.todo)) BY <2>1, <2>2, DoneTo
      <3> QED BY <2>1, <3>1, <1>b, <1>s, BackSeen
    <2>3. CASE Goto("swaproot") BY <2>1, <2>3, <1>i, <1>q
    <2>4. CASE Goto("swapclean") BY <2>1, <2>4, <1>i, <1>q
    <2> QED BY <2>1, <2>2, <2>3, <2>4
  <1>13. CASE SwapRoot
    <2>1. op.pc = "swaproot" /\ UNCHANGED <<profile, marker, journal>> /\ Goto("swaprename") BY <1>13 DEF SwapRoot, At
    <2> QED BY <2>1, <1>i, <1>q
  <1>14. CASE SwapRename
    <2>1. op.pc = "swaprename" /\ UNCHANGED <<profile, marker, journal>> /\ Goto("swapclean")
      BY <1>14 DEF SwapRename, At
    <2> QED BY <2>1, <1>i, <1>q
  <1>15. CASE SwapClean
    <2>1. op.pc = "swapclean" /\ UNCHANGED <<profile, marker, journal>> /\ Goto("swapdrop") BY <1>15 DEF SwapClean, At
    <2> QED BY <2>1, <1>i, <1>q
  <1>16. CASE SwapDrop
    <2>1. op.pc = "swapdrop" /\ UNCHANGED <<build, profile, marker, journal>> /\ Done /\ op # Idle /\ op.pc # "idle"
      BY <1>16, <1>0 DEF SwapDrop, At, world
    <2>2. Starting(Tail(op.todo)) BY <2>1, DoneTo
    <2> QED BY <2>1, <2>2, <1>b, <1>s, BackSeen
  <1> QED BY <1>1, <1>2, <1>3, <1>4, <1>5, <1>6, <1>7, <1>8, <1>9, <1>10, <1>11, <1>12, <1>13,
             <1>14, <1>15, <1>16 DEF Recovers

\* An installation keeps what it has read.
LEMMA ReadStays ==
  ASSUME Fewer, Cur \in Edition, Cur' = Cur, op'.seen = op.seen, op'.was = op.was, ReadWell
  PROVE ReadWell'
  <1>1. Empty(Cur)' => Empty(Cur) BY DEF Fewer
  <1> QED BY <1>1 DEF ReadWell

\* What it reads at its start.
LEMMA ReadFirst ==
  ASSUME Types, Control, Versions, EmptyKept, PreservesText, Fewer, op # Idle, op.cmd # "clean",
         NEW c \in Edition, Cur' = c, op'.seen = profile[c], op'.was = marker[c], journal[c].phase # "open",
         marker[c].present => marker[c].state = "installed"
  PROVE ReadWell'
  <1>1. build # 0 BY DEF Control
  <1>2. marker[c].present => marker[c].version # 0 BY <1>1 DEF Versions
  <1>3. ASSUME Empty(c)'
        PROVE /\ profile[c].present
              /\ marker[c].present => marker[c].orig
              /\ ~marker[c].present => profile[c].block = "none"
    <2>1. Empty(c) BY <1>3 DEF Fewer
    <2>2. profile[c].present BY <2>1 DEF Empty, PreservesText
    <2>3. MarkerAt(c) /\ BareAt(c) BY <2>1 DEF EmptyKept, EmptyAt
    <2> QED BY <1>1, <2>2, <2>3 DEF MarkerAt, BareAt, Bare
  <1>4. Empty(Cur)' => Empty(c)' BY DEF Empty
  <1> DEFINE s == op'.seen
             w == op'.was
  <1>5. s = profile[c] /\ w = marker[c] OBVIOUS
  <1>6. /\ w.present => w.version # 0
        /\ Empty(Cur)' => s.present /\ (w.present => w.orig) /\ (~w.present => s.block = "none")
    BY <1>2, <1>3, <1>4, <1>5
  <1> QED BY <1>6 DEF ReadWell

LEMMA EnablesSeen ==
  ASSUME Types, Control, Midway, Held, Versions, EmptyKept, SeenHere, PreservesText, Fewer,
         Types', Control', Midway', Enables
  PROVE SeenHere'
  <1>0. /\ Cur \in Edition /\ (op.pc # "idle" => op # Idle)
        /\ marker \in [Edition -> Marked] /\ snap \in [Edition -> [Names -> Saved]]
        /\ op.pc \in Stated => T \in Tx
    BY Ids, Running DEF Midway, Types
  <1>c. PICK c \in Edition : c = Cur BY <1>0
  <1> DEFINE starts == {"enable", "tree", "install", "reinstall", "adopt", "adopted", "resume", "begin", "replace",
                        "upgrade"}
             plain == Shared \cup Whole \cup {"commitswap", "version"}
  <1>k. starts \cap (Recovering \cup {"idle"} \cup Opens) = {} BY SMT DEF Recovering, Opens
  <1>l. plain \cap (Recovering \cup {"idle"}) = {} BY SMT DEF Recovering, Shared, Whole
  <1>t. op.pc \in starts \cup plain => op.pc # "idle" /\ op.pc \notin Recovering /\ op.todo[1][1] \notin Backs
    BY <1>k, <1>l, TaskKind
  \* Another task begins.
  <1>e. ASSUME op.pc \in starts, Restarts, UNCHANGED journal PROVE SeenHere'
    BY <1>e, <1>k, EndSeen
  \* A step that no other relies on, and one that keeps what was read.
  <1>g. ASSUME NEW q, Goto(q), op.pc \in plain, q \notin Recovering \cup Minds
        PROVE SeenHere'
    <2>1. op'.todo = op.todo /\ op'.pc = q BY <1>g, GotoStays
    <2> HIDE DEF plain, starts
    <2> QED BY <1>g, <1>t, <2>1, PlainSeen
  <1>f. ASSUME NEW q \in {"swapjournal", "aside", "deploy", "stage", "publish"}, Goto(q), op.pc \in Before
        PROVE SeenHere'
    <2>1. op'.todo = op.todo /\ op'.pc = q /\ Cur' = Cur /\ op'.seen = op.seen /\ op'.was = op.was BY <1>f, GotoStays
    <2>2. op.pc \in plain BY <1>f, SMT DEF Before, Shared, Whole
    <2>3. ReadWell BY <1>f DEF SeenHere, Reading
    <2>4. ReadWell' BY <1>0, <2>1, <2>3, ReadStays
    <2>5. q \notin Recovering /\ q \notin {"verify", "commit", "adopted", "examine", "excise", "restate", "forget", "erase"}
          /\ q # "journal"
      BY <1>f, SMT DEF Recovering
    <2> HIDE DEF plain, starts
    <2> QED BY <1>t, <2>1, <2>2, <2>4, <2>5, TaskSeen
  <1>1. CASE Enable
    <2> DEFINE s == (IF InstalledMarker(Cur) THEN <<<<"upgrade", Cur>>>>
                  ELSE <<<<"tree", Cur>>, <<"install", Cur>>>>) \o Tail(op.todo)
               f == ~op.user /\ ~InstalledMarker(Cur)
    <2>1. op.pc = "enable" /\ UNCHANGED journal BY <1>1 DEF Enable, At, disk
    <2>2. op' = [NextTask(s) EXCEPT !.fresh = f] BY <1>1 DEF Enable
    <2> HIDE DEF s, f
    <2>3. Restarts BY <2>2 DEF Restarts, NextTask, Types, Jobs
    <2> QED BY <2>1, <2>3, <1>e
  <1>2. CASE Tree
    <2>1. op.pc = "tree" /\ UNCHANGED journal /\ Restarts BY <1>2, Restarting DEF Tree, At
    <2> QED BY <2>1, <1>e
  <1>3. CASE Install
    <2>1. op.pc = "install" /\ UNCHANGED journal /\ Restarts BY <1>3, Restarting DEF Install, At, disk
    <2> QED BY <2>1, <1>e
  <1>4. CASE Reinstall
    <2>1. op.pc = "reinstall" /\ UNCHANGED journal /\ Restarts BY <1>4, Restarting DEF Reinstall, At, disk
    <2> QED BY <2>1, <1>e
  <1>5. CASE Adopt
    <2>1. op.pc = "adopt" /\ UNCHANGED journal BY <1>5 DEF Adopt, At
    <2>2. CASE Unmarked \/ Abort("refused") BY <2>1, <2>2, <1>e, Restarting
    <2>3. CASE /\ marker' = [marker EXCEPT ![Cur] =
                    [present |-> TRUE, state |-> "", version |-> build, orig |-> snap[Cur][Live].orig]]
               /\ Goto("adopted")
      <3>1. op'.todo = op.todo /\ op'.pc = "adopted" /\ Cur' = Cur BY <2>3, GotoStays
      <3> DEFINE r == [present |-> TRUE, state |-> "", version |-> build, orig |-> snap[Cur][Live].orig]
      <3>2. r.state = "" OBVIOUS
      <3>3. marker' = [marker EXCEPT ![c] = r] BY <2>3, <1>c
      <3> HIDE DEF r
      <3>4. marker'[c] = r BY <3>3, <1>0
      <3>5. marker'[Cur].state = "" BY <3>2, <3>4, <1>c
      <3>6. "adopted" \notin Recovering \cup Before \cup {"publish"} BY SMT DEF Recovering, Before
      <3> HIDE DEF plain, starts
      <3>7. op.pc # "idle" /\ op.todo[1][1] \notin Backs BY <2>1, <1>t DEF starts
      <3> QED BY <3>1, <3>5, <3>6, <3>7, TaskSeen
    <2> QED BY <1>5, <2>2, <2>3 DEF Adopt, SetMarker
  <1>6. CASE Adopted
    <2>1. op.pc = "adopted" /\ UNCHANGED journal /\ Restarts BY <1>6, Restarting DEF Adopted, At
    <2> QED BY <2>1, <1>e
  <1>7. CASE Resume
    <2>1. op.pc = "resume" /\ UNCHANGED journal /\ Restarts BY <1>7, Restarting DEF Resume, At, disk
    <2> QED BY <2>1, <1>e
  <1>v. ASSUME NEW b \in BOOLEAN, Starts(b), op.pc \in {"begin", "replace", "upgrade"},
               marker[c].present => marker[c].state = "installed"
        PROVE SeenHere'
    <2>1. op' = [op EXCEPT !.pc = "payload", !.tx = NewTx, !.seen = profile[Cur],
                           !.was = marker[Cur], !.inplace = b]
      BY <1>v DEF Starts
    <2>2. op'.todo = op.todo /\ op'.pc = "payload" /\ op'.seen = profile[c] /\ op'.was = marker[c] /\ Cur' = c
      BY <2>1, <1>c DEF Types, Jobs, Cur
    <2>3. op.pc # "idle" /\ op.pc \notin Opens /\ op.todo[1][1] \notin Backs BY <1>v, <1>k, <1>t
    <2>4. journal[c].phase # "open" BY <2>3, Quiet
    <2>5. op # Idle /\ op.todo[1][1] = op.pc BY <2>3, <1>v, <1>0, TaskOf
    <2>6. op.cmd # "clean" BY <2>5, <1>v, Follow
    <2>7. ReadWell' BY <2>2, <2>4, <2>5, <2>6, <1>v, ReadFirst
    <2>8. "payload" \notin Recovering BY SMT DEF Recovering
    <2> QED BY <2>2, <2>3, <2>7, <2>8, TaskSeen
  <1>8. CASE Begin
    <2>1. /\ op.pc \in {"begin", "replace"} /\ UNCHANGED journal
          /\ \/ Done \/ Abort("refused")
             \/ Starts(FALSE) /\ (marker[c].present => marker[c].state = "installed")
      BY <1>8, <1>c DEF Begin, At, disk
    <2>2. CASE Done \/ Abort("refused") BY <2>1, <2>2, <1>e, Restarting
    <2>3. CASE Starts(FALSE) /\ (marker[c].present => marker[c].state = "installed")
      BY <2>1, <2>3, <1>v
    <2> QED BY <2>1, <2>2, <2>3
  <1>w. ASSUME op.pc \in {"payload", "deploy"}, Goto(AfterSwap)
        PROVE SeenHere'
    <2>1. CASE AfterSwap = "stage"
      <3>1. Goto("stage") BY <1>w, <2>1
      <3> QED BY <1>w, <3>1, <1>f DEF Before
    <2>2. CASE AfterSwap = "commitswap"
      <3>1. "commitswap" \notin Recovering \cup Minds BY SMT DEF Recovering, Minds, Before
      <3>2. Goto("commitswap") /\ op.pc \in plain BY <1>w, <2>2 DEF Shared
      <3> HIDE DEF plain, starts
      <3> QED BY <3>1, <3>2, <1>g
    <2> QED BY <2>1, <2>2 DEF AfterSwap
  <1>9. CASE Ensure
    <2>1. op.pc = "payload" /\ (Goto(AfterSwap) \/ Goto("swapjournal")) BY <1>9 DEF Ensure, At
    <2>2. CASE Goto(AfterSwap) BY <2>1, <2>2, <1>w
    <2>3. CASE Goto("swapjournal") BY <2>1, <2>3, <1>f DEF Before
    <2> QED BY <2>1, <2>2, <2>3
  <1>10. CASE SwapJournal
    <2>1. op.pc = "swapjournal" /\ Goto("aside") BY <1>10 DEF SwapJournal, At
    <2> QED BY <2>1, <1>f DEF Before
  <1>11. CASE Aside
    <2>1. op.pc = "aside" /\ Goto("deploy") BY <1>11 DEF Aside, At
    <2> QED BY <2>1, <1>f DEF Before
  <1>12. CASE Deploy
    <2>1. op.pc = "deploy" /\ Goto(AfterSwap) BY <1>12 DEF Deploy, At
    <2> QED BY <2>1, <1>w
  <1>13. CASE Stage
    <2> DEFINE g == Stg(T)
               b == OriginalPresent(op.seen, op.was)
               s == [kind |-> "full", before |-> op.seen, orig |-> b]
    <2>1. op.pc = "stage" /\ Goto("journal") /\ snap' = [snap EXCEPT ![c][g] = s]
      BY <1>13, <1>c DEF Stage, At, Stg
    <2>2. op'.todo = op.todo /\ op'.pc = "journal" /\ Cur' = Cur /\ T' = T /\ op'.seen = op.seen /\ op'.was = op.was
      BY <2>1, GotoStays
    <2>3. op.pc \in plain /\ op.pc \in Before /\ op.pc \in Stated BY <2>1, SMT DEF Whole, Before, Stated
    <2>4. g \in Names BY <2>3, <1>0, Named DEF Stg
    <2>5. s.before = op.seen BY DEF s
    <2>6. snap'[c][g] = s
      <3> HIDE DEF g, s
      <3> QED BY <2>1, <2>4, <1>0
    <2>7. snap'[Cur'][Stg(T)'].before = op'.seen
      <3>1. Stg(T)' = g /\ Cur' = c BY <2>2, <1>c DEF Stg
      <3> HIDE DEF g, s
      <3> QED BY <2>2, <2>5, <2>6, <3>1
    <2>8. ReadWell BY <2>3 DEF SeenHere, Reading
    <2>9. ReadWell' BY <1>0, <2>2, <2>8, ReadStays
    <2>10. "journal" \notin Recovering BY SMT DEF Recovering
    <2> HIDE DEF plain, starts, g, s
    <2> QED BY <1>t, <2>2, <2>3, <2>7, <2>9, <2>10, TaskSeen
  <1>14. CASE OpenJournal
    <2>1. op.pc = "journal" /\ Goto("publish") BY <1>14 DEF OpenJournal, At
    <2> QED BY <2>1, <1>f DEF Before
  <1>n. {"prepared", "retire", "live", "write", "installed", "undo", "finish", "finishswap", "finishstate",
         "finishjournal", "undoroot", "undoname", "undoclean", "version"} \cap (Recovering \cup Minds) = {}
    BY SMT DEF Recovering, Minds, Before
  <1>o. {"publish", "prepared", "retire", "live", "write", "installed", "verify", "commit", "undo", "finish",
         "finishswap", "finishstate", "finishjournal", "undoroot", "undoname", "undoclean", "commitswap", "version"}
          \subseteq plain
    BY SMT DEF Shared, Whole
  <1>15. CASE Publish
    <2>1. op.pc = "publish" /\ Goto("prepared") BY <1>15 DEF Publish, At
    <2> QED BY <2>1, <1>g, <1>n, <1>o
  <1>16. CASE Prepared
    <2>1. op.pc = "prepared" /\ Goto("retire") BY <1>16 DEF Prepared, At
    <2> QED BY <2>1, <1>g, <1>n, <1>o
  <1>17. CASE Retire
    <2>1. op.pc = "retire" /\ Goto("live") BY <1>17 DEF Retire, At
    <2> QED BY <2>1, <1>g, <1>n, <1>o
  <1>18. CASE GoLive
    <2>1. op.pc = "live" /\ Goto("write") BY <1>18 DEF GoLive, At
    <2> QED BY <2>1, <1>g, <1>n, <1>o
  <1>19. CASE Write
    <2>1. op.pc = "write" /\ (Goto("installed") \/ Goto("undo")) BY <1>19 DEF Write, At, Replaced
    <2> QED BY <2>1, <1>g, <1>n, <1>o
  <1>20. CASE MarkInstalled
    <2>1. op.pc = "installed" /\ Goto("verify") /\ marker' = [marker EXCEPT ![c].state = "installed"]
      BY <1>20, <1>c DEF MarkInstalled, At
    <2>2. op'.todo = op.todo /\ op'.pc = "verify" /\ Cur' = Cur BY <2>1, GotoStays
    <2>3. marker'[c].state = "installed" BY <2>1, StateOnly
    <2>4. marker'[Cur].state = "installed" BY <2>3, <1>c
    <2>5. "verify" \notin Recovering \cup Before BY SMT DEF Recovering, Before
    <2>6. op.pc # "idle" /\ op.todo[1][1] \notin Backs BY <2>1, <1>o, <1>t
    <2> QED BY <2>2, <2>4, <2>5, <2>6, TaskSeen
  <1>21. CASE Verify
    <2>1. op.pc = "verify" /\ UNCHANGED marker /\ (Goto("commit") \/ Goto("undo")) BY <1>21 DEF Verify, At, disk
    <2>2. CASE Goto("undo") BY <2>1, <2>2, <1>g, <1>n, <1>o
    <2>3. CASE Goto("commit")
      <3>1. op'.todo = op.todo /\ op'.pc = "commit" /\ Cur' = Cur BY <2>3, GotoStays
      <3>2. marker[Cur].state = "installed" BY <2>1 DEF SeenHere, Reading
      <3>3. marker'[Cur].state = "installed" BY <2>1, <3>2
      <3>4. "commit" \notin Recovering \cup Before BY SMT DEF Recovering, Before
      <3>5. op.pc # "idle" /\ op.todo[1][1] \notin Backs BY <2>1, <1>o, <1>t
      <3> QED BY <3>1, <3>3, <3>4, <3>5, TaskSeen
    <2> QED BY <2>1, <2>2, <2>3
  <1>22. CASE Commit
    <2>1. op.pc = "commit" /\ Goto("finish") BY <1>22 DEF Commit, At
    <2> QED BY <2>1, <1>g, <1>n, <1>o
  <1>23. CASE Finish
    <2>1. op.pc = "finish" /\ Goto("finishswap") BY <1>23 DEF Finish, At
    <2> QED BY <2>1, <1>g, <1>n, <1>o
  <1>24. CASE FinishSwap
    <2>1. op.pc = "finishswap" /\ UNCHANGED journal /\ (Done \/ Goto("finishstate")) BY <1>24 DEF FinishSwap, At
    <2>2. CASE Done
      <3>1. op.pc \notin Recovering \cup {"idle"} \cup Opens BY <2>1, SMT DEF Recovering, Opens
      <3> QED BY <2>1, <2>2, <3>1, Restarting, EndSeen
    <2>3. CASE Goto("finishstate") BY <2>1, <2>3, <1>g, <1>n, <1>o
    <2> QED BY <2>1, <2>2, <2>3
  <1>25. CASE FinishState
    <2>1. op.pc = "finishstate" /\ Goto("finishjournal") BY <1>25 DEF FinishState, At
    <2> QED BY <2>1, <1>g, <1>n, <1>o
  <1>26. CASE FinishJournal
    <2>1. op.pc = "finishjournal" /\ Restarts /\ journal' = [journal EXCEPT ![Cur] = NoEntry]
      BY <1>26, Restarting DEF FinishJournal, At
    <2>2. op.pc \notin Recovering \cup {"idle"} \cup Opens BY <2>1, SMT DEF Recovering, Opens
    <2>3. NoEntry.phase = "none" BY DEF NoEntry
    <2>4. \A e \in Edition : journal'[e].phase = "open" => journal[e].phase = "open"
      BY <2>1, <2>3, <1>0 DEF Types
    <2> QED BY <2>1, <2>2, <2>4, EndSeen
  <1>27. CASE Undo
    <2>1. /\ op.pc = "undo"
          /\ \/ Goto("undoroot")
             \/ op' = [op EXCEPT !.todo = <<<<"recover", Cur>>>>, !.pc = "recover", !.undoing = TRUE]
      BY <1>27 DEF Undo, At
    <2>2. CASE Goto("undoroot") BY <2>1, <2>2, <1>g, <1>n, <1>o
    <2>3. CASE op' = [op EXCEPT !.todo = <<<<"recover", Cur>>>>, !.pc = "recover", !.undoing = TRUE]
      <3>1. op'.todo = <<<<"recover", Cur>>>> /\ op'.pc = "recover" BY <2>3 DEF Types, Jobs
      <3>2. Len(op'.todo) = 1 BY <3>1, SMT
      <3>3. ~RollingBack' /\ op'.pc \in Tasks BY <3>1, <3>2, SMT DEF RollingBack, Tasks
      <3> QED BY <3>3, SeenBegin
    <2> QED BY <2>1, <2>2, <2>3
  <1>28. CASE UndoRoot
    <2>1. op.pc = "undoroot" /\ Goto("undoname") BY <1>28 DEF UndoRoot, At
    <2> QED BY <2>1, <1>g, <1>n, <1>o
  <1>29. CASE UndoName
    <2>1. op.pc = "undoname" /\ Goto("undoclean") BY <1>29 DEF UndoName, At
    <2> QED BY <2>1, <1>g, <1>n, <1>o
  <1>30. CASE UndoClean
    <2>1. op' = Idle BY <1>30 DEF UndoClean, Ends
    <2> QED BY <2>1, SeenIdle
  <1>31. CASE Upgrade
    <2>1. /\ op.pc = "upgrade" /\ UNCHANGED journal
          /\ Starts(TRUE) \/ Instead(<<<<"reinstall", Cur>>>>) \/ Abort("confirm")
      BY <1>31 DEF Upgrade, At, disk
    <2>2. CASE Starts(TRUE)
      <3>1. op.todo[1][1] = "upgrade" BY <2>1, TaskOf
      <3>2. marker[c].state = "installed" BY <2>1, <3>1, <1>k, <1>c, TaskKind
      <3> QED BY <2>1, <2>2, <3>2, <1>v
    <2>3. CASE Instead(<<<<"reinstall", Cur>>>>) \/ Abort("confirm") BY <2>1, <2>3, <1>e, Restarting
    <2> QED BY <2>1, <2>2, <2>3
  <1>32. CASE CommitSwap
    <2>1. op.pc = "commitswap" /\ Goto("version") BY <1>32 DEF CommitSwap, At
    <2> QED BY <2>1, <1>g, <1>n, <1>o
  <1>33. CASE Version
    <2>1. op.pc = "version" /\ Goto("finish") BY <1>33 DEF Version, At
    <2> QED BY <2>1, <1>g, <1>n, <1>o
  <1> QED BY <1>1, <1>2, <1>3, <1>4, <1>5, <1>6, <1>7, <1>8, <1>9, <1>10, <1>11, <1>12, <1>13, <1>14, <1>15, <1>16,
             <1>17, <1>18, <1>19, <1>20, <1>21, <1>22, <1>23, <1>24, <1>25, <1>26, <1>27, <1>28, <1>29, <1>30,
             <1>31, <1>32, <1>33 DEF Enables

\* An uninstall keeps what it has read while the profile is the same.
LEMMA UndoStays ==
  ASSUME Fewer, Cur \in Edition, Cur' = Cur, op'.was = op.was, UNCHANGED profile, UndoWell
  PROVE UndoWell'
  <1>1. (Empty(Cur)' => Empty(Cur)) /\ (build' # 0 => build # 0) BY DEF Fewer
  <1>2. Bare(Cur)' <=> Bare(Cur) BY DEF Bare
  <1> DEFINE w == op.was
             m == op'.was
  <1>3. w.state # "" /\ (Empty(Cur) => w.orig /\ (build # 0 /\ w.state = "prepared" => Bare(Cur))) BY DEF UndoWell
  <1>4. m = w OBVIOUS
  <1> HIDE DEF w
  <1>5. m.state # "" /\ (Empty(Cur)' => m.orig /\ (build' # 0 /\ m.state = "prepared" => Bare(Cur)'))
    <2> HIDE DEF m
    <2> QED BY <1>1, <1>2, <1>3, <1>4
  <1> QED BY <1>5 DEF UndoWell

LEMMA RemovesSeen ==
  ASSUME Types, Control, Midway, Held, EmptyKept, SeenHere, PreservesText, Fewer,
         Types', Control', Midway', Removes
  PROVE SeenHere'
  <1> DEFINE all == {"uninstall", "examine", "excise", "restate", "forget", "erase", "erased", "cleanup", "cleanpayload"}
  <1>0. /\ Cur \in Edition /\ marker \in [Edition -> Marked] /\ profile \in [Edition -> Files]
        /\ op.was \in Marked /\ op.seen \in Files
    BY Running DEF Types, Jobs
  <1>c. PICK c \in Edition : c = Cur BY <1>0
  <1>k. all \cap (Recovering \cup {"idle"} \cup Opens) = {} BY SMT DEF Recovering, Opens
  <1>q. /\ all \cap (Recovering \cup Before \cup {"publish", "journal", "verify", "commit", "adopted"}) = {}
        /\ {"erased", "cleanup", "cleanpayload"} \cap Minds = {}
    BY SMT DEF Recovering, Before, Minds
  <1>u. op.pc \in all => /\ op.pc # "idle" /\ op.pc \notin Recovering \cup {"idle"} \cup Opens
                         /\ op.todo[1][1] \notin Backs /\ \A e \in Edition : journal[e].phase # "open"
    BY <1>k, TaskKind, Quiet
  <1>w. /\ \A e \in Edition : Empty(e)' => Empty(e)
        /\ build' # 0 => build # 0
    BY DEF Fewer
  <1>r. /\ op.pc \in {"examine", "excise", "restate"} => UndoWell /\ Kind(c, Live) \in Good
        /\ op.pc = "excise" => CutWell
        /\ op.pc \in {"forget", "erase"} => Kind(c, Live) \in Good
    BY <1>c DEF SeenHere, Removing, Held
  <1>e. ASSUME op.pc \in all, Restarts, UNCHANGED journal PROVE SeenHere'
    BY <1>e, <1>u, EndSeen
  <1>g. ASSUME op.pc \in all, NEW q \in {"erased", "cleanup", "cleanpayload"}, Goto(q) PROVE SeenHere'
    <2>1. op'.todo = op.todo /\ op'.pc = q BY <1>g, GotoStays
    <2>2. q \notin Recovering \cup Minds BY <1>g, <1>q
    <2> HIDE DEF all
    <2> QED BY <1>g, <1>u, <2>1, <2>2, PlainSeen
  \* The profile is as the user left it, and the marker goes.
  <1>f. ASSUME op.pc \in {"examine", "excise"}, Goto("forget"), UNCHANGED snap,
               Empty(c) /\ build # 0 => profile'[c].block = "none"
        PROVE SeenHere'
    <2>1. op'.todo = op.todo /\ op'.pc = "forget" /\ Cur' = c BY <1>f, <1>c, GotoStays
    <2>2. Kind(Cur, Live)' \in Good BY <1>f, <1>r, <2>1 DEF Kind
    <2>3. (Empty(Cur)' => Empty(c)') /\ (Bare(Cur)' <=> profile'[c].block = "none") BY <2>1 DEF Empty, Bare
    <2>4. Empty(Cur)' /\ build' # 0 => Bare(Cur)' BY <1>f, <1>w, <2>3
    <2>5. op.pc \in all BY <1>f
    <2>6. "forget" \notin Recovering \cup Before \cup {"publish"} BY <1>q
    <2> HIDE DEF all
    <2> QED BY <1>u, <2>1, <2>2, <2>4, <2>5, <2>6, TaskSeen
  \* The state of the marker is put back.
  <1>x. ASSUME op.pc \in {"examine", "excise"}, Goto("restate"), UNCHANGED profile
        PROVE SeenHere'
    <2>1. op'.todo = op.todo /\ op'.pc = "restate" /\ Cur' = Cur /\ op'.was = op.was BY <1>x, GotoStays
    <2>2. UndoWell BY <1>x, <1>r
    <2>3. UndoWell' BY <1>0, <1>x, <2>1, <2>2, UndoStays
    <2>4. op.pc \in all BY <1>x
    <2>5. "restate" \notin Recovering \cup Before \cup {"publish"} BY <1>q
    <2> HIDE DEF all
    <2> QED BY <1>u, <2>1, <2>3, <2>4, <2>5, TaskSeen
  <1>1. CASE Uninstalls
    <2>1. /\ op.pc = "uninstall" /\ UNCHANGED <<profile, journal>>
          /\ \/ Done \/ Abort("refused")
             \/ /\ marker[c].present /\ marker[c].state # ""
                /\ op' = [op EXCEPT !.pc = "examine", !.was = marker[c]]
      BY <1>1, <1>c DEF Uninstalls, At
    <2>2. CASE Done \/ Abort("refused") BY <2>1, <2>2, <1>e, Restarting
    <2>3. CASE /\ marker[c].present /\ marker[c].state # ""
               /\ op' = [op EXCEPT !.pc = "examine", !.was = marker[c]]
      <3>1. op'.todo = op.todo /\ op'.pc = "examine" /\ op'.was = marker[c] /\ Cur' = c
        BY <2>3, <1>c DEF Types, Jobs, Cur
      <3>2. op.pc \in all /\ journal[c].phase # "open" BY <2>1, <1>u
      <3>3. ASSUME Empty(c)'
            PROVE marker[c].orig /\ (build' # 0 /\ marker[c].state = "prepared" => profile[c].block = "none")
        <4>1. MarkerAt(c) /\ BareAt(c) BY <3>3, <1>w DEF EmptyKept, EmptyAt
        <4> QED BY <2>3, <3>2, <4>1, <1>w DEF MarkerAt, BareAt, Bare
      <3>4. UndoWell'
        <4> DEFINE m == op'.was
        <4>1. m = marker[c] BY <3>1
        <4>2. (Empty(Cur)' => Empty(c)') /\ (Bare(Cur)' <=> profile[c].block = "none") BY <2>1, <3>1 DEF Empty, Bare
        <4>3. /\ m.state # ""
              /\ Empty(Cur)' => m.orig /\ (build' # 0 /\ m.state = "prepared" => Bare(Cur)')
          BY <2>3, <3>3, <4>1, <4>2
        <4> QED BY <4>3 DEF UndoWell
      <3>5. "examine" \notin Recovering \cup Before \cup {"publish"} BY <1>q
      <3> HIDE DEF all
      <3> QED BY <1>u, <3>1, <3>2, <3>4, <3>5, TaskSeen
    <2> QED BY <2>1, <2>2, <2>3
  <1>2. CASE Examine
    <2> DEFINE p == profile[c]
               s == snap[c][Live]
    <2>1. /\ op.pc = "examine" /\ UNCHANGED <<profile, marker, snap, journal>>
          /\ \/ ~p.present /\ Goto("forget")
             \/ Undoing /\ p = s.before /\ Goto("forget")
             \/ Goto("restate")
             \/ Undoing /\ p = Installed(s) /\ op' = [op EXCEPT !.seen = p, !.pc = "excise"]
             \/ ~Undoing /\ Cleaned(p, op.was.orig) = p /\ Goto("forget")
             \/ ~Undoing /\ op' = [op EXCEPT !.seen = p, !.pc = "excise"]
      BY <1>2, <1>c DEF Examine, At, disk, Undoing, Kind
    <2>2. UndoWell BY <2>1, <1>r
    <2>3. op.pc \in all BY <2>1
    <2>4. p \in Contents BY <1>0 DEF Files
    \* Where the undo is the user's own text, the block is not there.
    <2>5. Empty(c) /\ build # 0 /\ Undoing => p.block = "none" BY <2>2, <1>c DEF UndoWell, Undoing, Bare
    <2>6. CASE ~p.present /\ Goto("forget")
      <3>1. ~Empty(c) BY <2>6 DEF Empty, PreservesText
      <3> QED BY <2>1, <2>6, <3>1, <1>f
    <2>7. CASE Undoing /\ p = s.before /\ Goto("forget") BY <2>1, <2>5, <2>7, <1>f
    <2>8. CASE Goto("restate") BY <2>1, <2>8, <1>x
    <2>9. CASE ~Undoing /\ Cleaned(p, op.was.orig) = p /\ Goto("forget")
      <3>1. Cleaned(p, op.was.orig).block = "none" BY <2>4 DEF Cleaned, Strip, Absent, Contents
      <3>2. p.block = "none" BY <2>9, <3>1
      <3> QED BY <2>1, <2>9, <3>2, <1>f
    <2>10. CASE (Undoing => p = Installed(s)) /\ op' = [op EXCEPT !.seen = p, !.pc = "excise"]
      <3>1. op'.todo = op.todo /\ op'.pc = "excise" /\ op'.seen = p /\ op'.was = op.was /\ Cur' = Cur
        BY <2>10 DEF Types, Jobs, Cur
      <3>2. UndoWell' BY <1>0, <2>1, <2>2, <3>1, UndoStays
      <3>3. Undoing' <=> Undoing BY <2>1, <3>1 DEF Undoing, Kind
      <3>4. Installed(s).block # "none"
        <4>1. s.before \in Contents BY <1>0, Named DEF Types, Saved, Files
        <4> QED BY <4>1 DEF Installed, WithBlock, Contents
      <3>5. Empty(c) /\ build # 0 => ~Undoing BY <2>5, <2>10, <3>4
      <3>6. Installed(snap[Cur][Live])' = Installed(s) BY <2>1, <3>1, <1>c DEF Installed
      <3>7. Empty(Cur)' => Empty(c) BY <3>1, <1>c, <1>w
      <3>8. CutWell'
        <4>1. Undoing' => op'.seen = Installed(snap[Cur][Live])' BY <2>10, <3>1, <3>3, <3>6
        <4>2. Empty(Cur)' /\ build' # 0 => ~Undoing' BY <3>3, <3>5, <3>7, <1>w
        <4> QED BY <4>1, <4>2 DEF CutWell
      <3>9. "excise" \notin Recovering \cup Before \cup {"publish"} BY <1>q
      <3> HIDE DEF all, p, s
      <3> QED BY <1>u, <2>3, <3>1, <3>2, <3>8, <3>9, TaskSeen
    <2> HIDE DEF p, s
    <2> QED BY <2>1, <2>6, <2>7, <2>8, <2>9, <2>10
  <1>3. CASE Excise
    <2> DEFINE x == ToExcise
    <2>1. /\ op.pc = "excise" /\ UNCHANGED snap
          /\ \/ profile' = [profile EXCEPT ![c] = x] /\ Goto("forget")
             \/ UNCHANGED profile /\ Goto("restate")
      BY <1>3, <1>c DEF Excise, At, Replaced, SetProfile
    <2>2. CASE profile' = [profile EXCEPT ![c] = x] /\ Goto("forget")
      <3>1. Empty(c) /\ build # 0 => ~Undoing BY <2>1, <1>r, <1>c DEF CutWell
      <3>2. ~Undoing => x = Cleaned(op.seen, op.was.orig) BY DEF ToExcise, Undoing, Kind
      <3>3. Cleaned(op.seen, op.was.orig).block = "none"
        <4>1. op.seen \in Contents BY <1>0 DEF Files
        <4> QED BY <4>1 DEF Cleaned, Strip, Absent, Contents
      <3>4. Empty(c) /\ build # 0 => x.block = "none"
        <4> HIDE DEF x
        <4> QED BY <3>1, <3>2, <3>3
      <3> HIDE DEF x
      <3>5. profile'[c] = x BY <2>2, <1>0
      <3> QED BY <2>1, <2>2, <3>4, <3>5, <1>f
    <2>3. CASE UNCHANGED profile /\ Goto("restate") BY <2>1, <2>3, <1>x
    <2> HIDE DEF x
    <2> QED BY <2>1, <2>2, <2>3
  <1>4. CASE Restate
    <2>1. op.pc = "restate" /\ UNCHANGED journal /\ Restarts BY <1>4, Restarting DEF Restate, At
    <2> QED BY <2>1, <1>e
  <1>5. CASE Forget
    <2>1. op.pc = "forget" /\ UNCHANGED snap /\ Goto("erase") BY <1>5 DEF Forget, At
    <2>2. op'.todo = op.todo /\ op'.pc = "erase" /\ Cur' = c BY <2>1, <1>c, GotoStays
    <2>3. Kind(Cur, Live)' \in Good BY <2>1, <2>2, <1>r DEF Kind
    <2>4. op.pc \in all /\ "erase" \notin Recovering \cup Before \cup {"publish"} BY <2>1, <1>q
    <2> HIDE DEF all
    <2> QED BY <1>u, <2>2, <2>3, <2>4, TaskSeen
  <1>6. CASE Erase
    <2>1. op.pc = "erase" /\ Goto("erased") BY <1>6 DEF Erase, At
    <2> QED BY <2>1, <1>g
  <1>7. CASE Erased
    <2>1. op.pc = "erased" /\ Goto("cleanup") BY <1>7 DEF Erased, At
    <2> QED BY <2>1, <1>g
  <1>8. CASE Cleanup
    <2>1. op.pc = "cleanup" /\ Goto("cleanpayload") BY <1>8 DEF Cleanup, At
    <2> QED BY <2>1, <1>g
  <1>9. CASE CleanPayload
    <2>1. op.pc = "cleanpayload" /\ UNCHANGED journal /\ Restarts BY <1>9, Restarting DEF CleanPayload, At
    <2> QED BY <2>1, <1>e
  <1> QED BY <1>1, <1>2, <1>3, <1>4, <1>5, <1>6, <1>7, <1>8, <1>9 DEF Removes

LEMMA TidiesSeen ==
  ASSUME Types, Control, Midway, Types', Control', Midway', Tidies
  PROVE SeenHere'
  <1> DEFINE all == {"repair", "strip", "stripped", "modules", "leftovers", "swept", "wipe", "retiretree"}
  <1>k. all \cap (Recovering \cup {"idle"} \cup Opens) = {} BY SMT DEF Recovering, Opens
  <1>q. {"stripped", "retiretree"} \cap (Recovering \cup Minds) = {} BY SMT DEF Recovering, Minds, Before
  <1>u. op.pc \in all => /\ op.pc # "idle" /\ op.pc \notin Recovering \cup {"idle"} \cup Opens
                         /\ op.todo[1][1] \notin Backs /\ \A e \in Edition : journal[e].phase # "open"
    BY <1>k, TaskKind, Quiet
  <1>e. ASSUME op.pc \in all, Restarts, UNCHANGED journal PROVE SeenHere'
    BY <1>e, <1>u, EndSeen
  <1>g. ASSUME op.pc \in all, op'.todo = op.todo, op'.pc \in {"stripped", "retiretree"} PROVE SeenHere'
    <2>1. op'.pc \notin Recovering \cup Minds BY <1>g, <1>q
    <2> HIDE DEF all
    <2> QED BY <1>g, <1>u, <2>1, PlainSeen
  <1>1. CASE Repair
    <2>1. op.pc = "repair" /\ UNCHANGED journal /\ Restarts BY <1>1, Restarting DEF Repair, At, disk
    <2> QED BY <2>1, <1>e
  <1>2. CASE ReadStrip
    <2>1. /\ op.pc = "strip" /\ UNCHANGED journal
          /\ Done \/ op' = [op EXCEPT !.seen = profile[Cur], !.pc = "stripped"]
      BY <1>2 DEF ReadStrip, At, disk
    <2>2. CASE Done BY <2>1, <2>2, <1>e, Restarting
    <2>3. CASE op' = [op EXCEPT !.seen = profile[Cur], !.pc = "stripped"]
      <3>1. op'.todo = op.todo /\ op'.pc = "stripped" BY <2>3 DEF Types, Jobs
      <3> QED BY <2>1, <3>1, <1>g
    <2> QED BY <2>1, <2>2, <2>3
  <1>3. CASE StripBlocks
    <2>1. op.pc = "stripped" /\ UNCHANGED journal /\ Restarts BY <1>3, Restarting DEF StripBlocks, At, Replaced
    <2> QED BY <2>1, <1>e
  <1>4. CASE Modules
    <2>1. op.pc = "modules" /\ UNCHANGED journal /\ Restarts BY <1>4, Restarting DEF Modules, At
    <2> QED BY <2>1, <1>e
  <1>5. CASE Leftovers
    <2>1. op.pc = "leftovers" /\ UNCHANGED journal /\ Restarts BY <1>5, Restarting DEF Leftovers, At
    <2> QED BY <2>1, <1>e
  <1>6. CASE Swept
    <2>1. op.pc = "swept" /\ UNCHANGED journal /\ Restarts BY <1>6, Restarting DEF Swept, At, disk
    <2> QED BY <2>1, <1>e
  <1>7. CASE Wipe
    <2>1. op.pc = "wipe" /\ Goto("retiretree") BY <1>7 DEF Wipe, At
    <2>2. op'.todo = op.todo /\ op'.pc = "retiretree" BY <2>1, GotoStays
    <2> QED BY <2>1, <2>2, <1>g
  <1>8. CASE RetireTree
    <2>1. /\ op.pc = "retiretree" /\ Restarts
          /\ journal' = [e \in Edition |-> NoEntry] \/ UNCHANGED journal
      BY <1>8, Restarting DEF RetireTree, At
    <2>2. \A e \in Edition : journal'[e].phase # "open" BY <2>1, <1>u DEF NoEntry
    <2> QED BY <2>1, <2>2, <1>u, EndSeen
  <1> QED BY <1>1, <1>2, <1>3, <1>4, <1>5, <1>6, <1>7, <1>8 DEF Tidies

\* A step of someone else.
LEMMA StillSeen ==
  ASSUME SeenHere, Fewer, Cur \in Edition, UNCHANGED <<op, marker, snap, journal>>,
         Empty(Cur)' => UNCHANGED profile
  PROVE SeenHere'
  <1>1. Cur' = Cur /\ T' = T /\ J' = J BY DEF Cur, T, J
  <1>2. (RollingBack' <=> RollingBack) /\ (Rolled' <=> Rolled) BY DEF RollingBack, Rolled
  <1>3. Recovery' = Recovery BY <1>1 DEF Recovery, Published, Staged
  <1>4. Empty(Cur)' => Empty(Cur) /\ (Bare(Cur)' <=> Bare(Cur))
    <2>1. Empty(Cur)' => Empty(Cur) BY <1>1 DEF Fewer
    <2>2. Empty(Cur)' => (Bare(Cur)' <=> Bare(Cur)) BY <1>1 DEF Bare
    <2> QED BY <2>1, <2>2
  <1>5. InstalledMarker(Cur)' <=> InstalledMarker(Cur) BY <1>1 DEF InstalledMarker
  <1>6. \A n : Kind(Cur, n)' = Kind(Cur, n) BY <1>1 DEF Kind
  <1>7. Kind(Cur, Live)' = Kind(Cur, Live) BY <1>1 DEF Kind
  <1>8. Undoing' <=> Undoing BY <1>7 DEF Undoing
  <1>9. Installed(Recovery)' = Installed(Recovery) BY <1>3 DEF Installed
  <1>10. Installed(snap[Cur][Live])' = Installed(snap[Cur][Live]) BY <1>1 DEF Installed
  <1>11. ReadWell => ReadWell' BY <1>4 DEF ReadWell
  <1>12. build' # 0 => build # 0 BY DEF Fewer
  <1>13. UndoWell => UndoWell' BY <1>4, <1>12 DEF UndoWell
  <1>14. CutWell => CutWell' BY <1>4, <1>8, <1>10, <1>12 DEF CutWell
  <1>15. Stg(T)' = Stg(T) BY <1>1 DEF Stg
  <1>16. Reading' BY <1>1, <1>11, <1>15 DEF SeenHere, Reading
  <1>17. Backing'
    <2>0. Backing BY DEF SeenHere
    <2>1. op'.pc = op.pc /\ marker'[Cur].present = marker[Cur].present OBVIOUS
    <2>2. op'.pc = "restore" => op'.seen = Installed(Recovery)' BY <1>9, <2>0 DEF Backing
    <2>3. Empty(Cur)' /\ (op'.pc = "unpublish" \/ RollingBack') /\ J'.prev = 0 => Bare(Cur)'
      BY <1>1, <1>2, <1>4, <2>0, <2>1 DEF Backing
    <2>4. op'.pc = "state" /\ J'.prev # 0 => marker'[Cur'].present BY <1>1, <2>0, <2>1 DEF Backing
    <2>5. Rolled' /\ J'.prev # 0 => InstalledMarker(Cur)' BY <1>1, <1>2, <1>5, <2>0 DEF Backing
    <2> QED BY <2>2, <2>3, <2>4, <2>5 DEF Backing
  <1>18. Removing' BY <1>1, <1>4, <1>7, <1>12, <1>13, <1>14 DEF SeenHere, Removing
  <1> QED BY <1>16, <1>17, <1>18 DEF SeenHere

LEMMA CommandSeen ==
  ASSUME Types, Control, NEW cmd \in Commands \ {"none"}, NEW e \in Edition, NEW user \in BOOLEAN,
         cmd = "repair" => user, cmd = "repairall" => ~user,
         Command(cmd, e, user), cmd = "clean" <=> build = 0
  PROVE SeenHere'
  <1> DEFINE s == Todo(cmd, e)
  <1>1. Runnable(cmd, user, s) /\ s # <<>> /\ Plainly(s) BY TodoRuns
  <1>2. op'.todo = s /\ op'.pc = s[1][1] BY CommandOp
  <1> HIDE DEF s
  <1>3. s \in Lists BY <1>1 DEF Runnable
  <1>4. Len(s) \in Nat /\ Len(s) >= 1 /\ s[1][1] \in Tasks BY <1>1, <1>3, Listed
  <1>5. s[1][1] # "rolled" /\ (Len(s) > 1 => s[2][1] # "rolled") BY <1>1, <1>4, SMT DEF Plainly
  <1>6. ~RollingBack' BY <1>2, <1>4, <1>5, SMT DEF RollingBack, Tasks
  <1>7. op'.pc \in Tasks \cup {"idle"} BY <1>2, <1>4
  <1> QED BY <1>6, <1>7, SeenBegin

LEMMA FailSeen ==
  ASSUME Types, Control, Midway, SeenHere, Fewer, Types', Control', Midway', Fail
  PROVE SeenHere'
  <1>0. (op.pc # "idle" => op # Idle) /\ Cur \in Edition /\ UNCHANGED <<build, profile, marker, snap, journal>>
    BY Running DEF Fail, disk
  <1>1. CASE op.pc \in Undoes /\ Goto("undo")
    <2>1. op'.todo = op.todo /\ op'.pc = "undo" BY <1>1, GotoStays
    <2>2. "undo" \notin Recovering \cup Minds BY SMT DEF Recovering, Minds, Before
    <2>3. op.pc # "idle" /\ op.pc \notin Recovering BY <1>1, SMTT(60) DEF Undoes, Recovering
    <2>4. op.todo[1][1] \notin Backs BY <2>3, TaskKind
    <2> QED BY <2>1, <2>2, <2>3, <2>4, PlainSeen
  <1>2. CASE op.pc = "excise" /\ Goto("restate")
    <2>1. op'.todo = op.todo /\ op'.pc = "restate" /\ Cur' = Cur /\ op'.was = op.was BY <1>2, GotoStays
    <2>2. UndoWell BY <1>2 DEF SeenHere, Removing
    <2>3. UndoWell' BY <1>0, <2>1, <2>2, UndoStays
    <2>4. op.pc # "idle" /\ op.pc \notin Recovering /\ "restate" \notin Recovering \cup Before \cup {"publish"}
      BY <1>2, SMT DEF Recovering, Before
    <2>5. op.todo[1][1] \notin Backs BY <2>4, TaskKind
    <2> QED BY <2>1, <2>3, <2>4, <2>5, TaskSeen
  <1>3. CASE op.pc \in Finishes \cup {"stripped"} /\ Done
    <2>1. op.pc \notin Recovering \cup {"idle"} \cup Opens BY <1>3, SMT DEF Finishes, Recovering, Opens
    <2> QED BY <1>0, <1>3, <2>1, Restarting, EndSeen
  <1>4. CASE op.pc \in Reports /\ Abort("failed")
    <2>1. op.pc # "idle" BY <1>4, SMT DEF Reports, Recovering
    <2>2. CASE op.pc \in Recovering
      <3>1. op' = Idle BY <1>0, <1>4, <2>1, <2>2, AbortTo DEF Codes
      <3> QED BY <3>1, SeenIdle
    <2>3. CASE op.pc = "undo"
      <3>1. op.todo[1][1] \in {"begin", "replace", "upgrade"} BY <2>3, TaskOf DEF Shared
      <3>2. op.cmd \notin {"clean", "sweep"} BY <1>0, <2>1, <3>1, Follow
      <3>3. op' = Idle BY <1>4, <3>2 DEF Abort, Ends
      <3> QED BY <3>3, SeenIdle
    <2>4. CASE op.pc \notin Recovering \cup {"undo"}
      <3>1. op.pc \notin Opens BY <1>4, <2>4, SMT DEF Reports, Opens
      <3> QED BY <1>0, <1>4, <2>1, <2>4, <3>1, Restarting, EndSeen
    <2> QED BY <2>2, <2>3, <2>4
  <1> QED BY <1>1, <1>2, <1>3, <1>4 DEF Fail

LEMMA WorldSeen ==
  ASSUME Types, Control, Midway, SeenHere, Fewer, Types', Control', Midway', World
  PROVE SeenHere'
  <1>0. Order[1] \in Edition /\ Cur \in Edition BY Somebody, Running
  <1>1. CASE UserCommand
    <2>1. PICK e \in Edition, cmd \in {"enable", "disable", "repair", "sweep"} : Command(cmd, e, TRUE)
      BY <1>1 DEF UserCommand
    <2>2. build # 0 /\ cmd \in Commands \ {"none"} /\ cmd \notin {"clean", "repairall"}
      BY <1>1 DEF UserCommand, Commands
    <2> QED BY <2>1, <2>2, CommandSeen
  <1>2. CASE SweepStart
    <2>1. UNCHANGED <<op, profile, marker, snap, journal>> BY <1>2 DEF SweepStart, disk
    <2> QED BY <1>0, <2>1, StillSeen
  <1>3. CASE BackgroundEnable
    <2>1. PICK e \in targets : Command("enable", e, FALSE) BY <1>3 DEF BackgroundEnable
    <2>2. build # 0 /\ e \in Edition BY <1>3 DEF BackgroundEnable, Types
    <2> QED BY <2>1, <2>2, CommandSeen DEF Commands
  <1>4. CASE BackgroundRepair
    <2>1. build # 0 /\ Command("repairall", Order[1], FALSE) BY <1>4 DEF BackgroundRepair
    <2> QED BY <1>0, <2>1, CommandSeen DEF Commands
  <1>5. CASE OrphanClean
    <2>1. build = 0 /\ Command("clean", Order[1], TRUE) BY <1>5 DEF OrphanClean
    <2> QED BY <1>0, <2>1, CommandSeen DEF Commands
  <1>6. CASE NewBuild \/ Remove
    <2>1. op' = Idle BY <1>6 DEF NewBuild, Remove
    <2> QED BY <2>1, SeenIdle
  <1>7. CASE Edit
    <2>1. UNCHANGED <<op, marker, snap, journal>> BY <1>7 DEF Edit
    <2>2. PICK f \in Edition : ~Empty(f)' /\ (op = Idle \/ f = Cur) BY <1>7, EditedFull
    <2>3. CASE op = Idle BY <2>1, <2>3, SeenIdle
    <2>4. CASE f = Cur
      <3>1. Cur' = f BY <2>1, <2>4 DEF Cur
      <3>2. ~Empty(Cur)' BY <2>2, <3>1 DEF Empty
      <3> QED BY <1>0, <2>1, <3>2, StillSeen
    <2> QED BY <2>2, <2>3, <2>4
  <1>8. CASE Crash
    <2>1. op' = Idle BY <1>8 DEF Crash
    <2> QED BY <2>1, SeenIdle
  <1>9. CASE Fail BY <1>9, FailSeen
  <1> QED BY <1>1, <1>2, <1>3, <1>4, <1>5, <1>6, <1>7, <1>8, <1>9 DEF World

LEMMA SeenStep ==
  ASSUME Types, Control, Midway, Held, Versions, EmptyKept, SeenHere, PreservesText,
         Types', Control', Midway', [Next]_vars
  PROVE SeenHere'
  <1>0. Fewer BY FewerStep
  <1>1. CASE Recovers BY <1>0, <1>1, RecoversSeen
  <1>2. CASE Enables BY <1>0, <1>2, EnablesSeen
  <1>3. CASE Removes BY <1>0, <1>3, RemovesSeen
  <1>4. CASE Tidies BY <1>0, <1>4, TidiesSeen
  <1>5. CASE World BY <1>0, <1>5, WorldSeen
  <1>6. CASE UNCHANGED vars
    <2>1. UNCHANGED <<op, profile, marker, snap, journal>> BY <1>6 DEF vars, disk
    <2>2. Cur \in Edition BY Running
    <2> QED BY <1>0, <2>1, <2>2, StillSeen
  <1> QED BY <1>1, <1>2, <1>3, <1>4, <1>5, <1>6 DEF Next

LEMMA TextInit ==
  ASSUME Init
  PROVE Versions /\ EmptyKept /\ SeenHere /\ PreservesText
  <1>1. PICK old \in SUBSET Edition :
       /\ profile = [e \in Edition |-> IF e \in old
                       THEN [present |-> TRUE, text |-> Start[e].text, block |-> "legacy"] ELSE Start[e]]
       /\ marker = [e \in Edition |-> IF e \in old
                      THEN [present |-> TRUE, state |-> "installed", version |-> Legacy,
                            orig |-> Start[e].present]
                      ELSE NoMarker]
       /\ snap = [e \in Edition |-> [n \in Names |->
                    IF n = Live /\ e \in old
                      THEN [kind |-> "old", orig |-> Start[e].present,
                            before |-> [present |-> TRUE, text |-> Start[e].text, block |-> "none"]]
                      ELSE NoSnap]]
    BY DEF Init
  <1>2. owned = [e \in Edition |-> [text |-> Start[e].text, file |-> Start[e].present]] BY DEF Init
  <1>3. \A e \in Edition : journal[e] = NoEntry BY DEF Init
  <1>4. NoEntry.phase = "none" /\ NoEntry.prev = 0 /\ ~NoMarker.present /\ NoSnap.kind = "none"
    BY DEF NoEntry, NoMarker, NoSnap
  <1>5. \A e \in Edition : Start[e].block = "none" BY PowerShellAssumption
  <1>6. ASSUME NEW e \in Edition
        PROVE /\ owned[e].text = Start[e].text /\ owned[e].file = Start[e].present
              /\ e \notin old => profile[e] = Start[e] /\ marker[e] = NoMarker
              /\ e \in old => /\ profile[e].present /\ profile[e].text = Start[e].text
                              /\ marker[e].present /\ marker[e].state = "installed" /\ marker[e].version = 1
                              /\ marker[e].orig = Start[e].present
              /\ \A n \in Names : snap[e][n].kind # "none" =>
                   snap[e][n].before.present /\ snap[e][n].orig = Start[e].present
    BY <1>1, <1>2, <1>4 DEF Legacy
  <1>7. Versions BY <1>4, <1>6 DEF Versions
  <1>8. PreservesText BY <1>6 DEF PreservesText
  <1>9. EmptyKept
    <2> SUFFICES ASSUME NEW e \in Edition, Empty(e) PROVE EmptyAt(e) BY DEF EmptyKept
    <2>1. Start[e].present BY <1>6 DEF Empty
    <2>2. FilesAt(e) BY <1>6, <2>1 DEF FilesAt
    <2>3. MarkerAt(e) BY <1>4, <1>6, <2>1 DEF MarkerAt
    <2>4. JournalAt(e) /\ BeforeAt(e) BY <1>3, <1>4 DEF JournalAt, BeforeAt
    <2>5. BareAt(e)
      <3>1. CASE e \in old
        <4>1. marker[e].present /\ marker[e].state = "installed" BY <1>6, <3>1
        <4> QED BY <4>1 DEF BareAt
      <3>2. CASE e \notin old
        <4>1. profile[e].block = "none" BY <1>5, <1>6, <3>2
        <4> QED BY <4>1 DEF BareAt, Bare
      <3> QED BY <3>1, <3>2
    <2> QED BY <2>2, <2>3, <2>4, <2>5 DEF EmptyAt
  <1>10. op.pc = "idle" /\ Len(op.todo) = 0 BY SMT DEF Init, Idle
  <1>11. ~RollingBack /\ ~Rolled BY <1>10, SMT DEF RollingBack, Rolled
  <1>12. "idle" \notin Before \cup {"publish"} BY SMT DEF Before
  <1>13. SeenHere BY <1>10, <1>11, <1>12 DEF SeenHere, Reading, Backing, Removing
  <1> QED BY <1>7, <1>8, <1>9, <1>13

\* A profile holds the user's own text, and the file is there when the user had
\* one: whatever a command writes into profile.ps1 (ProfileSnapshot::replace),
\* refuses, undoes or leaves when it dies, and however the user edits the file
\* meanwhile.
THEOREM TextKept == Spec => []PreservesText
  <1> DEFINE I == /\ Types /\ Control /\ Midway /\ Kept /\ Held
                  /\ Versions /\ EmptyKept /\ SeenHere /\ PreservesText
  <1>1. Init => I BY Starting0, HeldInit, TextInit
  <1>2. I /\ [Next]_vars => I'
    <2> SUFFICES ASSUME I, [Next]_vars PROVE I' OBVIOUS
    <2>1. Types' /\ Control' /\ Midway' /\ Kept' /\ Held' BY HeldStep
    <2>2. Versions' BY VersionsStep
    <2>3. EmptyKept' BY <2>1, EmptyStep
    <2>4. SeenHere' BY <2>1, SeenStep
    <2>5. PreservesText' BY <2>1, PreservesStep
    <2> QED BY <2>1, <2>2, <2>3, <2>4, <2>5
  <1>3. I => PreservesText OBVIOUS
  <1> HIDE DEF I
  <1> QED BY <1>1, <1>2, <1>3, PTL DEF Spec

-----------------------------------------------------------------------------
(* The other host, and the order of the tasks.                              *)

\* The other host is the only one that a host shares the payload with.
LEMMA Others ==
  ASSUME NEW e \in Edition
  PROVE Other(e) \in Edition /\ \A f \in Edition : f = e \/ f = Other(e)
  <1>1. PICK a, b \in Edition : a # b /\ Edition = {a, b} BY TwoHosts
  <1>2. \E f \in Edition : f # e BY <1>1
  <1>3. Other(e) \in Edition /\ Other(e) # e BY <1>2 DEF Other
  <1> QED BY <1>1, <1>3

\* The steps before and after the recovery.
LEMMA Sides ==
  ASSUME Types, Control, Next, op.pc # "idle"
  PROVE /\ op.todo[1][1] \in Backs => Recovers \/ World
        /\ op.todo[1][1] \notin Backs => Enables \/ Removes \/ Tidies \/ World
  <1>1. Recovers => op.todo[1][1] \in Backs
    <2>1. Recovers => op.pc \in StepsOf("recover") \cup StepsOf("swap")
      BY DEF Recovers, Recover, Restore, Unpublish, Unretire, RestoreValues, RestoreState, RolledBack,
             TidySwap, TidyDrop, TidyState, DropJournal, Swap, SwapRoot, SwapRename, SwapClean, SwapDrop,
             At, StepsOf
    <2> QED BY <2>1, TaskOf, SMT DEF StepsOf, Backs
  <1>2. Enables => op.todo[1][1] \notin Backs
    <2>1. Enables => op.pc \in {"enable", "tree", "install", "reinstall", "adopt", "adopted", "resume",
                                "begin", "replace", "upgrade", "commitswap", "version"} \cup Shared \cup Whole
      <3>1. Enable \/ Tree \/ Install \/ Reinstall \/ Adopt \/ Adopted \/ Resume \/ Begin \/ Upgrade
              => op.pc \in {"enable", "tree", "install", "reinstall", "adopt", "adopted", "resume",
                           "begin", "replace", "upgrade"}
        BY DEF Enable, Tree, Install, Reinstall, Adopt, Adopted, Resume, Begin, Upgrade, At
      <3>2. Ensure \/ SwapJournal \/ Aside \/ Deploy \/ Finish \/ FinishSwap \/ Undo \/ UndoRoot \/ UndoName
              \/ UndoClean => op.pc \in Shared
        BY DEF Ensure, SwapJournal, Aside, Deploy, Finish, FinishSwap, Undo, UndoRoot, UndoName, UndoClean, At, Shared
      <3>3. Stage \/ OpenJournal \/ Publish \/ Prepared \/ Retire \/ GoLive \/ Write \/ MarkInstalled \/ Verify
              \/ Commit \/ FinishState \/ FinishJournal => op.pc \in Whole
        BY DEF Stage, OpenJournal, Publish, Prepared, Retire, GoLive, Write, MarkInstalled, Verify, Commit,
               FinishState, FinishJournal, At, Whole
      <3>4. CommitSwap \/ Version => op.pc \in {"commitswap", "version"} BY DEF CommitSwap, Version, At
      <3> QED BY <3>1, <3>2, <3>3, <3>4, Zenon DEF Enables
    <2> QED BY <2>1, TaskOf, SMT DEF Backs
  <1>3. Removes => op.todo[1][1] \notin Backs
    <2>1. Removes => op.pc \in {"uninstall", "examine", "excise", "restate", "forget", "erase", "erased",
                                "cleanup", "cleanpayload"}
      BY DEF Removes, Uninstalls, Examine, Excise, Restate, Forget, Erase, Erased, Cleanup, CleanPayload, At
    <2> QED BY <2>1, TaskOf, SMT DEF Backs
  <1>4. Tidies => op.todo[1][1] \notin Backs
    <2>1. Tidies => op.pc \in {"repair", "strip", "stripped", "modules", "leftovers", "swept", "wipe", "retiretree"}
      BY DEF Tidies, Repair, ReadStrip, StripBlocks, Modules, Leftovers, Swept, Wipe, RetireTree, At
    <2> QED BY <2>1, TaskOf, SMT DEF Backs
  <1> QED BY <1>1, <1>2, <1>3, <1>4 DEF Next

\* A list of tasks that starts with the recovery of every host.
RecoversFirst(s) == \A i \in 1..Len(Order) : i \in 1..Len(s) /\ s[i] = <<"recover", Order[i]>>

LEMMA TodoRest ==
  ASSUME NEW cmd \in Commands \ {"none"}, NEW e \in Edition
  PROVE \E x \in Lists : /\ Todo(cmd, e) = RecoverAll \o x
                         /\ cmd = "clean" => \A f \in Edition : \E i \in 1..Len(x) : x[i] = <<"adopt", f>>
  <1>1. ASSUME NEW t \in Tasks
        PROVE Both(t) \in Lists /\ \A f \in Edition : \E i \in 1..Len(Both(t)) : Both(t)[i] = <<t, f>>
    <2>1. Len(Order) \in Nat /\ \A i \in 1..Len(Order) : Order[i] \in Edition BY PowerShellAssumption, SMT
    <2>2. \A f \in Edition : \E i \in 1..Len(Order) : Order[i] = f BY PowerShellAssumption, Zenon
    <2> DEFINE s == [i \in 1..Len(Order) |-> <<t, Order[i]>>]
    <2>3. s \in [1..Len(Order) -> Tasks \X Edition] BY <2>1
    <2>4. s \in Seq(Tasks \X Edition) BY <2>1, <2>3, SeqDef
    <2>5. DOMAIN s = 1..Len(s) /\ DOMAIN s = 1..Len(Order) BY <2>4, LenProperties
    <2>6. \A i \in 1..Len(Order) : s[i] = <<t, Order[i]>> OBVIOUS
    <2>7. Both(t) = s BY DEF Both
    <2> HIDE DEF s
    <2> QED BY <2>2, <2>4, <2>5, <2>6, <2>7 DEF Lists
  <1>2. {"recover", "repair", "adopt", "enable", "leftovers", "modules", "tree", "swept"} \subseteq Tasks
    BY DEF Tasks
  <1>3. <<<<"enable", e>>>> \in Lists /\ Prunes(e) \in Lists /\ <<<<"adopt", e>>, <<"leftovers", e>>>> \in Lists
        /\ <<<<"repair", e>>>> \in Lists /\ <<<<"modules", e>>, <<"tree", e>>, <<"leftovers", e>>>> \in Lists
        /\ <<<<"swept", e>>>> \in Lists
    BY <1>2, SMT DEF Lists, Prunes
  <1>4. Both("repair") \in Lists /\ Both("adopt") \in Lists BY <1>1, <1>2
  <1>5. \A s, r \in Lists : s \o r \in Lists BY ConcatProperties DEF Lists
  <1>6. CASE cmd = "enable"
    <2>1. Todo(cmd, e) = RecoverAll \o (<<<<"enable", e>>>> \o Prunes(e)) BY <1>6 DEF Todo
    <2> QED BY <2>1, <1>3, <1>5, <1>6
  <1>7. CASE cmd = "disable"
    <2>1. Todo(cmd, e) = RecoverAll \o <<<<"adopt", e>>, <<"leftovers", e>>>> BY <1>7 DEF Todo
    <2> QED BY <2>1, <1>3, <1>7
  <1>8. CASE cmd = "repair"
    <2>1. Todo(cmd, e) = RecoverAll \o <<<<"repair", e>>>> BY <1>8 DEF Todo
    <2> QED BY <2>1, <1>3, <1>8
  <1>9. CASE cmd = "repairall"
    <2>1. Todo(cmd, e) = RecoverAll \o (Both("repair") \o <<<<"modules", e>>, <<"tree", e>>, <<"leftovers", e>>>>)
      BY <1>9 DEF Todo
    <2> QED BY <2>1, <1>3, <1>4, <1>5, <1>9
  <1>10. CASE cmd = "sweep"
    <2>1. Todo(cmd, e) = RecoverAll \o (Both("adopt") \o Prunes(e)) BY <1>10 DEF Todo
    <2> QED BY <2>1, <1>3, <1>4, <1>5, <1>10
  <1>11. CASE cmd = "clean"
    <2>1. Todo(cmd, e) = RecoverAll \o ((Both("adopt") \o Prunes(e)) \o <<<<"swept", e>>>>) BY <1>11 DEF Todo
    <2> DEFINE a == Both("adopt")
               y == Prunes(e)
               z == <<<<"swept", e>>>>
               x == (a \o y) \o z
    <2>2. a \in Lists /\ y \in Lists /\ z \in Lists /\ Todo(cmd, e) = RecoverAll \o x
          /\ \A f \in Edition : \E i \in 1..Len(a) : a[i] = <<"adopt", f>>
      BY <2>1, <1>1, <1>2, <1>3, <1>4
    <2> HIDE DEF a, y, z
    <2>3. a \o y \in Lists /\ x \in Lists BY <2>2, <1>5
    <2>4. \A i \in 1..Len(a) : i \in 1..Len(x) /\ x[i] = a[i]
      <3>1. Len(a) \in Nat /\ Len(y) \in Nat /\ Len(z) \in Nat BY <2>2 DEF Lists
      <3>2. /\ Len(a \o y) = Len(a) + Len(y) /\ Len(x) = Len(a \o y) + Len(z)
            /\ \A i \in 1..Len(a) : (a \o y)[i] = a[i]
            /\ \A i \in 1..Len(a \o y) : x[i] = (a \o y)[i]
        BY <2>2, <2>3, ConcatProperties DEF Lists
      <3> QED BY <3>1, <3>2
    <2> HIDE DEF x
    <2>5. \A f \in Edition : \E i \in 1..Len(x) : x[i] = <<"adopt", f>>
      <3> SUFFICES ASSUME NEW f \in Edition PROVE \E i \in 1..Len(x) : x[i] = <<"adopt", f>> OBVIOUS
      <3>1. PICK i \in 1..Len(a) : a[i] = <<"adopt", f>> BY <2>2
      <3> QED BY <3>1, <2>4
    <2> QED BY <2>2, <2>3, <2>5
  <1> QED BY <1>6, <1>7, <1>8, <1>9, <1>10, <1>11 DEF Commands

LEMMA TodoFirst ==
  ASSUME NEW cmd \in Commands \ {"none"}, NEW e \in Edition
  PROVE /\ RecoversFirst(Todo(cmd, e))
        /\ cmd = "clean" => \A f \in Edition : \E i \in 1..Len(Todo(cmd, e)) : Todo(cmd, e)[i] = <<"adopt", f>>
  <1>1. PICK x \in Lists : /\ Todo(cmd, e) = RecoverAll \o x
                           /\ cmd = "clean" => \A f \in Edition : \E i \in 1..Len(x) : x[i] = <<"adopt", f>>
    BY TodoRest
  <1>2. Len(Order) \in Nat /\ \A i \in 1..Len(Order) : Order[i] \in Edition BY PowerShellAssumption, SMT
  <1> DEFINE b == Both("recover")
             s == <<<<"swap", Order[1]>>>>
  <1>3. RecoverAll = b \o s BY DEF RecoverAll, HostsOnly
  <1>4. b \in Lists /\ Len(b) = Len(Order) /\ \A i \in 1..Len(Order) : b[i] = <<"recover", Order[i]>>
    <2>1. "recover" \in Tasks BY DEF Tasks
    <2> DEFINE z == [i \in 1..Len(Order) |-> <<"recover", Order[i]>>]
    <2>2. z \in [1..Len(Order) -> Tasks \X Edition] BY <1>2, <2>1
    <2>3. z \in Seq(Tasks \X Edition) BY <1>2, <2>2, SeqDef
    <2>4. Len(z) = Len(Order) BY <1>2, <2>3, LenProperties
    <2>5. b = z BY DEF Both
    <2> QED BY <2>3, <2>4, <2>5 DEF Lists
  <1>5. s \in Lists /\ Len(s) = 1 BY Somebody, SMT DEF Lists, Tasks
  <1> HIDE DEF b, s
  <1> DEFINE r == RecoverAll
             z == Todo(cmd, e)
  <1>6. r \in Lists /\ Len(r) = Len(b) + 1 /\ \A i \in 1..Len(b) : r[i] = b[i]
    <2>1. r = b \o s BY <1>3
    <2> HIDE DEF r
    <2>2. Len(b) \in Nat BY <1>4 DEF Lists
    <2> DEFINE P == Tasks \X Edition
    <2>3. /\ r \in Lists /\ Len(r) = Len(b) + Len(s)
          /\ \A i \in 1..(Len(b) + Len(s)) : r[i] = IF i <= Len(b) THEN b[i] ELSE s[i - Len(b)]
      <3>1. b \in Seq(P) /\ s \in Seq(P) /\ Lists = Seq(P) BY <1>4, <1>5 DEF Lists
      <3> HIDE DEF P
      <3>2. /\ r \in Seq(P) /\ Len(r) = Len(b) + Len(s)
            /\ \A i \in 1..(Len(b) + Len(s)) : r[i] = IF i <= Len(b) THEN b[i] ELSE s[i - Len(b)]
        BY <2>1, <3>1, ConcatProperties
      <3> QED BY <3>1, <3>2
    <2> QED BY <2>2, <2>3, <1>5
  <1>7. z = r \o x BY <1>1
  <1> HIDE DEF r, z
  <1>8. /\ Len(r) \in Nat /\ Len(x) \in Nat /\ Len(z) = Len(r) + Len(x)
        /\ \A i \in 1..Len(r) : z[i] = r[i]
        /\ \A i \in 1..Len(x) : z[Len(r) + i] = x[i]
    <2>1. Len(r) \in Nat /\ Len(x) \in Nat BY <1>6 DEF Lists
    <2>2. /\ Len(z) = Len(r) + Len(x)
          /\ \A i \in 1..(Len(r) + Len(x)) : z[i] = IF i <= Len(r) THEN r[i] ELSE x[i - Len(r)]
      BY <1>6, <1>7, ConcatProperties DEF Lists
    <2> QED BY <2>1, <2>2
  <1>9. RecoversFirst(z)
    <2>1. \A i \in 1..Len(Order) : i \in 1..Len(r) /\ i \in 1..Len(z) BY <1>2, <1>4, <1>6, <1>8
    <2> QED BY <2>1, <1>4, <1>6, <1>8 DEF RecoversFirst
  <1>10. cmd = "clean" => \A f \in Edition : \E i \in 1..Len(z) : z[i] = <<"adopt", f>>
    <2> SUFFICES ASSUME cmd = "clean", NEW f \in Edition PROVE \E i \in 1..Len(z) : z[i] = <<"adopt", f>> OBVIOUS
    <2>1. PICK i \in 1..Len(x) : x[i] = <<"adopt", f>> BY <1>1
    <2>2. Len(r) + i \in 1..Len(z) /\ z[Len(r) + i] = x[i] BY <1>8
    <2> QED BY <2>1, <2>2
  <1> QED BY <1>9, <1>10 DEF z

-----------------------------------------------------------------------------
(* A committed journal is recovered before it is in the way.                *)

Committed(e) == journal[e].phase = "committed"
OnlyPrunes == \A i \in 1..Len(op.todo) : op.todo[i][1] \in {"modules", "leftovers"}

\* A committed journal is still to be recovered, or is about to be removed, or
\* is left to the next command; none is open meanwhile; and it is recovered
\* before the payload's.
CommitsShut == op # Idle => \A e \in Edition : Committed(e) =>
  HasTask({"recover"}, e) \/ (e = Cur /\ op.pc \in Finishes) \/ OnlyPrunes
OneCommit == \A e, f \in Edition : Committed(e) => journal[f].phase # "open"
RecoverFirst ==
  \A e \in Edition : Committed(e) =>
    \A i \in 1..Len(op.todo) : op.todo[i][1] = "swap" =>
      \E j \in 1..Len(op.todo) : j < i /\ op.todo[j] = <<"recover", e>>
CommitsKept == CommitsShut /\ OneCommit /\ RecoverFirst

\* The steps that write a journal.
LEMMA JournalWriters ==
  ASSUME Next
  PROVE UNCHANGED journal \/ RolledBack \/ DropJournal \/ OpenJournal \/ Commit \/ FinishJournal \/ RetireTree
  <1>1. CASE Recovers
    BY <1>1 DEF Recovers, Recover, Restore, Unpublish, Unretire, RestoreValues, RestoreState,
                TidySwap, TidyDrop, TidyState, Swap, SwapRoot, SwapRename, SwapClean, SwapDrop, disk
  <1>2. CASE Enables
    BY <1>2 DEF Enables, Enable, Tree, Install, Reinstall, Adopt, Adopted, Resume, Begin, Ensure, SwapJournal,
                Aside, Deploy, Stage, Publish, Prepared, Retire, GoLive, Write, MarkInstalled,
                Verify, Finish, FinishSwap, FinishState, Undo, UndoRoot, UndoName,
                UndoClean, Upgrade, CommitSwap, Version, disk
  <1>3. CASE Removes
    BY <1>3 DEF Removes, Uninstalls, Examine, Excise, Restate, Forget, Erase, Erased, Cleanup, CleanPayload, disk
  <1>4. CASE Tidies
    BY <1>4 DEF Tidies, Repair, ReadStrip, StripBlocks, Modules, Leftovers, Swept, Wipe, disk
  <1>5. CASE World
    BY <1>5 DEF World, UserCommand, SweepStart, BackgroundEnable, BackgroundRepair, OrphanClean, Command,
                NewBuild, Remove, Edit, Crash, Fail, disk
  <1> QED BY <1>1, <1>2, <1>3, <1>4, <1>5 DEF Next

\* Only a commit commits, and only a new transaction opens.
LEMMA PhasesGo ==
  ASSUME Types, Control, [Next]_vars, NEW e \in Edition
  PROVE /\ Committed(e)' => Committed(e) \/ (Commit /\ e = Cur)
        /\ journal'[e].phase = "open" => journal[e].phase = "open" \/ (OpenJournal /\ e = Cur)
  <1>0. journal \in [Edition -> Journals] /\ Cur \in Edition BY Running DEF Types
  <1>e. NoEntry.phase = "none" BY DEF NoEntry
  <1>s. ASSUME NEW x, journal' = [journal EXCEPT ![Cur].phase = x] PROVE journal'[Cur].phase = x
    BY <1>0, <1>s DEF Journals, Entries
  <1>1. CASE UNCHANGED journal BY <1>1 DEF Committed
  <1>2. CASE RolledBack
    <2>1. journal' = [journal EXCEPT ![Cur].phase = "rolledback"] BY <1>2 DEF RolledBack, SetJournal
    <2>2. e # Cur => journal'[e] = journal[e] BY <2>1, <1>0
    <2>3. journal'[Cur].phase = "rolledback" BY <2>1, <1>s
    <2> QED BY <2>2, <2>3 DEF Committed
  <1>3. CASE DropJournal \/ FinishJournal
    <2>1. journal' = [journal EXCEPT ![Cur] = NoEntry] BY <1>3 DEF DropJournal, FinishJournal
    <2> QED BY <2>1, <1>0, <1>e DEF Committed
  <1>4. CASE OpenJournal
    <2> DEFINE x == Opened(T, op.was)
    <2>1. journal' = [journal EXCEPT ![Cur] = x] /\ x.phase = "open" BY <1>4 DEF OpenJournal, Opened
    <2> HIDE DEF x
    <2> QED BY <2>1, <1>0, <1>4 DEF Committed
  <1>5. CASE Commit
    <2>1. journal' = [journal EXCEPT ![Cur].phase = "committed"] BY <1>5 DEF Commit, SetJournal
    <2>2. e # Cur => journal'[e] = journal[e] BY <2>1, <1>0
    <2>3. journal'[Cur].phase = "committed" BY <2>1, <1>s
    <2> QED BY <2>2, <2>3, <1>5 DEF Committed
  <1>6. CASE RetireTree
    <2>1. UNCHANGED journal \/ journal' = [f \in Edition |-> NoEntry] BY <1>6 DEF RetireTree
    <2> QED BY <2>1, <1>e DEF Committed
  <1>7. UNCHANGED vars => UNCHANGED journal BY DEF vars, disk
  <1> QED BY <1>1, <1>2, <1>3, <1>4, <1>5, <1>6, <1>7, JournalWriters

\* Past the recovery nothing is committed but by the running installation.
LEMMA NoCommit ==
  ASSUME Types, Control, Midway, CommitsShut, op.pc # "idle", op.pc \notin Finishes,
         op.todo[1][1] \notin Backs \cup {"modules", "leftovers"}
  PROVE \A e \in Edition : ~Committed(e)
  <1>1. \A i \in 1..Len(op.todo) : op.todo[i][1] \notin Backs BY Quiet
  <1>2. op # Idle /\ op.todo \in Lists /\ op.todo # <<>> BY Running
  <1>3. 1 \in 1..Len(op.todo) BY <1>2, Listed
  <1>4. ~OnlyPrunes BY <1>3 DEF OnlyPrunes
  <1>5. \A e \in Edition : ~HasTask({"recover"}, e) BY <1>1 DEF HasTask, Backs
  <1> QED BY <1>2, <1>4, <1>5 DEF CommitsShut

\* What is left of the list, and with how much trouble behind it.
Goes(s) == op' = Idle \/ (s # <<>> /\ op'.todo = s /\ op'.pc = s[1][1] /\ op'.cmd = op.cmd /\ op'.worst = op.worst)

LEMMA RunsTo ==
  ASSUME Types, Control, op # Idle, NEW s, Runs(s)
  PROVE Goes(s)
  <1>1. CASE s = <<>> BY <1>1 DEF Runs, Continues, Ends, Goes
  <1>2. CASE s # <<>>
    <2>1. op' = [NextTask(s) EXCEPT !.worst = op.worst] BY <1>2 DEF Runs, Continues
    <2>2. op' = [op EXCEPT !.todo = s, !.pc = Head(s)[1], !.tx = NoTx, !.seen = Absent,
                           !.was = NoMarker, !.inplace = FALSE, !.worst = op.worst]
      BY <2>1 DEF NextTask, Types, Jobs
    <2>3. op'.todo = s /\ op'.pc = Head(s)[1] /\ op'.cmd = op.cmd /\ op'.worst = op.worst
      BY <2>2 DEF Types, Jobs
    <2> QED BY <1>2, <2>3 DEF Goes
  <1> QED BY <1>1, <1>2

LEMMA GotoRuns ==
  ASSUME Types, NEW q, Goto(q)
  PROVE op'.todo = op.todo /\ op'.pc = q /\ op'.cmd = op.cmd /\ op'.worst = op.worst /\ op'.undoing = op.undoing
        /\ op'.tx = op.tx /\ op'.seen = op.seen /\ op'.was = op.was /\ op'.inplace = op.inplace
  BY DEF Goto, Types, Jobs

\* The lists of a recovery.
SameList == op'.todo = op.todo /\ op'.cmd = op.cmd /\ op'.worst = op.worst
LEMMA RecoversTodo ==
  ASSUME Types, Control, Recovers
  PROVE \/ op' = Idle
        \/ SameList
        \/ /\ Goes(Tail(op.todo))
           /\ \/ op.pc = "recover" /\ J.phase = "none"
              \/ DropJournal
              \/ op.todo[1][1] = "swap"
        \/ Goes(RollList(Cur, Tail(op.todo))) /\ RestoreState
  <1>0. op.pc # "idle" => op # Idle BY Running
  <1>g. \A q : Goto(q) => SameList BY GotoRuns DEF SameList
  <1>1. CASE Recover
    <2>0. op.pc = "recover" BY <1>1 DEF Recover, At
    <2>1. \/ (Done /\ J.phase = "none") \/ Goto("tidyswap") \/ Goto("unpublish") \/ Abort("refused") \/ Abort("confirm")
          \/ op' = [op EXCEPT !.seen = profile[Cur], !.pc = "restore"] /\ UNCHANGED last
      BY <1>1 DEF Recover
    <2>2. CASE Done /\ J.phase = "none" BY <2>0, <2>2, <1>0, RunsTo DEF Done
    <2>3. CASE Abort("refused") \/ Abort("confirm") BY <2>0, <2>3 DEF Abort, Recovering, Ends
    <2>4. CASE op' = [op EXCEPT !.seen = profile[Cur], !.pc = "restore"]
      BY <2>4 DEF SameList, Types, Jobs
    <2> QED BY <2>1, <2>2, <2>3, <2>4, <1>g
  <1>2. CASE Restore
    <2>1. op.pc = "restore" /\ (Goto("unpublish") \/ Abort("refused")) BY <1>2 DEF Restore, At, Replaced
    <2>2. CASE Abort("refused") BY <2>1, <2>2 DEF Abort, Recovering, Ends
    <2> QED BY <2>1, <2>2, <1>g
  <1>3. CASE RestoreState
    <2>1. op.pc = "state" /\ (Goto("rolled") \/ Instead(<<<<"swap", Cur>>, <<"rolled", Cur>>>>))
      BY <1>3 DEF RestoreState, At
    <2>2. CASE Instead(<<<<"swap", Cur>>, <<"rolled", Cur>>>>)
      <3> DEFINE s == RollList(Cur, Tail(op.todo))
      <3>1. Runs(s) BY <2>2 DEF Instead, RollList
      <3> HIDE DEF s
      <3>2. Goes(s) BY <2>1, <3>1, <1>0, RunsTo
      <3> QED BY <3>2, <1>3 DEF s
    <2> QED BY <2>1, <2>2, <1>g
  <1>4. CASE DropJournal
    <2>1. op.pc = "dropjournal" /\ Done BY <1>4 DEF DropJournal, At
    <2> QED BY <2>1, <1>0, <1>4, RunsTo DEF Done
  <1>5. CASE Swap \/ SwapDrop
    <2>1. op.pc \in {"swap", "swapdrop"} /\ (Done \/ Goto("swaproot") \/ Goto("swapclean"))
      BY <1>5 DEF Swap, SwapDrop, At
    <2>2. op.todo[1][1] = "swap" /\ op # Idle BY <2>1, <1>0, TaskOf
    <2>3. CASE Done BY <2>2, <2>3, RunsTo DEF Done
    <2> QED BY <2>1, <2>3, <1>g
  <1>6. CASE Unpublish \/ Unretire \/ RestoreValues \/ RolledBack \/ TidySwap \/ TidyDrop \/ TidyState
             \/ SwapRoot \/ SwapRename \/ SwapClean
    BY <1>6, <1>g DEF Unpublish, Unretire, RestoreValues, RolledBack, TidySwap, TidyDrop, TidyState,
                      SwapRoot, SwapRename, SwapClean
  <1> QED BY <1>1, <1>2, <1>3, <1>4, <1>5, <1>6 DEF Recovers

\* Commands, and what else happens to a command that runs.
LEMMA WorldIdle ==
  ASSUME Types, Control, World, op = Idle
  PROVE \/ UNCHANGED op
        \/ \E cmd \in Commands \ {"none"}, e \in Edition, user \in BOOLEAN :
             /\ Command(cmd, e, user) /\ (cmd = "repair" => user) /\ (cmd = "repairall" => ~user)
             /\ cmd = "clean" <=> build = 0
  <1>0. Order[1] \in Edition BY Somebody
  <1>1. CASE UserCommand
    <2>1. PICK e \in Edition, cmd \in {"enable", "disable", "repair", "sweep"} : Command(cmd, e, TRUE)
      BY <1>1 DEF UserCommand
    <2>2. build # 0 /\ cmd \in Commands \ {"none"} /\ cmd \notin {"clean", "repairall"}
      BY <1>1 DEF UserCommand, Commands
    <2> QED BY <2>1, <2>2
  <1>2. CASE BackgroundEnable
    <2>1. PICK e \in targets : Command("enable", e, FALSE) BY <1>2 DEF BackgroundEnable
    <2>2. build # 0 /\ e \in Edition /\ "enable" \in Commands \ {"none"} BY <1>2 DEF BackgroundEnable, Types, Commands
    <2> QED BY <2>1, <2>2
  <1>3. CASE BackgroundRepair
    <2>1. build # 0 /\ Command("repairall", Order[1], FALSE) /\ "repairall" \in Commands \ {"none"}
      BY <1>3 DEF BackgroundRepair, Commands
    <2> QED BY <1>0, <2>1
  <1>4. CASE OrphanClean
    <2>1. build = 0 /\ Command("clean", Order[1], TRUE) /\ "clean" \in Commands \ {"none"}
      BY <1>4 DEF OrphanClean, Commands
    <2> QED BY <1>0, <2>1
  <1>5. CASE SweepStart \/ NewBuild \/ Remove \/ Edit BY <1>5 DEF SweepStart, NewBuild, Remove, Edit
  <1>6. ~Crash BY DEF Crash
  <1>7. CASE Fail
    <2>1. op.pc = "idle" BY DEF Idle
    <2> QED BY <1>7, <2>1, SMT DEF Fail, Undoes, Finishes, Reports, Recovering
  <1> QED BY <1>1, <1>2, <1>3, <1>4, <1>5, <1>6, <1>7 DEF World

\* A failure of a step of the recovery ends the command.
LEMMA WorldBusy ==
  ASSUME Types, Control, World, op.pc # "idle"
  PROVE /\ UNCHANGED op \/ op' = Idle \/ Fail
        /\ op.todo[1][1] \in Backs => UNCHANGED op \/ op' = Idle
  <1>0. op # Idle BY Running
  <1>1. UNCHANGED op \/ op' = Idle \/ Fail
    BY <1>0 DEF World, UserCommand, SweepStart, BackgroundEnable, BackgroundRepair, OrphanClean, Command,
                NewBuild, Remove, Edit, Crash
  <1>2. ASSUME Fail, op.todo[1][1] \in Backs PROVE op' = Idle
    <2>1. op.pc \in StepsOf("recover") \cup StepsOf("swap") BY <1>0, <1>2, SMT DEF Control, Backs, StepsOf
    <2>2. op.pc \notin Undoes \cup Finishes \cup {"excise", "stripped"} /\ op.pc \in Recovering
      BY <2>1, SMT DEF StepsOf, Undoes, Finishes, Recovering
    <2>3. Abort("failed") BY <1>2, <2>2 DEF Fail
    <2> QED BY <2>2, <2>3 DEF Abort, Ends
  <1> QED BY <1>1, <1>2

\* The list of the rest.
LEMMA Rest ==
  ASSUME Types, Control, op.pc # "idle"
  PROVE LET s == Tail(op.todo)
        IN /\ op.todo \in Lists /\ Len(op.todo) \in Nat /\ Len(op.todo) >= 1 /\ op.todo # <<>>
           /\ s \in Lists /\ Len(s) \in Nat /\ Len(s) = Len(op.todo) - 1
           /\ \A i \in 1..Len(s) : s[i] = op.todo[i + 1] /\ i + 1 \in 1..Len(op.todo)
           /\ \A i \in 1..Len(op.todo) : i = 1 \/ (i - 1 \in 1..Len(s) /\ s[i - 1] = op.todo[i])
  <1>1. op.todo \in Lists /\ op.todo # <<>> BY Running
  <1>2. /\ Len(op.todo) \in Nat /\ Len(op.todo) >= 1
        /\ Tail(op.todo) \in Lists /\ Len(Tail(op.todo)) = Len(op.todo) - 1
        /\ \A i \in 1..Len(Tail(op.todo)) : Tail(op.todo)[i] = op.todo[i + 1]
    BY <1>1, Listed
  <1> DEFINE s == Tail(op.todo)
  <1>3. /\ s \in Lists /\ Len(s) = Len(op.todo) - 1 /\ \A i \in 1..Len(s) : s[i] = op.todo[i + 1]
    BY <1>2
  <1> HIDE DEF s
  <1>4. Len(s) \in Nat /\ \A i \in 1..Len(s) : s[i] = op.todo[i + 1] /\ i + 1 \in 1..Len(op.todo)
    BY <1>2, <1>3
  <1>5. \A i \in 1..Len(op.todo) : i = 1 \/ (i - 1 \in 1..Len(s) /\ s[i - 1] = op.todo[i])
    BY <1>2, <1>3
  <1> QED BY <1>1, <1>2, <1>3, <1>4, <1>5 DEF s

\* What is said of one host.
CommitAt(e) ==
  /\ op # Idle => HasTask({"recover"}, e) \/ (e = Cur /\ op.pc \in Finishes) \/ OnlyPrunes
  /\ \A i \in 1..Len(op.todo) : op.todo[i][1] = "swap" =>
       \E j \in 1..Len(op.todo) : j < i /\ op.todo[j] = <<"recover", e>>

\* A host whose journal waits for the recovery.
LEMMA WaitsOn ==
  ASSUME Types, Control, Midway, OneCommit, Types', Control', [Next]_vars, op.pc # "idle",
         NEW e \in Edition, Committed(e), Committed(e)', CommitAt(e), HasTask({"recover"}, e)
  PROVE CommitAt(e)'
  <1>0. op # Idle /\ Cur \in Edition BY Running
  <1> DEFINE s == Tail(op.todo)
  <1>1. /\ Len(op.todo) \in Nat /\ Len(s) \in Nat /\ Len(s) = Len(op.todo) - 1
        /\ \A i \in 1..Len(s) : s[i] = op.todo[i + 1] /\ i + 1 \in 1..Len(op.todo)
        /\ \A i \in 1..Len(op.todo) : i = 1 \/ (i - 1 \in 1..Len(s) /\ s[i - 1] = op.todo[i])
    BY Rest
  <1> HIDE DEF s
  <1>2. PICK k \in 1..Len(op.todo) : op.todo[k][1] = "recover" /\ op.todo[k][2] = e BY DEF HasTask
  <1>3. op.todo[1][1] \in Backs
    <2>1. CASE op.todo[1][1] \notin Backs BY <2>1, <1>2, Quiet DEF Backs
    <2> QED BY <2>1
  <1>4. op.todo[1][1] # "swap"
    <2>1. CASE op.todo[1][1] = "swap"
      <3>1. 1 \in 1..Len(op.todo) BY <1>1, <1>2
      <3>2. \E j \in 1..Len(op.todo) : j < 1 BY <2>1, <3>1 DEF CommitAt
      <3> QED BY <3>2
    <2> QED BY <2>1
  <1>5. CASE op' = Idle
    <2>1. Len(op'.todo) = 0 BY <1>5, SMT DEF Idle
    <2> QED BY <1>5, <2>1 DEF CommitAt
  <1>6. CASE op'.todo = op.todo
    BY <1>6 DEF CommitAt, HasTask
  <1>7. CASE op'.todo = s /\ ~(e = Cur)
    <2>1. k # 1 BY <1>0, <1>2, <1>7, Running
    <2>2. k - 1 \in 1..Len(s) /\ s[k - 1] = op.todo[k] BY <1>1, <2>1
    <2>3. HasTask({"recover"}, e)' BY <1>2, <1>7, <2>2 DEF HasTask
    <2>4. ASSUME NEW i \in 1..Len(s), s[i][1] = "swap" PROVE \E j \in 1..Len(s) : j < i /\ s[j] = <<"recover", e>>
      <3>1. i + 1 \in 1..Len(op.todo) /\ op.todo[i + 1][1] = "swap" BY <1>1, <2>4
      <3>2. PICK j \in 1..Len(op.todo) : j < i + 1 /\ op.todo[j] = <<"recover", e>> BY <3>1 DEF CommitAt
      <3>3. j # 1 BY <1>0, <1>7, <3>2, Running
      <3>4. j - 1 \in 1..Len(s) /\ s[j - 1] = <<"recover", e>> /\ j - 1 < i BY <1>1, <3>2, <3>3
      <3> QED BY <3>4
    <2> QED BY <2>3, <2>4, <1>7 DEF CommitAt
  <1>8. CASE Recovers
    <2>1. \/ op' = Idle \/ SameList
          \/ /\ Goes(s)
             /\ \/ op.pc = "recover" /\ J.phase = "none"
                \/ DropJournal
                \/ op.todo[1][1] = "swap"
          \/ RestoreState
      BY <1>8, RecoversTodo DEF s
    <2>2. ~RestoreState
      <3>1. CASE RestoreState
        <4>1. op.pc = "state" BY <3>1 DEF RestoreState, At
        <4>2. J.phase = "open" BY <4>1 DEF Midway, Phased, RollingBack
        <4> QED BY <1>0, <4>2 DEF OneCommit, J
      <3> QED BY <3>1
    <2>3. CASE Goes(s) /\ (op.pc = "recover" /\ J.phase = "none")
      <3>1. e # Cur BY <2>3 DEF Committed, J
      <3> QED BY <2>3, <3>1, <1>5, <1>7 DEF Goes
    <2>4. CASE Goes(s) /\ DropJournal
      <3>1. journal' = [journal EXCEPT ![Cur] = NoEntry] /\ journal \in [Edition -> Journals]
        BY <2>4 DEF DropJournal, Types
      <3>2. e # Cur BY <3>1 DEF Committed, NoEntry
      <3> QED BY <2>4, <3>2, <1>5, <1>7 DEF Goes
    <2> QED BY <2>1, <2>2, <2>3, <2>4, <1>4, <1>5, <1>6 DEF SameList
  <1>9. CASE World BY <1>3, <1>5, <1>6, <1>9, WorldBusy
  <1>10. CASE UNCHANGED vars BY <1>6, <1>10 DEF vars
  <1> QED BY <1>3, <1>8, <1>9, <1>10, Sides

\* A host whose journal is left to the next command.
LEMMA LeftOn ==
  ASSUME Types, Control, Midway, Types', Control', [Next]_vars, op.pc # "idle",
         NEW e \in Edition, Committed(e)', CommitAt(e), (e = Cur /\ op.pc \in Finishes) \/ OnlyPrunes
  PROVE CommitAt(e)'
  <1>0. op # Idle /\ Cur \in Edition BY Running
  <1> DEFINE s == Tail(op.todo)
  <1>1. /\ Len(op.todo) \in Nat /\ Len(op.todo) >= 1 /\ Len(s) \in Nat /\ Len(s) = Len(op.todo) - 1
        /\ \A i \in 1..Len(s) : s[i] = op.todo[i + 1] /\ i + 1 \in 1..Len(op.todo)
    BY Rest
  <1>2. op.pc \in Finishes => op.todo[1][1] \in {"begin", "replace", "upgrade"} BY TaskOf, SMT DEF Finishes, Shared, Whole
  <1>3. \A i \in 1..Len(s) : s[i][1] \in {"modules", "leftovers"}
    <2>1. CASE op.pc \in Finishes BY <1>0, <1>2, <2>1, Follow
    <2>2. CASE OnlyPrunes BY <1>1, <2>2 DEF OnlyPrunes
    <2> QED BY <2>1, <2>2
  <1>4. op.pc \notin Finishes => op.pc \in {"modules", "leftovers"} /\ op.todo[1][1] \in {"modules", "leftovers"}
    <2>1. OnlyPrunes => op.todo[1][1] \in {"modules", "leftovers"} BY <1>1 DEF OnlyPrunes
    <2>2. op.todo[1][1] \in {"modules", "leftovers"} => op.pc \in {"modules", "leftovers"}
      BY <1>0, SMT DEF Control, StepsOf
    <2> QED BY <2>1, <2>2
  <1> HIDE DEF s
  <1>5. CASE op' = Idle
    <2>1. Len(op'.todo) = 0 BY <1>5, SMT DEF Idle
    <2> QED BY <1>5, <2>1 DEF CommitAt
  <1>6. CASE Goes(s)
    <2>1. CASE op'.todo = s BY <1>3, <2>1 DEF CommitAt, OnlyPrunes
    <2> QED BY <2>1, <1>5, <1>6 DEF Goes
  <1>7. CASE UNCHANGED op
    BY <1>7 DEF CommitAt, HasTask, OnlyPrunes, Cur
  <1>8. ASSUME NEW q \in Finishes, Goto(q), op.pc \in Finishes PROVE CommitAt(e)'
    <2>1. op'.todo = op.todo /\ op'.pc = q BY <1>8, GotoRuns
    <2>2. Cur' = Cur BY <2>1 DEF Cur
    <2> QED BY <2>1, <2>2, <1>0, <1>8 DEF CommitAt, HasTask, OnlyPrunes
  <1>9. Done => Goes(s) BY <1>0, RunsTo DEF Done, s
  <1>10. CASE Finish \/ FinishSwap \/ FinishState \/ FinishJournal
    <2>1. op.pc \in Finishes BY <1>10 DEF Finish, FinishSwap, FinishState, FinishJournal, At, Finishes
    <2>2. Done \/ \E q \in Finishes : Goto(q)
      BY <1>10 DEF Finish, FinishSwap, FinishState, FinishJournal, Finishes
    <2> QED BY <2>1, <2>2, <1>6, <1>8, <1>9
  <1>11. CASE Modules \/ Leftovers BY <1>6, <1>9, <1>11 DEF Modules, Leftovers
  <1>12. CASE World
    <2>1. UNCHANGED op \/ op' = Idle \/ Fail BY <1>12, WorldBusy
    <2>2. CASE Fail
      <3>1. op.pc \in Finishes \cup {"modules", "leftovers"} BY <1>4
      <3>2. op.pc \notin Undoes \cup Reports \cup {"excise"} BY <3>1, SMT DEF Finishes, Undoes, Reports, Recovering
      <3> QED BY <2>2, <3>2, <1>6, <1>9 DEF Fail
    <2> QED BY <2>1, <2>2, <1>5, <1>7
  <1>13. CASE UNCHANGED vars BY <1>7, <1>13 DEF vars
  <1>14. op.pc \in Finishes \cup {"modules", "leftovers"} /\ op.todo[1][1] \notin Backs
    BY <1>2, <1>4 DEF Backs
  <1>15. Enables => Finish \/ FinishSwap \/ FinishState \/ FinishJournal
    <2>1. op.pc \notin {"enable", "tree", "install", "reinstall", "adopt", "adopted", "resume", "begin", "replace",
            "payload", "swapjournal", "aside", "deploy", "stage", "journal", "publish", "prepared", "retire", "live",
            "write", "installed", "verify", "commit", "undo", "undoroot", "undoname", "undoclean", "upgrade",
            "commitswap", "version"}
      BY <1>14, SMT DEF Finishes
    <2>2. ~(Enable \/ Tree \/ Install \/ Reinstall \/ Adopt \/ Adopted \/ Resume \/ Begin \/ Upgrade
              \/ CommitSwap \/ Version)
      BY <2>1 DEF Enable, Tree, Install, Reinstall, Adopt, Adopted, Resume, Begin, Upgrade, CommitSwap, Version, At
    <2>3. ~(Ensure \/ SwapJournal \/ Aside \/ Deploy \/ Undo \/ UndoRoot \/ UndoName \/ UndoClean)
      BY <2>1 DEF Ensure, SwapJournal, Aside, Deploy, Undo, UndoRoot, UndoName, UndoClean, At
    <2>4. ~(Stage \/ OpenJournal \/ Publish \/ Prepared \/ Retire \/ GoLive \/ Write \/ MarkInstalled \/ Verify \/ Commit)
      BY <2>1 DEF Stage, OpenJournal, Publish, Prepared, Retire, GoLive, Write, MarkInstalled, Verify, Commit, At
    <2> QED BY <2>2, <2>3, <2>4, Zenon DEF Enables
  <1>16. ~Removes
    <2>1. op.pc \notin {"uninstall", "examine", "excise", "restate", "forget", "erase", "erased", "cleanup",
                        "cleanpayload"}
      BY <1>14, SMT DEF Finishes
    <2>2. ~(Uninstalls \/ Examine \/ Excise \/ Restate) BY <2>1 DEF Uninstalls, Examine, Excise, Restate, At
    <2>3. ~(Forget \/ Erase \/ Erased \/ Cleanup \/ CleanPayload)
      BY <2>1 DEF Forget, Erase, Erased, Cleanup, CleanPayload, At
    <2> QED BY <2>2, <2>3, Zenon DEF Removes
  <1>17. Tidies => Modules \/ Leftovers
    <2>1. op.pc \notin {"repair", "strip", "stripped", "swept", "wipe", "retiretree"} BY <1>14, SMT DEF Finishes
    <2> QED BY <2>1 DEF Tidies, Repair, ReadStrip, StripBlocks, Swept, Wipe, RetireTree, At
  <1> QED BY <1>10, <1>11, <1>12, <1>13, <1>14, <1>15, <1>16, <1>17, Sides

\* Without a command only the world moves.
LEMMA Resting ==
  ASSUME op = Idle, [Next]_vars
  PROVE World \/ UNCHANGED op
  <1>0. op.pc = "idle" BY DEF Idle
  <1>1. ~Recovers
    <2>1. ~(Recover \/ Restore \/ Unpublish \/ Unretire \/ RestoreValues \/ RestoreState \/ RolledBack \/ TidySwap)
      BY <1>0 DEF Recover, Restore, Unpublish, Unretire, RestoreValues, RestoreState, RolledBack, TidySwap, At
    <2>2. ~(TidyDrop \/ TidyState \/ DropJournal \/ Swap \/ SwapRoot \/ SwapRename \/ SwapClean \/ SwapDrop)
      BY <1>0 DEF TidyDrop, TidyState, DropJournal, Swap, SwapRoot, SwapRename, SwapClean, SwapDrop, At
    <2> QED BY <2>1, <2>2, Zenon DEF Recovers
  <1>2. ~Enables
    <2>1. ~(Enable \/ Tree \/ Install \/ Reinstall \/ Adopt \/ Adopted \/ Resume \/ Begin \/ Upgrade
              \/ CommitSwap \/ Version)
      BY <1>0 DEF Enable, Tree, Install, Reinstall, Adopt, Adopted, Resume, Begin, Upgrade, CommitSwap, Version, At
    <2>2. ~(Ensure \/ SwapJournal \/ Aside \/ Deploy \/ Finish \/ FinishSwap \/ Undo \/ UndoRoot \/ UndoName
              \/ UndoClean)
      BY <1>0 DEF Ensure, SwapJournal, Aside, Deploy, Finish, FinishSwap, Undo, UndoRoot, UndoName, UndoClean, At
    <2>3. ~(Stage \/ OpenJournal \/ Publish \/ Prepared \/ Retire \/ GoLive \/ Write \/ MarkInstalled \/ Verify
              \/ Commit \/ FinishState \/ FinishJournal)
      BY <1>0 DEF Stage, OpenJournal, Publish, Prepared, Retire, GoLive, Write, MarkInstalled, Verify, Commit,
               FinishState, FinishJournal, At
    <2> QED BY <2>1, <2>2, <2>3, Zenon DEF Enables
  <1>3. ~Removes
    <2>1. ~(Uninstalls \/ Examine \/ Excise \/ Restate) BY <1>0 DEF Uninstalls, Examine, Excise, Restate, At
    <2>2. ~(Forget \/ Erase \/ Erased \/ Cleanup \/ CleanPayload)
      BY <1>0 DEF Forget, Erase, Erased, Cleanup, CleanPayload, At
    <2> QED BY <2>1, <2>2, Zenon DEF Removes
  <1>4. ~Tidies
    BY <1>0 DEF Tidies, Repair, ReadStrip, StripBlocks, Modules, Leftovers, Swept, Wipe, RetireTree, At
  <1>5. UNCHANGED vars => UNCHANGED op BY DEF vars
  <1> QED BY <1>1, <1>2, <1>3, <1>4, <1>5, Zenon DEF Next

LEMMA CommitsStep ==
  ASSUME Types, Control, Midway, CommitsKept, Types', Control', [Next]_vars
  PROVE CommitsKept'
  <1>0. Cur \in Edition /\ (op.pc # "idle" => op # Idle) /\ (op = Idle => op.pc = "idle") BY Running DEF Idle
  <1>k. op # Idle => op.pc # "idle" BY Running
  <1>a. \A e \in Edition : Committed(e) => CommitAt(e) BY DEF CommitsKept, CommitsShut, RecoverFirst, CommitAt
  <1> SUFFICES ASSUME NEW e \in Edition, Committed(e)'
               PROVE CommitAt(e)' /\ \A f \in Edition : journal'[f].phase # "open"
    BY DEF CommitsKept, CommitsShut, OneCommit, RecoverFirst, CommitAt
  <1>1. CASE Commit /\ e = Cur
    <2>1. op.pc = "commit" /\ Goto("finish") /\ op.todo[1][1] \in {"begin", "replace"}
      <3>1. op.pc = "commit" /\ Goto("finish") BY <1>1 DEF Commit, At
      <3> QED BY <3>1, TaskOf DEF Whole
    <2>2. \A f \in Edition \ {Cur} : journal[f].phase # "open" BY <2>1, Quiet DEF Backs
    <2>3. \A f \in Edition : journal'[f].phase # "open"
      <3>1. ~OpenJournal BY <2>1 DEF OpenJournal, At
      <3> QED BY <2>2, <3>1, <1>1, PhasesGo DEF Committed
    <2>4. \A i \in 1..Len(op.todo) : op.todo[i][1] # "swap" BY <2>1, Quiet DEF Backs
    <2>5. op'.todo = op.todo /\ op'.pc = "finish" /\ Cur' = Cur BY <2>1, GotoRuns DEF Cur
    <2> QED BY <1>1, <2>3, <2>4, <2>5 DEF CommitAt, Finishes
  <1>2. CASE ~(Commit /\ e = Cur)
    <2>1. Committed(e) /\ CommitAt(e) BY <1>2, <1>a, PhasesGo
    <2>2. ~OpenJournal
      <3>1. CASE OpenJournal
        <4>1. op.pc = "journal" BY <3>1 DEF OpenJournal, At
        <4>2. op.todo[1][1] \in {"begin", "replace"} BY <4>1, TaskOf DEF Whole
        <4> QED BY <2>1, <4>1, <4>2, NoCommit DEF Backs, Finishes, CommitsKept
      <3> QED BY <3>1
    <2>3. \A f \in Edition : journal'[f].phase # "open" BY <2>1, <2>2, PhasesGo DEF CommitsKept, OneCommit
    <2>4. CASE op # Idle
      <3>1. HasTask({"recover"}, e) \/ (e = Cur /\ op.pc \in Finishes) \/ OnlyPrunes BY <2>1, <2>4 DEF CommitAt
      <3> QED BY <2>1, <2>3, <2>4, <3>1, <1>k, WaitsOn, LeftOn DEF CommitsKept
    <2>5. CASE op = Idle
      <3>1. UNCHANGED op => CommitAt(e)' BY <2>1 DEF CommitAt, HasTask, OnlyPrunes, Cur
      <3>2. World \/ UNCHANGED op BY <2>5, Resting
      <3>3. CASE World /\ ~UNCHANGED op
        <4>0. op.pc = "idle" BY <2>5 DEF Idle
        <4>1. PICK cmd \in Commands \ {"none"}, f \in Edition, user \in BOOLEAN :
                Command(cmd, f, user) /\ (cmd = "repair" => user) /\ (cmd = "repairall" => ~user) /\ (cmd = "clean" <=> build = 0)
          BY <2>5, <3>3, <4>0, WorldIdle
        <4> DEFINE s == Todo(cmd, f)
        <4>2. op'.todo = s BY <4>1, CommandOp
        <4>3. RecoversFirst(s) BY TodoFirst
        <4> HIDE DEF s
        <4>4. PICK k \in 1..Len(Order) : Order[k] = e BY PowerShellAssumption, Zenon
        <4>5. k \in 1..Len(s) /\ s[k] = <<"recover", e>> BY <4>3, <4>4 DEF RecoversFirst
        <4>6. HasTask({"recover"}, e)' BY <4>2, <4>5 DEF HasTask
        <4>7. ASSUME NEW i \in 1..Len(s), s[i][1] = "swap" PROVE k < i
          <5>1. i \notin 1..Len(Order) BY <4>3, <4>7 DEF RecoversFirst
          <5>2. Len(Order) \in Nat BY PowerShellAssumption, SMT
          <5> QED BY <5>1, <5>2, <4>4, <4>5
        <4> QED BY <2>3, <4>2, <4>5, <4>6, <4>7 DEF CommitAt
      <3> QED BY <2>3, <3>1, <3>2, <3>3
    <2> QED BY <2>4, <2>5
  <1> QED BY <1>1, <1>2

-----------------------------------------------------------------------------
(* The steps inside a task.                                                 *)

\* The step that another step of the same task follows.
Local == op'.tx = op.tx /\ op'.seen = op.seen /\ op'.was = op.was /\ op'.inplace = op.inplace
Moves(q) == op'.todo = op.todo /\ op'.pc = q /\ Local
BackLands(q) ==
  \/ Recover /\ q \in {"tidyswap", "unpublish", "restore"}
  \/ Restore /\ q = "unpublish"
  \/ Unpublish /\ q = "unretire"
  \/ Unretire /\ q = "values"
  \/ RestoreValues /\ q = "state"
  \/ RolledBack /\ q = "tidystate"
  \/ TidySwap /\ q \in {"tidydrop", "tidystate"}
  \/ TidyDrop /\ q = "tidystate"
  \/ TidyState /\ q = "dropjournal"
  \/ Swap /\ q \in {"swaproot", "swapclean"}
  \/ SwapRoot /\ q = "swaprename"
  \/ SwapRename /\ q = "swapclean"
  \/ SwapClean /\ q = "swapdrop"
EnableLands(q) ==
  \/ Adopt /\ q = "adopted"
  \/ (Begin \/ Upgrade) /\ q = "payload"
  \/ Ensure /\ q \in {"swapjournal", "commitswap", "stage"}
  \/ SwapJournal /\ q = "aside"
  \/ Aside /\ q = "deploy"
  \/ Deploy /\ q \in {"commitswap", "stage"}
  \/ Stage /\ q = "journal"
  \/ OpenJournal /\ q = "publish"
  \/ Publish /\ q = "prepared"
  \/ Prepared /\ q = "retire"
  \/ Retire /\ q = "live"
  \/ GoLive /\ q = "write"
  \/ Write /\ q \in {"installed", "undo"}
  \/ MarkInstalled /\ q = "verify"
  \/ Verify /\ q \in {"commit", "undo"}
  \/ Commit /\ q = "finish"
  \/ Finish /\ q = "finishswap"
  \/ FinishSwap /\ q = "finishstate"
  \/ FinishState /\ q = "finishjournal"
  \/ Undo /\ q = "undoroot"
  \/ UndoRoot /\ q = "undoname"
  \/ UndoName /\ q = "undoclean"
  \/ CommitSwap /\ q = "version"
  \/ Version /\ q = "finish"
RestLands(q) ==
  \/ Uninstalls /\ q = "examine"
  \/ Examine /\ q \in {"forget", "restate", "excise"}
  \/ Excise /\ q \in {"forget", "restate"}
  \/ Forget /\ q = "erase"
  \/ Erase /\ q = "erased"
  \/ Erased /\ q = "cleanup"
  \/ Cleanup /\ q = "cleanpayload"
  \/ ReadStrip /\ q = "stripped"
  \/ Wipe /\ q = "retiretree"
  \/ Fail /\ ((q = "undo" /\ op.pc \in Undoes) \/ (q = "restate" /\ op.pc = "excise"))

\* The command does not move: the user may have taken a block out by hand.
Still == /\ UNCHANGED <<op, marker, snap, journal, payload, swap, tree>>
         /\ \A e \in Edition : profile'[e].block \in {"none", profile[e].block}

LEMMA Edited ==
  ASSUME Types, Edit
  PROVE Still
  <1>0. profile \in [Edition -> Files] BY DEF Types
  <1>1. Troubled \subseteq Edition BY PowerShellAssumption, Zenon
  <1>2. PICK f \in Troubled : \E c \in {[profile[f] EXCEPT !.present = TRUE, !.text = x] : x \in Texts}
                  \cup {Strip(profile[f]), Absent} : profile' = [profile EXCEPT ![f] = c]
    BY DEF Edit, SetProfile
  <1>3. PICK c \in {[profile[f] EXCEPT !.present = TRUE, !.text = x] : x \in Texts}
                  \cup {Strip(profile[f]), Absent} : profile' = [profile EXCEPT ![f] = c]
    BY <1>2
  <1>4. f \in Edition BY <1>1
  <1>5. c.block \in {"none", profile[f].block}
    <2>1. Absent.block = "none" /\ Strip(profile[f]).block = "none" BY <1>0, <1>4 DEF Absent, Strip, Files, Contents
    <2>2. \A x \in Texts : [profile[f] EXCEPT !.present = TRUE, !.text = x].block = profile[f].block
      BY <1>0, <1>4 DEF Files, Contents
    <2> QED BY <2>1, <2>2
  <1>6. \A e \in Edition : profile'[e].block \in {"none", profile[e].block} BY <1>0, <1>3, <1>4, <1>5
  <1>7. UNCHANGED <<op, marker, snap, journal, payload, swap, tree>> BY DEF Edit
  <1> QED BY <1>6, <1>7 DEF Still

LEMMA Stands ==
  ASSUME Types, UNCHANGED disk, UNCHANGED op
  PROVE Still
  BY DEF Still, disk

LEMMA Landing ==
  ASSUME Types, Control, Types', Control', [Next]_vars, NEW q, op'.pc = q, q \notin Tasks \cup {"idle"}
  PROVE \/ Still
        \/ /\ op'.todo = op.todo
           /\ q \notin {"restore", "payload", "examine", "excise", "stripped"} => Local
           /\ BackLands(q) \/ EnableLands(q) \/ RestLands(q)
  <1>g. \A p : Goto(p) => Moves(p) BY GotoRuns DEF Moves, Local
  <1>m. \A p : Moves(p) => p = q /\ op'.todo = op.todo /\ Local BY DEF Moves
  <1>r. ~Restarts
    <2>1. CASE op' = Idle BY <2>1 DEF Idle
    <2>2. CASE op' # Idle
      <3>1. op'.todo \in Lists /\ op'.todo # <<>> BY <2>2 DEF Control, Runnable
      <3> QED BY <2>2, <3>1, Listed DEF Restarts
    <2> QED BY <2>1, <2>2
  <1>t. \A z : Instead(z) => Restarts BY Restarting
  <1>d. Done => Restarts BY Restarting
  <1>a. \A code : Abort(code) \/ Ends(code) => Restarts BY Restarting
  <1>u. Unmarked => Restarts BY Restarting
  <1>s. \A z : \A p : op' = [op EXCEPT !.seen = z, !.pc = p] => op'.todo = op.todo /\ p = q BY DEF Types, Jobs
  <1>1. ASSUME Recovers PROVE op'.todo = op.todo /\ (q # "restore" => Local) /\ BackLands(q)
    <2>1. CASE Recover
      <3>1. Goto("tidyswap") \/ Goto("unpublish") \/ op' = [op EXCEPT !.seen = profile[Cur], !.pc = "restore"]
        BY <2>1, <1>r, <1>d, <1>a DEF Recover
      <3>2. CASE Goto("tidyswap") \/ Goto("unpublish") BY <2>1, <3>2, <1>g, <1>m DEF BackLands
      <3>3. CASE op' = [op EXCEPT !.seen = profile[Cur], !.pc = "restore"] BY <2>1, <3>3, <1>s DEF BackLands
      <3> QED BY <3>1, <3>2, <3>3
    <2>2. CASE Restore \/ Unpublish \/ Unretire \/ RestoreValues \/ RolledBack
      <3>1. \/ Restore /\ Goto("unpublish")
            \/ Unpublish /\ Goto("unretire")
            \/ Unretire /\ Goto("values")
            \/ RestoreValues /\ Goto("state")
            \/ RolledBack /\ Goto("tidystate")
        BY <2>2, <1>r, <1>a DEF Restore, Replaced, Unpublish, Unretire, RestoreValues, RolledBack
      <3> QED BY <3>1, <1>g, <1>m DEF BackLands
    <2>3. CASE RestoreState
      <3>1. Goto("rolled") BY <2>3, <1>r, <1>t DEF RestoreState
      <3>2. q = "rolled" BY <3>1, <1>g, <1>m
      <3> QED BY <3>2, SMT DEF Tasks
    <2>4. CASE TidySwap \/ TidyDrop \/ TidyState \/ DropJournal
      <3>1. \/ TidySwap /\ (Goto("tidydrop") \/ Goto("tidystate"))
            \/ TidyDrop /\ Goto("tidystate")
            \/ TidyState /\ Goto("dropjournal")
        BY <2>4, <1>r, <1>d DEF TidySwap, TidyDrop, TidyState, DropJournal
      <3> QED BY <3>1, <1>g, <1>m DEF BackLands
    <2>5. CASE Swap \/ SwapRoot \/ SwapRename \/ SwapClean \/ SwapDrop
      <3>1. \/ Swap /\ (Goto("swaproot") \/ Goto("swapclean"))
            \/ SwapRoot /\ Goto("swaprename")
            \/ SwapRename /\ Goto("swapclean")
            \/ SwapClean /\ Goto("swapdrop")
        BY <2>5, <1>r, <1>d DEF Swap, SwapRoot, SwapRename, SwapClean, SwapDrop
      <3> QED BY <3>1, <1>g, <1>m DEF BackLands
    <2> QED BY <1>1, <2>1, <2>2, <2>3, <2>4, <2>5 DEF Recovers
  <1>2. ASSUME Enables PROVE op'.todo = op.todo /\ (q # "payload" => Local) /\ EnableLands(q)
    <2>1. ~Enable
      <3>1. CASE Enable
        <4>1. PICK tasks : op' = [NextTask(tasks \o Tail(op.todo)) EXCEPT !.fresh = ~op.user /\ ~InstalledMarker(Cur)]
          BY <3>1 DEF Enable
        <4> DEFINE s == tasks \o Tail(op.todo)
                   b == ~op.user /\ ~InstalledMarker(Cur)
        <4>2. op' = [NextTask(s) EXCEPT !.fresh = b] BY <4>1
        <4> HIDE DEF s, b
        <4>3. op'.pc = Head(op'.todo)[1] BY <4>2 DEF NextTask, Types, Jobs
        <4> QED BY <4>3, <1>r DEF Restarts
      <3> QED BY <3>1
    <2>2. ~(Tree \/ Install \/ Reinstall \/ Adopted \/ Resume \/ FinishJournal \/ UndoClean)
      BY <1>r, <1>t, <1>d, <1>a, <1>u DEF Tree, Install, Reinstall, Adopted, Resume, FinishJournal, UndoClean
    <2>3. CASE Adopt
      <3>1. Goto("adopted") BY <2>3, <1>r, <1>a, <1>u DEF Adopt
      <3> QED BY <2>3, <3>1, <1>g, <1>m DEF EnableLands
    <2>4. CASE Begin \/ Upgrade
      <3>1. Starts(TRUE) \/ Starts(FALSE) BY <2>4, <1>r, <1>t, <1>d, <1>a DEF Begin, Upgrade
      <3>2. op'.pc = "payload" /\ op'.todo = op.todo
        <4>1. CASE Starts(TRUE) BY <4>1 DEF Starts, Types, Jobs
        <4>2. CASE Starts(FALSE) BY <4>2 DEF Starts, Types, Jobs
        <4> QED BY <3>1, <4>1, <4>2
      <3> QED BY <2>4, <3>2 DEF EnableLands
    <2>5. CASE Ensure \/ SwapJournal \/ Aside \/ Deploy
      <3>1. \/ Ensure /\ (Goto("swapjournal") \/ Goto("commitswap") \/ Goto("stage"))
            \/ SwapJournal /\ Goto("aside")
            \/ Aside /\ Goto("deploy")
            \/ Deploy /\ (Goto("commitswap") \/ Goto("stage"))
        <4>1. Goto(AfterSwap) => Goto("commitswap") \/ Goto("stage") BY DEF AfterSwap
        <4> QED BY <2>5, <4>1 DEF Ensure, SwapJournal, Aside, Deploy
      <3> QED BY <3>1, <1>g, <1>m DEF EnableLands
    <2>6. CASE Stage \/ OpenJournal \/ Publish \/ Prepared \/ Retire \/ GoLive
      <3>1. \/ Stage /\ Goto("journal")
            \/ OpenJournal /\ Goto("publish")
            \/ Publish /\ Goto("prepared")
            \/ Prepared /\ Goto("retire")
            \/ Retire /\ Goto("live")
            \/ GoLive /\ Goto("write")
        BY <2>6 DEF Stage, OpenJournal, Publish, Prepared, Retire, GoLive
      <3> QED BY <3>1, <1>g, <1>m DEF EnableLands
    <2>7. CASE Write \/ MarkInstalled \/ Verify \/ Commit
      <3>1. \/ Write /\ (Goto("installed") \/ Goto("undo"))
            \/ MarkInstalled /\ Goto("verify")
            \/ Verify /\ (Goto("commit") \/ Goto("undo"))
            \/ Commit /\ Goto("finish")
        BY <2>7 DEF Write, Replaced, MarkInstalled, Verify, Commit
      <3> QED BY <3>1, <1>g, <1>m DEF EnableLands
    <2>8. CASE Finish \/ FinishSwap \/ FinishState
      <3>1. \/ Finish /\ Goto("finishswap")
            \/ FinishSwap /\ Goto("finishstate")
            \/ FinishState /\ Goto("finishjournal")
        BY <2>8, <1>r, <1>d DEF Finish, FinishSwap, FinishState
      <3> QED BY <3>1, <1>g, <1>m DEF EnableLands
    <2>9. CASE Undo
      <3>1. Goto("undoroot") \/ op' = [op EXCEPT !.todo = <<<<"recover", Cur>>>>, !.pc = "recover", !.undoing = TRUE]
        BY <2>9 DEF Undo
      <3>2. CASE op' = [op EXCEPT !.todo = <<<<"recover", Cur>>>>, !.pc = "recover", !.undoing = TRUE]
        <4>1. q = "recover" BY <3>2 DEF Types, Jobs
        <4> QED BY <4>1, SMT DEF Tasks
      <3>3. CASE Goto("undoroot") BY <2>9, <3>3, <1>g, <1>m DEF EnableLands
      <3> QED BY <3>1, <3>2, <3>3
    <2>10. CASE UndoRoot \/ UndoName \/ CommitSwap \/ Version
      <3>1. \/ UndoRoot /\ Goto("undoname")
            \/ UndoName /\ Goto("undoclean")
            \/ CommitSwap /\ Goto("version")
            \/ Version /\ Goto("finish")
        BY <2>10 DEF UndoRoot, UndoName, CommitSwap, Version
      <3> QED BY <3>1, <1>g, <1>m DEF EnableLands
    <2> QED BY <1>2, <2>1, <2>2, <2>3, <2>4, <2>5, <2>6, <2>7, <2>8, <2>9, <2>10, Zenon DEF Enables
  <1>3. ASSUME Removes PROVE op'.todo = op.todo /\ (q \notin {"examine", "excise"} => Local) /\ RestLands(q)
    <2>1. CASE Uninstalls
      <3>1. op' = [op EXCEPT !.pc = "examine", !.was = marker[Cur]]
        BY <2>1, <1>r, <1>d, <1>a DEF Uninstalls
      <3>2. op'.pc = "examine" /\ op'.todo = op.todo BY <3>1 DEF Types, Jobs
      <3> QED BY <2>1, <3>2 DEF RestLands
    <2>2. CASE Examine
      <3>1. Goto("forget") \/ Goto("restate") \/ op' = [op EXCEPT !.seen = profile[Cur], !.pc = "excise"]
        BY <2>2 DEF Examine
      <3>2. CASE Goto("forget") \/ Goto("restate") BY <2>2, <3>2, <1>g, <1>m DEF RestLands
      <3>3. CASE op' = [op EXCEPT !.seen = profile[Cur], !.pc = "excise"] BY <2>2, <3>3, <1>s DEF RestLands
      <3> QED BY <3>1, <3>2, <3>3
    <2>3. CASE Excise \/ Forget \/ Erase \/ Erased \/ Cleanup
      <3>1. \/ Excise /\ (Goto("forget") \/ Goto("restate"))
            \/ Forget /\ Goto("erase")
            \/ Erase /\ Goto("erased")
            \/ Erased /\ Goto("cleanup")
            \/ Cleanup /\ Goto("cleanpayload")
        BY <2>3 DEF Excise, Replaced, Forget, Erase, Erased, Cleanup
      <3> QED BY <3>1, <1>g, <1>m DEF RestLands
    <2>4. ~(Restate \/ CleanPayload) BY <1>r, <1>t, <1>a DEF Restate, CleanPayload
    <2> QED BY <1>3, <2>1, <2>2, <2>3, <2>4 DEF Removes
  <1>4. ASSUME Tidies PROVE op'.todo = op.todo /\ (q # "stripped" => Local) /\ RestLands(q)
    <2>1. CASE ReadStrip
      <3>1. op' = [op EXCEPT !.seen = profile[Cur], !.pc = "stripped"] BY <2>1, <1>r, <1>d DEF ReadStrip
      <3> QED BY <2>1, <3>1, <1>s DEF RestLands
    <2>2. CASE Wipe
      <3>1. Goto("retiretree") BY <2>2 DEF Wipe
      <3> QED BY <2>2, <3>1, <1>g, <1>m DEF RestLands
    <2>3. ~(Repair \/ StripBlocks \/ Modules \/ Leftovers \/ Swept \/ RetireTree)
      BY <1>r, <1>t, <1>d DEF Repair, StripBlocks, Replaced, Modules, Leftovers, Swept, RetireTree
    <2> QED BY <1>4, <2>1, <2>2, <2>3 DEF Tidies
  <1>5. ASSUME World PROVE Still \/ (op'.todo = op.todo /\ Local /\ RestLands(q))
    <2>1. CASE UserCommand \/ BackgroundEnable \/ BackgroundRepair \/ OrphanClean
      <3>1. PICK cmd, e, user : Command(cmd, e, user)
        BY <2>1 DEF UserCommand, BackgroundEnable, BackgroundRepair, OrphanClean
      <3> DEFINE s == Todo(cmd, e)
      <3>2. op' = [Idle EXCEPT !.cmd = cmd, !.user = user, !.todo = s, !.pc = Head(s)[1]]
        BY <3>1 DEF Command
      <3> HIDE DEF s
      <3>3. op'.pc = Head(op'.todo)[1] BY <3>2 DEF Idle
      <3> QED BY <3>3, <1>r DEF Restarts
    <2>2. SweepStart \/ NewBuild \/ Remove \/ Edit => Still
      <3>1. SweepStart \/ NewBuild \/ Remove => UNCHANGED disk /\ UNCHANGED op BY DEF SweepStart, NewBuild, Remove
      <3> QED BY <3>1, Edited, Stands
    <2>3. ~Crash BY <1>r DEF Crash, Restarts
    <2>4. CASE Fail
      <3>1. (op.pc \in Undoes /\ Goto("undo")) \/ (op.pc = "excise" /\ Goto("restate"))
        BY <2>4, <1>r, <1>d, <1>a DEF Fail
      <3> QED BY <2>4, <3>1, <1>g, <1>m DEF RestLands
    <2> QED BY <1>5, <2>1, <2>2, <2>3, <2>4 DEF World
  <1>6. UNCHANGED vars => Still
    <2>1. UNCHANGED vars => UNCHANGED disk /\ UNCHANGED op BY DEF vars
    <2> QED BY <2>1, Stands
  <1> QED BY <1>1, <1>2, <1>3, <1>4, <1>5, <1>6 DEF Next

\* What the world does to a running recovery.
LEMMA WorldBack ==
  ASSUME Types, Control, World, op.pc # "idle", op.todo[1][1] \in Backs
  PROVE Still \/ op' = Idle
  <1>0. op # Idle BY Running
  <1>1. ~(UserCommand \/ BackgroundEnable \/ BackgroundRepair \/ OrphanClean)
    BY <1>0 DEF UserCommand, BackgroundEnable, BackgroundRepair, OrphanClean, Command
  <1>2. SweepStart \/ NewBuild \/ Remove => UNCHANGED disk /\ UNCHANGED op BY DEF SweepStart, NewBuild, Remove
  <1>3. Crash => op' = Idle BY DEF Crash
  <1>4. ASSUME Fail PROVE op' = Idle
    <2>1. op.pc \in StepsOf("recover") \cup StepsOf("swap") BY <1>0, SMT DEF Control, Backs, StepsOf
    <2>2. op.pc \notin Undoes \cup Finishes \cup {"excise", "stripped"} /\ op.pc \in Recovering
      BY <2>1, SMT DEF StepsOf, Undoes, Finishes, Recovering
    <2>3. Abort("failed") BY <1>4, <2>2 DEF Fail
    <2> QED BY <2>2, <2>3 DEF Abort, Ends
  <1> QED BY <1>1, <1>2, <1>3, <1>4, Edited, Stands DEF World

SwapActs == Swap \/ SwapRoot \/ SwapRename \/ SwapClean \/ SwapDrop

\* Where the end of a rollback comes from.
LEMMA RolledFrom ==
  ASSUME Types, Control, Midway, Types', Control', Midway', [Next]_vars, Rolled'
  PROVE \/ Still
        \/ RestoreState
        \/ SwapActs /\ Rolled /\ RollingBack /\ Cur' = Cur
  <1>1. op' # Idle
    <2>1. Idle.pc = "idle" /\ Len(Idle.todo) = 0 BY SMT DEF Idle
    <2> QED BY <2>1, SMT DEF Rolled
  <1>2. Cur \in Edition /\ Cur' \in Edition /\ RollingBack' /\ J'.phase = "open"
    <2>1. RollingBack' BY DEF Rolled, RollingBack
    <2>2. Cur \in Edition BY Running
    <2>3. op'.todo \in Lists /\ op'.todo # <<>> BY <1>1 DEF Control, Runnable
    <2>4. Cur' = Head(op'.todo)[2] BY <2>3 DEF Cur
    <2>5. Cur' \in Edition BY <2>3, <2>4, Listed
    <2> QED BY <2>1, <2>2, <2>5 DEF Midway, Phased
  \* Plain lists have no such end.
  <1>p. ASSUME NEW s \in Lists, op'.todo = s, Plainly(s), op'.pc # "rolled" \/ op'.pc = s[1][1] PROVE FALSE
    <2>1. s # <<>> BY <1>1, <1>p DEF Control
    <2>2. Len(s) \in Nat /\ Len(s) >= 1 BY <2>1, Listed
    <2>3. s[1][1] # "rolled" /\ (Len(s) > 1 => s[2][1] # "rolled") BY <2>2, <1>p DEF Plainly
    <2> QED BY <2>3, <1>p DEF Rolled
  <1>3. CASE op = Idle
    <2>1. CASE UNCHANGED op BY <2>1, <1>1, <1>3
    <2>2. CASE World /\ ~UNCHANGED op
      <3>0. op.pc = "idle" BY <1>3 DEF Idle
      <3>1. PICK cmd \in Commands \ {"none"}, f \in Edition, user \in BOOLEAN :
              Command(cmd, f, user) /\ (cmd = "repair" => user) /\ (cmd = "repairall" => ~user) /\ (cmd = "clean" <=> build = 0)
        BY <2>2, <3>0, <1>3, WorldIdle
      <3> DEFINE s == Todo(cmd, f)
      <3>2. op'.todo = s /\ op'.pc = s[1][1] BY <3>1, CommandOp
      <3>3. Plainly(s) /\ s \in Lists BY <3>1, TodoRuns DEF Runnable
      <3> HIDE DEF s
      <3> QED BY <3>2, <3>3, <1>p
    <2> QED BY <2>1, <2>2, <1>3, Resting
  <1>4. CASE op # Idle /\ op.todo[1][1] \notin Backs
    <2>0. op.pc # "idle" /\ op.todo \in Lists /\ op.todo # <<>> BY <1>4, Running
    <2>1. Plainly(Tail(op.todo)) /\ Tail(op.todo) \in Lists BY <1>4, <2>0, Quiet, Listed
    <2>2. Len(op.todo) > 1 => op.todo[2][1] # "rolled"
      <3>1. Len(op.todo) > 1 => 1 \in 1..Len(Tail(op.todo)) /\ Tail(op.todo)[1] = op.todo[2] BY <2>0, Listed
      <3> QED BY <2>1, <3>1 DEF Plainly
    <2>3. op'.todo # op.todo \/ op'.pc = "rolled" BY <2>2 DEF Rolled
    <2>4. CASE op'.pc \notin Tasks \cup {"idle"}
      <3> DEFINE q == op'.pc
      <3>1. q # "rolled" BY <2>4, SMT DEF Tasks
      <3> QED BY <2>3, <2>4, <3>1, Landing
    <2>5. CASE op.pc \notin Opens /\ ~OpenJournal
      <3>1. \A e \in Edition : journal[e].phase # "open" BY <1>4, <2>0, <2>5, Quiet
      <3>2. J'.phase # "open" BY <3>1, <2>5, <1>2, PhasesGo DEF J
      <3> QED BY <3>2, <1>2
    <2>g. \A p : Goto(p) => op'.todo = op.todo /\ op'.pc = p BY GotoRuns
    <2>6. CASE OpenJournal
      <3>1. Goto("publish") BY <2>6 DEF OpenJournal
      <3> QED BY <2>3, <2>g, <3>1
    <2>7. CASE op.pc \in Opens
      <3>1. op.todo[1][1] \in {"begin", "replace", "upgrade"} BY <2>0, <2>7, TaskOf, SMT DEF Opens, Whole, Shared
      <3>2. ~Recovers /\ ~Removes /\ ~Tidies
        <4>1. op.pc \notin {"uninstall", "examine", "excise", "restate", "forget", "erase", "erased", "cleanup",
                            "cleanpayload", "repair", "strip", "stripped", "modules", "leftovers", "swept", "wipe",
                            "retiretree"} \cup Recovering
          BY <2>7, SMT DEF Opens, Recovering
        <4>2. ~(Uninstalls \/ Examine \/ Excise \/ Restate) BY <4>1 DEF Uninstalls, Examine, Excise, Restate, At
        <4>3. ~(Forget \/ Erase \/ Erased \/ Cleanup \/ CleanPayload)
          BY <4>1 DEF Forget, Erase, Erased, Cleanup, CleanPayload, At
        <4>4. ~Tidies BY <4>1 DEF Tidies, Repair, ReadStrip, StripBlocks, Modules, Leftovers, Swept, Wipe, RetireTree, At
        <4>5. ~Recovers
          BY <4>1 DEF Recovering, Recovers, Recover, Restore, Unpublish, Unretire, RestoreValues, RestoreState, RolledBack,
             TidySwap, TidyDrop, TidyState, DropJournal, Swap, SwapRoot, SwapRename, SwapClean, SwapDrop, At
        <4> QED BY <4>2, <4>3, <4>4, <4>5, Zenon DEF Removes
      <3>3. ~Enables
        <4>1. op.pc \notin {"enable", "tree", "install", "reinstall", "adopt", "adopted", "resume", "begin", "replace",
            "payload", "swapjournal", "aside", "deploy", "stage", "journal", "undoroot", "undoname", "undoclean", "upgrade",
            "commitswap", "version"} \cup Finishes
          BY <2>7, SMT DEF Opens, Finishes
        <4>2. ~(Enable \/ Tree \/ Install \/ Reinstall \/ Adopt \/ Adopted \/ Resume \/ Begin \/ Upgrade
              \/ CommitSwap \/ Version)
          BY <4>1 DEF Enable, Tree, Install, Reinstall, Adopt, Adopted, Resume, Begin, Upgrade, CommitSwap, Version, At
        <4>3. ~(Ensure \/ SwapJournal \/ Aside \/ Deploy \/ Finish \/ FinishSwap \/ UndoRoot \/ UndoName
              \/ UndoClean)
          BY <4>1 DEF Ensure, SwapJournal, Aside, Deploy, Finish, FinishSwap, UndoRoot, UndoName, UndoClean, At, Finishes
        <4>4. ~(Stage \/ OpenJournal \/ FinishState \/ FinishJournal)
          BY <4>1 DEF Stage, OpenJournal, FinishState, FinishJournal, At, Finishes
        <4>5. ~(Publish \/ Prepared \/ Retire \/ GoLive)
          <5>1. Publish \/ Prepared \/ Retire \/ GoLive
                  => Goto("prepared") \/ Goto("retire") \/ Goto("live") \/ Goto("write")
            BY DEF Publish, Prepared, Retire, GoLive
          <5> QED BY <2>3, <2>g, <5>1
        <4>6. ~(Write \/ MarkInstalled \/ Verify \/ Commit)
          <5>1. Write \/ MarkInstalled \/ Verify \/ Commit
                  => Goto("installed") \/ Goto("undo") \/ Goto("verify") \/ Goto("commit") \/ Goto("finish")
            BY DEF Write, Replaced, MarkInstalled, Verify, Commit
          <5> QED BY <2>3, <2>g, <5>1
        <4>7. ~Undo
          <5>1. Undo => Goto("undoroot") \/ op' = [op EXCEPT !.todo = <<<<"recover", Cur>>>>, !.pc = "recover", !.undoing = TRUE]
            BY DEF Undo
          <5>2. ASSUME op' = [op EXCEPT !.todo = <<<<"recover", Cur>>>>, !.pc = "recover", !.undoing = TRUE] PROVE FALSE
            <6>1. op'.todo = One("recover", Cur) /\ op'.pc = "recover" BY <5>2 DEF Types, Jobs, One
            <6>2. Len(One("recover", Cur)) = 1 BY SMT DEF One
            <6> QED BY <6>1, <6>2 DEF Rolled
          <5> QED BY <2>3, <2>g, <5>1, <5>2
        <4> QED BY <4>2, <4>3, <4>4, <4>5, <4>6, <4>7, Zenon DEF Enables
      <3>4. World => Still
        <4>1. ~(UserCommand \/ BackgroundEnable \/ BackgroundRepair \/ OrphanClean)
          BY <1>4 DEF UserCommand, BackgroundEnable, BackgroundRepair, OrphanClean, Command
        <4>2. SweepStart \/ NewBuild \/ Remove => UNCHANGED disk /\ UNCHANGED op BY DEF SweepStart, NewBuild, Remove
        <4>3. ~Crash BY <1>1 DEF Crash
        <4>4. ~Fail
          <5>1. op.pc \notin Finishes \cup {"stripped", "excise"} BY <2>7, SMT DEF Opens, Finishes
          <5>2. Abort("failed") => op' = Idle BY <1>4, <3>1, Follow DEF Abort, Ends
          <5> QED BY <5>1, <5>2, <1>1, <2>3, <2>g DEF Fail
        <4> QED BY <4>1, <4>2, <4>3, <4>4, Edited, Stands DEF World
      <3>5. UNCHANGED vars => UNCHANGED disk /\ UNCHANGED op BY DEF vars
      <3> QED BY <3>2, <3>3, <3>4, <3>5, Stands DEF Next
    <2> QED BY <2>5, <2>6, <2>7
  <1>5. ASSUME op # Idle, op.todo[1][1] \in Backs, Recovers
        PROVE RestoreState \/ (SwapActs /\ Rolled /\ RollingBack /\ Cur' = Cur)
    <2>0. op.pc # "idle" /\ op.todo \in Lists /\ op.todo # <<>> /\ Runnable(op.cmd, op.user, op.todo)
      BY <1>5, Running DEF Control
    <2>1. Tail(op.todo) \in Lists /\ (op.todo[1][1] # "swap" => Plainly(Tail(op.todo))) BY <2>0, RestRuns, Listed
    <2>2. op.todo[1][1] # "swap" => ~(Len(op.todo) > 1 /\ op.todo[2][1] = "rolled")
      <3>1. Len(op.todo) > 1 => 1 \in 1..Len(Tail(op.todo)) /\ Tail(op.todo)[1] = op.todo[2] BY <2>0, Listed
      <3> QED BY <2>1, <3>1 DEF Plainly
    <2>g. \A p : Goto(p) => op'.todo = op.todo /\ op'.pc = p BY GotoRuns
    <2>3. CASE op.todo[1][1] # "swap"
      <3>1. Done => FALSE
        <4>1. ASSUME Done PROVE FALSE
          <5>1. Goes(Tail(op.todo)) BY <1>5, <4>1, RunsTo DEF Done
          <5> QED BY <5>1, <1>1, <1>p, <2>1, <2>3 DEF Goes
        <4> QED BY <4>1
      <3>2. \A p : Goto(p) => p = "rolled" BY <2>2, <2>3, <2>g DEF Rolled
      <3>3. \A code : op.pc \in Recovering => ~Abort(code) BY <1>1 DEF Abort, Ends
      <3>4. ~(Recover \/ Restore)
        <4>1. Recover \/ Restore => op.pc \in Recovering BY SMT DEF Recover, Restore, At, Recovering
        <4>2. op' = [op EXCEPT !.seen = profile[Cur], !.pc = "restore"] => FALSE
          <5>1. op' = [op EXCEPT !.seen = profile[Cur], !.pc = "restore"] => op'.todo = op.todo /\ op'.pc = "restore"
            BY DEF Types, Jobs
          <5> QED BY <5>1, <2>2, <2>3 DEF Rolled
        <4> QED BY <3>1, <3>2, <3>3, <4>1, <4>2 DEF Recover, Restore, Replaced
      <3>5. ~(Unpublish \/ Unretire \/ RestoreValues \/ RolledBack \/ TidySwap \/ TidyDrop \/ TidyState \/ DropJournal)
        BY <3>1, <3>2 DEF Unpublish, Unretire, RestoreValues, RolledBack, TidySwap, TidyDrop, TidyState, DropJournal
      <3>6. ~SwapActs
        <4>1. SwapActs => op.pc \in {"swap", "swaproot", "swaprename", "swapclean", "swapdrop"}
          BY DEF SwapActs, Swap, SwapRoot, SwapRename, SwapClean, SwapDrop, At
        <4> QED BY <2>0, <2>3, <4>1, TaskOf
      <3> QED BY <1>5, <3>4, <3>5, <3>6 DEF Recovers, SwapActs
    <2>4. CASE op.todo[1][1] = "swap"
      <3>1. SwapActs
        <4>1. op.pc \in {"swap", "swaproot", "swaprename", "swapclean", "swapdrop"}
          BY <1>5, <2>4 DEF Control, StepsOf
        <4> QED BY <1>5, <4>1 DEF Recovers, Recover, Restore, Unpublish, Unretire, RestoreValues, RestoreState,
               RolledBack, TidySwap, TidyDrop, TidyState, DropJournal, SwapActs, At
      <3>2. \/ op'.todo = op.todo /\ op'.pc # "rolled"
            \/ op'.todo = Tail(op.todo)
        <4>1. Done \/ Goto("swaproot") \/ Goto("swaprename") \/ Goto("swapclean") \/ Goto("swapdrop")
          BY <3>1 DEF SwapActs, Swap, SwapRoot, SwapRename, SwapClean, SwapDrop
        <4>2. CASE Done
          <5>1. Goes(Tail(op.todo)) BY <1>5, <4>2, RunsTo DEF Done
          <5> QED BY <5>1, <1>1 DEF Goes
        <4> QED BY <4>1, <4>2, <2>g
      <3>3. CASE op'.todo = op.todo /\ op'.pc # "rolled"
        <4>1. Rolled /\ RollingBack BY <3>3 DEF Rolled, RollingBack
        <4> QED BY <3>1, <3>3, <4>1 DEF Cur
      <3>4. CASE op'.todo = Tail(op.todo)
        <4> DEFINE s == Tail(op.todo)
        <4>1. /\ Len(op.todo) \in Nat /\ Len(s) \in Nat /\ Len(s) = Len(op.todo) - 1
              /\ \A i \in 1..Len(s) : s[i] = op.todo[i + 1] /\ i + 1 \in 1..Len(op.todo)
          BY <2>0, Rest
        <4>2. s # <<>> /\ s[1][1] = "rolled" => s[1][2] = op.todo[1][2] BY <2>0, RestRuns
        <4>3. s # <<>> /\ Len(s) >= 1 /\ op'.todo = s /\ op'.pc \in StepsOf(s[1][1])
          <5>1. s # <<>> BY <3>4, <1>1 DEF Control
          <5> QED BY <3>4, <5>1, <1>1, <2>1, Listed DEF Control
        <4> HIDE DEF s
        <4>4. op'.pc = s[1][1]
          <5>1. Done \/ op'.todo = op.todo
            BY <3>1, <2>g DEF SwapActs, Swap, SwapRoot, SwapRename, SwapClean, SwapDrop
          <5>2. op'.todo # op.todo BY <4>1, <4>3
          <5>3. Goes(s) BY <1>5, <5>1, <5>2, RunsTo DEF Done, s
          <5> QED BY <5>3, <1>1 DEF Goes
        <4>5. s[1][1] = "rolled"
          <5>1. CASE Len(s) > 1 /\ s[2][1] = "rolled"
            <6>1. 3 \in 1..Len(op.todo) /\ op.todo[3] = s[2] BY <4>1, <5>1
            <6> QED BY <6>1, <5>1, <2>0 DEF Runnable, RolledNext
          <5> QED BY <5>1, <4>3, <4>4 DEF Rolled
        <4>6. Len(op.todo) > 1 /\ op.todo[2] = s[1] BY <4>1, <4>3
        <4>7. Cur' = Cur
          <5>1. Cur = op.todo[1][2] BY <1>5, Running
          <5>2. Cur' = s[1][2]
            <6>1. Cur' = Head(s)[2] BY <3>4, <4>3 DEF Cur
            <6>2. s \in Lists BY <2>1 DEF s
            <6> QED BY <6>1, <6>2, <4>3, Listed
          <5> QED BY <5>1, <5>2, <4>2, <4>3, <4>5
        <4> QED BY <3>1, <4>5, <4>6, <4>7 DEF Rolled, RollingBack
      <3> QED BY <3>2, <3>3, <3>4
    <2> QED BY <2>3, <2>4
  <1>6. CASE op # Idle /\ op.todo[1][1] \in Backs
    <2>1. op.pc # "idle" BY <1>6, Running
    <2>2. UNCHANGED vars => UNCHANGED disk /\ UNCHANGED op BY DEF vars
    <2>3. Next => Recovers \/ World BY <1>6, <2>1, Sides
    <2> QED BY <1>1, <1>5, <1>6, <2>1, <2>2, <2>3, Stands, WorldBack
  <1> QED BY <1>3, <1>4, <1>6

-----------------------------------------------------------------------------
(* What goes first.                                                         *)

\* The marker goes before the files and the payload.
GoneHere == op.pc \in {"erase", "erased", "cleanup", "cleanpayload"} => ~marker[Cur].present

\* An orphan clean asks every host, and goes on when no marker is left.
Strips == \E i \in 1..Len(op.todo) : op.todo[i][1] \in {"strip", "wipe"}
SweptOut ==
  op.cmd = "clean" =>
    /\ op.todo[1][1] \in Backs => \A e \in Edition : HasTask({"adopt"}, e)
    /\ op.todo[1][1] \notin Backs /\ ~op.worst =>
         \A e \in Edition : HasTask({"adopt", "uninstall"}, e) \/ ~marker[e].present
    /\ Strips => \A e \in Edition : ~marker[e].present
Leaving == GoneHere /\ SweptOut

LEMMA GoneStep ==
  ASSUME Types, Control, Held, GoneHere, Types', Control', Held', [Next]_vars
  PROVE GoneHere'
  <1>1. CASE op'.pc \in {"erase", "erased"} BY <1>1 DEF Held, GoneHere
  <1>2. CASE op'.pc \in {"cleanup", "cleanpayload"}
    <2> DEFINE q == op'.pc
    <2>1. q \notin Tasks \cup {"idle"} BY <1>2, SMT DEF Tasks
    <2>2. \/ Still
          \/ op'.todo = op.todo /\ (BackLands(q) \/ EnableLands(q) \/ RestLands(q))
      BY <2>1, Landing
    <2>3. CASE Still BY <2>3 DEF Still, GoneHere, Cur
    <2>4. CASE op'.todo = op.todo /\ (BackLands(q) \/ EnableLands(q) \/ RestLands(q))
      <3>1. q \in {"cleanup", "cleanpayload"} BY <1>2
      <3> HIDE DEF q
      <3>2. (Erased /\ q = "cleanup") \/ (Cleanup /\ q = "cleanpayload")
        BY <2>4, <3>1, SMT DEF BackLands, EnableLands, RestLands
      <3>3. ~marker[Cur].present /\ UNCHANGED marker
        <4>1. Erased => op.pc = "erased" /\ UNCHANGED marker BY DEF Erased, At
        <4>2. Cleanup => op.pc = "cleanup" /\ UNCHANGED marker BY DEF Cleanup, At
        <4> QED BY <3>2, <4>1, <4>2 DEF GoneHere
      <3>4. Cur' = Cur BY <2>4 DEF Cur
      <3> QED BY <3>3, <3>4 DEF GoneHere
    <2> QED BY <2>2, <2>3, <2>4
  <1>3. CASE op'.pc \notin {"erase", "erased", "cleanup", "cleanpayload"} BY <1>3 DEF GoneHere
  <1> QED BY <1>1, <1>2, <1>3

\* The build is another only between two commands.
LEMMA BuildStays ==
  ASSUME Types, Control, [Next]_vars, op # Idle
  PROVE build' = build
  <1>1. CASE Recovers
    BY <1>1 DEF Recovers, Recover, Restore, Unpublish, Unretire, RestoreValues, RestoreState, RolledBack,
                TidySwap, TidyDrop, TidyState, DropJournal, Swap, SwapRoot, SwapRename, SwapClean, SwapDrop,
                world
  <1>2. CASE Enables
    BY <1>2 DEF Enables, Enable, Tree, Install, Reinstall, Adopt, Adopted, Resume, Begin, Ensure, SwapJournal,
                Aside, Deploy, Stage, OpenJournal, Publish, Prepared, Retire, GoLive, Write, MarkInstalled,
                Verify, Commit, Finish, FinishSwap, FinishState, FinishJournal, Undo, UndoRoot, UndoName,
                UndoClean, Upgrade, CommitSwap, Version, world
  <1>3. CASE Removes
    BY <1>3 DEF Removes, Uninstalls, Examine, Excise, Restate, Forget, Erase, Erased, Cleanup, CleanPayload, world
  <1>4. CASE Tidies
    BY <1>4 DEF Tidies, Repair, ReadStrip, StripBlocks, Modules, Leftovers, Swept, Wipe, RetireTree, world
  <1>5. CASE World
    BY <1>5 DEF World, UserCommand, SweepStart, BackgroundEnable, BackgroundRepair, OrphanClean, Command,
                NewBuild, Remove, Edit, Crash, Fail
  <1>6. CASE UNCHANGED vars BY <1>6 DEF vars
  <1> QED BY <1>1, <1>2, <1>3, <1>4, <1>5, <1>6 DEF Next

\* Whoever has yet to remove a host strips nothing.
LEMMA AdoptsFirst ==
  ASSUME NEW c, NEW u, NEW s, Runnable(c, u, s), NEW k \in 1..Len(s), s[k][1] \in {"adopt", "uninstall"}
  PROVE \A i \in 1..Len(s) : s[i][1] \notin {"strip", "wipe"}
  <1> SUFFICES ASSUME NEW i \in 1..Len(s), s[i][1] \in {"strip", "wipe"} PROVE FALSE OBVIOUS
  <1>1. Len(s) \in Nat BY DEF Runnable, Lists
  <1>2. i # k OBVIOUS
  <1>3. CASE i < k
    <2>1. s[k][1] \in Later(u, s[i][1]) BY <1>3 DEF Runnable, Ordered
    <2> QED BY <2>1, SMT DEF Later
  <1>4. CASE k < i
    <2>1. s[i][1] \in Later(u, s[k][1]) BY <1>4 DEF Runnable, Ordered
    <2> QED BY <2>1, SMT DEF Later
  <1> QED BY <1>1, <1>2, <1>3, <1>4

LEMMA AllAdopt ==
  ASSUME Types', Control', op' # Idle, \A e \in Edition : HasTask({"adopt"}, e)'
  PROVE SweptOut'
  <1>1. Order[1] \in Edition BY Somebody
  <1>2. PICK k \in 1..Len(op'.todo) : op'.todo[k][1] \in {"adopt", "uninstall"} BY <1>1 DEF HasTask
  <1> DEFINE s == op'.todo
             c == op'.cmd
             u == op'.user
  <1>3. Runnable(c, u, s) /\ k \in 1..Len(s) /\ s[k][1] \in {"adopt", "uninstall"} BY <1>2 DEF Control
  <1> HIDE DEF s, c, u
  <1>4. \A i \in 1..Len(s) : s[i][1] \notin {"strip", "wipe"} BY <1>3, AdoptsFirst
  <1>5. ~Strips' BY <1>4 DEF Strips, s
  <1>6. \A e \in Edition : HasTask({"adopt", "uninstall"}, e)' BY DEF HasTask
  <1> QED BY <1>5, <1>6 DEF SweptOut

LEMMA SweptSame ==
  ASSUME Types, Control, SweptOut, op.cmd = "clean", op # Idle, op.todo[1][1] \notin Backs,
         op'.todo = op.todo, op'.worst = op.worst,
         \A e \in Edition : marker'[e].present => marker[e].present \/ (e = Cur /\ op.todo[1][1] = "adopt")
  PROVE SweptOut'
  <1>0. op.todo # <<>> /\ Len(op.todo) >= 1 /\ Len(op.todo) \in Nat /\ Cur = op.todo[1][2]
        /\ Runnable(op.cmd, op.user, op.todo)
    BY Running, Listed DEF Control
  <1>1. 1 \in 1..Len(op.todo) BY <1>0
  <1>2. op.todo[1][1] = "adopt" => ~Strips
    <2> DEFINE s == op.todo
               c == op.cmd
               u == op.user
               k == 1
    <2>1. Runnable(c, u, s) /\ k \in 1..Len(s) BY <1>0, <1>1
    <2> HIDE DEF s, c, u, k
    <2>2. s[k][1] \in {"adopt", "uninstall"} => \A i \in 1..Len(s) : s[i][1] \notin {"strip", "wipe"}
      BY <2>1, AdoptsFirst
    <2> QED BY <2>2 DEF s, k, Strips
  <1>3. Strips' = Strips /\ \A e \in Edition : HasTask({"adopt", "uninstall"}, e)' = HasTask({"adopt", "uninstall"}, e)
    BY DEF Strips, HasTask
  <1>4. op.todo[1][1] = "adopt" => HasTask({"adopt", "uninstall"}, Cur) BY <1>0, <1>1 DEF HasTask
  <1> QED BY <1>2, <1>3, <1>4 DEF SweptOut

LEMMA SweptRest ==
  ASSUME Types, Control, Midway, SweptOut, op.cmd = "clean", op # Idle, op.todo[1][1] \notin Backs,
         op'.todo = Tail(op.todo), op'.todo # <<>>,
         \A e \in Edition : marker'[e].present => marker[e].present,
         op'.worst \/ (op'.worst = op.worst /\ (op.todo[1][1] \in {"adopt", "uninstall"} => ~marker[Cur].present))
  PROVE SweptOut'
  <1>0. op.pc # "idle" /\ Cur = op.todo[1][2] BY Running
  <1> DEFINE s == Tail(op.todo)
  <1>1. /\ Len(op.todo) \in Nat /\ Len(s) \in Nat /\ Len(s) = Len(op.todo) - 1 /\ s \in Lists
        /\ \A i \in 1..Len(s) : s[i] = op.todo[i + 1] /\ i + 1 \in 1..Len(op.todo)
        /\ \A i \in 1..Len(op.todo) : i = 1 \/ (i - 1 \in 1..Len(s) /\ s[i - 1] = op.todo[i])
    BY <1>0, Rest
  <1>s. op'.todo = s /\ s # <<>> OBVIOUS
  <1> HIDE DEF s
  <1>2. op'.todo[1][1] \notin Backs
    <2>1. Len(s) >= 1 BY <1>1, <1>s, Listed
    <2>2. 2 \in 1..Len(op.todo) /\ s[1] = op.todo[2] BY <1>1, <2>1
    <2> QED BY <2>2, <1>0, <1>s, Quiet
  <1>3. Strips' => Strips BY <1>1, <1>s DEF Strips
  <1>4. ASSUME ~op'.worst, NEW e \in Edition PROVE HasTask({"adopt", "uninstall"}, e)' \/ ~marker'[e].present
    <2>1. HasTask({"adopt", "uninstall"}, e) \/ ~marker[e].present BY <1>4 DEF SweptOut
    <2>2. CASE HasTask({"adopt", "uninstall"}, e)
      <3>1. PICK i \in 1..Len(op.todo) : op.todo[i][1] \in {"adopt", "uninstall"} /\ op.todo[i][2] = e
        BY <2>2 DEF HasTask
      <3>2. CASE i = 1
        <4>1. e = Cur /\ op.todo[1][1] \in {"adopt", "uninstall"} BY <3>1, <3>2, <1>0
        <4> QED BY <4>1, <1>4
      <3>3. CASE i # 1
        <4>1. i - 1 \in 1..Len(s) /\ s[i - 1] = op.todo[i] BY <1>1, <3>3
        <4> QED BY <4>1, <3>1, <1>s DEF HasTask
      <3> QED BY <3>2, <3>3
    <2> QED BY <2>1, <2>2
  <1> QED BY <1>2, <1>3, <1>4 DEF SweptOut

LEMMA SweptInto ==
  ASSUME Types, Control, Midway, SweptOut, op.cmd = "clean", op # Idle,
         op.todo[1][1] \in {"adopt", "uninstall"}, NEW t \in {"uninstall", "modules"},
         op'.todo = Ahead(t, Cur, Tail(op.todo)), op'.worst = op.worst,
         \A e \in Edition : marker'[e].present => marker[e].present \/ (e = Cur /\ t = "uninstall"),
         t = "modules" => ~marker'[Cur].present
  PROVE SweptOut'
  <1>0. op.pc # "idle" /\ Cur = op.todo[1][2] /\ Cur \in Edition /\ Runnable(op.cmd, op.user, op.todo)
    BY Running DEF Control
  <1>b. op.todo[1][1] \notin Backs BY DEF Backs
  <1> DEFINE r == Tail(op.todo)
             s == Ahead(t, Cur, r)
  <1>1. /\ Len(op.todo) \in Nat /\ Len(op.todo) >= 1 /\ Len(r) \in Nat /\ Len(r) = Len(op.todo) - 1 /\ r \in Lists
        /\ \A i \in 1..Len(r) : r[i] = op.todo[i + 1] /\ i + 1 \in 1..Len(op.todo)
        /\ \A i \in 1..Len(op.todo) : i = 1 \/ (i - 1 \in 1..Len(r) /\ r[i - 1] = op.todo[i])
    BY <1>0, Rest
  <1>s. op'.todo = s OBVIOUS
  <1> HIDE DEF r
  <1>2. Len(s) = Len(r) + 1 /\ s[1] = <<t, Cur>> /\ \A i \in 1..Len(r) : s[i + 1] = r[i]
    <2> DEFINE a == <<<<t, Cur>>>>
    <2>1. a \in Lists /\ Len(a) = 1 /\ a[1] = <<t, Cur>>
      <3>1. <<t, Cur>> \in Tasks \X Edition BY <1>0, SMT DEF Tasks
      <3> QED BY <3>1, SMT DEF Lists
    <2>2. s = a \o r BY DEF Ahead
    <2> HIDE DEF a, s
    <2>3. /\ Len(Cat(a, r)) = Len(a) + Len(r)
          /\ \A i \in 1..Len(a) : Cat(a, r)[i] = a[i]
          /\ \A i \in 1..Len(r) : Cat(a, r)[Len(a) + i] = r[i]
      BY <2>1, <1>1, JoinAt, Zenon
    <2>4. s = Cat(a, r) BY <2>2 DEF Cat
    <2>5. /\ Len(s) = 1 + Len(r)
          /\ \A i \in 1..1 : s[i] = a[i]
          /\ \A i \in 1..Len(r) : s[1 + i] = r[i]
      BY <2>1, <2>3, <2>4
    <2>6. Len(s) = Len(r) + 1 /\ \A i \in 1..Len(r) : s[i + 1] = r[i] BY <2>5, <1>1
    <2>7. s[1] = <<t, Cur>> BY <2>1, <2>5
    <2> QED BY <2>6, <2>7
  <1> HIDE DEF s
  <1>3. op'.todo[1][1] \notin Backs BY <1>2, <1>s DEF Backs
  <1>4. ~Strips
    <2> DEFINE z == op.todo
               c == op.cmd
               u == op.user
               k == 1
    <2>1. Runnable(c, u, z) /\ k \in 1..Len(z) /\ z[k][1] \in {"adopt", "uninstall"} BY <1>0, <1>1
    <2> HIDE DEF z, c, u, k
    <2>2. \A i \in 1..Len(z) : z[i][1] \notin {"strip", "wipe"} BY <2>1, AdoptsFirst
    <2> QED BY <2>2 DEF z, Strips
  <1>5. ~Strips'
    <2> SUFFICES ASSUME NEW i \in 1..Len(s), s[i][1] \in {"strip", "wipe"} PROVE FALSE BY <1>s DEF Strips
    <2>1. i # 1 BY <1>2
    <2>2. i - 1 \in 1..Len(r) BY <1>1, <1>2, <2>1
    <2>3. s[i] = r[i - 1] BY <1>2, <2>2
    <2>4. i \in 1..Len(op.todo) /\ op.todo[i] = r[i - 1] BY <1>1, <2>2
    <2> QED BY <1>4, <2>3, <2>4 DEF Strips
  <1>6. ASSUME ~op'.worst, NEW e \in Edition PROVE HasTask({"adopt", "uninstall"}, e)' \/ ~marker'[e].present
    <2>1. HasTask({"adopt", "uninstall"}, e) \/ ~marker[e].present BY <1>6, <1>b DEF SweptOut
    <2>c. t = "uninstall" /\ e = Cur => HasTask({"adopt", "uninstall"}, e)'
      <3>1. 1 \in 1..Len(s) BY <1>1, <1>2
      <3> QED BY <3>1, <1>2, <1>s DEF HasTask
    <2>2. CASE HasTask({"adopt", "uninstall"}, e)
      <3>1. PICK i \in 1..Len(op.todo) : op.todo[i][1] \in {"adopt", "uninstall"} /\ op.todo[i][2] = e
        BY <2>2 DEF HasTask
      <3>2. CASE i = 1 BY <3>1, <3>2, <1>0, <2>c
      <3>3. CASE i # 1
        <4>1. i - 1 \in 1..Len(r) /\ r[i - 1] = op.todo[i] BY <1>1, <3>3
        <4>2. i \in 1..Len(s) /\ s[i] = r[i - 1]
          <5> DEFINE j == i - 1
          <5>1. s[j + 1] = r[j] BY <1>2, <4>1
          <5> QED BY <5>1, <4>1, <1>1, <1>2
        <4> QED BY <4>1, <4>2, <3>1, <1>s DEF HasTask
      <3> QED BY <3>2, <3>3
    <2> QED BY <2>1, <2>2, <2>c
  <1> QED BY <1>3, <1>5, <1>6 DEF SweptOut

\* A step that gives up goes on with the next host, and remembers.
GivesUp == op' = Idle \/ (op'.todo = Tail(op.todo) /\ op'.todo # <<>> /\ op'.cmd = op.cmd /\ op'.worst)

LEMMA AbortGives ==
  ASSUME Types, NEW code, Abort(code)
  PROVE GivesUp
  <1>1. CASE op' = Idle BY <1>1 DEF GivesUp
  <1>2. CASE op' # Idle
    <2> DEFINE s == Tail(op.todo)
    <2>1. Continues(s, TRUE) /\ s # <<>> BY <1>2 DEF Abort, Ends, Continues
    <2>2. op' = [NextTask(s) EXCEPT !.worst = TRUE] BY <2>1 DEF Continues
    <2> HIDE DEF s
    <2>3. op'.todo = s /\ op'.cmd = op.cmd /\ op'.worst BY <2>2 DEF NextTask, Types, Jobs
    <2> QED BY <2>1, <2>3 DEF GivesUp, s
  <1> QED BY <1>1, <1>2

\* The markers that the world and the steps of an orphan clean leave alone.
LEMMA SweptBacks ==
  ASSUME Types, Control, Midway, SweptOut, Types', Control', [Next]_vars, op.pc # "idle", op' # Idle,
         op.cmd = "clean", op.todo[1][1] \in Backs
  PROVE SweptOut'
  <1>0. op # Idle /\ \A e \in Edition : HasTask({"adopt"}, e) BY Running DEF SweptOut
  <1> DEFINE s == Tail(op.todo)
  <1>1. /\ Len(op.todo) \in Nat /\ Len(s) \in Nat /\ Len(s) = Len(op.todo) - 1
        /\ \A i \in 1..Len(op.todo) : i = 1 \/ (i - 1 \in 1..Len(s) /\ s[i - 1] = op.todo[i])
    BY Rest
  <1> HIDE DEF s
  <1> SUFFICES ASSUME NEW e \in Edition PROVE HasTask({"adopt"}, e)' BY AllAdopt
  <1>2. PICK k \in 1..Len(op.todo) : op.todo[k][1] = "adopt" /\ op.todo[k][2] = e BY <1>0 DEF HasTask
  <1>3. k # 1 BY <1>2 DEF Backs
  <1>4. k - 1 \in 1..Len(s) /\ s[k - 1] = op.todo[k] BY <1>1, <1>3
  <1>5. CASE op'.todo = op.todo BY <1>2, <1>5 DEF HasTask
  <1>6. CASE op'.todo = s BY <1>2, <1>4, <1>6 DEF HasTask
  <1>7. CASE op'.todo = RollList(Cur, s)
    <2>1. s \in Lists /\ Runnable(op.cmd, op.user, s) BY <1>0, Running, RestRuns, Rest DEF Control, s
    <2> DEFINE z == RollList(Cur, s)
               a == Two("swap", "rolled", Cur)
    <2>2. a \in Lists /\ Len(a) = 2
      <3>1. <<"swap", Cur>> \in Tasks \X Edition /\ <<"rolled", Cur>> \in Tasks \X Edition BY Running, SMT DEF Tasks
      <3> QED BY <3>1, SMT DEF Lists, Two
    <2>3. z = Cat(a, s) BY DEF RollList, Cat, Two
    <2> HIDE DEF a, z
    <2>4. Len(Cat(a, s)) = Len(a) + Len(s) /\ \A i \in 1..Len(s) : Cat(a, s)[Len(a) + i] = s[i]
      BY <2>1, <2>2, JoinAt, Zenon
    <2>5. Len(z) = 2 + Len(s) /\ \A i \in 1..Len(s) : z[2 + i] = s[i] BY <2>2, <2>3, <2>4
    <2>6. 2 + (k - 1) \in 1..Len(z) /\ z[2 + (k - 1)] = s[k - 1] BY <2>5, <1>1, <1>4
    <2> QED BY <2>6, <1>2, <1>4, <1>7 DEF HasTask, z
  <1>8. CASE Recovers
    <2>1. \/ op' = Idle \/ SameList \/ Goes(s) \/ Goes(RollList(Cur, s))
      BY <1>8, RecoversTodo DEF s
    <2> QED BY <2>1, <1>5, <1>6, <1>7 DEF SameList, Goes
  <1>9. CASE World BY <1>5, <1>9, WorldBusy
  <1>10. CASE UNCHANGED vars BY <1>5, <1>10 DEF vars
  <1> QED BY <1>8, <1>9, <1>10, Sides

\* The tasks of an orphan clean past the recovery.
LEMMA CleansAt ==
  ASSUME Types, Control, op # Idle, op.cmd = "clean", op.todo[1][1] \notin Backs
  PROVE /\ op.todo[1][1] \in {"adopt", "uninstall", "modules", "leftovers", "swept", "strip", "wipe"}
        /\ op.pc \in {"adopt", "adopted", "uninstall", "examine", "excise", "restate", "forget", "erase", "erased",
                      "cleanup", "cleanpayload", "modules", "leftovers", "swept", "strip", "stripped", "wipe",
                      "retiretree"}
  <1>1. op.todo[1][1] \in TasksOf("clean") BY Running
  <1>2. op.todo[1][1] \in {"adopt", "uninstall", "modules", "leftovers", "swept", "strip", "wipe"}
    BY <1>1, SMT DEF TasksOf, Cleans, Backs
  <1>3. op.pc \in StepsOf(op.todo[1][1]) BY DEF Control
  <1> QED BY <1>2, <1>3, SMT DEF StepsOf

LEMMA SweptMid ==
  ASSUME Types, Control, Midway, Leaving, Types', Control', [Next]_vars, op.pc # "idle", op' # Idle,
         op.cmd = "clean", op.todo[1][1] \notin Backs
  PROVE SweptOut'
  <1>0. /\ op # Idle /\ Cur \in Edition /\ marker \in [Edition -> Marked] /\ marker' \in [Edition -> Marked]
        /\ SweptOut /\ GoneHere
    BY Running DEF Types, Leaving
  <1>p. op.pc \in {"adopt", "adopted", "uninstall", "examine", "excise", "restate", "forget", "erase", "erased",
                   "cleanup", "cleanpayload", "modules", "leftovers", "swept", "strip", "stripped", "wipe", "retiretree"}
    BY <1>0, CleansAt
  <1> DEFINE s == Tail(op.todo)
  <1>g. ASSUME NEW q, Goto(q),
               \A e \in Edition : marker'[e].present => marker[e].present \/ (e = Cur /\ op.todo[1][1] = "adopt")
        PROVE SweptOut'
    <2>1. op'.todo = op.todo /\ op'.worst = op.worst BY <1>g, GotoRuns
    <2> QED BY <2>1, <1>0, <1>g, SweptSame
  <1>a. ASSUME NEW code, Abort(code), \A e \in Edition : marker'[e].present => marker[e].present PROVE SweptOut'
    <2>1. GivesUp BY <1>a, AbortGives
    <2>2. op'.todo = Tail(op.todo) /\ op'.todo # <<>> /\ op'.worst BY <2>1 DEF GivesUp
    <2> QED BY <2>2, <1>0, <1>a, SweptRest
  <1>d. ASSUME Done, \A e \in Edition : marker'[e].present => marker[e].present,
               op.todo[1][1] \in {"adopt", "uninstall"} => ~marker[Cur].present
        PROVE SweptOut'
    <2>1. Goes(s) BY <1>0, <1>d, RunsTo DEF Done
    <2>2. op'.todo = Tail(op.todo) /\ op'.todo # <<>> /\ op'.worst = op.worst BY <2>1 DEF Goes
    <2> QED BY <2>2, <1>0, <1>d, SweptRest
  <1>i. ASSUME NEW t \in {"uninstall", "modules"}, Instead(<<<<t, Cur>>>>), op.todo[1][1] \in {"adopt", "uninstall"},
               \A e \in Edition : marker'[e].present => marker[e].present \/ (e = Cur /\ t = "uninstall"),
               t = "modules" => ~marker'[Cur].present
        PROVE SweptOut'
    <2> DEFINE z == Ahead(t, Cur, s)
    <2>1. Runs(z) BY <1>i DEF Instead, Ahead
    <2> HIDE DEF z
    <2>2. Goes(z) BY <2>1, <1>0, RunsTo
    <2>3. op'.todo = z /\ op'.worst = op.worst BY <2>2 DEF Goes
    <2> QED BY <2>3, <1>0, <1>i, SweptInto DEF z, s
  <1>u. ASSUME NEW q, marker' = [marker EXCEPT ![Cur].state = q]
        PROVE \A e \in Edition : marker'[e].present => marker[e].present
    BY <1>0, <1>u DEF Marked, Markers
  <1>x. ASSUME NEW m \in Marked, marker' = [marker EXCEPT ![Cur] = m]
        PROVE \A e \in Edition : marker'[e].present => marker[e].present \/ e = Cur
    BY <1>0, <1>x
  <1>s. UNCHANGED marker => \A e \in Edition : marker'[e].present => marker[e].present OBVIOUS
  <1>1. CASE Adopt
    <2>1. op.todo[1][1] = "adopt" BY <1>1, TaskOf DEF Adopt, At
    <2>2. \/ Unmarked /\ UNCHANGED marker
          \/ Abort("refused") /\ UNCHANGED marker
          \/ Goto("adopted") /\ \E o \in BOOLEAN : marker' = [marker EXCEPT ![Cur] = [present |-> TRUE, state |-> "", version |-> build, orig |-> o]]
      <3>1. snap[Cur][Live].orig \in BOOLEAN BY <1>0, Named DEF Types, Saved
      <3> QED BY <1>1, <3>1 DEF Adopt, SetMarker
    <2>3. CASE Unmarked /\ UNCHANGED marker
      <3>1. Instead(<<<<"uninstall", Cur>>>>) BY <2>3 DEF Unmarked
      <3> QED BY <2>1, <2>3, <3>1, <1>i
    <2>4. CASE Goto("adopted") /\ \E o \in BOOLEAN : marker' = [marker EXCEPT ![Cur] = [present |-> TRUE, state |-> "", version |-> build, orig |-> o]]
      <3>1. \A e \in Edition : e # Cur => marker'[e] = marker[e] BY <2>4, <1>0
      <3> QED BY <2>1, <2>4, <3>1, <1>g
    <2> QED BY <2>2, <2>3, <2>4, <1>a
  <1>2. CASE Adopted
    <2>1. op.todo[1][1] = "adopt" BY <1>2, TaskOf DEF Adopted, At
    <2>2. Instead(<<<<"uninstall", Cur>>>>) BY <1>2 DEF Adopted, Unmarked
    <2>3. \A e \in Edition : marker'[e].present => marker[e].present BY <1>2, <1>u DEF Adopted
    <2> QED BY <2>1, <2>2, <2>3, <1>i
  <1>3. CASE Uninstalls
    <2>1. \/ Done /\ ~marker[Cur].present /\ UNCHANGED marker
          \/ Abort("refused") /\ UNCHANGED marker
          \/ marker' = [marker EXCEPT ![Cur].state = "removing"] /\ op' = [op EXCEPT !.pc = "examine", !.was = marker[Cur]]
      BY <1>3 DEF Uninstalls
    <2>2. CASE marker' = [marker EXCEPT ![Cur].state = "removing"] /\ op' = [op EXCEPT !.pc = "examine", !.was = marker[Cur]]
      <3>1. op'.todo = op.todo /\ op'.worst = op.worst BY <2>2 DEF Types, Jobs
      <3>2. \A e \in Edition : marker'[e].present => marker[e].present BY <2>2, <1>u
      <3> QED BY <3>1, <3>2, <1>0, SweptSame
    <2> QED BY <2>1, <2>2, <1>a, <1>d, <1>s
  <1>4. CASE Examine \/ Excise \/ Erase \/ Erased \/ Cleanup
    <2>1. UNCHANGED marker
      BY <1>4 DEF Examine, Excise, Erase, Erased, Cleanup, disk
    <2>2. \/ Goto("forget") \/ Goto("restate") \/ Goto("erased") \/ Goto("cleanup") \/ Goto("cleanpayload")
          \/ op' = [op EXCEPT !.seen = profile[Cur], !.pc = "excise"]
      BY <1>4 DEF Examine, Excise, Replaced, Erase, Erased, Cleanup
    <2>3. CASE op' = [op EXCEPT !.seen = profile[Cur], !.pc = "excise"]
      <3>1. op'.todo = op.todo /\ op'.worst = op.worst BY <2>3 DEF Types, Jobs
      <3> QED BY <2>1, <3>1, <1>0, SweptSame
    <2> QED BY <2>1, <2>2, <2>3, <1>g
  <1>5. CASE Restate
    <2>1. Abort("failed") /\ marker' = [marker EXCEPT ![Cur].state = op.was.state] BY <1>5 DEF Restate
    <2>2. \A e \in Edition : marker'[e].present => marker[e].present BY <2>1, <1>u
    <2> QED BY <2>1, <2>2, <1>a
  <1>6. CASE Forget
    <2>1. Goto("erase") /\ marker' = [marker EXCEPT ![Cur] = NoMarker] BY <1>6 DEF Forget, SetMarker
    <2>2. \A e \in Edition : marker'[e].present => marker[e].present BY <2>1, <1>0 DEF NoMarker
    <2> QED BY <2>1, <2>2, <1>g
  <1>7. CASE CleanPayload
    <2>1. op.pc = "cleanpayload" /\ Instead(<<<<"modules", Cur>>>>) /\ UNCHANGED marker BY <1>7 DEF CleanPayload, At
    <2>2. op.todo[1][1] = "uninstall" /\ ~marker[Cur].present BY <2>1, <1>0, TaskOf DEF GoneHere
    <2> QED BY <2>1, <2>2, <1>i
  <1>8. CASE ReadStrip
    <2>1. op.todo[1][1] = "strip" /\ UNCHANGED marker
          /\ (Done \/ op' = [op EXCEPT !.seen = profile[Cur], !.pc = "stripped"])
      BY <1>8, TaskOf DEF ReadStrip, At, disk
    <2>2. CASE op' = [op EXCEPT !.seen = profile[Cur], !.pc = "stripped"]
      <3>1. op'.todo = op.todo /\ op'.worst = op.worst BY <2>2 DEF Types, Jobs
      <3> QED BY <2>1, <3>1, <1>0, SweptSame
    <2> QED BY <2>1, <2>2, <1>d
  <1>9. CASE StripBlocks \/ Modules \/ Leftovers \/ RetireTree \/ (Swept /\ op.worst)
    <2>1. Done /\ UNCHANGED marker /\ op.pc \in {"stripped", "modules", "leftovers", "retiretree", "swept"}
      BY <1>9 DEF StripBlocks, Replaced, Modules, Leftovers, RetireTree, Swept, At, disk
    <2>2. op.todo[1][1] \notin {"adopt", "uninstall"} BY <2>1, TaskOf, SMT
    <2> QED BY <2>1, <2>2, <1>d
  <1>10. CASE Swept /\ ~op.worst
    <2>1. op.pc = "swept" /\ UNCHANGED marker /\ Instead(Both("strip") \o <<<<"wipe", Cur>>>>)
      BY <1>10 DEF Swept, At, disk
    <2>2. op.todo[1][1] = "swept" BY <2>1, TaskOf
    <2>3. \A i \in 1..Len(op.todo) : op.todo[i][1] \notin {"adopt", "uninstall"}
      <3>1. Len(op.todo) \in Nat /\ Runnable(op.cmd, op.user, op.todo) BY <1>0, Rest DEF Control
      <3>2. \A i \in 1..Len(op.todo) : 1 < i => op.todo[i][1] \in Later(op.user, "swept")
        BY <2>2, <3>1 DEF Runnable, Ordered
      <3>3. Later(op.user, "swept") = {"strip", "wipe"} BY SMT DEF Later
      <3> QED BY <2>2, <3>1, <3>2, <3>3
    <2>4. \A e \in Edition : ~marker[e].present BY <2>2, <2>3, <1>0, <1>10 DEF SweptOut, HasTask, Backs
    <2>5. op'.todo[1][1] = "strip"
      <3> DEFINE z == WipeList(Cur, s)
                 t == "strip"
                 b == Both(t)
                 w == One("wipe", Cur)
                 x == Cat(b, w)
      <3>1. Runs(z) BY <2>1 DEF Instead, WipeList
      <3>2. op'.todo = z
        <4> HIDE DEF z
        <4>1. Goes(z) BY <3>1, <1>0, RunsTo
        <4> QED BY <4>1 DEF Goes
      <3>3. z = Cat(x, s) BY DEF WipeList, Cat, One
      <3>4. t \in Tasks /\ t \notin {"rolled", "upgrade"} /\ t \in TasksOf("clean") /\ t \in Later(op.user, t)
        BY SMT DEF Tasks, TasksOf, Cleans, Later
      <3>5. s \in Lists BY Rest
      <3>6. w \in Lists
        <4>1. <<"wipe", Cur>> \in Tasks \X Edition BY <1>0, SMT DEF Tasks
        <4> QED BY <4>1, SMT DEF Lists, One
      <3>7. t = "strip" OBVIOUS
      <3> HIDE DEF w, z, s, t
      <3>8. b \in Lists /\ Len(b) \in Nat /\ Len(b) >= 1 /\ b[1][1] = t
        <4>1. Plain("clean", op.user, Both(t)) /\ Len(Both(t)) \in Nat /\ Len(Both(t)) >= 1 BY <3>4, BothRun, Zenon
        <4>2. \A i \in 1..Len(Both(t)) : Both(t)[i] = <<t, Order[i]>> BY <3>4, BothRun, Zenon
        <4>3. 1 \in 1..Len(Both(t)) BY <4>1
        <4> QED BY <4>1, <4>2, <4>3 DEF Plain, Runnable
      <3> HIDE DEF b
      <3>9. Len(Cat(b, w)) = Len(b) + Len(w) /\ \A i \in 1..Len(b) : Cat(b, w)[i] = b[i] BY <3>6, <3>8, JoinAt, Zenon
      <3>10. x \in Lists BY <3>6, <3>8, ConcatProperties DEF Lists, Cat
      <3>11. x[1] = b[1] /\ 1 \in 1..Len(x)
        <4>1. 1 \in 1..Len(b) /\ Len(w) \in Nat BY <3>6, <3>8 DEF Lists
        <4> QED BY <4>1, <3>9, <3>8
      <3> HIDE DEF x
      <3>12. \A i \in 1..Len(x) : Cat(x, s)[i] = x[i] BY <3>5, <3>10, JoinAt, Zenon
      <3> QED BY <3>2, <3>3, <3>7, <3>8, <3>11, <3>12
    <2> QED BY <2>1, <2>4, <2>5 DEF SweptOut, Backs
  <1>11. CASE Wipe
    <2>1. Goto("retiretree") /\ marker' = [e \in Edition |-> NoMarker] BY <1>11 DEF Wipe
    <2>2. \A e \in Edition : ~marker'[e].present BY <2>1 DEF NoMarker
    <2> QED BY <2>1, <2>2, <1>g
  <1>12. CASE World
    <2>1. UNCHANGED op \/ op' = Idle \/ Fail BY <1>12, WorldBusy
    <2>2. UNCHANGED marker
      BY <1>12 DEF World, UserCommand, SweepStart, BackgroundEnable, BackgroundRepair, OrphanClean, Command,
                NewBuild, Remove, Edit, Crash, Fail, disk
    <2>3. CASE UNCHANGED op BY <2>2, <2>3, <1>0, SweptSame
    <2>4. CASE Fail
      <3>1. Done \/ Goto("undo") \/ Goto("restate") \/ Abort("failed") BY <2>4 DEF Fail
      <3>2. ASSUME Done PROVE SweptOut'
        <4>1. Goto("undo") \/ Goto("restate") \/ Abort("failed") \/ op.pc \in Finishes \cup {"stripped"} BY <2>4 DEF Fail
        <4>2. CASE op.pc \in Finishes \cup {"stripped"}
          <5>1. op.pc = "stripped" BY <1>p, <4>2, SMT DEF Finishes
          <5>2. op.todo[1][1] = "strip" BY <5>1, TaskOf
          <5> QED BY <5>2, <2>2, <3>2, <1>d
        <4> QED BY <4>1, <4>2, <2>2, <1>g, <1>a
      <3> QED BY <3>1, <3>2, <2>2, <1>g, <1>a
    <2> QED BY <2>1, <2>3, <2>4
  <1>13. CASE UNCHANGED vars
    <2>1. UNCHANGED marker /\ UNCHANGED op BY <1>13 DEF vars, disk
    <2> QED BY <2>1, <1>0, SweptSame
  <1>14. Enables => Adopt \/ Adopted
    <2>1. op.pc \notin {"enable", "tree", "install", "reinstall", "resume", "begin", "replace",
            "payload", "swapjournal", "aside", "deploy", "stage", "journal", "publish", "prepared", "retire", "live",
            "write", "installed", "verify", "commit", "undo", "undoroot", "undoname", "undoclean", "upgrade",
            "commitswap", "version", "finish", "finishswap", "finishstate", "finishjournal"}
      BY <1>p, SMT
    <2>2. ~(Enable \/ Tree \/ Install \/ Reinstall \/ Resume \/ Begin \/ Upgrade \/ CommitSwap \/ Version)
      BY <2>1 DEF Enable, Tree, Install, Reinstall, Resume, Begin, Upgrade, CommitSwap, Version, At
    <2>3. ~(Ensure \/ SwapJournal \/ Aside \/ Deploy \/ Finish \/ FinishSwap \/ Undo \/ UndoRoot \/ UndoName
              \/ UndoClean)
      BY <2>1 DEF Ensure, SwapJournal, Aside, Deploy, Finish, FinishSwap, Undo, UndoRoot, UndoName, UndoClean, At
    <2>4. ~(Stage \/ OpenJournal \/ Publish \/ Prepared \/ Retire \/ GoLive \/ Write \/ MarkInstalled \/ Verify
              \/ Commit \/ FinishState \/ FinishJournal)
      BY <2>1 DEF Stage, OpenJournal, Publish, Prepared, Retire, GoLive, Write, MarkInstalled, Verify, Commit,
               FinishState, FinishJournal, At
    <2> QED BY <2>2, <2>3, <2>4, Zenon DEF Enables
  <1>15. Removes => Uninstalls \/ Examine \/ Excise \/ Restate \/ Forget \/ Erase \/ Erased \/ Cleanup \/ CleanPayload
    BY DEF Removes
  <1>16. Tidies => ReadStrip \/ StripBlocks \/ Modules \/ Leftovers \/ Swept \/ Wipe \/ RetireTree
    <2>1. ~Repair BY <1>p, SMT DEF Repair, At
    <2> QED BY <2>1 DEF Tidies
  <1>17. Removes => SweptOut' BY <1>15, <1>3, <1>4, <1>5, <1>6, <1>7
  <1>18. Tidies => SweptOut' BY <1>16, <1>8, <1>9, <1>10, <1>11
  <1>19. Enables => SweptOut' BY <1>14, <1>1, <1>2
  <1> QED BY <1>12, <1>13, <1>17, <1>18, <1>19, Sides

LEMMA LeavingStep ==
  ASSUME Types, Control, Midway, Held, Leaving, Types', Control', Held', [Next]_vars
  PROVE Leaving'
  <1>1. GoneHere' BY GoneStep DEF Leaving
  <1>2. CASE op'.cmd # "clean" BY <1>1, <1>2 DEF SweptOut, Leaving
  <1>3. CASE op' = Idle BY <1>2, <1>3 DEF Idle
  <1>4. CASE op'.cmd = "clean" /\ op' # Idle /\ op # Idle
    <2>0. build' = build BY <1>4, BuildStays
    <2>a. build' = 0 BY <1>4 DEF Control
    <2>1. op.cmd = "clean" BY <1>4, <2>0, <2>a DEF Control
    <2>2. op.pc # "idle" BY <1>4, Running
    <2> QED BY <1>1, <1>4, <2>1, <2>2, SweptBacks, SweptMid DEF Leaving
  <1>5. CASE op'.cmd = "clean" /\ op = Idle
    <2>1. op.cmd # "clean" /\ op.pc = "idle" BY <1>5 DEF Idle
    <2>2. World /\ ~UNCHANGED op BY <1>5, <2>1, Resting
    <2>3. PICK cmd \in Commands \ {"none"}, f \in Edition, user \in BOOLEAN :
            Command(cmd, f, user) /\ (cmd = "repair" => user) /\ (cmd = "repairall" => ~user) /\ (cmd = "clean" <=> build = 0)
      BY <2>2, <1>5, WorldIdle
    <2> DEFINE s == Todo(cmd, f)
    <2>4. op'.todo = s /\ op'.cmd = cmd
      <3> HIDE DEF s
      <3>1. op' = [Idle EXCEPT !.cmd = cmd, !.user = user, !.todo = s, !.pc = Head(s)[1]] BY <2>3 DEF Command, s
      <3> QED BY <3>1 DEF Idle
    <2>5. \A e \in Edition : \E i \in 1..Len(s) : s[i] = <<"adopt", e>> BY <2>4, <1>5, TodoFirst
    <2> HIDE DEF s
    <2>6. \A e \in Edition : HasTask({"adopt"}, e)'
      <3>1. \A e \in Edition : \E i \in 1..Len(op'.todo) : op'.todo[i] = <<"adopt", e>> BY <2>4, <2>5
      <3>2. \A e \in Edition : \E i \in 1..Len(op'.todo) : op'.todo[i][1] = "adopt" /\ op'.todo[i][2] = e
        <4> SUFFICES ASSUME NEW e \in Edition
                     PROVE \E i \in 1..Len(op'.todo) : op'.todo[i][1] = "adopt" /\ op'.todo[i][2] = e
          OBVIOUS
        <4>1. PICK i \in 1..Len(op'.todo) : op'.todo[i] = <<"adopt", e>> BY <3>1
        <4>2. op'.todo[i][1] = "adopt" /\ op'.todo[i][2] = e BY <4>1
        <4> QED BY <4>2
      <3> QED BY <3>2 DEF HasTask
    <2>7. op' # Idle BY <1>5 DEF Idle
    <2>8. SweptOut' BY <2>6, <2>7, AllAdopt
    <2> QED BY <1>1, <2>8 DEF Leaving
  <1> QED BY <1>1, <1>2, <1>3, <1>4, <1>5 DEF Leaving

-----------------------------------------------------------------------------
(* A block in a profile has a marker, and an old one the versioned payload. *)

NotOpen(e) == journal[e].phase # "open"

\* A block in a profile is a host's with a marker, and an old block's marker, or
\* the one that a transaction replaced, names the versioned payload.  What a
\* transaction that is open would put back is as good.
BlockMark(e) ==
  /\ profile[e].block # "none" => marker[e].present
  /\ NotOpen(e) /\ marker[e].state \in {"", "prepared"} => Bare(e)
  /\ profile[e].block = "legacy" =>
       tree.legacy /\ Legacy = IF NotOpen(e) THEN marker[e].version ELSE journal[e].prev
  /\ ~NotOpen(e) /\ journal[e].prev # 0 => marker[e].present
BlockBack(e) ==
  ~NotOpen(e) /\ RecoveryAt(e).kind = "full" =>
     /\ journal[e].prev = 0 => RecoveryAt(e).before.block = "none"
     /\ RecoveryAt(e).before.block = "legacy" => tree.legacy /\ journal[e].prev = Legacy
BlockAt(e) == BlockMark(e) /\ BlockBack(e)
BlocksMarked == \A e \in Edition : BlockAt(e)

\* What a step has read of a block.
InPlace == op.todo # <<>> /\ op.todo[1][1] = "upgrade" /\ op.pc # "upgrade"
ReadBlock ==
  /\ marker[Cur] = op.was
  /\ ~op.was.present => op.seen.block = "none"
  /\ op.seen.block = "legacy" => tree.legacy /\ op.was.version = Legacy
BlockRead ==
  /\ op.pc \in Before => ReadBlock
  /\ op.pc = "commit" \/ InPlace => profile[Cur].block # "legacy"
  /\ (op.pc = "unpublish" \/ RollingBack) /\ J.prev = 0 => Bare(Cur)
  /\ (op.pc = "state" \/ Rolled) /\ J.prev # 0 => marker[Cur].version = J.prev
  /\ op.pc \in {"examine", "excise", "restate"} /\ op.was.state = "prepared" => Bare(Cur)
  /\ op.pc \in {"forget", "adopted"} => Bare(Cur)
Blocked == BlocksMarked /\ BlockRead

LEMMA BlockSame ==
  ASSUME BlocksMarked, UNCHANGED <<marker, snap, journal>>, tree'.legacy = tree.legacy,
         \A e \in Edition : profile'[e].block \in {"none", profile[e].block}
  PROVE BlocksMarked'
  <1> SUFFICES ASSUME NEW e \in Edition PROVE BlockAt(e)' BY DEF BlocksMarked
  <1>1. BlockAt(e) BY DEF BlocksMarked
  <1>2. BlockMark(e)' BY <1>1 DEF BlockAt, BlockMark, NotOpen, Bare
  <1>3. BlockBack(e)' BY <1>1 DEF BlockAt, BlockBack, NotOpen, RecoveryAt
  <1> QED BY <1>2, <1>3 DEF BlockAt

LEMMA BlockOne ==
  ASSUME NEW c \in Edition, BlocksMarked, tree'.legacy = tree.legacy,
         \A e \in Edition \ {c} : /\ profile'[e] = profile[e] /\ marker'[e] = marker[e]
                                  /\ snap'[e] = snap[e] /\ journal'[e] = journal[e],
         BlockAt(c)'
  PROVE BlocksMarked'
  <1> SUFFICES ASSUME NEW e \in Edition \ {c} PROVE BlockAt(e)' BY DEF BlocksMarked
  <1>1. BlockAt(e) BY DEF BlocksMarked
  <1>2. BlockMark(e)' BY <1>1 DEF BlockAt, BlockMark, NotOpen, Bare
  <1>3. BlockBack(e)' BY <1>1 DEF BlockAt, BlockBack, NotOpen, RecoveryAt
  <1> QED BY <1>2, <1>3 DEF BlockAt

LEMMA BlockMarker ==
  ASSUME NEW c \in Edition, BlocksMarked, UNCHANGED <<profile, snap, journal, tree>>,
         \A e \in Edition \ {c} : marker'[e] = marker[e],
         BlockMark(c)'
  PROVE BlocksMarked'
  <1>1. BlockBack(c) BY DEF BlocksMarked, BlockAt
  <1>2. BlockBack(c)' BY <1>1 DEF BlockBack, NotOpen, RecoveryAt
  <1> QED BY <1>2, BlockOne DEF BlockAt

LEMMA BlockText ==
  ASSUME NEW c \in Edition, BlocksMarked, UNCHANGED <<marker, snap, journal, tree>>,
         \A e \in Edition \ {c} : profile'[e] = profile[e],
         BlockMark(c)'
  PROVE BlocksMarked'
  <1>1. BlockBack(c) BY DEF BlocksMarked, BlockAt
  <1>2. BlockBack(c)' BY <1>1 DEF BlockBack, NotOpen, RecoveryAt
  <1> QED BY <1>2, BlockOne DEF BlockAt

LEMMA BlockFiles ==
  ASSUME NEW c \in Edition, BlocksMarked, UNCHANGED <<profile, marker, journal>>, tree'.legacy = tree.legacy,
         \A e \in Edition \ {c} : snap'[e] = snap[e],
         journal[c].phase = "open" => RecoveryAt(c)' = RecoveryAt(c) \/ RecoveryAt(c)'.kind # "full"
  PROVE BlocksMarked'
  <1>1. BlockAt(c) BY DEF BlocksMarked
  <1>2. BlockMark(c)' BY <1>1 DEF BlockAt, BlockMark, NotOpen, Bare
  <1>3. BlockBack(c)'
    <2> DEFINE r == RecoveryAt(c)
    <2>1. BlockBack(c) = (~NotOpen(c) /\ r.kind = "full" =>
                            /\ journal[c].prev = 0 => r.before.block = "none"
                            /\ r.before.block = "legacy" => tree.legacy /\ journal[c].prev = Legacy)
      BY DEF BlockBack
    <2>2. BlockBack(c)' = (~NotOpen(c)' /\ r'.kind = "full" =>
                            /\ journal'[c].prev = 0 => r'.before.block = "none"
                            /\ r'.before.block = "legacy" => tree'.legacy /\ journal'[c].prev = Legacy)
      BY DEF BlockBack, Legacy
    <2> HIDE DEF r
    <2>3. journal[c].phase = "open" => r' = r \/ r'.kind # "full" BY DEF r
    <2>4. ~NotOpen(c)' <=> journal[c].phase = "open" BY DEF NotOpen
    <2> QED BY <2>1, <2>2, <2>3, <2>4, <1>1 DEF BlockAt, NotOpen
  <1> QED BY <1>2, <1>3, BlockOne DEF BlockAt

LEMMA BlockJournal ==
  ASSUME NEW c \in Edition, BlocksMarked, UNCHANGED <<profile, marker, snap, tree>>,
         \A e \in Edition \ {c} : journal'[e] = journal[e],
         BlockAt(c)'
  PROVE BlocksMarked'
  BY BlockOne

\* Without a block, or without a marker.
LEMMA BareMark ==
  ASSUME NEW c \in Edition, profile'[c].block = "none",
         journal'[c].phase = "open" /\ journal'[c].prev # 0 => marker'[c].present
  PROVE BlockMark(c)'
  BY DEF BlockMark, NotOpen, Bare

LEMMA NoMarkerBare ==
  ASSUME BlocksMarked, NEW e \in Edition, ~marker[e].present
  PROVE Bare(e)
  BY DEF BlocksMarked, BlockAt, BlockMark, Bare

LEMMA RecoversBlock ==
  ASSUME Types, Control, Midway, Held, SeenHere, Blocked, Recovers
  PROVE BlocksMarked'
  <1>0. /\ profile \in [Edition -> Files] /\ marker \in [Edition -> Marked] /\ journal \in [Edition -> Journals]
        /\ snap \in [Edition -> [Names -> Saved]] /\ tree \in [state : BOOLEAN, legacy : BOOLEAN]
        /\ BlocksMarked /\ BlockRead
    BY DEF Types, Blocked
  <1>c. PICK c \in Edition : c = Cur BY Running
  <1>b. BlockMark(c) /\ BlockBack(c) BY <1>0 DEF BlocksMarked, BlockAt
  <1>j. J = journal[c] BY <1>c DEF J
  <1>n. Live \in Names BY Named
  <1>t. J.phase = "open" => J.tx \in Tx /\ Stg(J.tx) \in Names /\ Rmv(J.tx) \in Names /\ Stg(J.tx) # Live
                            /\ Rmv(J.tx) # Live /\ Stg(J.tx) # Rmv(J.tx)
    BY Ids, Named DEF Stg, Rmv, Midway
  <1>1. CASE UNCHANGED <<profile, marker, snap, journal, tree>> BY <1>1, <1>0, BlockSame
  <1>2. CASE Restore
    <2>1. op.pc = "restore" /\ UNCHANGED <<marker, snap, journal, tree>> BY <1>2 DEF Restore, At
    <2>2. UNCHANGED profile \/ profile' = [profile EXCEPT ![c] = Recovery.before]
      BY <1>2, <1>c DEF Restore, Replaced, SetProfile
    <2>3. J.phase = "open" /\ Recovery.kind = "full" BY <2>1 DEF Midway, Phased, Held
    <2>4. Recovery = RecoveryAt(c) BY <1>c DEF Recovery, Published, Staged, RecoveryAt, Stg, J
    <2> DEFINE x == Recovery.before
    <2>5. /\ J.prev = 0 => x.block = "none"
          /\ x.block = "legacy" => tree.legacy /\ J.prev = Legacy
          /\ J.prev # 0 => marker[c].present
      BY <2>3, <2>4, <1>b, <1>j DEF BlockBack, BlockMark, NotOpen
    <2> HIDE DEF x
    <2>6. CASE profile' = [profile EXCEPT ![c] = x]
      <3>1. profile'[c] = x /\ \A e \in Edition \ {c} : profile'[e] = profile[e] BY <2>6, <1>0
      <3>2. BlockMark(c)' BY <2>1, <2>3, <2>5, <3>1, <1>j DEF BlockMark, NotOpen, Bare
      <3> QED BY <2>1, <3>1, <3>2, <1>0, BlockText
    <2> QED BY <2>1, <2>2, <2>6, <1>1 DEF x
  <1>3. CASE Unpublish
    <2>1. op.pc = "unpublish" /\ UNCHANGED <<profile, marker, journal, tree>> BY <1>3 DEF Unpublish, At
    <2>2. J.phase = "open" BY <2>1 DEF Midway, Phased
    <2> DEFINE a == Stg(J.tx)
    <2>3. UNCHANGED snap \/ (snap[c][a].kind = "none" /\ snap' = [snap EXCEPT ![c] = Moved(@, Live, a, NoSnap)])
      BY <1>3, <1>c DEF Unpublish, Published, Staged, Stg
    <2>4. a \in Names /\ a # Live BY <2>2, <1>t
    <2>5. a = Stg(journal[c].tx) BY <1>j
    <2> HIDE DEF a
    <2>6. CASE snap[c][a].kind = "none" /\ snap' = [snap EXCEPT ![c] = Moved(@, Live, a, NoSnap)]
      <3>1. /\ \A e \in Edition \ {c} : snap'[e] = snap[e]
            /\ snap'[c] = Moved(snap[c], Live, a, NoSnap)
        BY <2>6, <1>0
      <3>2. snap'[c][a] = snap[c][Live] /\ snap'[c][Live] = NoSnap /\ NoSnap.kind = "none"
        BY <3>1, <2>4, <1>0, <1>n DEF Moved, NoSnap
      <3>3. RecoveryAt(c) = snap[c][Live] BY <2>5, <2>6 DEF RecoveryAt
      <3>4. RecoveryAt(c)' = IF snap'[c][a].kind = "none" THEN snap'[c][Live] ELSE snap'[c][a]
        BY <2>1, <2>5 DEF RecoveryAt, Stg
      <3>5. RecoveryAt(c)' = RecoveryAt(c) \/ RecoveryAt(c)'.kind # "full" BY <3>2, <3>3, <3>4
      <3> QED BY <2>1, <3>1, <3>5, <1>0, BlockFiles
    <2> QED BY <2>1, <2>3, <2>6, <1>1
  <1>4. CASE Unretire
    <2>1. op.pc = "unretire" /\ UNCHANGED <<profile, marker, journal, tree>> BY <1>4 DEF Unretire, At
    <2>2. RollingBack BY <2>1 DEF RollingBack
    <2>3. J.phase = "open" /\ Kind(Cur, Stg(J.tx)) # "none" BY <2>2 DEF Midway, Phased, Held
    <2> DEFINE a == Stg(J.tx)
               r == Rmv(J.tx)
    <2>4. UNCHANGED snap \/ snap' = [snap EXCEPT ![c] = Moved(@, r, Live, NoSnap)]
      BY <1>4, <1>c DEF Unretire, Rmv
    <2>5. a \in Names /\ a # Live /\ r \in Names /\ a # r BY <2>3, <1>t
    <2>6. a = Stg(journal[c].tx) /\ snap[c][a].kind # "none" BY <2>3, <1>j, <1>c DEF Kind
    <2> HIDE DEF a, r
    <2>7. CASE snap' = [snap EXCEPT ![c] = Moved(@, r, Live, NoSnap)]
      <3>1. /\ \A e \in Edition \ {c} : snap'[e] = snap[e]
            /\ snap'[c] = Moved(snap[c], r, Live, NoSnap)
        BY <2>7, <1>0
      <3>2. snap'[c][a] = snap[c][a] BY <3>1, <2>5, <1>0, <1>n DEF Moved
      <3>3. RecoveryAt(c) = snap[c][a] BY <2>6 DEF RecoveryAt
      <3>4. RecoveryAt(c)' = IF snap'[c][a].kind = "none" THEN snap'[c][Live] ELSE snap'[c][a]
        BY <2>1, <2>6 DEF RecoveryAt, Stg
      <3>5. RecoveryAt(c)' = RecoveryAt(c) BY <3>2, <3>3, <3>4, <2>6
      <3> QED BY <2>1, <3>1, <3>5, <1>0, BlockFiles
    <2> QED BY <2>1, <2>4, <2>7, <1>1
  <1>5. CASE RestoreValues
    <2>1. op.pc = "values" /\ UNCHANGED <<profile, snap, journal, tree>> BY <1>5 DEF RestoreValues, At
    <2>2. RollingBack BY <2>1 DEF RollingBack
    <2>3. J.phase = "open" /\ (J.prev = 0 => Bare(c)) BY <2>2, <1>0, <1>c DEF Midway, Phased, BlockRead
    <2>4. marker' = [marker EXCEPT ![c] = IF J.prev = 0 THEN NoMarker
                    ELSE [marker[c] EXCEPT !.present = TRUE, !.version = J.prev, !.orig = J.orig]]
      BY <1>5, <1>c DEF RestoreValues, SetMarker
    <2>5. \A e \in Edition \ {c} : marker'[e] = marker[e] BY <2>4, <1>0
    <2>6. J.prev # 0 => marker'[c].present
      <3> SUFFICES ASSUME J.prev # 0 PROVE marker'[c].present OBVIOUS
      <3> DEFINE p == J.prev
                 o == J.orig
                 m == marker[c]
      <3>1. marker'[c] = [m EXCEPT !.present = TRUE, !.version = p, !.orig = o] BY <2>4, <1>0
      <3>2. m \in Markers BY <1>0 DEF Marked
      <3> HIDE DEF p, o, m
      <3> QED BY <3>1, <3>2 DEF Markers
    <2>7. BlockMark(c)'
      <3>1. CASE J.prev = 0
        <4>1. profile'[c].block = "none" /\ journal'[c].prev = 0 BY <2>1, <2>3, <3>1, <1>j DEF Bare
        <4> QED BY <4>1, BareMark
      <3>2. CASE J.prev # 0 BY <2>1, <2>3, <2>6, <3>2, <1>b, <1>j DEF BlockMark, NotOpen, Bare
      <3> QED BY <3>1, <3>2
    <2> QED BY <2>1, <2>5, <2>7, <1>0, BlockMarker
  <1>6. CASE RestoreState
    <2>1. op.pc = "state" /\ UNCHANGED <<profile, snap, journal, tree>> BY <1>6 DEF RestoreState, At
    <2>2. RollingBack BY <2>1 DEF RollingBack
    <2>3. J.phase = "open" BY <2>2 DEF Midway, Phased
    <2>4. UNCHANGED marker \/ marker' = [marker EXCEPT ![c].state = "installed"] BY <1>6, <1>c DEF RestoreState
    <2>5. CASE marker' = [marker EXCEPT ![c].state = "installed"]
      <3>1. \A e \in Edition \ {c} : marker'[e] = marker[e] BY <2>5, <1>0
      <3>2. marker'[c].present = marker[c].present BY <2>5, <1>0 DEF Marked, Markers
      <3>3. BlockMark(c)' BY <2>1, <2>3, <3>2, <1>b, <1>j DEF BlockMark, NotOpen, Bare
      <3> QED BY <2>1, <3>1, <3>3, <1>0, BlockMarker
    <2> QED BY <2>1, <2>4, <2>5, <1>1
  <1>7. CASE RolledBack
    <2>1. op.pc = "rolled" /\ UNCHANGED <<profile, marker, snap, tree>> BY <1>7 DEF RolledBack, At
    <2>2. RollingBack /\ Rolled BY <2>1 DEF RollingBack, Rolled
    <2>3. J.phase = "open" BY <2>2 DEF Midway, Phased
    <2>4. /\ J.prev = 0 => Bare(c)
          /\ J.prev # 0 => marker[c].version = J.prev /\ InstalledMarker(c)
      BY <2>2, <1>0, <1>c DEF BlockRead, SeenHere, Backing
    <2>5. journal' = [journal EXCEPT ![c].phase = "rolledback"] BY <1>7, <1>c DEF RolledBack, SetJournal
    <2>6. \A e \in Edition \ {c} : journal'[e] = journal[e] BY <2>5, <1>0
    <2>7. journal'[c].phase = "rolledback" BY <2>5, <1>0 DEF Journals, Entries
    <2>8. BlockMark(c)'
      BY <2>1, <2>3, <2>4, <2>7, <1>b, <1>j DEF BlockMark, NotOpen, Bare, InstalledMarker
    <2>9. BlockBack(c)' BY <2>7 DEF BlockBack, NotOpen
    <2> QED BY <2>1, <2>6, <2>8, <2>9, <1>0, BlockJournal DEF BlockAt
  <1>8. CASE TidyState
    <2>1. op.pc = "tidystate" /\ UNCHANGED <<profile, marker, journal, tree>> BY <1>8 DEF TidyState, At
    <2>2. journal[c].phase # "open" BY <2>1, <1>j DEF Midway, Phased
    <2>3. \A e \in Edition \ {c} : snap'[e] = snap[e] BY <1>8, <1>c, <1>0 DEF TidyState
    <2> QED BY <2>1, <2>2, <2>3, <1>0, BlockFiles
  <1>9. CASE DropJournal
    <2>1. op.pc = "dropjournal" /\ UNCHANGED <<profile, marker, snap, tree>> BY <1>9 DEF DropJournal, At
    <2>2. journal[c].phase # "open" BY <2>1, <1>j DEF Midway, Phased
    <2>3. journal' = [journal EXCEPT ![c] = NoEntry] BY <1>9, <1>c DEF DropJournal
    <2>4. journal'[c] = NoEntry /\ \A e \in Edition \ {c} : journal'[e] = journal[e] BY <2>3, <1>0
    <2>5. journal'[c].phase = "none" BY <2>4 DEF NoEntry
    <2>6. BlockMark(c)' BY <2>1, <2>2, <2>5, <1>b DEF BlockMark, NotOpen, Bare
    <2>7. BlockBack(c)' BY <2>5 DEF BlockBack, NotOpen
    <2> QED BY <2>1, <2>4, <2>6, <2>7, <1>0, BlockJournal DEF BlockAt
  <1>10. CASE Recover \/ TidySwap \/ TidyDrop \/ SwapActs
    BY <1>1, <1>10 DEF Recover, TidySwap, TidyDrop, SwapActs, Swap, SwapRoot, SwapRename, SwapClean, SwapDrop, disk
  <1> QED BY <1>2, <1>3, <1>4, <1>5, <1>6, <1>7, <1>8, <1>9, <1>10, Zenon DEF Recovers, SwapActs

\* Outside of a transaction no profile has a block, or nobody changed one.
LEMMA BlockBare ==
  ASSUME \A e \in Edition : profile'[e].block = "none" /\ journal'[e].phase # "open"
  PROVE BlocksMarked'
  <1> SUFFICES ASSUME NEW e \in Edition PROVE BlockAt(e)' BY DEF BlocksMarked
  <1>1. BlockMark(e)' BY BareMark
  <1>2. BlockBack(e)' BY DEF BlockBack, NotOpen
  <1> QED BY <1>1, <1>2 DEF BlockAt

LEMMA BlockClosed ==
  ASSUME NEW c \in Edition, BlocksMarked, journal'[c].phase # "open", tree'.legacy = tree.legacy,
         \A e \in Edition \ {c} : /\ profile'[e] = profile[e] /\ marker'[e] = marker[e]
                                  /\ snap'[e] = snap[e] /\ journal'[e] = journal[e],
         BlockMark(c)'
  PROVE BlocksMarked'
  <1>1. BlockBack(c)' BY DEF BlockBack, NotOpen
  <1> QED BY <1>1, BlockOne DEF BlockAt

\* Without a marker there is no version.
LEMMA NoVersion ==
  ASSUME NEW m \in Marked, m.version # 0
  PROVE m.present
  <1> SUFFICES ASSUME ~m.present PROVE m.version = 0 OBVIOUS
  <1>1. m = NoMarker BY DEF Marked
  <1>2. NoMarker.version = 0 BY DEF NoMarker
  <1> QED BY <1>1, <1>2

LEMMA EnablesBlock ==
  ASSUME Types, Control, Midway, Held, SeenHere, Blocked, Enables
  PROVE BlocksMarked'
  <1>0. /\ (op.pc # "idle" => op # Idle) /\ (op.pc \in Stated => T \in Tx)
        /\ journal \in [Edition -> Journals] /\ profile \in [Edition -> Files]
        /\ marker \in [Edition -> Marked] /\ snap \in [Edition -> [Names -> Saved]]
        /\ op.was \in Marked /\ op.seen \in Files /\ tree \in [state : BOOLEAN, legacy : BOOLEAN]
        /\ BlocksMarked /\ BlockRead
    BY Ids, Running DEF Midway, Types, Jobs, Blocked
  <1>c. PICK c \in Edition : c = Cur BY Running
  <1>j. journal[c] = J BY <1>c DEF J
  <1>b. BlockMark(c) /\ BlockBack(c) BY <1>0 DEF BlocksMarked, BlockAt
  <1>o. op.pc \in Open => J.phase = "open" /\ J.tx = T BY DEF Midway, Phased, Held
  <1>n. Live \in Names /\ \A t \in Tx : /\ Stg(t) \in Names /\ Rmv(t) \in Names
                                        /\ Stg(t) # Live /\ Rmv(t) # Live /\ Stg(t) # Rmv(t)
    BY Named DEF Stg, Rmv
  <1>w. op.pc \in Whole => op.pc \in Stated BY DEF Stated
  <1>q. op.pc # "idle" /\ op.pc \notin Recovering /\ op.pc \notin Opens => \A e \in Edition : journal[e].phase # "open"
    BY <1>c, <1>j, TaskKind, Quiet
  <1>1. CASE Adopt
    <2>1. op.pc = "adopt" /\ UNCHANGED <<profile, journal, tree>> BY <1>1 DEF Adopt, At
    <2>2. \A e \in Edition : journal[e].phase # "open" BY <2>1, <1>q, SMT DEF Recovering, Opens
    <2>3. CASE UNCHANGED <<marker, snap>> BY <2>1, <2>3, <1>0, BlockSame
    <2>4. CASE ~marker[c].present /\ (\E k : snap' = [snap EXCEPT ![c][Live].kind = k])
               /\ (\E m : marker' = [marker EXCEPT ![c] = m])
      <3>1. \A e \in Edition \ {c} : marker'[e] = marker[e] /\ snap'[e] = snap[e] BY <2>4, <1>0
      <3>2. profile'[c].block = "none" BY <2>1, <2>4, <1>0, NoMarkerBare DEF Bare
      <3>3. BlockMark(c)' BY <2>1, <2>2, <3>2, BareMark
      <3> QED BY <2>1, <2>2, <3>1, <3>3, <1>0, BlockClosed
    <2>5. UNCHANGED <<marker, snap>>
          \/ /\ ~marker[c].present
             /\ snap' = [snap EXCEPT ![c][Live].kind = IF snap[c][Live].kind = "old" THEN "adopted" ELSE @]
             /\ marker' = [marker EXCEPT ![c] = [present |-> TRUE, state |-> "", version |-> build, orig |-> snap[c][Live].orig]]
      BY <1>1, <1>c DEF Adopt, SetMarker
    <2>6. ASSUME ~marker[c].present,
                 snap' = [snap EXCEPT ![c][Live].kind = IF snap[c][Live].kind = "old" THEN "adopted" ELSE @],
                 marker' = [marker EXCEPT ![c] = [present |-> TRUE, state |-> "", version |-> build, orig |-> snap[c][Live].orig]]
          PROVE BlocksMarked'
      <3> DEFINE m == [present |-> TRUE, state |-> "", version |-> build, orig |-> snap[c][Live].orig]
                 k == IF snap[c][Live].kind = "old" THEN "adopted" ELSE snap[c][Live].kind
      <3>1. marker' = [marker EXCEPT ![c] = m] /\ snap' = [snap EXCEPT ![c][Live].kind = k] BY <2>6
      <3> HIDE DEF m, k
      <3> QED BY <3>1, <2>4, <2>6
    <2> QED BY <2>3, <2>5, <2>6
  <1>2. CASE Adopted
    <2>1. op.pc = "adopted" /\ UNCHANGED <<profile, snap, journal, tree>>
          /\ marker' = [marker EXCEPT ![c].state = "prepared"]
      BY <1>2, <1>c DEF Adopted, At
    <2>2. J.phase # "open" BY <2>1, <1>q, <1>j, SMT DEF Recovering, Opens
    <2>3. \A e \in Edition \ {c} : marker'[e] = marker[e] BY <2>1, StateOnly
    <2>4. profile'[c].block = "none" BY <2>1, <1>0, <1>c DEF BlockRead, Bare
    <2>5. BlockMark(c)' BY <2>1, <2>2, <2>4, <1>j, BareMark
    <2> QED BY <2>1, <2>3, <2>5, <1>0, BlockMarker
  <1>3. CASE Stage
    <2> DEFINE g == Stg(T)
               s == [kind |-> "full", before |-> op.seen, orig |-> OriginalPresent(op.seen, op.was)]
    <2>1. op.pc = "stage" /\ UNCHANGED <<profile, marker, journal>> /\ snap' = [snap EXCEPT ![c][g] = s]
          /\ tree' = [tree EXCEPT !.state = TRUE]
      BY <1>3, <1>c DEF Stage, At, Stg
    <2>2. journal[c].phase # "open" BY <2>1, <1>q, <1>j, SMT DEF Recovering, Opens
    <2> HIDE DEF g, s
    <2>3. \A e \in Edition \ {c} : snap'[e] = snap[e] BY <2>1, <1>0
    <2>4. tree'.legacy = tree.legacy BY <2>1, <1>0
    <2> QED BY <2>1, <2>2, <2>3, <2>4, <1>0, BlockFiles
  <1>4. CASE OpenJournal
    <2> DEFINE x == Opened(T, op.was)
               g == Stg(T)
    <2>1. op.pc = "journal" /\ UNCHANGED <<profile, marker, snap, tree>> /\ journal' = [journal EXCEPT ![c] = x]
      BY <1>4, <1>c DEF OpenJournal, At
    <2>2. x.phase = "open" /\ x.tx = T /\ x.prev = op.was.version
      BY <1>0 DEF Opened, Marked, Markers
    <2>3. ReadWell /\ snap[c][g].before = op.seen BY <2>1, <1>c, SMT DEF SeenHere, Reading, Before
    <2>4. snap[c][g].kind = "full" BY <2>1, <1>c, SMT DEF Held, Filed, Kind
    <2>5. op.was.version # 0 => op.was.present BY <1>0, NoVersion
    <2>6. /\ marker[c] = op.was
          /\ ~op.was.present => op.seen.block = "none"
          /\ op.seen.block = "legacy" => tree.legacy /\ op.was.version = Legacy
      BY <2>1, <1>0, <1>c DEF BlockRead, ReadBlock, Before
    <2>7. x.prev = 0 => op.seen.block = "none" BY <2>2, <2>3, <2>6 DEF ReadWell
    <2>8. journal[c].phase # "open" BY <2>1, <1>q, <1>j, SMT DEF Recovering, Opens
    <2> HIDE DEF x
    <2>9. (\A e \in Edition \ {c} : journal'[e] = journal[e]) /\ journal'[c] = x BY <2>1, <1>0
    <2>10. BlockMark(c)'
      <3>1. profile'[c] = profile[c] /\ marker'[c] = marker[c] /\ tree' = tree BY <2>1
      <3>2. journal'[c].phase = "open" /\ journal'[c].prev = marker[c].version BY <2>2, <2>6, <2>9
      <3>3. marker[c].version # 0 => marker[c].present BY <2>5, <2>6
      <3>4. profile[c].block # "none" => marker[c].present BY <1>b DEF BlockMark
      <3>5. profile[c].block = "legacy" => tree.legacy /\ marker[c].version = Legacy BY <2>8, <1>b DEF BlockMark, NotOpen
      <3> QED BY <3>1, <3>2, <3>3, <3>4, <3>5 DEF BlockMark, NotOpen, Bare
    <2>11. BlockBack(c)'
      <3>1. Stg(journal'[c].tx) = g BY <2>2, <2>9
      <3> HIDE DEF g
      <3>2. RecoveryAt(c)' = snap[c][g] BY <2>1, <2>4, <3>1 DEF RecoveryAt
      <3> QED BY <2>1, <2>2, <2>3, <2>6, <2>7, <2>9, <3>2 DEF BlockBack, Legacy
    <2> QED BY <2>1, <2>9, <2>10, <2>11, <1>0, BlockJournal DEF BlockAt
  <1>5. CASE Publish
    <2> DEFINE b == OriginalPresent(op.seen, op.was)
               v == build
               m == [marker[c] EXCEPT !.present = TRUE, !.version = v, !.orig = b]
    <2>1. op.pc = "publish" /\ UNCHANGED <<profile, snap, journal, tree>> /\ marker' = [marker EXCEPT ![c] = m]
      BY <1>5, <1>c DEF Publish, At, SetMarker
    <2> HIDE DEF b, v
    <2>2. m.present
      <3>1. marker[c] \in Markers BY <1>0 DEF Marked
      <3> QED BY <3>1 DEF Markers
    <2> HIDE DEF m
    <2>3. (\A e \in Edition \ {c} : marker'[e] = marker[e]) /\ marker'[c] = m BY <2>1, <1>0
    <2>4. journal[c].phase = "open" BY <2>1, <1>o, <1>j DEF Open
    <2>5. BlockMark(c)' BY <2>1, <2>2, <2>3, <2>4, <1>b DEF BlockMark, NotOpen, Legacy
    <2> QED BY <2>1, <2>3, <2>5, <1>0, BlockMarker
  <1>6. CASE Prepared \/ MarkInstalled
    <2>1. op.pc \in {"prepared", "installed"} /\ UNCHANGED <<profile, snap, journal, tree>>
          /\ \E x : marker' = [marker EXCEPT ![c].state = x]
      BY <1>6, <1>c DEF Prepared, MarkInstalled, At
    <2>2. (\A e \in Edition \ {c} : marker'[e] = marker[e]) /\ marker'[c].present = marker[c].present
      BY <2>1, StateOnly
    <2>3. journal[c].phase = "open" BY <2>1, <1>o, <1>j DEF Open
    <2>4. BlockMark(c)' BY <2>1, <2>2, <2>3, <1>b DEF BlockMark, NotOpen, Legacy
    <2> QED BY <2>1, <2>2, <2>4, <1>0, BlockMarker
  <1>7. CASE Retire
    <2> DEFINE g == Stg(T)
               r == Rmv(T)
    <2>1. op.pc = "retire" /\ UNCHANGED <<profile, marker, journal, tree>>
          /\ (snap' = snap \/ snap' = [snap EXCEPT ![c] = Moved(@, Live, r, NoSnap)])
      BY <1>7, <1>c DEF Retire, At, Rmv
    <2>2. op.pc \in Stated /\ op.pc \in Open /\ op.pc \in Filed BY <2>1, SMT DEF Stated, Whole, Open, Filed
    <2>3. g \in Names /\ r \in Names /\ g # Live /\ r # Live /\ g # r BY <2>2, <1>0, <1>n
    <2>4. snap[c][g].kind = "full" BY <2>2, <1>c DEF Held, Kind
    <2>5. Stg(journal[c].tx) = g /\ Stg(journal'[c].tx) = g BY <2>1, <2>2, <1>j, <1>o
    <2> HIDE DEF g, r
    <2>6. CASE snap' = [snap EXCEPT ![c] = Moved(@, Live, r, NoSnap)]
      <3>1. \A e \in Edition \ {c} : snap'[e] = snap[e] BY <2>3, <2>6, <1>n, MovedFiles
      <3>2. snap'[c][g] = snap[c][g] BY <2>3, <2>6, <1>0, <1>n DEF Moved
      <3>3. RecoveryAt(c) = snap[c][g] BY <2>4, <2>5 DEF RecoveryAt
      <3>4. RecoveryAt(c)' = snap[c][g] BY <2>4, <2>5, <3>2 DEF RecoveryAt
      <3>5. RecoveryAt(c)' = RecoveryAt(c) BY <3>3, <3>4
      <3> QED BY <2>1, <3>1, <3>5, <1>0, BlockFiles
    <2>7. CASE snap' = snap BY <2>1, <2>7, <1>0, BlockSame
    <2> QED BY <2>1, <2>6, <2>7
  <1>8. CASE GoLive
    <2> DEFINE g == Stg(T)
    <2>1. op.pc = "live" /\ UNCHANGED <<profile, marker, journal, tree>>
          /\ snap' = [snap EXCEPT ![c] = Moved(@, g, Live, NoSnap)]
      BY <1>8, <1>c DEF GoLive, At, Stg
    <2>2. op.pc \in Stated /\ op.pc \in Open /\ op.pc \in Filed BY <2>1, SMT DEF Stated, Whole, Open, Filed
    <2>3. g \in Names /\ g # Live BY <2>2, <1>0, <1>n
    <2>4. snap[c][g].kind = "full" BY <2>2, <1>c DEF Held, Kind
    <2>5. Stg(journal[c].tx) = g /\ Stg(journal'[c].tx) = g BY <2>1, <2>2, <1>j, <1>o
    <2> HIDE DEF g
    <2>6. /\ \A e \in Edition \ {c} : snap'[e] = snap[e]
          /\ snap'[c][Live] = snap[c][g] /\ snap'[c][g] = NoSnap
      BY <2>1, <2>3, <1>n, MovedFiles
    <2>7. RecoveryAt(c) = snap[c][g] BY <2>4, <2>5 DEF RecoveryAt
    <2>8. NoSnap.kind = "none" BY DEF NoSnap
    <2>9. RecoveryAt(c)' = snap[c][g] BY <2>5, <2>6, <2>8 DEF RecoveryAt
    <2>10. RecoveryAt(c)' = RecoveryAt(c) BY <2>7, <2>9
    <2> QED BY <2>1, <2>6, <2>10, <1>0, BlockFiles
  <1>9. CASE Write
    <2>1. op.pc = "write" /\ UNCHANGED <<marker, snap, journal, tree>> BY <1>9 DEF Write, At
    <2> DEFINE x == WithBlock(op.seen)
    <2>2. UNCHANGED profile \/ profile' = [profile EXCEPT ![c] = x]
      BY <1>9, <1>c DEF Write, Replaced, SetProfile
    <2>3. x.block = "stable" BY DEF WithBlock
    <2>4. journal[c].phase = "open" /\ marker[c].present
      BY <2>1, <1>o, <1>j, <1>c DEF Open, Midway, Presence, MarkerSteps
    <2> HIDE DEF x
    <2>5. CASE UNCHANGED profile BY <2>1, <2>5, <1>0, BlockSame
    <2>6. CASE profile' = [profile EXCEPT ![c] = x]
      <3>1. (\A e \in Edition \ {c} : profile'[e] = profile[e]) /\ profile'[c] = x BY <2>6, <1>0
      <3>2. BlockMark(c)' BY <2>1, <2>3, <2>4, <3>1 DEF BlockMark, NotOpen
      <3> QED BY <2>1, <3>1, <3>2, <1>0, BlockText
    <2> QED BY <2>2, <2>5, <2>6
  <1>10. CASE Commit
    <2>1. op.pc = "commit" /\ UNCHANGED <<profile, marker, snap, tree>>
          /\ journal' = [journal EXCEPT ![c].phase = "committed"]
      BY <1>10, <1>c DEF Commit, At, SetJournal
    <2>2. (\A e \in Edition \ {c} : journal'[e] = journal[e]) /\ journal'[c].phase = "committed"
      BY <2>1, <1>0 DEF Journals, Entries
    <2>3. marker[c].present /\ marker[c].state = "installed" /\ profile[c].block # "legacy"
      BY <2>1, <1>c, <1>0 DEF Midway, Presence, MarkerSteps, SeenHere, Reading, BlockRead
    <2>4. BlockMark(c)' BY <2>1, <2>2, <2>3 DEF BlockMark, NotOpen
    <2> QED BY <2>1, <2>2, <2>4, <1>0, BlockClosed
  <1>11. CASE FinishState
    <2> DEFINE r == Rmv(T)
    <2>1. op.pc = "finishstate" /\ UNCHANGED <<profile, marker, journal, tree>>
          /\ snap' = [snap EXCEPT ![c][r] = NoSnap]
      BY <1>11, <1>c DEF FinishState, At, Rmv
    <2>2. journal[c].phase # "open" BY <2>1, <1>j, SMT DEF Midway, Phased, Finishes
    <2> HIDE DEF r
    <2>3. \A e \in Edition \ {c} : snap'[e] = snap[e] BY <2>1, <1>0
    <2> QED BY <2>1, <2>2, <2>3, <1>0, BlockFiles
  <1>12. CASE FinishJournal
    <2>1. op.pc = "finishjournal" /\ UNCHANGED <<profile, marker, snap, tree>> /\ journal' = [journal EXCEPT ![c] = NoEntry]
      BY <1>12, <1>c DEF FinishJournal, At
    <2>2. journal[c].phase # "open" BY <2>1, <1>j, SMT DEF Midway, Phased, Finishes
    <2>3. (\A e \in Edition \ {c} : journal'[e] = journal[e]) /\ journal'[c] = NoEntry BY <2>1, <1>0
    <2>4. journal'[c].phase = "none" BY <2>3 DEF NoEntry
    <2>5. BlockMark(c)' BY <2>1, <2>2, <2>4, <1>b DEF BlockMark, NotOpen, Bare, Legacy
    <2> QED BY <2>1, <2>3, <2>4, <2>5, <1>0, BlockClosed
  <1>13. CASE Undo
    <2> DEFINE g == Stg(T)
    <2>1. op.pc = "undo" /\ UNCHANGED <<profile, marker, journal, tree>>
          /\ (snap' = snap \/ (J.phase = "none" /\ snap' = [snap EXCEPT ![c][g] = NoSnap]))
      BY <1>13, <1>c DEF Undo, At, Stg, J
    <2> HIDE DEF g
    <2>3. CASE snap' = snap BY <2>1, <2>3, <1>0, BlockSame
    <2>4. CASE J.phase = "none" /\ snap' = [snap EXCEPT ![c][g] = NoSnap]
      <3>1. \A e \in Edition \ {c} : snap'[e] = snap[e] BY <2>4, <1>0
      <3>2. journal[c].phase # "open" BY <2>4, <1>j
      <3> QED BY <2>1, <3>1, <3>2, <1>0, BlockFiles
    <2> QED BY <2>1, <2>3, <2>4
  <1>14. CASE Version
    <2> DEFINE v == build
    <2>1. op.pc = "version" /\ UNCHANGED <<profile, snap, journal, tree>> /\ marker' = [marker EXCEPT ![c].version = v]
      BY <1>14, <1>c DEF Version, At
    <2> HIDE DEF v
    <2>2. /\ \A e \in Edition \ {c} : marker'[e] = marker[e]
          /\ marker'[c].present = marker[c].present /\ marker'[c].state = marker[c].state
      BY <2>1, <1>0 DEF Marked, Markers
    <2>3. op # Idle /\ op.todo # <<>> /\ op.todo[1][1] \in Tasks /\ op.pc \in StepsOf(op.todo[1][1])
      BY <2>1, <1>0, Running DEF Control
    <2>4. op.todo[1][1] = "upgrade" BY <2>1, <2>3, SMT DEF StepsOf, Tasks, Shared, Whole
    <2>5. marker[c].present /\ marker[c].state = "installed" /\ profile[c].block # "legacy"
      BY <2>1, <2>3, <2>4, <1>c, <1>0 DEF Midway, Presence, InstalledMarker, BlockRead, InPlace
    <2>6. journal[c].phase # "open" BY <2>1, <1>q, <1>j, SMT DEF Recovering, Opens
    <2>7. BlockMark(c)' BY <2>1, <2>2, <2>5, <2>6 DEF BlockMark, NotOpen
    <2> QED BY <2>1, <2>2, <2>7, <1>0, BlockMarker
  <1>15. CASE Tree
    <2>1. op.pc = "tree" /\ UNCHANGED <<profile, marker, snap, journal>>
          /\ (UNCHANGED tree \/ \A e \in Edition : ~marker[e].present)
      BY <1>15 DEF Tree, At
    <2>2. CASE UNCHANGED tree BY <2>1, <2>2, <1>0, BlockSame
    <2>3. CASE \A e \in Edition : ~marker[e].present
      <3>1. \A e \in Edition : journal[e].phase # "open" BY <2>1, <1>q, SMT DEF Recovering, Opens
      <3>2. \A e \in Edition : profile'[e].block = "none" BY <2>1, <2>3, <1>0, NoMarkerBare DEF Bare
      <3> QED BY <2>1, <3>1, <3>2, BlockBare
    <2> QED BY <2>1, <2>2, <2>3
  <1>16. \/ Enable \/ Install \/ Reinstall \/ Resume \/ Begin \/ Ensure \/ SwapJournal \/ Aside \/ Deploy
         \/ Verify \/ Finish \/ FinishSwap \/ UndoRoot \/ UndoName \/ UndoClean \/ Upgrade \/ CommitSwap
         => UNCHANGED <<profile, marker, snap, journal, tree>>
    BY DEF Enable, Install, Reinstall, Resume, Begin, Ensure, SwapJournal, Aside, Deploy,
           Verify, Finish, FinishSwap, UndoRoot, UndoName, UndoClean, Upgrade, CommitSwap, disk
  <1>17. UNCHANGED <<profile, marker, snap, journal, tree>> => BlocksMarked' BY <1>0, BlockSame
  <1> QED BY <1>1, <1>2, <1>3, <1>4, <1>5, <1>6, <1>7, <1>8, <1>9, <1>10, <1>11, <1>12, <1>13, <1>14, <1>15, <1>16,
             <1>17 DEF Enables

\* Only the old payload goes, and no profile names it.
LEMMA BlockTree ==
  ASSUME BlocksMarked, UNCHANGED <<profile, marker, snap, journal>>,
         \A e \in Edition : /\ journal[e].phase # "open"
                            /\ profile[e].block = "legacy" /\ tree.legacy => tree'.legacy
  PROVE BlocksMarked'
  <1> SUFFICES ASSUME NEW e \in Edition PROVE BlockAt(e)' BY DEF BlocksMarked
  <1>1. BlockAt(e) /\ journal[e].phase # "open" BY DEF BlocksMarked
  <1>2. BlockMark(e)' BY <1>1 DEF BlockAt, BlockMark, NotOpen, Bare, Legacy
  <1>3. BlockBack(e)' BY <1>1 DEF BlockBack, NotOpen
  <1> QED BY <1>2, <1>3 DEF BlockAt

LEMMA RemovesBlock ==
  ASSUME Types, Control, Midway, Held, SeenHere, Blocked, GoneHere, Removes
  PROVE BlocksMarked'
  <1>0. /\ (op.pc # "idle" => op # Idle) /\ profile \in [Edition -> Files]
        /\ marker \in [Edition -> Marked] /\ snap \in [Edition -> [Names -> Saved]]
        /\ op.was \in Marked /\ op.seen \in Files /\ tree \in [state : BOOLEAN, legacy : BOOLEAN]
        /\ BlocksMarked /\ BlockRead
    BY Running DEF Types, Jobs, Blocked
  <1>c. PICK c \in Edition : c = Cur BY Running
  <1>b. BlockMark(c) /\ BlockBack(c) BY <1>0 DEF BlocksMarked, BlockAt
  <1>n. Live \in Names BY Named
  <1> DEFINE pcs == {"uninstall", "examine", "excise", "restate", "forget", "erase", "erased", "cleanup", "cleanpayload"}
  <1>k. pcs \cap (Recovering \cup {"idle"} \cup Opens) = {}
    BY SMT DEF Recovering, Opens
  <1>p. op.pc \in pcs
    BY DEF Removes, Uninstalls, Examine, Excise, Restate, Forget, Erase, Erased, Cleanup, CleanPayload, At
  <1>q. \A e \in Edition : journal[e].phase # "open" BY <1>p, <1>k, TaskKind, Quiet
  <1> HIDE DEF pcs
  <1>j. journal[c].phase # "open" BY <1>q
  <1>1. CASE Uninstalls
    <2>1. UNCHANGED <<profile, snap, journal, tree>>
          /\ (marker' = marker \/ marker' = [marker EXCEPT ![c].state = "removing"])
      BY <1>1, <1>c DEF Uninstalls
    <2>2. CASE marker' = marker BY <2>1, <2>2, <1>0, BlockSame
    <2>3. CASE marker' = [marker EXCEPT ![c].state = "removing"]
      <3>1. /\ \A e \in Edition \ {c} : marker'[e] = marker[e]
            /\ marker'[c].present = marker[c].present /\ marker'[c].version = marker[c].version
            /\ marker'[c].state = "removing"
        BY <2>3, StateOnly
      <3>2. BlockMark(c)' BY <2>1, <3>1, <1>b, <1>j DEF BlockMark, NotOpen, Legacy
      <3> QED BY <2>1, <3>1, <3>2, <1>0, BlockMarker
    <2> QED BY <2>1, <2>2, <2>3
  <1>2. CASE Excise
    <2> DEFINE x == ToExcise
    <2>1. op.pc = "excise" /\ UNCHANGED <<marker, snap, journal, tree>>
          /\ (profile' = profile \/ (profile[c] = op.seen /\ profile' = [profile EXCEPT ![c] = x]))
      BY <1>2, <1>c DEF Excise, At, Replaced, SetProfile
    <2>2. CASE profile' = profile BY <2>1, <2>2, <1>0, BlockSame
    <2>3. CASE profile[c] = op.seen /\ profile' = [profile EXCEPT ![c] = x]
      <3> DEFINE s == snap[c][Live]
      <3>1. Undoing => op.seen = Installed(s) BY <2>1, <1>c DEF SeenHere, Removing, CutWell
      <3>2. Undoing => profile[c].block = "none" BY <2>1, <1>c, <1>0 DEF BlockRead, Undoing, Bare
      <3>3. Installed(s).block # "none"
        <4>1. s \in Saved BY <1>0, <1>n
        <4> HIDE DEF s
        <4>2. s.before \in Contents BY <4>1 DEF Saved, Files
        <4> QED BY <4>2 DEF Installed, WithBlock, Contents
      <3> HIDE DEF s
      <3>4. ~Undoing BY <2>3, <3>1, <3>2, <3>3
      <3>5. x = Cleaned(op.seen, op.was.orig) BY <3>4 DEF ToExcise, Undoing, Kind
      <3>6. Cleaned(op.seen, op.was.orig).block = "none"
        <4>1. op.seen \in Contents BY <1>0 DEF Files
        <4> QED BY <4>1 DEF Cleaned, Strip, Absent, Contents
      <3>7. x.block = "none"
        <4> HIDE DEF x
        <4> QED BY <3>5, <3>6
      <3> HIDE DEF x
      <3>8. \A e \in Edition : profile'[e].block \in {"none", profile[e].block} BY <2>3, <3>7, <1>0
      <3> QED BY <2>1, <3>8, <1>0, BlockSame
    <2> QED BY <2>1, <2>2, <2>3
  <1>3. CASE Restate
    <2> DEFINE x == op.was.state
    <2>1. op.pc = "restate" /\ UNCHANGED <<profile, snap, journal, tree>>
          /\ marker' = [marker EXCEPT ![c].state = x]
      BY <1>3, <1>c DEF Restate, At
    <2>2. x # "" /\ (x = "prepared" => profile[c].block = "none")
      BY <2>1, <1>c, <1>0 DEF SeenHere, Removing, UndoWell, BlockRead, Bare
    <2> HIDE DEF x
    <2>4. /\ \A e \in Edition \ {c} : marker'[e] = marker[e]
          /\ marker'[c].present = marker[c].present /\ marker'[c].version = marker[c].version
          /\ marker'[c].state = x
      BY <2>1, StateOnly
    <2>5. BlockMark(c)' BY <2>1, <2>2, <2>4, <1>b, <1>j DEF BlockMark, NotOpen, Bare, Legacy
    <2> QED BY <2>1, <2>4, <2>5, <1>0, BlockMarker
  <1>4. CASE Forget
    <2>1. op.pc = "forget" /\ UNCHANGED <<profile, snap, journal, tree>> /\ marker' = [marker EXCEPT ![c] = NoMarker]
      BY <1>4, <1>c DEF Forget, At, SetMarker
    <2>2. profile'[c].block = "none" BY <2>1, <1>c, <1>0 DEF BlockRead, Bare
    <2>3. \A e \in Edition \ {c} : marker'[e] = marker[e] BY <2>1, <1>0
    <2>4. BlockMark(c)' BY <2>1, <2>2, <1>j, BareMark
    <2> QED BY <2>1, <2>3, <2>4, <1>0, BlockMarker
  <1>5. CASE Erase
    <2>1. UNCHANGED <<profile, marker, journal, tree>> /\ snap' = [snap EXCEPT ![c][Live].kind = "torn"]
      BY <1>5, <1>c DEF Erase
    <2>2. \A e \in Edition \ {c} : snap'[e] = snap[e] BY <2>1, <1>0
    <2> QED BY <2>1, <2>2, <1>0, <1>j, BlockFiles
  <1>6. CASE Erased
    <2>1. UNCHANGED <<profile, marker, journal, tree>> /\ snap' = [snap EXCEPT ![c][Live] = NoSnap]
      BY <1>6, <1>c DEF Erased
    <2>2. \A e \in Edition \ {c} : snap'[e] = snap[e] BY <2>1, <1>0
    <2> QED BY <2>1, <2>2, <1>0, <1>j, BlockFiles
  \* The other host is the only one whose block may name the old payload.
  <1>7. CASE Cleanup
    <2> DEFINE o == Other(c)
               goes == op.was.version = Legacy /\ (~marker[o].present \/ marker[o].version # Legacy)
    <2>1. op.pc = "cleanup" /\ UNCHANGED <<profile, marker, snap, journal>>
          /\ tree' = [tree EXCEPT !.legacy = @ /\ ~goes]
      BY <1>7, <1>c DEF Cleanup, At, NobodyElse
    <2>2. ~marker[c].present BY <2>1, <1>c DEF GoneHere
    <2>3. tree'.legacy = (tree.legacy /\ ~goes)
      <3> HIDE DEF goes
      <3> QED BY <2>1, <1>0
    <2>4. ASSUME NEW e \in Edition, profile[e].block = "legacy" PROVE ~goes
      <3>1. marker[e].present /\ marker[e].version = Legacy
        BY <2>4, <1>0, <1>q DEF BlocksMarked, BlockAt, BlockMark, NotOpen
      <3>2. e = o
        <4>1. e # c BY <2>2, <3>1
        <4> QED BY <4>1, Others
      <3> QED BY <3>1, <3>2
    <2> HIDE DEF goes
    <2>5. \A e \in Edition : profile[e].block = "legacy" /\ tree.legacy => tree'.legacy BY <2>3, <2>4
    <2> QED BY <2>1, <2>5, <1>0, <1>q, BlockTree
  <1>8. Examine \/ CleanPayload => UNCHANGED <<profile, marker, snap, journal, tree>>
    BY DEF Examine, CleanPayload, disk
  <1>9. UNCHANGED <<profile, marker, snap, journal, tree>> => BlocksMarked' BY <1>0, BlockSame
  <1> QED BY <1>1, <1>2, <1>3, <1>4, <1>5, <1>6, <1>7, <1>8, <1>9 DEF Removes

LEMMA TidiesBlock ==
  ASSUME Types, Control, Midway, Held, Blocked, Leaving, Tidies
  PROVE BlocksMarked'
  <1>0. profile \in [Edition -> Files] /\ op.seen \in Files /\ tree \in [state : BOOLEAN, legacy : BOOLEAN]
        /\ BlocksMarked
    BY DEF Types, Jobs, Blocked
  <1>c. PICK c \in Edition : c = Cur BY Running
  <1> DEFINE pcs == {"repair", "strip", "stripped", "modules", "leftovers", "swept", "wipe", "retiretree"}
  <1>k. pcs \cap (Recovering \cup {"idle"} \cup Opens) = {} BY SMT DEF Recovering, Opens
  <1>p. op.pc \in pcs
    BY DEF Tidies, Repair, ReadStrip, StripBlocks, Modules, Leftovers, Swept, Wipe, RetireTree, At
  <1>q. \A e \in Edition : journal[e].phase # "open" BY <1>p, <1>k, TaskKind, Quiet
  <1>i. op.pc # "idle" BY <1>p, <1>k
  <1> HIDE DEF pcs
  <1>1. CASE StripBlocks
    <2> DEFINE x == Cleaned(op.seen, FALSE)
    <2>1. UNCHANGED <<marker, snap, journal, tree>> /\ (profile' = profile \/ profile' = [profile EXCEPT ![c] = x])
      BY <1>1, <1>c DEF StripBlocks, Replaced, SetProfile
    <2>2. x.block = "none"
      <3>1. op.seen \in Contents BY <1>0 DEF Files
      <3> QED BY <3>1 DEF Cleaned, Strip, Absent, Contents
    <2> HIDE DEF x
    <2>3. \A e \in Edition : profile'[e].block \in {"none", profile[e].block} BY <2>1, <2>2, <1>0
    <2> QED BY <2>1, <2>3, <1>0, BlockSame
  <1>2. CASE Modules
    <2> DEFINE l == tree.legacy /\ \E e \in Edition : profile[e].block = "legacy"
               y == tree.state /\ StateUsed
    <2>1. UNCHANGED <<profile, marker, snap, journal>> /\ (tree' = tree \/ tree' = [state |-> y, legacy |-> l])
      BY <1>2 DEF Modules
    <2>2. tree'.legacy = tree.legacy \/ tree'.legacy = l
      <3> HIDE DEF l, y
      <3> QED BY <2>1
    <2>3. \A e \in Edition : profile[e].block = "legacy" /\ tree.legacy => tree'.legacy BY <2>2
    <2> QED BY <2>1, <2>3, <1>0, <1>q, BlockTree
  <1>3. CASE Wipe
    <2>1. /\ op.pc = "wipe" /\ UNCHANGED <<profile, snap, journal>>
      BY <1>3 DEF Wipe, At
    <2>2. op # Idle /\ op.todo # <<>> /\ op.todo \in Lists /\ op.todo[1][1] = "wipe" BY <2>1, Running, TaskOf
    <2>3. 1 \in 1..Len(op.todo) BY <2>2, Listed
    <2>4. Strips BY <2>2, <2>3 DEF Strips
    <2>5. "wipe" \in TasksOf(op.cmd) BY <2>2, Running
    <2>6. op.cmd = "clean" BY <2>5, SMT DEF TasksOf, Cleans
    <2>7. \A e \in Edition : ~marker[e].present BY <2>4, <2>6 DEF Leaving, SweptOut
    <2>8. \A e \in Edition : profile'[e].block = "none" BY <2>1, <2>7, <1>0, NoMarkerBare DEF Bare
    <2> QED BY <2>1, <2>8, <1>q, BlockBare
  <1>4. CASE RetireTree
    <2>1. /\ op.pc = "retiretree" /\ UNCHANGED profile
          /\ journal' = journal \/ journal' = [e \in Edition |-> NoEntry]
      BY <1>4 DEF RetireTree, At
    <2>2. \A e \in Edition : ~marker[e].present BY <2>1 DEF Held
    <2>3. \A e \in Edition : profile'[e].block = "none" BY <2>1, <2>2, <1>0, NoMarkerBare DEF Bare
    <2>4. NoEntry.phase = "none" BY DEF NoEntry
    <2>5. \A e \in Edition : journal'[e].phase # "open" BY <2>1, <2>4, <1>q
    <2> QED BY <2>3, <2>5, BlockBare
  <1>5. Repair \/ ReadStrip \/ Leftovers \/ Swept => UNCHANGED <<profile, marker, snap, journal, tree>>
    BY DEF Repair, ReadStrip, Leftovers, Swept, disk
  <1>6. UNCHANGED <<profile, marker, snap, journal, tree>> => BlocksMarked' BY <1>0, BlockSame
  <1> QED BY <1>1, <1>2, <1>3, <1>4, <1>5, <1>6 DEF Tidies

LEMMA WorldBlock ==
  ASSUME Types, Blocked, World \/ UNCHANGED vars
  PROVE BlocksMarked'
  <1>0. BlocksMarked BY DEF Blocked
  <1>1. CASE Edit
    <2>1. Still BY <1>1, Edited
    <2> QED BY <2>1, <1>0, BlockSame DEF Still
  <1>2. UserCommand \/ SweepStart \/ BackgroundEnable \/ BackgroundRepair \/ OrphanClean
        \/ NewBuild \/ Remove \/ Crash \/ Fail \/ UNCHANGED vars => UNCHANGED <<profile, marker, snap, journal, tree>>
    BY DEF UserCommand, SweepStart, BackgroundEnable, BackgroundRepair, OrphanClean, Command,
           NewBuild, Remove, Crash, Fail, disk, vars
  <1>3. UNCHANGED <<profile, marker, snap, journal, tree>> => BlocksMarked' BY <1>0, BlockSame
  <1> QED BY <1>1, <1>2, <1>3 DEF World

LEMMA BlocksStep ==
  ASSUME Types, Control, Midway, Held, SeenHere, Leaving, Blocked, [Next]_vars
  PROVE BlocksMarked'
  BY RecoversBlock, EnablesBlock, RemovesBlock, TidiesBlock, WorldBlock DEF Next, Leaving

\* A step inside a task neither ends it nor begins another.
LEMMA Onward ==
  ASSUME Types, Types', Control', op'.pc \notin Tasks \cup {"idle"}
  PROVE ~Done /\ (\A z : ~Instead(z)) /\ (\A code : ~Abort(code) /\ ~Ends(code)) /\ ~Unmarked
  <1>1. ~Restarts
    <2>1. CASE op' = Idle BY <2>1 DEF Idle
    <2>2. CASE op' # Idle
      <3>1. op'.todo \in Lists /\ op'.todo # <<>> BY <2>2 DEF Control, Runnable
      <3> QED BY <2>2, <3>1, Listed DEF Restarts
    <2> QED BY <2>1, <2>2
  <1> QED BY <1>1, Restarting

LEMMA SameCur ==
  ASSUME op'.todo = op.todo
  PROVE Cur' = Cur
  BY DEF Cur

\* What an installation reads of the block and of the marker.
LEMMA BlockReadFirst ==
  ASSUME Types, Control, Midway, Blocked, Types', Control', [Next]_vars, op'.pc \in Before
  PROVE ReadBlock'
  <1> DEFINE q == op'.pc
  <1>q. q \in {"payload", "swapjournal", "aside", "deploy", "stage", "journal"} BY DEF Before
  <1>t. q \notin Tasks \cup {"idle"} BY <1>q, SMT DEF Tasks
  <1>c. PICK c \in Edition : c = Cur BY Running
  <1>0. BlocksMarked /\ BlockRead /\ tree \in [state : BOOLEAN, legacy : BOOLEAN]
    BY DEF Blocked, Types
  <1>1. \/ Still
        \/ /\ op'.todo = op.todo
           /\ q # "payload" => Local
           /\ EnableLands(q)
    <2>1. \/ Still
          \/ /\ op'.todo = op.todo
             /\ q \notin {"restore", "payload", "examine", "excise", "stripped"} => Local
             /\ BackLands(q) \/ EnableLands(q) \/ RestLands(q)
      BY <1>t, Landing
    <2> HIDE DEF q
    <2>2. ~BackLands(q) /\ ~RestLands(q) BY <1>q, SMT DEF BackLands, RestLands
    <2> QED BY <2>1, <2>2, <1>q
  <1>2. CASE Still
    <2>1. op' = op /\ marker' = marker /\ tree' = tree /\ ReadBlock BY <1>2, <1>0 DEF Still, BlockRead
    <2> QED BY <2>1 DEF ReadBlock, Cur
  <1>3. ASSUME op'.todo = op.todo, Local, ReadBlock, UNCHANGED marker, tree'.legacy = tree.legacy PROVE ReadBlock'
    <2>1. Cur' = Cur BY <1>3, SameCur
    <2> QED BY <1>3, <2>1 DEF ReadBlock, Local, Legacy
  <1>4. CASE op'.todo = op.todo /\ q = "payload" /\ (Begin \/ Upgrade)
    <2>1. Starts(TRUE) \/ Starts(FALSE) BY <1>4, <1>t, Onward DEF Begin, Upgrade
    <2>2. op.pc \in {"begin", "replace", "upgrade"} /\ UNCHANGED <<marker, tree>> BY <1>4 DEF Begin, Upgrade, At, disk
    <2>3. op'.seen = profile[c] /\ op'.was = marker[c]
      <3>1. \A b : Starts(b) => op' = [op EXCEPT !.pc = "payload", !.tx = NewTx, !.seen = profile[c], !.was = marker[c], !.inplace = b]
        BY <1>c DEF Starts
      <3>2. \A b : \A n : op' = [op EXCEPT !.pc = "payload", !.tx = n, !.seen = profile[c], !.was = marker[c], !.inplace = b]
              => op'.seen = profile[c] /\ op'.was = marker[c]
        BY DEF Types, Jobs
      <3> QED BY <2>1, <3>1, <3>2
    <2>4. journal[c].phase # "open"
      <3>1. op.pc # "idle" /\ op.pc \notin Recovering /\ op.pc \notin Opens BY <2>2, SMT DEF Recovering, Opens
      <3> QED BY <3>1, TaskKind, Quiet
    <2>5. BlockMark(c) BY <1>0 DEF BlocksMarked, BlockAt
    <2>6. Cur' = c BY <1>4, <1>c, SameCur
    <2>7. marker'[c] = op'.was BY <2>2, <2>3
    <2>8. ~marker[c].present => profile[c].block = "none" BY <2>5 DEF BlockMark
    <2>9. profile[c].block = "legacy" => tree.legacy /\ marker[c].version = Legacy BY <2>4, <2>5 DEF BlockMark, NotOpen
    <2> DEFINE s == op'.seen
               w == op'.was
    <2>10. s = profile[c] /\ w = marker[c] BY <2>3
    <2>11. (~w.present => s.block = "none") /\ (s.block = "legacy" => tree'.legacy /\ w.version = Legacy)
      <3> HIDE DEF s, w
      <3> QED BY <2>2, <2>8, <2>9, <2>10
    <2>12. marker'[Cur'] = op'.was BY <2>6, <2>7
    <2> QED BY <2>11, <2>12 DEF ReadBlock, Legacy
  <1>5. CASE op'.todo = op.todo /\ Local /\ (Ensure \/ SwapJournal \/ Aside \/ Deploy \/ Stage)
    <2>1. op.pc \in Before /\ UNCHANGED marker /\ (UNCHANGED tree \/ tree' = [tree EXCEPT !.state = TRUE])
      BY <1>5 DEF Ensure, SwapJournal, Aside, Deploy, Stage, At, Before
    <2>2. tree'.legacy = tree.legacy BY <2>1, <1>0
    <2>3. ReadBlock BY <2>1, <1>0 DEF BlockRead
    <2> QED BY <1>5, <2>1, <2>2, <2>3, <1>3
  <1>6. EnableLands(q) => (q = "payload" /\ (Begin \/ Upgrade)) \/ (q # "payload" /\ (Ensure \/ SwapJournal \/ Aside \/ Deploy \/ Stage))
    <2> HIDE DEF q
    <2> QED BY <1>q, SMT DEF EnableLands
  <1> HIDE DEF q
  <1> QED BY <1>1, <1>2, <1>4, <1>5, <1>6

\* The first step of an upgrade.
LEMMA UpgradeFirst ==
  ASSUME op.pc = "upgrade", NEW q, BackLands(q) \/ EnableLands(q) \/ RestLands(q)
  PROVE Upgrade
  <1>1. ~(Recover \/ Restore \/ Unpublish \/ Unretire \/ RestoreValues \/ RolledBack \/ TidySwap)
    BY DEF Recover, Restore, Unpublish, Unretire, RestoreValues, RolledBack, TidySwap, At
  <1>2. ~(TidyDrop \/ TidyState \/ Swap \/ SwapRoot \/ SwapRename \/ SwapClean)
    BY DEF TidyDrop, TidyState, Swap, SwapRoot, SwapRename, SwapClean, At
  <1>3. ~(Adopt \/ Begin \/ Ensure \/ SwapJournal \/ Aside \/ Deploy \/ Stage \/ OpenJournal \/ Publish \/ Prepared)
    BY DEF Adopt, Begin, Ensure, SwapJournal, Aside, Deploy, Stage, OpenJournal, Publish, Prepared, At
  <1>4. ~(Retire \/ GoLive \/ Write \/ MarkInstalled \/ Verify \/ Commit \/ Finish \/ FinishSwap \/ FinishState)
    BY DEF Retire, GoLive, Write, MarkInstalled, Verify, Commit, Finish, FinishSwap, FinishState, At
  <1>5. ~(Undo \/ UndoRoot \/ UndoName \/ CommitSwap \/ Version)
    BY DEF Undo, UndoRoot, UndoName, CommitSwap, Version, At
  <1>6. ~(Uninstalls \/ Examine \/ Excise \/ Forget \/ Erase \/ Erased \/ Cleanup \/ ReadStrip \/ Wipe)
    BY DEF Uninstalls, Examine, Excise, Forget, Erase, Erased, Cleanup, ReadStrip, Wipe, At
  <1>7. op.pc \notin Undoes /\ op.pc # "excise" BY DEF Undoes
  <1>8. ~BackLands(q) BY <1>1, <1>2, Zenon DEF BackLands
  <1>9. ~RestLands(q) BY <1>6, <1>7, Zenon DEF RestLands
  <1>10. EnableLands(q) => Upgrade BY <1>3, <1>4, <1>5, Zenon DEF EnableLands
  <1> QED BY <1>8, <1>9, <1>10

\* An upgrade and a commit leave no old block behind.
LEMMA NoLegacyLeft ==
  ASSUME Types, Control, Midway, Blocked, Types', Control', [Next]_vars, op'.pc = "commit" \/ InPlace'
  PROVE profile'[Cur'].block # "legacy"
  <1> DEFINE q == op'.pc
  <1>c. PICK c \in Edition : c = Cur BY Running
  <1>0. BlockRead BY DEF Blocked
  <1>i. op' # Idle BY SMT DEF InPlace, Idle
  <1>u. q # "commit" => q \in StepsOf("upgrade") /\ q # "upgrade"
    BY <1>i DEF InPlace, Control
  <1>t. q \notin Tasks \cup {"idle"}
    <2>1. q \in Shared \cup {"commit", "commitswap", "version"} BY <1>u, SMT DEF StepsOf
    <2> HIDE DEF q
    <2> QED BY <2>1, SMT DEF Shared, Tasks
  <1>1. \/ Still
        \/ op'.todo = op.todo /\ (BackLands(q) \/ EnableLands(q) \/ RestLands(q))
    BY <1>t, Landing
  <1>2. CASE Still
    <2>1. op' = op /\ (op.pc = "commit" \/ InPlace) BY <1>2 DEF Still, InPlace
    <2>2. profile[c].block # "legacy" BY <2>1, <1>0, <1>c DEF BlockRead
    <2>3. Cur' = c BY <2>1, <1>c, SameCur
    <2> QED BY <1>2, <2>2, <2>3 DEF Still
  <1>3. CASE q = "commit" /\ op'.todo = op.todo /\ (BackLands(q) \/ EnableLands(q) \/ RestLands(q))
    <2>1. Verify
      <3> HIDE DEF q
      <3> QED BY <1>3, SMT DEF BackLands, EnableLands, RestLands
    <2>2. UNCHANGED profile /\ (profile[c].block = "stable" \/ Goto("undo"))
      BY <2>1, <1>c DEF Verify, disk
    <2>3. Goto("undo") => op'.pc = "undo" BY GotoRuns
    <2>4. Cur' = c BY <1>3, <1>c, SameCur
    <2> QED BY <2>2, <2>3, <2>4, <1>3
  <1>4. CASE ~Still /\ InPlace' /\ op'.todo = op.todo /\ (BackLands(q) \/ EnableLands(q) \/ RestLands(q))
    <2>1. op.todo # <<>> /\ op.todo[1][1] = "upgrade" /\ op'.pc # "upgrade" /\ Cur' = c
      BY <1>4, <1>c, SameCur DEF InPlace
    <2>2. op # Idle BY <2>1 DEF Idle
    <2>3. op.pc \in StepsOf("upgrade") BY <2>1, <2>2 DEF Control
    <2>4. op.pc \notin {"restore", "write", "excise", "stripped"} BY <2>3, SMT DEF StepsOf, Shared
    <2>5. ~(Restore \/ Write \/ Excise \/ StripBlocks) BY <2>4 DEF Restore, Write, Excise, StripBlocks, At
    <2>6. Edit => Still BY Edited
    <2>7. UNCHANGED vars => UNCHANGED profile BY DEF vars, disk
    <2>8. UNCHANGED profile BY <2>5, <2>6, <2>7, <1>4, TextWriters
    <2>9. CASE op.pc # "upgrade"
      <3>1. InPlace BY <2>1, <2>9 DEF InPlace
      <3> QED BY <3>1, <2>1, <2>8, <1>0, <1>c DEF BlockRead
    <2>10. CASE op.pc = "upgrade"
      <3>1. Upgrade
        <4> HIDE DEF q
        <4> QED BY <1>4, <2>10, UpgradeFirst
      <3>2. profile[c].block = "stable" BY <3>1, <1>c, <1>t, Onward DEF Upgrade
      <3> QED BY <3>2, <2>1, <2>8
    <2> QED BY <2>9, <2>10
  <1> HIDE DEF q
  <1> QED BY <1>1, <1>2, <1>3, <1>4 DEF q

LEMMA RestoresCur ==
  ASSUME Types, Control, Types', Control', RestoreState, op' # Idle
  PROVE Cur' = Cur
  <1>0. op.pc = "state" BY DEF RestoreState, At
  <1>i. op.pc # "idle" /\ op # Idle /\ Cur \in Edition /\ Tail(op.todo) \in Lists BY <1>0, Running, Rest
  <1>1. Goto("rolled") \/ Instead(<<<<"swap", Cur>>, <<"rolled", Cur>>>>) BY DEF RestoreState
  <1>2. CASE Goto("rolled") BY <1>2, GotoRuns, SameCur
  <1>3. CASE Instead(<<<<"swap", Cur>>, <<"rolled", Cur>>>>)
    <2> DEFINE s == RollList(Cur, Tail(op.todo))
    <2>1. Runs(s) BY <1>3 DEF Instead, RollList
    <2>2. s[1][2] = Cur /\ Len(s) = Len(Tail(op.todo)) + 2 BY <1>i, RollAt
    <2> HIDE DEF s
    <2>3. Goes(s) BY <1>i, <2>1, RunsTo
    <2>4. op'.todo = s /\ s # <<>> BY <2>3 DEF Goes
    <2>5. op'.todo \in Lists BY DEF Control, Runnable
    <2>6. Head(s) = s[1] BY <2>4, <2>5, Listed
    <2>7. Cur' = Head(s)[2] BY <2>4 DEF Cur
    <2> QED BY <2>2, <2>6, <2>7
  <1> QED BY <1>1, <1>2, <1>3

\* What a transaction that replaced no marker puts back has no block.
LEMMA BareBack ==
  ASSUME Types, Control, Midway, Held, Blocked, Types', Control', Midway', [Next]_vars,
         op'.pc = "unpublish" \/ RollingBack', J'.prev = 0
  PROVE profile'[Cur'].block = "none"
  <1> DEFINE q == op'.pc
  <1>c. PICK c \in Edition : c = Cur BY Running
  <1>0. BlocksMarked /\ BlockRead /\ profile \in [Edition -> Files] BY DEF Blocked, Types
  <1>j. J = journal[c] BY <1>c DEF J
  <1>b. ASSUME Cur' = Cur, UNCHANGED <<profile, journal>>, op.pc = "unpublish" \/ RollingBack
        PROVE profile'[Cur'].block = "none"
    <2>1. J' = J BY <1>b DEF J
    <2> QED BY <1>b, <2>1, <1>0 DEF BlockRead, Bare
  <1>s. CASE Still
    <2>1. op' = op /\ journal' = journal BY <1>s DEF Still
    <2>2. (op.pc = "unpublish" \/ RollingBack) /\ J.prev = 0 /\ Cur' = c
      BY <2>1, <1>c DEF RollingBack, J, Cur
    <2>3. profile[c].block = "none" BY <2>2, <1>0, <1>c DEF BlockRead, Bare
    <2> QED BY <2>2, <2>3, <1>s DEF Still
  <1>1. CASE q \in {"unpublish", "unretire", "values", "state"} /\ ~Still
    <2>1. q \notin Tasks \cup {"idle"}
      <3> HIDE DEF q
      <3> QED BY <1>1, SMT DEF Tasks
    <2>2. op'.todo = op.todo /\ (BackLands(q) \/ EnableLands(q) \/ RestLands(q)) BY <1>1, <2>1, Landing
    <2>3. Cur' = c BY <2>2, <1>c, SameCur
    <2>4. \/ q = "unpublish" /\ (Recover \/ Restore)
          \/ q = "unretire" /\ Unpublish
          \/ q = "values" /\ Unretire
          \/ q = "state" /\ RestoreValues
      <3> HIDE DEF q
      <3> QED BY <1>1, <2>2, SMT DEF BackLands, EnableLands, RestLands
    <2>5. CASE Unpublish \/ Unretire \/ RestoreValues
      <3>1. op.pc = "unpublish" \/ RollingBack
        BY <2>5 DEF Unpublish, Unretire, RestoreValues, At, RollingBack
      <3>2. UNCHANGED <<profile, journal>> BY <2>5 DEF Unpublish, Unretire, RestoreValues
      <3> QED BY <2>3, <3>1, <3>2, <1>b, <1>c
    <2>6. CASE q = "unpublish" /\ (Recover \/ Restore)
      <3>1. BlockBack(c) BY <1>0 DEF BlocksMarked, BlockAt
      <3>2. Recovery = RecoveryAt(c) BY <1>c DEF Recovery, Published, Staged, RecoveryAt, Stg, J
      <3>3. J.phase = "open" /\ Recovery.kind = "full" /\ profile'[c] = Recovery.before /\ journal' = journal
        <4>o. ~Done /\ (\A code : ~Abort(code)) BY <2>1, Onward
        <4>1. CASE Recover
          <5>1. q = "unpublish" BY <2>6
          <5>2. ~Goto("tidyswap") BY <5>1, GotoRuns
          <5>3. \A x : op' = [op EXCEPT !.seen = x, !.pc = "restore"] => op'.pc = "restore" BY DEF Types, Jobs
          <5>4. ~(op' = [op EXCEPT !.seen = profile[Cur], !.pc = "restore"]) BY <5>1, <5>3
          <5>5. J.phase = "open" /\ Recovery.kind = "full" /\ profile[Cur] = Recovery.before
            BY <4>1, <4>o, <5>2, <5>4 DEF Recover
          <5>6. UNCHANGED <<profile, journal>> BY <4>1 DEF Recover, disk
          <5> QED BY <5>5, <5>6, <1>c
        <4>2. CASE Restore
          <5>1. op.pc = "restore" /\ journal' = journal BY <4>2 DEF Restore, At
          <5>2. J.phase = "open" /\ Recovery.kind = "full" BY <5>1 DEF Midway, Phased, Held
          <5>3. profile' = [profile EXCEPT ![c] = Recovery.before] BY <4>2, <4>o, <1>c DEF Restore, Replaced, SetProfile
          <5>4. profile'[c] = Recovery.before BY <5>3, <1>0
          <5> QED BY <5>1, <5>2, <5>4
        <4> QED BY <2>6, <4>1, <4>2
      <3>4. J'.prev = J.prev BY <2>3, <3>3, <1>j DEF J
      <3>5. Recovery.before.block = "none" BY <3>1, <3>2, <3>3, <3>4, <1>j DEF BlockBack, NotOpen
      <3> QED BY <2>3, <3>3, <3>5
    <2> QED BY <2>4, <2>5, <2>6
  <1>2. CASE Rolled' /\ ~Still
    <2>1. RestoreState \/ (SwapActs /\ Rolled /\ RollingBack /\ Cur' = Cur) BY <1>2, RolledFrom
    <2>2. CASE RestoreState
      <3>1. op.pc = "state" /\ UNCHANGED <<profile, journal>> BY <2>2 DEF RestoreState, At
      <3>2. RollingBack BY <3>1 DEF RollingBack
      <3>3. op' # Idle
        <4>1. Idle.pc = "idle" /\ Len(Idle.todo) = 0 BY SMT DEF Idle
        <4> QED BY <4>1, <1>2, SMT DEF Rolled
      <3> QED BY <3>1, <3>2, <3>3, <2>2, <1>b, RestoresCur
    <2>3. CASE SwapActs /\ Rolled /\ RollingBack /\ Cur' = Cur
      <3>1. UNCHANGED <<profile, journal>> BY <2>3 DEF SwapActs, Swap, SwapRoot, SwapRename, SwapClean, SwapDrop, disk
      <3> QED BY <3>1, <2>3, <1>b
    <2> QED BY <2>1, <2>2, <2>3
  <1>3. q \in {"unpublish", "unretire", "values", "state"} \/ Rolled' BY DEF RollingBack, Rolled
  <1> HIDE DEF q
  <1> QED BY <1>s, <1>1, <1>2, <1>3

\* The marker that is put back has the version that was replaced.
LEMMA VersionBack ==
  ASSUME Types, Control, Midway, Blocked, Types', Control', Midway', [Next]_vars,
         op'.pc = "state" \/ Rolled', J'.prev # 0
  PROVE marker'[Cur'].version = J'.prev
  <1> DEFINE q == op'.pc
  <1>c. PICK c \in Edition : c = Cur BY Running
  <1>0. BlockRead /\ marker \in [Edition -> Marked] BY DEF Blocked, Types
  <1>b. ASSUME Cur' = Cur, journal' = journal, marker'[c].version = marker[c].version, op.pc = "state" \/ Rolled
        PROVE marker'[Cur'].version = J'.prev
    <2>1. J' = J BY <1>b DEF J
    <2> QED BY <1>b, <1>c, <2>1, <1>0 DEF BlockRead
  <1>s. CASE Still
    <2>1. op' = op /\ journal' = journal /\ marker' = marker BY <1>s DEF Still
    <2>2. (op.pc = "state" \/ Rolled) /\ Cur' = Cur BY <2>1 DEF Rolled, Cur
    <2> QED BY <2>1, <2>2, <1>b
  <1>1. CASE q = "state" /\ ~Still
    <2>1. q \notin Tasks \cup {"idle"}
      <3> HIDE DEF q
      <3> QED BY <1>1, SMT DEF Tasks
    <2>2. op'.todo = op.todo /\ (BackLands(q) \/ EnableLands(q) \/ RestLands(q)) BY <1>1, <2>1, Landing
    <2>3. Cur' = c BY <2>2, <1>c, SameCur
    <2>4. RestoreValues
      <3> HIDE DEF q
      <3> QED BY <1>1, <2>2, SMT DEF BackLands, EnableLands, RestLands
    <2>5. journal' = journal BY <2>4 DEF RestoreValues
    <2>6. J' = J BY <2>3, <2>5, <1>c DEF J
    <2> DEFINE p == J.prev
               o == J.orig
               m == marker[c]
    <2>7. p # 0 BY <2>6
    <2>8. marker' = [marker EXCEPT ![c] = [m EXCEPT !.present = TRUE, !.version = p, !.orig = o]]
      BY <2>4, <2>7, <1>c DEF RestoreValues, SetMarker
    <2>9. m \in Markers BY <1>0 DEF Marked
    <2>10. J'.prev = p BY <2>6
    <2> HIDE DEF p, o, m
    <2> DEFINE n == [m EXCEPT !.present = TRUE, !.version = p, !.orig = o]
    <2>11. n.version = p BY <2>9 DEF Markers
    <2> HIDE DEF n
    <2>12. marker'[c] = n BY <2>8, <1>0 DEF n
    <2> QED BY <2>3, <2>10, <2>11, <2>12
  <1>2. CASE Rolled' /\ ~Still
    <2>1. RestoreState \/ (SwapActs /\ Rolled /\ RollingBack /\ Cur' = Cur) BY <1>2, RolledFrom
    <2>2. CASE RestoreState
      <3>1. op.pc = "state" /\ UNCHANGED <<profile, journal>>
            /\ (marker' = marker \/ marker' = [marker EXCEPT ![c].state = "installed"])
        BY <2>2, <1>c DEF RestoreState, At
      <3>2. marker'[c].version = marker[c].version BY <3>1, StateOnly
      <3>3. op' # Idle
        <4>1. Idle.pc = "idle" /\ Len(Idle.todo) = 0 BY SMT DEF Idle
        <4> QED BY <4>1, <1>2, SMT DEF Rolled
      <3> QED BY <3>1, <3>2, <3>3, <2>2, <1>b, RestoresCur
    <2>3. CASE SwapActs /\ Rolled /\ RollingBack /\ Cur' = Cur
      <3>1. UNCHANGED <<marker, journal>> BY <2>3 DEF SwapActs, Swap, SwapRoot, SwapRename, SwapClean, SwapDrop, disk
      <3> QED BY <3>1, <2>3, <1>b
    <2> QED BY <2>1, <2>2, <2>3
  <1> HIDE DEF q
  <1> QED BY <1>s, <1>1, <1>2 DEF q

\* What an interrupted installation left has no block: neither while it is
\* undone, nor when the profile was put back or the marker is a new one.
LEMMA BareCut ==
  ASSUME Types, Control, Midway, Held, SeenHere, Blocked, Types', Control', [Next]_vars,
         \/ op'.pc \in {"examine", "excise", "restate"} /\ op'.was.state = "prepared"
         \/ op'.pc \in {"forget", "adopted"}
  PROVE profile'[Cur'].block = "none"
  <1> DEFINE q == op'.pc
  <1>c. PICK c \in Edition : c = Cur BY Running
  <1>0. BlocksMarked /\ BlockRead /\ profile \in [Edition -> Files] /\ snap \in [Edition -> [Names -> Saved]]
        /\ Live \in Names
    BY Named DEF Blocked, Types
  <1>q. q \in {"examine", "excise", "restate", "forget", "adopted"} OBVIOUS
  <1>t. q \notin Tasks \cup {"idle"}
    <2> HIDE DEF q
    <2> QED BY <1>q, SMT DEF Tasks
  <1>l. \/ Still
        \/ op'.todo = op.todo /\ (BackLands(q) \/ EnableLands(q) \/ RestLands(q))
    BY <1>t, Landing
  <1>s. CASE Still
    <2>1. op' = op BY <1>s DEF Still
    <2>2. profile[Cur].block = "none" /\ Cur' = c BY <2>1, <1>0, <1>c DEF BlockRead, Bare, Cur
    <2> QED BY <2>2, <1>s, <1>c DEF Still
  <1>a. CASE ~Still
    <2>1. op'.todo = op.todo /\ (BackLands(q) \/ EnableLands(q) \/ RestLands(q)) BY <1>l, <1>a
    <2>2. Cur' = c BY <2>1, <1>c, SameCur
    <2>3. \/ q = "adopted" /\ Adopt
          \/ q = "examine" /\ Uninstalls
          \/ q \in {"forget", "restate", "excise"} /\ Examine
          \/ q \in {"forget", "restate"} /\ Excise
          \/ q = "restate" /\ Fail
      <3> HIDE DEF q
      <3> QED BY <2>1, <1>q, SMT DEF BackLands, EnableLands, RestLands
    <2>o. ~Done /\ (\A code : ~Abort(code)) /\ ~Unmarked BY <1>t, Onward
    <2>g. \A p : Goto(p) => op'.pc = p /\ op'.was = op.was BY GotoRuns
    <2>4. CASE q = "adopted" /\ Adopt
      <3>1. ~marker[c].present /\ profile' = profile BY <2>4, <2>o, <1>c DEF Adopt
      <3>2. profile[c].block = "none" BY <3>1, <1>0, NoMarkerBare DEF Bare
      <3> QED BY <2>2, <3>1, <3>2
    <2>5. CASE q = "examine" /\ Uninstalls
      <3>1. op.pc = "uninstall" /\ profile' = profile /\ op' = [op EXCEPT !.pc = "examine", !.was = marker[c]]
        BY <2>5, <2>o, <1>c DEF Uninstalls, At
      <3>2. op'.was = marker[c]
        <4> DEFINE m == marker[c]
        <4>1. op' = [op EXCEPT !.pc = "examine", !.was = m] BY <3>1
        <4> HIDE DEF m
        <4> QED BY <4>1 DEF Types, Jobs, m
      <3>3. marker[c].state = "prepared" BY <2>5, <3>2
      <3>4. journal[c].phase # "open"
        <4>1. op.pc # "idle" /\ op.pc \notin Recovering /\ op.pc \notin Opens BY <3>1, SMT DEF Recovering, Opens
        <4> QED BY <4>1, TaskKind, Quiet
      <3>5. profile[c].block = "none" BY <3>3, <3>4, <1>0 DEF BlocksMarked, BlockAt, BlockMark, NotOpen, Bare
      <3> QED BY <2>2, <3>1, <3>5
    <2>6. CASE q \in {"restate", "excise", "forget"} /\ op.pc \in {"examine", "excise"} /\ profile' = profile
               /\ op.was.state = "prepared"
      <3>1. profile[c].block = "none" BY <2>6, <1>0, <1>c DEF BlockRead, Bare
      <3> QED BY <3>1, <2>2, <2>6
    <2>w. op.pc = "examine" \/ op.pc = "excise" => (q \in {"restate", "excise"} => op'.was = op.was)
      <3> SUFFICES ASSUME op.pc = "examine" \/ op.pc = "excise", q \in {"restate", "excise"} PROVE op'.was = op.was
        OBVIOUS
      <3>1. CASE q = "restate"
        <4>1. Local
          <5>1. q \notin {"restore", "payload", "examine", "excise", "stripped"} BY <3>1
          <5> HIDE DEF q
          <5> QED BY <5>1, <1>t, <1>a, Landing DEF q
        <4> QED BY <4>1 DEF Local
      <3>2. CASE q = "excise"
        <4>1. Examine BY <2>3, <3>2
        <4> DEFINE x == profile[Cur]
        <4>2. op' = [op EXCEPT !.seen = x, !.pc = "excise"]
          <5>1. ~Goto("forget") /\ ~Goto("restate") BY <2>g, <3>2
          <5> QED BY <4>1, <5>1 DEF Examine
        <4> HIDE DEF x
        <4> QED BY <4>2 DEF Types, Jobs
      <3> QED BY <3>1, <3>2
    <2>7. CASE q \in {"restate", "excise"} /\ (Examine \/ Excise \/ Fail)
      <3>1. op.pc \in {"examine", "excise"} /\ profile' = profile
        <4>1. CASE Examine BY <4>1 DEF Examine, At, disk
        <4>2. CASE Excise
          <5>1. ~Goto("forget") BY <2>g, <2>7
          <5> QED BY <4>2, <5>1 DEF Excise, At, Replaced
        <4>3. CASE Fail
          <5>1. ~Goto("undo") BY <2>g, <2>7
          <5> QED BY <4>3, <5>1, <2>o DEF Fail, disk
        <4> QED BY <2>7, <4>1, <4>2, <4>3
      <3>2. op.was.state = "prepared" BY <2>7, <2>w, <3>1
      <3> QED BY <2>6, <2>7, <3>1, <3>2
    <2>8. CASE q = "forget" /\ Examine
      <3> DEFINE x == profile[c]
                 s == snap[c][Live]
                 o == op.was.orig
      <3>1. op.pc = "examine" /\ profile' = profile BY <2>8 DEF Examine, At, disk
      <3>2. \/ ~x.present
            \/ op.was.state = "prepared"
            \/ Cleaned(x, o) = x
        <4>1. ~Goto("restate") BY <2>g, <2>8
        <4>2. ~(op' = [op EXCEPT !.seen = profile[Cur], !.pc = "excise"])
          <5> DEFINE y == profile[Cur]
          <5>1. op' = [op EXCEPT !.seen = y, !.pc = "excise"] => op'.pc = "excise"
            <6> HIDE DEF y
            <6> QED BY DEF Types, Jobs
          <5> QED BY <5>1, <2>8
        <4> QED BY <2>8, <4>1, <4>2, <1>c DEF Examine
      <3>3. x \in Files BY <1>0
      <3> HIDE DEF x, s, o
      <3>4. CASE ~x.present BY <3>1, <3>3, <3>4, <2>2 DEF Files, x
      <3>5. CASE op.was.state = "prepared" BY <2>6, <2>8, <3>1, <3>5
      <3>6. CASE Cleaned(x, o) = x
        <4>1. Absent.block = "none" /\ Strip(x).block = "none" BY <3>3 DEF Files, Contents, Absent, Strip
        <4>2. x.block = "none" BY <3>6, <4>1 DEF Cleaned
        <4> QED BY <4>2, <3>1, <2>2 DEF x
      <3> QED BY <3>2, <3>4, <3>5, <3>6
    <2>9. CASE q = "forget" /\ Excise
      <3> DEFINE x == ToExcise
      <3>1. op.pc = "excise" /\ profile[c] = op.seen /\ profile' = [profile EXCEPT ![c] = x]
        <4>1. ~Goto("restate") BY <2>g, <2>9
        <4> QED BY <2>9, <4>1, <1>c DEF Excise, At, Replaced, SetProfile
      <3> DEFINE s == snap[c][Live]
      <3>2. Undoing => op.seen = Installed(s) BY <3>1, <1>c DEF SeenHere, Removing, CutWell
      <3>3. Undoing => profile[c].block = "none" BY <3>1, <1>c, <1>0 DEF BlockRead, Undoing, Bare
      <3>4. Installed(s).block # "none"
        <4>1. s \in Saved BY <1>0
        <4> HIDE DEF s
        <4> QED BY <4>1 DEF Installed, WithBlock, Saved, Files, Contents
      <3>5. ~Undoing BY <3>1, <3>2, <3>3, <3>4
      <3>6. x.block = "none"
        <4>1. ToExcise = Cleaned(op.seen, op.was.orig) BY <3>5, <1>c DEF ToExcise, Undoing, Kind
        <4>2. op.seen \in Contents BY DEF Types, Jobs, Files
        <4> QED BY <4>1, <4>2 DEF Cleaned, Strip, Absent, Contents
      <3> HIDE DEF x
      <3>7. profile'[c] = x BY <3>1, <1>0
      <3> QED BY <3>6, <3>7, <2>2
    <2>10. q \in {"forget", "restate", "excise"} <=> q \in {"restate", "excise"} \/ q = "forget" OBVIOUS
    <2> HIDE DEF q
    <2> QED BY <2>3, <2>4, <2>5, <2>7, <2>8, <2>9, <2>10
  <1> QED BY <1>s, <1>a

LEMMA BlockedStep ==
  ASSUME Types, Control, Midway, Held, SeenHere, Leaving, Blocked, Types', Control', Midway', [Next]_vars
  PROVE Blocked'
  <1>1. op'.pc \in Before => ReadBlock' BY BlockReadFirst
  <1>2. op'.pc = "commit" \/ InPlace' => profile'[Cur'].block # "legacy" BY NoLegacyLeft
  <1>3. (op'.pc = "unpublish" \/ RollingBack') /\ J'.prev = 0 => profile'[Cur'].block = "none" BY BareBack
  <1>4. (op'.pc = "state" \/ Rolled') /\ J'.prev # 0 => marker'[Cur'].version = J'.prev BY VersionBack
  <1>5. (op'.pc \in {"examine", "excise", "restate"} /\ op'.was.state = "prepared") \/ op'.pc \in {"forget", "adopted"}
          => profile'[Cur'].block = "none"
    BY BareCut
  <1>6. BlockRead' BY <1>1, <1>2, <1>3, <1>4, <1>5 DEF BlockRead, Bare
  <1> QED BY <1>6, BlocksStep DEF Blocked

-----------------------------------------------------------------------------
(* The payload is in place, or its previous bytes are.                      *)

\* The payload is where a block of ours finds it, or its previous bytes are
\* under the name that the payload's journal tells.
Stable(e) == profile[e].block = "stable"
NoStable == \A e \in Edition : ~Stable(e)
Works == payload[Live] # 0 \/ NoStable
Spare == swap.phase = "open" /\ payload[Rmv(swap.tx)] # 0
PayloadKept ==
  /\ Works \/ Spare
  /\ swap.phase # "rolledback"
  /\ swap.phase = "committed" => payload[Live] # 0
  /\ \A e \in Edition : Committed(e) /\ swap.phase # "none" /\ swap.tx = journal[e].tx => payload[Live] # 0

\* What a step finds of the payload.
Deployed == {"stage", "journal"} \cup Open \cup {"commitswap", "version", "finish", "finishswap"}
UndoHere == op.pc \in {"stage", "journal", "undoroot"} \/ (op.pc = "undo" /\ J.phase = "none")
UndoSafe == /\ swap.phase # "committed"
            /\ OwnSwap /\ payload[Stg(T)] = 0 => payload[Rmv(T)] # 0 \/ NoStable
PayloadSeen ==
  /\ op.pc \in {"payload", "swapjournal", "aside"} => payload[Rmv(T)] = 0
  /\ op.pc \in {"swapjournal", "aside", "deploy"} => payload[Stg(T)] # 0
  /\ op.pc \in {"aside", "deploy"} => swap.phase = "open" /\ swap.tx = T
  /\ op.pc = "deploy" => payload[Live] = 0
  /\ op.pc \in Deployed => payload[Live] # 0
  /\ UndoHere => UndoSafe
  /\ op.pc = "undoclean" => payload[Rmv(T)] = 0
  /\ op.pc \in {"swaproot", "swaprename"} => Spare
  /\ op.pc \in {"swapclean", "swapdrop"} => Works
  /\ op.pc = "tidydrop" => payload[Live] # 0

\* A payload that is there.
LEMMA Alive ==
  ASSUME payload'[Live] # 0, swap'.phase # "rolledback"
  PROVE PayloadKept'
  BY DEF PayloadKept, Works

\* Nothing stable, and no journal of the payload.
LEMMA NoneStable ==
  ASSUME \A e \in Edition : profile'[e].block = "none", swap'.phase = "none"
  PROVE PayloadKept'
  BY DEF PayloadKept, Works, NoStable, Stable

\* Only a commit commits.
LEMMA CommitSame ==
  ASSUME Types, Control, [Next]_vars, ~Commit, NEW e \in Edition, Committed(e)'
  PROVE Committed(e) /\ journal'[e] = journal[e]
  <1>0. journal \in [Edition -> Journals] /\ Cur \in Edition BY Running DEF Types
  <1>e. NoEntry.phase = "none" BY DEF NoEntry
  <1>1. CASE UNCHANGED journal BY <1>1 DEF Committed
  <1>2. CASE RolledBack
    <2>1. journal' = [journal EXCEPT ![Cur].phase = "rolledback"] BY <1>2 DEF RolledBack, SetJournal
    <2>2. journal'[Cur].phase = "rolledback" BY <2>1, <1>0 DEF Journals, Entries
    <2>3. e # Cur BY <2>2 DEF Committed
    <2> QED BY <2>1, <2>3, <1>0 DEF Committed
  <1>3. CASE DropJournal \/ FinishJournal
    <2>1. journal' = [journal EXCEPT ![Cur] = NoEntry] BY <1>3 DEF DropJournal, FinishJournal
    <2> QED BY <2>1, <1>0, <1>e DEF Committed
  <1>4. CASE OpenJournal
    <2> DEFINE x == Opened(T, op.was)
    <2>1. journal' = [journal EXCEPT ![Cur] = x] /\ x.phase = "open" BY <1>4 DEF OpenJournal, Opened
    <2> HIDE DEF x
    <2> QED BY <2>1, <1>0 DEF Committed
  <1>5. CASE RetireTree
    <2>1. UNCHANGED journal \/ journal' = [f \in Edition |-> NoEntry] BY <1>5 DEF RetireTree
    <2> QED BY <2>1, <1>e DEF Committed
  <1>6. UNCHANGED vars => UNCHANGED journal BY DEF vars, disk
  <1> QED BY <1>1, <1>2, <1>3, <1>4, <1>5, <1>6, JournalWriters

\* The steps that write the payload or its journal.
LEMMA PayloadWriters ==
  ASSUME Next
  PROVE \/ UNCHANGED <<payload, swap>>
        \/ TidySwap \/ TidyDrop \/ SwapActs
        \/ Tree \/ Ensure \/ SwapJournal \/ Aside \/ Deploy \/ Finish \/ FinishSwap
        \/ UndoRoot \/ UndoName \/ UndoClean \/ CommitSwap
        \/ CleanPayload \/ Leftovers \/ RetireTree
  <1>1. CASE Recovers
    BY <1>1 DEF Recovers, Recover, Restore, Unpublish, Unretire, RestoreValues, RestoreState, RolledBack,
                TidyState, DropJournal, SwapActs, disk
  <1>2. CASE Enables
    BY <1>2 DEF Enables, Enable, Install, Reinstall, Adopt, Adopted, Resume, Begin,
                Stage, OpenJournal, Publish, Prepared, Retire, GoLive, Write, MarkInstalled,
                Verify, Commit, FinishState, FinishJournal, Undo, Upgrade, Version, disk
  <1>3. CASE Removes
    BY <1>3 DEF Removes, Uninstalls, Examine, Excise, Restate, Forget, Erase, Erased, Cleanup, disk
  <1>4. CASE Tidies
    BY <1>4 DEF Tidies, Repair, ReadStrip, StripBlocks, Modules, Swept, Wipe, disk
  <1>5. CASE World
    BY <1>5 DEF World, UserCommand, SweepStart, BackgroundEnable, BackgroundRepair, OrphanClean, Command,
                NewBuild, Remove, Edit, Crash, Fail, disk
  <1> QED BY <1>1, <1>2, <1>3, <1>4, <1>5 DEF Next

\* Only an installation that has deployed its payload writes a block.
LEMMA StableStays ==
  ASSUME Types, Control, Midway, Held, SeenHere, Blocked, [Next]_vars, ~Write
  PROVE \A e \in Edition : Stable(e)' => Stable(e)
  <1>0. /\ profile \in [Edition -> Files] /\ op.seen \in Files /\ snap \in [Edition -> [Names -> Saved]]
        /\ BlockRead /\ Live \in Names
    BY Named DEF Types, Jobs, Blocked
  <1>c. PICK c \in Edition : c = Cur BY Running
  <1>1. CASE UNCHANGED profile BY <1>1 DEF Stable
  <1>2. CASE Edit
    <2>1. Still BY <1>2, Edited
    <2>2. \A e \in Edition : profile'[e].block \in {"none", profile[e].block} BY <2>1 DEF Still
    <2> QED BY <2>2 DEF Stable
  <1>3. CASE Restore
    <2>1. op.pc = "restore" /\ (UNCHANGED profile \/ (profile[c] = op.seen /\ \E x : profile' = [profile EXCEPT ![c] = x]))
      BY <1>3, <1>c DEF Restore, At, Replaced, SetProfile
    <2>2. op.seen = Installed(Recovery) /\ Recovery.kind = "full" BY <2>1 DEF SeenHere, Backing, Held
    <2>3. op.seen.block = "stable" BY <2>2 DEF Installed, WithBlock
    <2>4. CASE profile[c] = op.seen /\ \E x : profile' = [profile EXCEPT ![c] = x]
      <3>1. \A e \in Edition \ {c} : profile'[e] = profile[e] BY <2>4, <1>0
      <3> QED BY <2>3, <2>4, <3>1 DEF Stable
    <2> QED BY <2>1, <2>4, <1>1
  <1>4. CASE StripBlocks \/ Excise
    <2> DEFINE x == IF StripBlocks THEN Cleaned(op.seen, FALSE) ELSE ToExcise
    <2>1. UNCHANGED profile \/ (profile[c] = op.seen /\ profile' = [profile EXCEPT ![c] = x])
      <3>1. CASE StripBlocks BY <3>1, <1>c DEF StripBlocks, Replaced, SetProfile
      <3>2. CASE Excise /\ ~StripBlocks BY <3>2, <1>c DEF Excise, Replaced, SetProfile
      <3> QED BY <1>4, <3>1, <3>2
    <2>2. CASE profile[c] = op.seen /\ profile' = [profile EXCEPT ![c] = x]
      <3> DEFINE s == snap[c][Live]
      <3>1. Cleaned(op.seen, FALSE).block = "none" /\ Cleaned(op.seen, op.was.orig).block = "none"
        <4>1. op.seen \in Contents BY <1>0 DEF Files
        <4> QED BY <4>1 DEF Cleaned, Strip, Absent, Contents
      <3>2. x.block = "none"
        <4>1. CASE StripBlocks BY <4>1, <3>1
        <4>2. CASE ~StripBlocks
          <5>1. ToExcise.block = "none"
            <6>1. op.pc = "excise" BY <1>4, <4>2 DEF Excise, At
            <6>2. Undoing => op.seen = Installed(s) BY <6>1, <1>c DEF SeenHere, Removing, CutWell
            <6>3. Undoing => profile[c].block = "none" BY <6>1, <1>c, <1>0 DEF BlockRead, Undoing, Bare
            <6>4. Installed(s).block # "none"
              <7>1. s \in Saved BY <1>0
              <7> HIDE DEF s
              <7> QED BY <7>1 DEF Installed, WithBlock, Saved, Files, Contents
            <6>5. ~Undoing BY <2>2, <6>2, <6>3, <6>4
            <6>6. ToExcise = Cleaned(op.seen, op.was.orig) BY <6>5, <1>c DEF ToExcise, Undoing, Kind
            <6> QED BY <3>1, <6>6
          <5> QED BY <4>2, <5>1
        <4> QED BY <4>1, <4>2
      <3> HIDE DEF x
      <3>3. profile'[c].block = "none" /\ \A e \in Edition \ {c} : profile'[e] = profile[e]
        BY <2>2, <3>2, <1>0
      <3> QED BY <3>3 DEF Stable
    <2> QED BY <2>1, <2>2, <1>1
  <1>5. UNCHANGED vars => UNCHANGED profile BY DEF vars, disk
  <1> QED BY <1>1, <1>2, <1>3, <1>4, <1>5, TextWriters

\* Nobody touches the payload.
LEMMA PayloadSame ==
  ASSUME PayloadKept, UNCHANGED <<payload, swap>>,
         \A e \in Edition : Stable(e)' => Stable(e),
         \A e \in Edition : Committed(e)' => Committed(e) /\ journal'[e] = journal[e]
  PROVE PayloadKept'
  <1>1. Works => Works' BY DEF Works, NoStable
  <1>2. Spare => Spare' BY DEF Spare
  <1>3. \A e \in Edition : Committed(e)' /\ swap'.phase # "none" /\ swap'.tx = journal'[e].tx => payload'[Live] # 0
    BY DEF PayloadKept
  <1> QED BY <1>1, <1>2, <1>3 DEF PayloadKept

\* Directories that the recovery empties, and that an installation renames.
LEMMA EmptiedNames ==
  ASSUME Types, NEW t \in Tx, payload' = Emptied(t)
  PROVE payload'[Live] = payload[Live] /\ payload'[Stg(t)] = 0 /\ payload'[Rmv(t)] = 0
  <1>1. payload \in [Names -> 0..MaxBuild] BY DEF Types
  <1>2. /\ Live \in Names /\ Stg(t) \in Names /\ Rmv(t) \in Names
        /\ Stg(t) # Live /\ Rmv(t) # Live /\ Stg(t) # Rmv(t)
    BY Named DEF Stg, Rmv
  <1> DEFINE a == Stg(t)
             b == Rmv(t)
  <1>3. payload' = [payload EXCEPT ![a] = 0, ![b] = 0] BY DEF Emptied, Stg, Rmv
  <1> HIDE DEF a, b
  <1> QED BY <1>1, <1>2, <1>3 DEF a, b

LEMMA MovedNames ==
  ASSUME Types, NEW a \in Names, NEW b \in Names, a # b, payload' = Moved(payload, a, b, 0)
  PROVE /\ payload'[b] = payload[a] /\ payload'[a] = 0
        /\ \A n \in Names \ {a, b} : payload'[n] = payload[n]
  <1>1. payload \in [Names -> 0..MaxBuild] BY DEF Types
  <1> QED BY <1>1 DEF Moved

LEMMA SetName ==
  ASSUME Types, NEW a \in Names, NEW x, payload' = [payload EXCEPT ![a] = x]
  PROVE payload'[a] = x /\ \A n \in Names \ {a} : payload'[n] = payload[n]
  <1>1. payload \in [Names -> 0..MaxBuild] BY DEF Types
  <1> QED BY <1>1

\* The names of the running installation and of the payload's journal.
LEMMA PayloadNames ==
  ASSUME Types, Control, Midway
  PROVE /\ Live \in Names
        /\ swap.phase # "none" => /\ swap.tx \in Tx /\ Stg(swap.tx) \in Names /\ Rmv(swap.tx) \in Names
                                  /\ Rmv(swap.tx) # Live /\ Stg(swap.tx) # Live /\ Rmv(swap.tx) # Stg(swap.tx)
        /\ op.pc \in Stated => /\ T \in Tx /\ Stg(T) \in Names /\ Rmv(T) \in Names
                               /\ Stg(T) # Live /\ Rmv(T) # Live /\ Stg(T) # Rmv(T)
        /\ op.pc \in Stated /\ swap.phase # "none" => Rmv(swap.tx) # Stg(T)
  BY Ids, Named DEF Midway, Stg, Rmv

LEMMA BackPaid ==
  ASSUME Types, Control, Midway, CommitsKept, PayloadKept, PayloadSeen, Types', Control', [Next]_vars,
         TidySwap \/ TidyDrop \/ SwapActs
  PROVE PayloadKept'
  <1>0. payload \in [Names -> 0..MaxBuild] /\ swap \in Journals /\ (op.pc # "idle" => op # Idle) BY Running DEF Types
  <1>n. /\ Live \in Names
        /\ swap.phase # "none" => /\ swap.tx \in Tx /\ Rmv(swap.tx) \in Names /\ Rmv(swap.tx) # Live
    BY PayloadNames
  <1>e. NoEntry.phase = "none" BY DEF NoEntry
  <1>c. PICK c \in Edition : c = Cur BY Running
  <1>p. UNCHANGED <<profile, journal>> BY DEF TidySwap, TidyDrop, SwapActs, Swap, SwapRoot, SwapRename, SwapClean, SwapDrop, disk
  <1>s. (Works \/ NoStable => NoStable' \/ payload[Live] # 0) /\ (\A e \in Edition : Committed(e)' => Committed(e))
    BY <1>p DEF Works, NoStable, Stable, Committed
  <1>u. CASE UNCHANGED <<payload, swap>> BY <1>u, <1>p, PayloadSame DEF Stable, Committed
  <1>1. CASE TidySwap
    <2>1. UNCHANGED <<payload, swap>> \/ (OwnsSwap /\ payload' = Emptied(swap.tx) /\ UNCHANGED swap)
      BY <1>1 DEF TidySwap
    <2>2. CASE OwnsSwap /\ payload' = Emptied(swap.tx) /\ UNCHANGED swap
      <3>1. Committed(c) /\ swap.phase # "none" /\ swap.tx = journal[c].tx
        BY <2>2, <1>c DEF OwnsSwap, J, Committed
      <3>2. payload[Live] # 0 BY <3>1 DEF PayloadKept
      <3>3. payload'[Live] # 0 BY <2>2, <3>1, <3>2, <1>n, EmptiedNames
      <3> QED BY <2>2, <3>3, Alive DEF PayloadKept
    <2> QED BY <2>1, <2>2, <1>u
  <1>2. CASE TidyDrop
    <2>1. op.pc = "tidydrop" /\ swap' = NoEntry /\ UNCHANGED payload BY <1>2 DEF TidyDrop, At
    <2>2. payload[Live] # 0 BY <2>1 DEF PayloadSeen
    <2> QED BY <2>1, <2>2, <1>e, Alive
  <1>3. CASE Swap BY <1>3, <1>u DEF Swap, disk
  <1>4. CASE SwapRoot
    <2>1. op.pc = "swaproot" /\ UNCHANGED swap /\ payload' = [payload EXCEPT ![Live] = 0] BY <1>4 DEF SwapRoot, At
    <2>2. Spare BY <2>1 DEF PayloadSeen
    <2>3. Spare' BY <2>1, <2>2, <1>n, SetName DEF Spare
    <2>4. op.todo[1][1] = "swap" /\ op.todo \in Lists /\ op.todo # <<>> BY <2>1, <1>0, TaskOf, Running
    <2>5. 1 \in 1..Len(op.todo) BY <2>4, Listed
    <2>6. \A e \in Edition : ~Committed(e)
      <3> SUFFICES ASSUME NEW e \in Edition, Committed(e) PROVE FALSE OBVIOUS
      <3>1. PICK j \in 1..Len(op.todo) : j < 1 BY <2>4, <2>5 DEF CommitsKept, RecoverFirst
      <3> QED BY <3>1
    <2> QED BY <2>1, <2>2, <2>3, <2>6, <1>s DEF PayloadKept, Spare
  <1>5. CASE SwapRename
    <2> DEFINE r == Rmv(swap.tx)
    <2>1. op.pc = "swaprename" /\ UNCHANGED swap /\ payload' = Moved(payload, r, Live, 0)
      BY <1>5 DEF SwapRename, At, Rmv
    <2>2. swap.phase = "open" /\ payload[r] # 0 BY <2>1 DEF PayloadSeen, Spare
    <2>3. r \in Names /\ r # Live BY <2>2, <1>n
    <2> HIDE DEF r
    <2>4. payload'[Live] # 0 BY <2>1, <2>2, <2>3, <1>n, MovedNames
    <2> QED BY <2>1, <2>2, <2>4, Alive
  <1>6. CASE SwapClean
    <2>1. op.pc = "swapclean" /\ UNCHANGED swap /\ payload' = Emptied(swap.tx) BY <1>6 DEF SwapClean, At
    <2>2. Works /\ swap.phase # "none" BY <2>1 DEF PayloadSeen, Midway, Phased
    <2>3. payload'[Live] = payload[Live] BY <2>1, <2>2, <1>n, EmptiedNames
    <2>4. Works' BY <2>2, <2>3, <1>s DEF Works
    <2> QED BY <2>1, <2>3, <2>4, <1>p, <1>s DEF PayloadKept
  <1>7. CASE SwapDrop
    <2>1. op.pc = "swapdrop" /\ swap' = NoEntry /\ UNCHANGED payload BY <1>7 DEF SwapDrop, At
    <2>2. Works BY <2>1 DEF PayloadSeen
    <2>3. Works' BY <2>1, <2>2, <1>s DEF Works
    <2> QED BY <2>1, <2>3, <1>e DEF PayloadKept
  <1> QED BY <1>1, <1>2, <1>3, <1>4, <1>5, <1>6, <1>7 DEF SwapActs

LEMMA RestPaid ==
  ASSUME Types, Control, Midway, Held, SeenHere, CommitsKept, Leaving, Blocked, PayloadKept, PayloadSeen,
         Types', Control', [Next]_vars,
         Tree \/ CleanPayload \/ Leftovers \/ RetireTree
  PROVE PayloadKept'
  <1>0. payload \in [Names -> 0..MaxBuild] /\ BlocksMarked BY DEF Types, Blocked
  <1>n. /\ Live \in Names
        /\ swap.phase # "none" => /\ swap.tx \in Tx /\ Rmv(swap.tx) \in Names /\ Rmv(swap.tx) # Live
    BY PayloadNames
  <1>e. NoEntry.phase = "none" BY DEF NoEntry
  <1>c. PICK c \in Edition : c = Cur BY Running
  <1>p. UNCHANGED profile BY DEF Tree, CleanPayload, Leftovers, RetireTree
  <1>j. ASSUME UNCHANGED journal, UNCHANGED <<payload, swap>> PROVE PayloadKept'
    BY <1>j, <1>p, PayloadSame DEF Stable, Committed
  <1>b. ASSUME \A e \in Edition : ~marker[e].present, swap'.phase = "none" PROVE PayloadKept'
    <2>1. \A e \in Edition : profile'[e].block = "none" BY <1>b, <1>p, <1>0, NoMarkerBare DEF Bare
    <2> QED BY <2>1, <1>b, NoneStable
  <1>1. CASE Tree
    <2>1. UNCHANGED <<swap, journal>> /\ (UNCHANGED payload \/ ((\A e \in Edition : ~marker[e].present) /\ swap.phase = "none"))
      BY <1>1 DEF Tree
    <2> QED BY <2>1, <1>b, <1>j
  <1>2. CASE CleanPayload
    <2>1. op.pc = "cleanpayload" /\ UNCHANGED <<swap, journal>> /\ (UNCHANGED payload \/ NobodyElse(c))
      BY <1>2, <1>c DEF CleanPayload, At
    <2>2. CASE NobodyElse(c)
      <3>1. ~marker[c].present BY <2>1, <1>c DEF Leaving, GoneHere
      <3>2. \A e \in Edition : ~marker[e].present BY <2>2, <3>1, Others DEF NobodyElse
      <3>3. op.pc # "idle" /\ op.todo[1][1] = "uninstall" BY <2>1, TaskOf
      <3>4. op.pc \notin Swaps BY <2>1, SMT DEF Swaps, Shared, Whole
      <3>5. swap.phase = "none" BY <3>3, <3>4, Quiet DEF Backs
      <3> QED BY <2>1, <3>2, <3>5, <1>b
    <2> QED BY <2>1, <2>2, <1>j
  <1>3. CASE Leftovers
    <2>1. /\ payload' = [n \in Names |-> IF n # Live /\ n[2] # swap.tx THEN 0 ELSE payload[n]]
          /\ UNCHANGED <<swap, journal>>
      BY <1>3 DEF Leftovers
    <2>2. payload'[Live] = payload[Live] BY <2>1, <1>n
    <2>3. Spare => Spare'
      <3> SUFFICES ASSUME Spare PROVE Spare' OBVIOUS
      <3> DEFINE r == Rmv(swap.tx)
      <3>1. swap.phase = "open" /\ payload[r] # 0 BY DEF Spare
      <3>2. r \in Names /\ r[2] = swap.tx BY <3>1, <1>n, SMT DEF Rmv
      <3> HIDE DEF r
      <3>3. payload'[r] = payload[r] BY <2>1, <3>2
      <3> QED BY <2>1, <3>1, <3>3 DEF Spare, r
    <2>4. Works => Works' BY <2>2, <1>p DEF Works, NoStable, Stable
    <2> QED BY <2>1, <2>2, <2>3, <2>4 DEF PayloadKept, Committed
  <1>4. CASE RetireTree
    <2>1. op.pc = "retiretree" /\ (UNCHANGED <<journal, payload, swap>> \/ swap' = NoEntry)
      BY <1>4 DEF RetireTree, At
    <2>2. \A e \in Edition : ~marker[e].present BY <2>1 DEF Held
    <2> QED BY <2>1, <2>2, <1>b, <1>e, <1>j
  <1> QED BY <1>1, <1>2, <1>3, <1>4

\* No journal of a host is committed while an installation runs.
LEMMA NoneYet ==
  ASSUME Types, Control, Midway, CommitsKept, op.pc \in (Shared \cup Whole \cup {"commitswap", "version"}) \ Finishes
  PROVE (\A e \in Edition : ~Committed(e)) /\ op.pc # "idle" /\ op.todo[1][1] \notin Backs \cup {"modules", "leftovers"}
  <1>1. op.pc # "idle" BY SMT DEF Shared, Whole
  <1>2. op.todo[1][1] \in {"begin", "replace", "upgrade"} BY <1>1, TaskOf
  <1>3. op.todo[1][1] \notin Backs \cup {"modules", "leftovers"} BY <1>2, SMT DEF Backs
  <1>4. op.pc \notin Finishes OBVIOUS
  <1> QED BY <1>1, <1>3, <1>4, NoCommit DEF CommitsKept

LEMMA EnablePaid ==
  ASSUME Types, Control, Midway, CommitsKept, PayloadKept, PayloadSeen, Types', Control', [Next]_vars,
         \/ Ensure \/ SwapJournal \/ Aside \/ Deploy \/ Finish \/ FinishSwap
         \/ UndoRoot \/ UndoName \/ UndoClean \/ CommitSwap
  PROVE PayloadKept'
  <1>0. payload \in [Names -> 0..MaxBuild] /\ swap \in Journals /\ swap.phase # "rolledback"
    BY DEF Types, PayloadKept
  <1>e. NoEntry.phase = "none" BY DEF NoEntry
  <1>b. op.pc \in {"payload", "swapjournal", "aside", "deploy", "finish", "finishswap", "undoroot", "undoname",
                   "undoclean", "commitswap"}
    BY DEF Ensure, SwapJournal, Aside, Deploy, Finish, FinishSwap, UndoRoot, UndoName, UndoClean, CommitSwap, At
  <1>t. op.pc \in Stated BY <1>b DEF Stated, Shared
  <1> DEFINE s == Stg(T)
             r == Rmv(T)
             w == Rmv(swap.tx)
  <1>n. /\ Live \in Names /\ s \in Names /\ r \in Names /\ s # Live /\ r # Live /\ s # r
        /\ swap.phase # "none" => w \in Names /\ w # Live /\ w # s
    BY <1>t, PayloadNames
  <1>p. UNCHANGED <<profile, journal>>
    BY DEF Ensure, SwapJournal, Aside, Deploy, Finish, FinishSwap, UndoRoot, UndoName, UndoClean, CommitSwap
  <1>s. (NoStable => NoStable') /\ (\A e \in Edition : Committed(e)' => Committed(e))
    BY <1>p DEF NoStable, Stable, Committed
  <1>c. op.pc \notin Finishes => \A e \in Edition : ~Committed(e)
    BY <1>b, <1>t, NoneYet, Zenon DEF Stated
  <1>w. swap.phase = "none" => Works BY DEF PayloadKept, Spare
  \* No journal tells of other bytes.
  <1>k. ASSUME op.pc \notin Finishes, swap'.phase \notin {"committed", "rolledback"}, Works' \/ Spare' PROVE PayloadKept'
    BY <1>k, <1>c, <1>s DEF PayloadKept
  <1>1. CASE Ensure
    <2>1. /\ op.pc = "payload" /\ UNCHANGED swap
          /\ UNCHANGED payload \/ (payload' = [payload EXCEPT ![s] = build])
      BY <1>1 DEF Ensure, At, Stg
    <2>2. payload'[Live] = payload[Live]
      <3> HIDE DEF s
      <3> QED BY <2>1, <1>0, <1>n
    <2>3. swap.phase = "none"
      <3>1. op.pc \notin Swaps BY <2>1, SMT DEF Swaps
      <3>2. op.pc \in (Shared \cup Whole \cup {"commitswap", "version"}) \ Finishes BY <2>1, SMT DEF Shared, Finishes
      <3> QED BY <3>1, <3>2, NoneYet, Quiet
    <2>4. Works' BY <2>2, <2>3, <1>w, <1>s DEF Works
    <2> QED BY <2>1, <2>3, <2>4, <1>k DEF Finishes
  <1>2. CASE SwapJournal
    <2>1. op.pc = "swapjournal" /\ swap' = Opened(T, NoMarker) /\ UNCHANGED payload BY <1>2 DEF SwapJournal, At
    <2>2. swap'.phase = "open" BY <2>1 DEF Opened
    <2>3. swap.phase = "none"
      <3>1. op.pc \notin Swaps BY <2>1, SMT DEF Swaps
      <3>2. op.pc \in (Shared \cup Whole \cup {"commitswap", "version"}) \ Finishes BY <2>1, SMT DEF Shared, Finishes
      <3> QED BY <3>1, <3>2, NoneYet, Quiet
    <2>4. Works' BY <2>1, <2>3, <1>w, <1>s DEF Works
    <2> QED BY <2>1, <2>2, <2>4, <1>k DEF Finishes
  <1>3. CASE Aside
    <2>1. op.pc = "aside" /\ UNCHANGED swap /\ payload' = Moved(payload, Live, r, 0) BY <1>3 DEF Aside, At, Rmv
    <2>2. payload[r] = 0 /\ swap.phase = "open" /\ swap.tx = T BY <2>1 DEF PayloadSeen
    <2>3. payload'[r] = payload[Live]
      <3> HIDE DEF r
      <3> QED BY <2>1, <1>n, MovedNames
    <2>4. ~Spare BY <2>2 DEF Spare
    <2>5. payload[Live] # 0 \/ NoStable BY <2>4 DEF PayloadKept, Works
    <2>6. Works' \/ Spare' BY <2>1, <2>2, <2>3, <2>5, <1>s DEF Works, Spare
    <2> QED BY <2>1, <2>2, <2>6, <1>k DEF Finishes
  <1>4. CASE Deploy
    <2>1. op.pc = "deploy" /\ UNCHANGED swap /\ payload' = Moved(payload, s, Live, 0) BY <1>4 DEF Deploy, At, Stg
    <2>2. payload[s] # 0 BY <2>1 DEF PayloadSeen
    <2>3. payload'[Live] = payload[s]
      <3> HIDE DEF s
      <3> QED BY <2>1, <1>n, MovedNames
    <2> QED BY <2>1, <2>2, <2>3, <1>0, Alive
  <1>5. CASE Finish \/ FinishSwap \/ CommitSwap
    <2>1. /\ op.pc \in Deployed
          /\ UNCHANGED payload \/ payload' = [payload EXCEPT ![r] = 0]
          /\ UNCHANGED swap \/ swap' = NoEntry \/ swap' = [swap EXCEPT !.phase = "committed"]
      BY <1>5 DEF Finish, FinishSwap, CommitSwap, At, Rmv, Deployed
    <2>2. payload'[Live] = payload[Live]
      <3> HIDE DEF r
      <3> QED BY <2>1, <1>0, <1>n
    <2>3. payload[Live] # 0 BY <2>1 DEF PayloadSeen
    <2>4. swap'.phase # "rolledback" BY <2>1, <1>0, <1>e DEF Journals, Entries
    <2> QED BY <2>2, <2>3, <2>4, Alive
  <1>6. CASE UndoRoot
    <2>1. /\ op.pc = "undoroot" /\ UNCHANGED swap
          /\ \/ UNCHANGED payload
             \/ OwnSwap /\ payload[s] = 0 /\ payload' = [payload EXCEPT ![Live] = 0]
      BY <1>6 DEF UndoRoot, At, Stg
    <2>2. UndoSafe BY <2>1 DEF PayloadSeen, UndoHere
    <2>3. swap.phase \notin {"committed", "rolledback"} BY <2>2, <1>0 DEF UndoSafe
    <2>4. Works' \/ Spare'
      <3>1. CASE UNCHANGED payload
        <4>1. Spare => Spare' BY <3>1, <2>1 DEF Spare
        <4>2. Works => Works' BY <3>1, <1>s DEF Works
        <4> QED BY <4>1, <4>2 DEF PayloadKept
      <3>2. CASE OwnSwap /\ payload[s] = 0 /\ payload' = [payload EXCEPT ![Live] = 0]
        <4>1. payload[r] # 0 \/ NoStable BY <2>2, <3>2 DEF UndoSafe
        <4>2. swap.phase = "open" /\ swap.tx = T BY <3>2, <2>3, <1>0 DEF OwnSwap, Journals, Entries, Phases
        <4>3. payload'[r] = payload[r]
          <5> HIDE DEF r
          <5> QED BY <3>2, <1>0, <1>n
        <4> QED BY <2>1, <4>1, <4>2, <4>3, <1>s DEF Works, Spare
      <3> QED BY <2>1, <3>1, <3>2
    <2> QED BY <2>1, <2>3, <2>4, <1>k DEF Finishes
  <1>7. CASE UndoName
    <2>1. /\ op.pc = "undoname" /\ UNCHANGED swap
          /\ IF payload[r] # 0 THEN payload' = Moved(payload, r, Live, 0) ELSE payload' = payload
      BY <1>7 DEF UndoName, At, Rmv
    <2>2. CASE payload[r] # 0
      <3>1. payload'[Live] = payload[r]
        <4> HIDE DEF r
        <4> QED BY <2>1, <2>2, <1>n, MovedNames
      <3> QED BY <2>1, <2>2, <3>1, <1>0, Alive
    <2>3. CASE payload[r] = 0
      BY <2>1, <2>3, <1>p, PayloadSame DEF Stable, Committed
    <2> QED BY <2>2, <2>3
  <1>8. CASE UndoClean
    <2>1. /\ op.pc = "undoclean" /\ payload' = [payload EXCEPT ![s] = 0]
          /\ IF OwnSwap THEN swap' = NoEntry ELSE swap' = swap
      BY <1>8 DEF UndoClean, At, Stg
    <2>2. payload[r] = 0 BY <2>1 DEF PayloadSeen
    <2>3. payload'[Live] = payload[Live] /\ (swap.phase # "none" => payload'[w] = payload[w])
      <3> HIDE DEF s, w
      <3> QED BY <2>1, <1>0, <1>n
    <2>4. Works => Works' BY <2>3, <1>s DEF Works
    <2>5. CASE OwnSwap
      <3>1. ~Spare BY <2>2, <2>5 DEF OwnSwap, Spare
      <3>2. Works' BY <3>1, <2>4 DEF PayloadKept
      <3> QED BY <2>1, <2>5, <3>2, <1>e, <1>k DEF Finishes
    <2>6. CASE ~OwnSwap
      <3>1. Spare => Spare' BY <2>1, <2>3, <2>6 DEF Spare
      <3>2. op.pc \notin Finishes BY <2>1 DEF Finishes
      <3>3. swap.phase = "committed" => payload[Live] # 0 BY DEF PayloadKept
      <3> QED BY <2>1, <2>3, <2>4, <2>6, <3>1, <3>2, <3>3, <1>c, <1>s DEF PayloadKept
    <2> QED BY <2>5, <2>6
  <1> QED BY <1>1, <1>2, <1>3, <1>4, <1>5, <1>6, <1>7, <1>8

\* A step keeps the payload or its previous bytes.
LEMMA PayloadKeptStep ==
  ASSUME Types, Control, Midway, Held, SeenHere, CommitsKept, Leaving, Blocked, PayloadKept, PayloadSeen,
         Types', Control', [Next]_vars
  PROVE PayloadKept'
  <1>a. CASE TidySwap \/ TidyDrop \/ SwapActs BY <1>a, BackPaid, Zenon
  <1>b. CASE Tree \/ CleanPayload \/ Leftovers \/ RetireTree BY <1>b, RestPaid, Zenon
  <1>c. CASE \/ Ensure \/ SwapJournal \/ Aside \/ Deploy \/ Finish \/ FinishSwap
             \/ UndoRoot \/ UndoName \/ UndoClean \/ CommitSwap
    BY <1>c, EnablePaid, Zenon
  <1>d. CASE Write \/ Commit
    <2>1. op.pc \in Deployed /\ UNCHANGED <<payload, swap>> BY <1>d DEF Write, Commit, At, Deployed, Open
    <2>2. payload[Live] # 0 BY <2>1 DEF PayloadSeen
    <2> QED BY <2>1, <2>2, Alive DEF PayloadKept
  <1>e. CASE UNCHANGED <<payload, swap>> /\ ~Write /\ ~Commit
    <2>1. \A e \in Edition : Stable(e)' => Stable(e) BY <1>e, StableStays, Zenon
    <2>2. \A e \in Edition : Committed(e)' => Committed(e) /\ journal'[e] = journal[e] BY <1>e, CommitSame
    <2> QED BY <1>e, <2>1, <2>2, PayloadSame
  <1>f. UNCHANGED vars => UNCHANGED <<payload, swap>> BY DEF vars, disk
  <1> QED BY <1>a, <1>b, <1>c, <1>d, <1>e, <1>f, PayloadWriters, Zenon

-----------------------------------------------------------------------------
(* What a step finds of the payload.                                        *)

\* The steps that PayloadSeen tells of.
Minded == {"payload", "swapjournal", "aside", "undo", "undoroot", "undoclean", "swaproot", "swaprename",
           "swapclean", "swapdrop", "tidydrop", "deploy"} \cup Deployed

LEMMA Unminded ==
  ASSUME op'.pc \notin Minded
  PROVE PayloadSeen'
  <1> DEFINE q == op'.pc
  <1>1. q \notin {"payload", "swapjournal", "aside", "undo", "undoroot", "undoclean", "swaproot", "swaprename",
                  "swapclean", "swapdrop", "tidydrop", "deploy", "stage", "journal"} \cup Deployed
    BY DEF Minded, Deployed
  <1> HIDE DEF q
  <1>2. ~UndoHere' BY <1>1 DEF UndoHere, q
  <1> QED BY <1>1, <1>2 DEF PayloadSeen, q

LEMMA StillPaid ==
  ASSUME PayloadSeen, Still
  PROVE PayloadSeen'
  <1>1. UNCHANGED <<op, journal, payload, swap>> BY DEF Still
  <1>2. NoStable => NoStable' BY DEF Still, NoStable, Stable
  <1>3. (Works => Works') /\ (Spare => Spare') BY <1>1, <1>2 DEF Works, Spare
  <1>4. UndoHere' => UndoHere BY <1>1 DEF UndoHere, J, Cur
  <1>5. UndoSafe => UndoSafe' BY <1>1, <1>2 DEF UndoSafe, OwnSwap, T
  <1> QED BY <1>1, <1>3, <1>4, <1>5 DEF PayloadSeen, T

\* A payload in place, and nothing to undo it with.
LEMMA InPlaceSeen ==
  ASSUME op'.pc \in Deployed, payload'[Live] # 0, op'.pc \in {"stage", "journal"} => UndoSafe'
  PROVE PayloadSeen'
  <1> DEFINE q == op'.pc
  <1>1. q \notin {"payload", "swapjournal", "aside", "undo", "undoroot", "undoclean", "swaproot", "swaprename",
                  "swapclean", "swapdrop", "tidydrop", "deploy"}
    <2>1. q \in Deployed OBVIOUS
    <2> HIDE DEF q
    <2> QED BY <2>1, SMT DEF Deployed, Open
  <1> HIDE DEF q
  <1>2. UndoHere' => q \in {"stage", "journal"} BY <1>1 DEF UndoHere, q
  <1> QED BY <1>1, <1>2 DEF PayloadSeen, q

\* An installation takes an id that no directory of the payload names.
LEMMA BeginSeen ==
  ASSUME Types, Control, Begin \/ Upgrade, op'.pc = "payload", ~Done, \A z : ~Instead(z), \A code : ~Abort(code)
  PROVE PayloadSeen'
  <1>1. (Starts(TRUE) \/ Starts(FALSE)) /\ UNCHANGED payload BY DEF Begin, Upgrade, disk
  <1>2. IdLeft /\ op'.tx = NewTx BY <1>1 DEF Starts, Types, Jobs
  <1>3. NewTx \in Tx /\ NewTx \notin Used BY <1>2, Fresh
  <1> DEFINE n == Rmv(NewTx)
  <1>4. n \in Names /\ n[2] = NewTx BY <1>3, Named DEF Rmv
  <1> HIDE DEF n
  <1>5. payload[n] = 0 BY <1>3, <1>4 DEF Used
  <1>6. payload'[Rmv(T)'] = 0 BY <1>1, <1>2, <1>5 DEF n, Rmv, T
  <1> QED BY <1>6, SMT DEF PayloadSeen, Deployed, Open, UndoHere

\* The ways of an installation.
LEMMA EnsureSeen ==
  ASSUME Types, Control, Midway, PayloadSeen, Ensure, Local, op'.todo = op.todo
  PROVE PayloadSeen'
  <1>1. op.pc = "payload" /\ UNCHANGED swap BY DEF Ensure, At
  <1>2. op.pc \in Stated /\ op.pc # "idle" /\ op.pc \notin Swaps BY <1>1, SMT DEF Stated, Shared, Swaps
  <1>3. op # Idle /\ op.todo[1][1] \in {"begin", "replace", "upgrade"} BY <1>1, <1>2, Running, TaskOf, SMT DEF Shared
  <1>4. swap.phase = "none"
    <2>1. op.todo[1][1] \notin Backs \cup {"modules", "leftovers"} BY <1>3, SMT DEF Backs
    <2> QED BY <1>2, <2>1, Quiet
  <1>5. build # 0
    <2>1. op.cmd \notin {"clean", "sweep"} BY <1>3, Follow
    <2> QED BY <2>1, <1>3 DEF Control
  <1> DEFINE s == Stg(T)
             r == Rmv(T)
  <1>n. Live \in Names /\ s \in Names /\ r \in Names /\ s # Live /\ r # Live /\ s # r BY <1>2, PayloadNames
  <1>t. Stg(T)' = s /\ Rmv(T)' = r BY DEF Local, Stg, Rmv, T
  <1>6. CASE payload[Live] = build
    <2>1. Goto(AfterSwap) /\ UNCHANGED payload BY <1>6 DEF Ensure
    <2>2. op'.pc \in {"stage", "commitswap"} BY <2>1, GotoRuns DEF AfterSwap
    <2>3. op'.pc \in Deployed BY <2>2 DEF Deployed
    <2>4. UndoSafe' BY <1>1, <1>4 DEF UndoSafe, OwnSwap
    <2> QED BY <2>1, <2>3, <2>4, <1>5, <1>6, InPlaceSeen
  <1>7. CASE payload[Live] # build
    <2>1. Goto("swapjournal") /\ payload' = [payload EXCEPT ![s] = build] BY <1>7 DEF Ensure, Stg
    <2>2. op'.pc = "swapjournal" BY <2>1, GotoRuns
    <2>3. payload[r] = 0 BY <1>1 DEF PayloadSeen
    <2>4. payload'[r] = 0 /\ payload'[s] = build
      <3> HIDE DEF r, s
      <3> QED BY <2>1, <2>3, <1>n, SetName
    <2>5. payload'[Rmv(T)'] = 0 /\ payload'[Stg(T)'] # 0 BY <2>4, <1>t, <1>5
    <2> QED BY <2>2, <2>5, SMT DEF PayloadSeen, Deployed, Open, UndoHere
  <1> QED BY <1>6, <1>7

LEMMA SwapsSeen ==
  ASSUME Types, Control, Midway, PayloadKept, PayloadSeen, SwapJournal \/ Aside \/ Deploy, Local, op'.todo = op.todo
  PROVE PayloadSeen'
  <1>1. op.pc \in {"swapjournal", "aside", "deploy"} BY DEF SwapJournal, Aside, Deploy, At
  <1>2. op.pc \in Stated BY <1>1 DEF Stated, Shared
  <1> DEFINE s == Stg(T)
             r == Rmv(T)
  <1>n. Live \in Names /\ s \in Names /\ r \in Names /\ s # Live /\ r # Live /\ s # r BY <1>2, PayloadNames
  <1>t. T' = T /\ Stg(T)' = s /\ Rmv(T)' = r BY DEF Local, Stg, Rmv, T
  <1>3. CASE SwapJournal
    <2>1. op.pc = "swapjournal" /\ Goto("aside") /\ UNCHANGED payload /\ swap' = Opened(T, NoMarker)
      BY <1>3 DEF SwapJournal, At
    <2>2. op'.pc = "aside" BY <2>1, GotoRuns
    <2>3. payload'[Rmv(T)'] = 0 /\ payload'[Stg(T)'] # 0 BY <2>1, <1>t DEF PayloadSeen
    <2>4. swap'.phase = "open" /\ swap'.tx = T' BY <2>1, <1>t DEF Opened
    <2> QED BY <2>2, <2>3, <2>4, SMT DEF PayloadSeen, Deployed, Open, UndoHere
  <1>4. CASE Aside
    <2>1. op.pc = "aside" /\ Goto("deploy") /\ UNCHANGED swap /\ payload' = Moved(payload, Live, r, 0)
      BY <1>4 DEF Aside, At, Rmv
    <2>2. op'.pc = "deploy" BY <2>1, GotoRuns
    <2>3. payload[s] # 0 /\ swap.phase = "open" /\ swap.tx = T BY <2>1 DEF PayloadSeen
    <2>4. payload'[Live] = 0 /\ payload'[s] = payload[s]
      <3> HIDE DEF r, s
      <3> QED BY <2>1, <1>n, MovedNames
    <2>5. payload'[Stg(T)'] # 0 BY <2>3, <2>4, <1>t
    <2>6. swap'.phase = "open" /\ swap'.tx = T' BY <2>1, <2>3, <1>t
    <2> QED BY <2>2, <2>4, <2>5, <2>6, SMT DEF PayloadSeen, Deployed, Open, UndoHere
  <1>5. CASE Deploy
    <2>1. op.pc = "deploy" /\ Goto(AfterSwap) /\ UNCHANGED <<swap, profile>> /\ payload' = Moved(payload, s, Live, 0)
      BY <1>5 DEF Deploy, At, Stg
    <2>2. op'.pc \in {"stage", "commitswap"} BY <2>1, GotoRuns DEF AfterSwap
    <2>3. payload[s] # 0 /\ swap.phase = "open" /\ swap.tx = T /\ payload[Live] = 0 BY <2>1 DEF PayloadSeen
    <2>4. payload'[Live] = payload[s] /\ payload'[r] = payload[r]
      <3> HIDE DEF r, s
      <3> QED BY <2>1, <1>n, MovedNames
    <2>5. payload[r] # 0 \/ NoStable BY <2>3 DEF PayloadKept, Works, Spare
    <2>6. NoStable => NoStable' BY <2>1 DEF NoStable, Stable
    <2>7. payload'[Rmv(T)'] # 0 \/ NoStable' BY <2>4, <2>5, <2>6, <1>t
    <2>8. UndoSafe' BY <2>1, <2>3, <2>7 DEF UndoSafe
    <2>9. op'.pc \in Deployed BY <2>2 DEF Deployed
    <2> QED BY <2>3, <2>4, <2>8, <2>9, InPlaceSeen
  <1> QED BY <1>3, <1>4, <1>5

\* An installation with its payload in place.
LEMMA DeployedSeen ==
  ASSUME Types, Control, Midway, PayloadSeen, Local, op'.todo = op.todo, Types', Control',
         \/ Stage \/ OpenJournal \/ Publish \/ Prepared \/ Retire \/ GoLive \/ Write \/ MarkInstalled \/ Verify
         \/ Commit \/ Finish \/ FinishSwap \/ FinishState \/ CommitSwap \/ Version,
         op'.pc \notin Tasks \cup {"idle"}
  PROVE PayloadSeen'
  <1>o. ~Done BY Onward
  <1>g. \A p : Goto(p) => op'.pc = p BY GotoRuns
  <1> DEFINE r == Rmv(T)
  <1>1. CASE Write \/ Verify
    <2>1. /\ op.pc \in Open /\ UNCHANGED <<payload, journal>>
          /\ op'.pc \in {"installed", "commit", "undo"}
      BY <1>1, <1>g DEF Write, Replaced, Verify, At, Open, disk
    <2>2. payload[Live] # 0 /\ J.phase = "open" BY <2>1 DEF PayloadSeen, Deployed, Midway, Phased
    <2>3. Cur' = Cur BY SameCur
    <2>4. J'.phase = "open" BY <2>1, <2>2, <2>3 DEF J
    <2>5. CASE op'.pc = "undo"
      <3>1. ~UndoHere' BY <2>4, <2>5 DEF UndoHere
      <3> QED BY <2>5, <3>1, SMT DEF PayloadSeen, Deployed, Open
    <2>6. CASE op'.pc \in {"installed", "commit"}
      <3>1. op'.pc \in Deployed /\ op'.pc \notin {"stage", "journal"} BY <2>6 DEF Deployed, Open
      <3> QED BY <2>1, <2>2, <3>1, InPlaceSeen
    <2> QED BY <2>1, <2>5, <2>6
  <1>2. CASE Stage
    <2>1. op.pc = "stage" /\ Goto("journal") /\ UNCHANGED <<payload, swap, profile>> BY <1>2 DEF Stage, At
    <2>2. op'.pc = "journal" /\ op'.pc \in Deployed BY <2>1, <1>g DEF Deployed
    <2>3. payload[Live] # 0 /\ UndoSafe BY <2>1 DEF PayloadSeen, Deployed, UndoHere
    <2>4. UndoSafe' BY <2>1, <2>3 DEF UndoSafe, OwnSwap, NoStable, Stable, T, Local
    <2> QED BY <2>1, <2>2, <2>3, <2>4, InPlaceSeen
  <1>3. CASE OpenJournal \/ Publish \/ Prepared \/ Retire \/ GoLive \/ MarkInstalled \/ Commit
    <2>1. /\ op.pc \in {"journal"} \cup Open /\ UNCHANGED payload
          /\ op'.pc \in {"publish", "prepared", "retire", "live", "write", "verify", "finish"}
      BY <1>3, <1>g DEF OpenJournal, Publish, Prepared, Retire, GoLive, MarkInstalled, Commit, At, Open
    <2>2. payload[Live] # 0 BY <2>1 DEF PayloadSeen, Deployed
    <2>3. op'.pc \in Deployed /\ op'.pc \notin {"stage", "journal"} BY <2>1 DEF Deployed, Open
    <2> QED BY <2>1, <2>2, <2>3, InPlaceSeen
  <1>4. CASE Finish \/ FinishSwap \/ CommitSwap \/ Version
    <2>1. /\ op.pc \in {"finish", "finishswap", "commitswap", "version"}
          /\ UNCHANGED payload \/ payload' = [payload EXCEPT ![r] = 0]
          /\ op'.pc \in {"finish", "finishswap", "finishstate", "version"}
      BY <1>4, <1>g, <1>o DEF Finish, FinishSwap, CommitSwap, Version, At, Rmv
    <2>2. op.pc \in Stated /\ op.pc \in Deployed BY <2>1 DEF Stated, Shared, Deployed
    <2>3. Live \in Names /\ r \in Names /\ r # Live BY <2>2, PayloadNames
    <2>4. payload'[Live] = payload[Live]
      <3> HIDE DEF r
      <3> QED BY <2>1, <2>3, SetName
    <2>5. payload[Live] # 0 BY <2>2 DEF PayloadSeen
    <2>6. CASE op'.pc = "finishstate" BY <2>6, Unminded, SMT DEF Minded, Deployed, Open
    <2>7. CASE op'.pc # "finishstate"
      <3>1. op'.pc \in Deployed /\ op'.pc \notin {"stage", "journal"} BY <2>1, <2>7 DEF Deployed
      <3> QED BY <2>4, <2>5, <3>1, InPlaceSeen
    <2> QED BY <2>6, <2>7
  <1>5. CASE FinishState
    <2>1. op'.pc = "finishjournal" BY <1>5, <1>g DEF FinishState
    <2> QED BY <2>1, Unminded, SMT DEF Minded, Deployed, Open
  <1> QED BY <1>1, <1>2, <1>3, <1>4, <1>5

\* The ways back of an installation without a journal.
LEMMA UndoSeen ==
  ASSUME Types, Control, Midway, PayloadSeen, Local, op'.todo = op.todo,
         Undo \/ UndoRoot \/ UndoName, op'.pc \notin Tasks \cup {"idle"}
  PROVE PayloadSeen'
  <1>g. \A p : Goto(p) => op'.pc = p BY GotoRuns
  <1>c. Cur' = Cur BY SameCur
  <1>1. CASE Undo
    <2>1. op.pc = "undo" /\ UNCHANGED <<payload, swap, profile>> BY <1>1 DEF Undo, At
    <2>2. J.phase = "none" /\ op'.pc = "undoroot"
      <3>1. CASE J.phase # "none"
        <4>1. op'.pc = "recover" BY <1>1, <3>1 DEF Undo, J, Types, Jobs
        <4> QED BY <4>1, SMT DEF Tasks
      <3> QED BY <1>1, <3>1, <1>g DEF Undo, J
    <2>3. UndoSafe BY <2>1, <2>2 DEF PayloadSeen, UndoHere
    <2>4. UndoSafe' BY <2>1, <2>3 DEF UndoSafe, OwnSwap, NoStable, Stable, T, Local
    <2> QED BY <2>2, <2>4, SMT DEF PayloadSeen, Deployed, Open
  <1>2. CASE UndoRoot
    <2>1. op'.pc = "undoname" BY <1>2, <1>g DEF UndoRoot
    <2> QED BY <2>1, Unminded, SMT DEF Minded, Deployed, Open
  <1>3. CASE UndoName
    <2> DEFINE r == Rmv(T)
    <2>1. /\ op.pc = "undoname" /\ Goto("undoclean")
          /\ IF payload[r] # 0 THEN payload' = Moved(payload, r, Live, 0) ELSE payload' = payload
      BY <1>3 DEF UndoName, At, Rmv
    <2>2. op'.pc = "undoclean" BY <2>1, <1>g
    <2>3. op.pc \in Stated BY <2>1 DEF Stated, Shared
    <2>4. Live \in Names /\ r \in Names /\ r # Live BY <2>3, PayloadNames
    <2>5. Rmv(T)' = r BY DEF Local, Rmv, T
    <2>6. payload'[r] = 0
      <3> HIDE DEF r
      <3> QED BY <2>1, <2>4, MovedNames
    <2>7. payload'[Rmv(T)'] = 0 BY <2>5, <2>6
    <2> QED BY <2>2, <2>7, SMT DEF PayloadSeen, Deployed, Open, UndoHere
  <1> QED BY <1>1, <1>2, <1>3

LEMMA FailPaid ==
  ASSUME Types, Control, Midway, PayloadSeen, Local, op'.todo = op.todo, Fail, op'.pc = "undo", op.pc \in Undoes
  PROVE PayloadSeen'
  <1>1. UNCHANGED <<profile, payload, swap, journal>> BY DEF Fail, disk
  <1>c. Cur' = Cur BY SameCur
  <1>2. UndoHere' => J.phase = "none" BY <1>1, <1>c DEF UndoHere, J
  <1>3. UndoHere' => op.pc \in {"payload", "swapjournal", "aside", "deploy", "stage", "journal"}
    <2>1. op.pc \in Open => J.phase = "open" BY DEF Midway, Phased
    <2> QED BY <2>1, <1>2, SMT DEF Undoes, Open
  <1>4. ASSUME op.pc \in {"payload", "swapjournal"} PROVE UndoSafe'
    <2>1. op.pc \in Shared /\ op.pc # "idle" /\ op.pc \notin Swaps BY <1>4, SMT DEF Shared, Swaps
    <2>2. op.todo[1][1] \notin Backs \cup {"modules", "leftovers"}
      <3>1. op.todo[1][1] \in {"begin", "replace", "upgrade"} BY <2>1, TaskOf
      <3> QED BY <3>1, SMT DEF Backs
    <2>3. swap.phase = "none" BY <2>1, <2>2, Quiet
    <2> QED BY <1>1, <2>3 DEF UndoSafe, OwnSwap
  <1>5. ASSUME op.pc \in {"aside", "deploy"} PROVE UndoSafe'
    <2>1. payload[Stg(T)] # 0 /\ swap.phase = "open" BY <1>5 DEF PayloadSeen
    <2> QED BY <1>1, <2>1 DEF UndoSafe, T, Local
  <1>6. ASSUME op.pc \in {"stage", "journal"} PROVE UndoSafe'
    <2>1. UndoSafe BY <1>6 DEF PayloadSeen, UndoHere
    <2> QED BY <1>1, <2>1 DEF UndoSafe, OwnSwap, NoStable, Stable, T, Local
  <1>7. UndoHere' => UndoSafe' BY <1>3, <1>4, <1>5, <1>6
  <1> QED BY <1>7, SMT DEF PayloadSeen, Deployed, Open

\* The ways of the payload's recovery.
LEMMA SwapBackSeen ==
  ASSUME Types, Control, Midway, PayloadKept, PayloadSeen, Local, op'.todo = op.todo, Types', Control',
         Swap \/ SwapRoot \/ SwapRename \/ SwapClean \/ TidySwap, op'.pc \notin Tasks \cup {"idle"}
  PROVE PayloadSeen'
  <1>g. \A p : Goto(p) => op'.pc = p BY GotoRuns
  <1>d. ~Done BY Onward
  <1>e. UNCHANGED profile /\ (NoStable => NoStable')
    BY DEF Swap, SwapRoot, SwapRename, SwapClean, TidySwap, disk, NoStable, Stable
  <1> DEFINE w == Rmv(swap.tx)
  <1>n. Live \in Names /\ (swap.phase # "none" => swap.tx \in Tx /\ w \in Names /\ w # Live) BY PayloadNames
  <1>a. ASSUME op'.pc \in {"swaproot", "swaprename"}, Spare' PROVE PayloadSeen'
    BY <1>a, SMT DEF PayloadSeen, Deployed, Open, UndoHere
  <1>b. ASSUME op'.pc \in {"swapclean", "swapdrop"}, Works' PROVE PayloadSeen'
    BY <1>b, SMT DEF PayloadSeen, Deployed, Open, UndoHere
  <1>1. CASE Swap
    <2>1. UNCHANGED <<payload, swap>> /\ ((Goto("swaproot") /\ Spare) \/ (Goto("swapclean") /\ ~Spare))
      BY <1>1, <1>d DEF Swap, Spare, Rmv, disk
    <2>2. CASE Goto("swaproot") /\ Spare
      <3>1. Spare' BY <2>1, <2>2 DEF Spare
      <3> QED BY <2>2, <3>1, <1>g, <1>a
    <2>3. CASE Goto("swapclean") /\ ~Spare
      <3>1. Works BY <2>3 DEF PayloadKept
      <3>2. Works' BY <2>1, <3>1, <1>e DEF Works
      <3> QED BY <2>3, <3>2, <1>g, <1>b
    <2> QED BY <2>1, <2>2, <2>3
  <1>2. CASE SwapRoot
    <2>1. op.pc = "swaproot" /\ Goto("swaprename") /\ UNCHANGED swap /\ payload' = [payload EXCEPT ![Live] = 0]
      BY <1>2 DEF SwapRoot, At
    <2>2. swap.phase = "open" /\ payload[w] # 0 BY <2>1 DEF PayloadSeen, Spare
    <2>3. payload'[w] = payload[w]
      <3> HIDE DEF w
      <3> QED BY <2>1, <2>2, <1>n, SetName
    <2>4. Spare' BY <2>1, <2>2, <2>3 DEF Spare
    <2> QED BY <2>1, <2>4, <1>g, <1>a
  <1>3. CASE SwapRename
    <2>1. op.pc = "swaprename" /\ Goto("swapclean") /\ payload' = Moved(payload, w, Live, 0)
      BY <1>3 DEF SwapRename, At, Rmv
    <2>2. swap.phase = "open" /\ payload[w] # 0 BY <2>1 DEF PayloadSeen, Spare
    <2>3. payload'[Live] = payload[w]
      <3> HIDE DEF w
      <3> QED BY <2>1, <2>2, <1>n, MovedNames
    <2>4. Works' BY <2>2, <2>3 DEF Works
    <2> QED BY <2>1, <2>4, <1>g, <1>b
  <1>4. CASE SwapClean
    <2>1. op.pc = "swapclean" /\ Goto("swapdrop") /\ payload' = Emptied(swap.tx) BY <1>4 DEF SwapClean, At
    <2>2. Works /\ swap.phase # "none" BY <2>1 DEF PayloadSeen, Midway, Phased
    <2>3. payload'[Live] = payload[Live] BY <2>1, <2>2, <1>n, EmptiedNames
    <2>4. Works' BY <2>2, <2>3, <1>e DEF Works
    <2> QED BY <2>1, <2>4, <1>g, <1>b
  <1>5. CASE TidySwap
    <2>1. \/ Goto("tidystate")
          \/ Goto("tidydrop") /\ OwnsSwap /\ payload' = Emptied(swap.tx)
      BY <1>5 DEF TidySwap
    <2>2. CASE Goto("tidystate")
      <3>1. op'.pc = "tidystate" BY <2>2, <1>g
      <3> QED BY <3>1, Unminded, SMT DEF Minded, Deployed, Open
    <2>3. CASE Goto("tidydrop") /\ OwnsSwap /\ payload' = Emptied(swap.tx)
      <3>1. PICK c \in Edition : c = Cur BY Running
      <3>2. Committed(c) /\ swap.phase # "none" /\ swap.tx = journal[c].tx
        BY <2>3, <3>1 DEF OwnsSwap, J, Committed
      <3>3. payload[Live] # 0 BY <3>2 DEF PayloadKept
      <3>4. payload'[Live] = payload[Live] BY <2>3, <3>2, <1>n, EmptiedNames
      <3>5. op'.pc = "tidydrop" BY <2>3, <1>g
      <3> QED BY <3>3, <3>4, <3>5, SMT DEF PayloadSeen, Deployed, Open, UndoHere
    <2> QED BY <2>1, <2>2, <2>3
  <1> QED BY <1>1, <1>2, <1>3, <1>4, <1>5

-----------------------------------------------------------------------------
(* The blocks work.                                                         *)

\* What a step finds of the payload, from step to step.
LEMMA PayloadSeenStep ==
  ASSUME Types, Control, Midway, PayloadKept, PayloadSeen, Types', Control', [Next]_vars
  PROVE PayloadSeen'
  <1> DEFINE q == op'.pc
  <1>1. CASE q \notin Minded BY <1>1, Unminded
  <1>2. CASE q \in Minded
    <2>1. q \notin Tasks \cup {"idle"} /\ q \notin {"restore", "examine", "excise", "stripped"}
      <3>1. q \in Minded BY <1>2
      <3> HIDE DEF q
      <3> QED BY <3>1, SMT DEF Minded, Deployed, Open, Tasks
    <2>2. \/ Still
          \/ /\ op'.todo = op.todo
             /\ q \notin {"restore", "payload", "examine", "excise", "stripped"} => Local
             /\ BackLands(q) \/ EnableLands(q) \/ RestLands(q)
      BY <2>1, Landing
    <2>3. BackLands(q) => SwapActs \/ TidySwap
      <3>1. q \in Minded BY <1>2
      <3> HIDE DEF q
      <3>2. q \notin {"tidyswap", "unpublish", "restore", "unretire", "values", "state", "tidystate", "dropjournal"}
        BY <3>1, SMT DEF Minded, Deployed, Open
      <3> QED BY <3>2, SMT DEF BackLands, SwapActs
    <2>4. RestLands(q) => Fail /\ q = "undo" /\ op.pc \in Undoes
      <3>1. q \in Minded BY <1>2
      <3> HIDE DEF q
      <3>2. q \notin {"examine", "forget", "restate", "excise", "erase", "erased", "cleanup", "cleanpayload",
                      "stripped", "retiretree"}
        BY <3>1, SMT DEF Minded, Deployed, Open
      <3> QED BY <3>2, SMT DEF RestLands
    <2>5. EnableLands(q) =>
            \/ (Begin \/ Upgrade) /\ q = "payload"
            \/ /\ q # "payload"
               /\ \/ Ensure \/ SwapJournal \/ Aside \/ Deploy \/ Undo \/ UndoRoot \/ UndoName
                  \/ Stage \/ OpenJournal \/ Publish \/ Prepared \/ Retire \/ GoLive \/ Write \/ MarkInstalled
                  \/ Verify \/ Commit \/ Finish \/ FinishSwap \/ FinishState \/ CommitSwap \/ Version
      <3>1. q \in Minded BY <1>2
      <3> HIDE DEF q
      <3>2. q # "adopted" BY <3>1, SMT DEF Minded, Deployed, Open
      <3> QED BY <3>2, SMT DEF EnableLands
    <2>6. CASE Still BY <2>6, StillPaid
    <2>7. CASE ~Still
      <3>0. /\ op'.todo = op.todo /\ (q # "payload" => Local)
            /\ BackLands(q) \/ EnableLands(q) \/ RestLands(q)
        BY <2>1, <2>2, <2>7
      <3>n. ~Done /\ (\A z : ~Instead(z)) /\ (\A code : ~Abort(code)) BY <2>1, Onward
      <3>1. CASE BackLands(q)
        <4>1. q # "payload"
          <5> HIDE DEF q
          <5> QED BY <3>1, SMT DEF BackLands
        <4>2. SwapActs \/ TidySwap BY <2>3, <3>1
        <4>3. ~SwapDrop BY <3>n DEF SwapDrop
        <4>4. Swap \/ SwapRoot \/ SwapRename \/ SwapClean \/ TidySwap BY <4>2, <4>3 DEF SwapActs
        <4> QED BY <2>1, <3>0, <4>1, <4>4, SwapBackSeen
      <3>2. CASE RestLands(q)
        <4>1. Fail /\ q = "undo" /\ op.pc \in Undoes BY <2>4, <3>2
        <4> QED BY <3>0, <4>1, FailPaid
      <3>3. CASE (Begin \/ Upgrade) /\ q = "payload" BY <3>3, <3>n, BeginSeen
      <3>4. CASE q # "payload" /\ Ensure BY <3>0, <3>4, EnsureSeen
      <3>5. CASE q # "payload" /\ (SwapJournal \/ Aside \/ Deploy) BY <3>0, <3>5, SwapsSeen
      <3>6. CASE q # "payload" /\ (Undo \/ UndoRoot \/ UndoName) BY <2>1, <3>0, <3>6, UndoSeen
      <3>7. CASE /\ q # "payload"
                 /\ \/ Stage \/ OpenJournal \/ Publish \/ Prepared \/ Retire \/ GoLive \/ Write \/ MarkInstalled
                    \/ Verify \/ Commit \/ Finish \/ FinishSwap \/ FinishState \/ CommitSwap \/ Version
        BY <2>1, <3>0, <3>7, DeployedSeen
      <3> QED BY <2>5, <3>0, <3>1, <3>2, <3>3, <3>4, <3>5, <3>6, <3>7, Zenon
    <2> QED BY <2>6, <2>7
  <1> QED BY <1>1, <1>2

\* At first the old releases' blocks are there with all they need.
LEMMA BlockInit ==
  ASSUME Init
  PROVE CommitsKept /\ Leaving /\ Blocked /\ PayloadKept /\ PayloadSeen
  <1>1. PICK old \in SUBSET Edition :
       /\ profile = [e \in Edition |-> IF e \in old
                       THEN [present |-> TRUE, text |-> Start[e].text, block |-> "legacy"] ELSE Start[e]]
       /\ marker = [e \in Edition |-> IF e \in old
                      THEN [present |-> TRUE, state |-> "installed", version |-> Legacy,
                            orig |-> Start[e].present]
                      ELSE NoMarker]
       /\ tree = [state |-> old # {}, legacy |-> old # {}]
    BY DEF Init
  <1>2. \A e \in Edition : journal[e] = NoEntry BY DEF Init
  <1>3. NoEntry.phase = "none" /\ swap.phase = "none" BY DEF NoEntry, Init
  <1>4. \A e \in Edition : Start[e].block = "none" BY PowerShellAssumption
  <1>5. ASSUME NEW e \in Edition
        PROVE /\ e \notin old => profile[e].block = "none"
              /\ e \in old => /\ profile[e].block = "legacy" /\ tree.legacy
                              /\ marker[e].present /\ marker[e].state = "installed" /\ marker[e].version = Legacy
    BY <1>1, <1>4
  <1>6. \A e \in Edition : ~Committed(e) /\ NotOpen(e) /\ ~Stable(e)
    BY <1>2, <1>3, <1>5 DEF Committed, NotOpen, Stable
  <1>7. op = Idle /\ op.pc = "idle" /\ op.cmd = "none" /\ op.todo = <<>> /\ Len(op.todo) = 0 BY SMT DEF Init, Idle
  <1>8. CommitsKept BY <1>6 DEF CommitsKept, CommitsShut, OneCommit, RecoverFirst
  <1>9. Leaving BY <1>7 DEF Leaving, GoneHere, SweptOut
  <1>10. BlocksMarked
    <2> SUFFICES ASSUME NEW e \in Edition PROVE BlockAt(e) BY DEF BlocksMarked
    <2>1. BlockBack(e) BY <1>6 DEF BlockBack
    <2>2. CASE e \in old BY <1>5, <1>6, <2>1, <2>2 DEF BlockAt, BlockMark
    <2>3. CASE e \notin old BY <1>5, <1>6, <2>1, <2>3 DEF BlockAt, BlockMark, Bare
    <2> QED BY <2>2, <2>3
  <1>11. ~RollingBack /\ ~Rolled /\ ~InPlace BY <1>7, SMT DEF RollingBack, Rolled, InPlace
  <1>12. "idle" \notin Before BY SMT DEF Before
  <1>13. BlockRead BY <1>7, <1>11, <1>12 DEF BlockRead
  <1>14. PayloadKept BY <1>3, <1>6 DEF PayloadKept, Works, NoStable
  <1>15. PayloadSeen
    <2>1. "idle" \notin Deployed BY SMT DEF Deployed, Open
    <2> QED BY <1>7, <2>1 DEF PayloadSeen, UndoHere
  <1> QED BY <1>8, <1>9, <1>10, <1>13, <1>14, <1>15 DEF Blocked

\* A block in a profile finds what it calls: an old release's its versioned
\* directory (BlocksMarked), one of ours the shared payload, or, while that is
\* swapped, its previous bytes under the name in the journal (PayloadKept);
\* however many hosts share them, and wherever a command fails, is killed, is
\* undone or is recovered from.
THEOREM BlocksWork == Spec => []BlockFindsModule
  <1> DEFINE I == /\ Types /\ Control /\ Midway /\ Kept /\ Held
                  /\ Versions /\ EmptyKept /\ SeenHere /\ PreservesText
                  /\ CommitsKept /\ Leaving /\ Blocked /\ PayloadKept /\ PayloadSeen
  <1>1. Init => I BY Starting0, HeldInit, TextInit, BlockInit
  <1>2. I /\ [Next]_vars => I'
    <2> SUFFICES ASSUME I, [Next]_vars PROVE I' OBVIOUS
    <2>1. Types' /\ Control' /\ Midway' /\ Kept' /\ Held' BY HeldStep
    <2>2. Versions' /\ EmptyKept' /\ SeenHere' /\ PreservesText'
      BY <2>1, VersionsStep, EmptyStep, SeenStep, PreservesStep
    <2>3. CommitsKept' /\ Leaving' BY <2>1, CommitsStep, LeavingStep
    <2>4. Blocked' BY <2>1, BlockedStep
    <2>5. PayloadKept' BY <2>1, PayloadKeptStep
    <2>6. PayloadSeen' BY <2>1, PayloadSeenStep
    <2> QED BY <2>1, <2>2, <2>3, <2>4, <2>5, <2>6
  <1>3. I => BlockFindsModule
    <2> SUFFICES ASSUME I, NEW e \in Edition
                 PROVE BlockWorks(e) \/ (swap.phase = "open" /\ payload[<<"removing", swap.tx>>] # 0)
      BY DEF BlockFindsModule
    <2>1. profile[e].block = "legacy" => tree.legacy BY DEF Blocked, BlocksMarked, BlockAt, BlockMark
    <2>2. Stable(e) => payload[Live] # 0 \/ Spare BY DEF PayloadKept, Works, NoStable
    <2> QED BY <2>1, <2>2 DEF BlockWorks, Stable, Spare, Rmv
  <1> HIDE DEF I
  <1> QED BY <1>1, <1>2, <1>3, PTL DEF Spec
=============================================================================
