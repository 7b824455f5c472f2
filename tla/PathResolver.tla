----------------------------- MODULE PathResolver -----------------------------
(***************************************************************************)
(* What a typed slash path names: crates/fsw-path/src/lib.rs and the two   *)
(* ways into it, resolve_user_slash_path of crates/fsw-core/src/lib.rs     *)
(* (Explorer, the shells, the CLI) and resolve_user_target of              *)
(* crates/fsw-path/src/target.rs (browsers).                               *)
(*                                                                         *)
(* A text that starts with a slash is the sequence of what stands between  *)
(* its slashes: "/" is <<"">>, "/a/" is <<"a", "">>, "//a" is <<"", "a">>. *)
(* A text without a leading slash is <<>>.                                 *)
(***************************************************************************)
EXTENDS Naturals, Sequences, SequencesExt

CONSTANTS
  Name,      \* what can stand between two slashes, but for "", "." and ".."
  Fold,      \* a name without its letter case (eq_ignore_case)
  Letter,    \* the names of one ASCII letter
  WithNul, WithBackslash, WithControl,   \* names holding such a character
  ValidRoot, \* the custom roots is_valid_windows_root accepts
  NoValue    \* no distribution, no root

Dots == {"", ".", ".."}

ASSUME ResolverAssumption ==
  /\ Name \cap Dots = {} /\ "mnt" \in Name
  /\ Fold \in [Name -> STRING]
  /\ Letter \subseteq Name /\ WithBackslash \subseteq Name
  /\ WithNul \subseteq WithControl /\ WithControl \subseteq Name
  /\ NoValue \notin Name /\ NoValue \notin ValidRoot

Segment == Name \cup Dots
Text    == Seq(Segment)

\* A Snapshot: the registered distributions, WSL's default, and the settings.
Snapshots(Distro, Root) ==
  [distros : SUBSET Distro, wslDefault : Distro \cup {NoValue},
   mode : {"list", "default"}, pin : Distro \cup {NoValue}, root : Root \cup {NoValue}]

-----------------------------------------------------------------------------
(* Outcomes.                                                                *)

Refused(why) == [ok |-> FALSE, why |-> why]
Provider     == [ok |-> TRUE, in |-> <<"provider">>, under |-> <<>>, slash |-> FALSE]
Place(base, under, slash) ==
  [ok |-> TRUE, in |-> base, under |-> under, slash |-> slash /\ under # <<>>]

InDistro(name) == <<"distro", name>>
InFolder(root) == <<"folder", root>>
InDrive(name)  == <<"drive", Fold[name]>>

-----------------------------------------------------------------------------
(* render and resolve_under_root: the components below a root, a ".." *)
(* taking the last one back, and nothing once the root has been left. *)

Left == <<"..">>

\* A ".." at the root is skipped like a ".", as Windows does it.
JoinedClamped(under, segment) ==
  CASE segment \in {"", "."}     -> under
    [] segment = ".."            -> IF under = <<>> THEN under ELSE Front(under)
    [] OTHER                     -> Append(under, segment)

Joined(under, segment) ==
  CASE under = Left              -> Left
    [] segment \in {"", "."}     -> under
    [] segment = ".."            -> IF under = <<>> THEN Left ELSE Front(under)
    [] OTHER                     -> Append(under, segment)

Under(segments) == FoldLeft(Joined, <<>>, segments)

Below(base, segments, slash) ==
  IF Under(segments) = Left THEN Refused("TraversalAboveRoot")
                            ELSE Place(base, Under(segments), slash)

Holds(text, names) == \E i \in DOMAIN text : text[i] \in names
EndsInSlash(text)  == Last(text) = ""

\* Rules R1 to R4, in this order.
Shape(text) ==
  CASE text = <<>>                       -> "NotASlashPath"
    [] Len(text) > 1 /\ text[1] = ""     -> "DoubleLeadingSlash"
    [] Holds(text, WithNul)              -> "EmbeddedNul"
    [] Holds(text, WithBackslash)        -> "BackslashNotAllowed"
    [] OTHER                             -> "fine"

UnderRoot(text, base) ==
  IF Shape(text) # "fine" THEN Refused(Shape(text))
                          ELSE Below(base, text, EndsInSlash(text))

-----------------------------------------------------------------------------
(* resolve: rules R5 to R9.                                                 *)

SameName(a, b)    == Fold[a] = Fold[b]
Known(name, snap) == name \in Name /\ \E d \in snap.distros : SameName(d, name)

Selects(text, snap) == snap.mode = "list" /\ Known(text[1], snap)

\* The pinned distribution if it is there, else WSL's own default.
Target(snap) ==
  CASE Known(snap.pin, snap)        -> snap.pin
    [] Known(snap.wslDefault, snap) -> snap.wslDefault
    [] OTHER                        -> NoValue

Resolve(text, snap) ==
  CASE Shape(text) # "fine" -> Refused(Shape(text))
    [] Shape(text) = "fine" /\ Selects(text, snap) ->
         Below(InDistro(text[1]), Tail(text), Len(text) > 1 /\ EndsInSlash(text))
    [] OTHER ->
         CASE snap.mode = "list" ->
                IF text = <<"">> THEN Provider ELSE Refused("UnregisteredDistribution")
           [] OTHER ->
                IF Target(snap) = NoValue
                THEN Refused("NoDefaultDistribution")
                ELSE Below(InDistro(Target(snap)), text, EndsInSlash(text))

-----------------------------------------------------------------------------
(* The drive alias, and the two funnels.                                    *)

Claimed(text) == Len(text) > 1 /\ text[1] = "mnt" /\ text[2] \in Letter

\* "/mnt/c" is the drive itself, "/mnt/c/x" is "/x" under it.
Alias(text) ==
  LET below == SubSeq(text, 3, Len(text))
  IN CASE Holds(text, WithNul)       -> Refused("EmbeddedNul")
       [] Holds(text, WithBackslash) -> Refused("BackslashNotAllowed")
       [] OTHER -> UnderRoot(IF below = <<>> THEN <<"">> ELSE below, InDrive(text[2]))

RootOf(snap) == IF snap.root \in ValidRoot THEN snap.root ELSE NoValue

\* resolve_user_slash_path of fsw-core.
Explorer(text, snap) ==
  CASE Claimed(text) -> Alias(text)
    [] ~Claimed(text) /\ text = <<>> -> Refused("NotASlashPath")
    [] ~Claimed(text) /\ text # <<>> /\ RootOf(snap) # NoValue ->
         UnderRoot(text, InFolder(RootOf(snap)))
    [] OTHER -> Resolve(text, snap)

\* native_target: a folder's path may hold no control character at all.
Native(place) ==
  IF place.ok /\ place.in[1] \in {"folder", "drive"} /\ Holds(place.under, WithControl)
  THEN Refused("InvalidPath") ELSE place

\* A registered name wins over the custom root.
BrowserShadowed(text, snap) ==
  CASE Claimed(text) -> Native(Alias(text))
    [] ~Claimed(text) /\ RootOf(snap) # NoValue /\ Shape(text) = "fine"
         /\ ~Selects(text, snap) -> Native(UnderRoot(text, InFolder(RootOf(snap))))
    [] OTHER -> Resolve(text, snap)

\* resolve_slash_target of fsw-path, reached by a text with a leading slash.
Browser(text, snap) ==
  CASE Claimed(text) -> Native(Alias(text))
    [] ~Claimed(text) /\ Shape(text) # "fine" -> Refused(Shape(text))
    [] ~Claimed(text) /\ Shape(text) = "fine" /\ RootOf(snap) # NoValue ->
         Native(UnderRoot(text, InFolder(RootOf(snap))))
    [] OTHER -> Resolve(text, snap)

===============================================================================
