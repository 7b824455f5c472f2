--------------------------- MODULE MCEnterPipeline ----------------------------
(* One window of every surface whose Enter ends in a different sink, and one   *)
(* that only looks like a trusted surface.                                     *)
EXTENDS EnterPipeline, TLC

CONSTANTS explorer, flyout, edge, fake, s1, n1

MCWindow == {explorer, flyout, edge, fake}
MCKindOf == (explorer :> "path") @@ (flyout :> "search") @@ (edge :> "browser")
            @@ (fake :> "imposter")
MCTyped  == {s1, n1}
MCSlash  == {s1}
===============================================================================
