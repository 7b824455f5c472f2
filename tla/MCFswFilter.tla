----------------------------- MODULE MCFswFilter ------------------------------
(* Two sessions, one of them with a standard and an elevated identity.        *)
EXTENDS FswFilter, TLC

CONSTANTS s1, s2, standard, elevated, other, c1, c2, c3, c4

MCSession   == {s1, s2}
MCIdentity  == {standard, elevated, other}
MCSessionOf == (standard :> s1) @@ (elevated :> s1) @@ (other :> s2)
MCConn      == {c1, c2, c3, c4}
ConnSymmetry == Permutations(MCConn)
===============================================================================
