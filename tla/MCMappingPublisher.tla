-------------------------- MODULE MCMappingPublisher --------------------------
(* One session, whose broker is killed and restarted, and a driver with a    *)
(* slot to spare for it.                                                      *)
EXTENDS MappingPublisher, TLC

CONSTANTS s1, i1, c1, c2, c3

MCSession   == {s1}
MCIdentity  == {i1}
MCSessionOf == (i1 :> s1)
MCConn      == {c1, c2, c3}
===============================================================================
