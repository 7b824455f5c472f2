----------------------------- MODULE MappingTable -----------------------------
(***************************************************************************)
(* What the filter driver (driver/fswfilter/fswfilter.c) promises to the   *)
(* rest of the system: every identity, that is every (session, logon, SID, *)
(* integrity), has at most one mapping, published and withdrawn by the one *)
(* connection that owns it, and the opening of a file is decided by one    *)
(* look at the mapping of the caller's own identity.                       *)
(***************************************************************************)
CONSTANTS
  Identity,    \* the token identities that may publish a mapping
  Conn,        \* connections to the driver's port
  Mapping,     \* [volume, names] records
  Query,       \* [id, volume, name] records: one file open
  NoConn,      \* no connection
  Unmapped     \* the entry of an identity without a mapping: its owner is NoConn

VARIABLES
  table,       \* the mapping of each identity and its owner
  query,       \* the file open being decided
  answer       \* how it was decided

tableVars == <<table, query, answer>>

Entries == [owner : Conn, map : Mapping]

Lists(m, q) == m.volume = q.volume /\ q.name \in m.names
Mapped(i)   == table[i].owner # NoConn
Routed(q)   == Mapped(q.id) /\ Lists(table[q.id].map, q)

Init ==
  /\ table = [i \in Identity |-> Unmapped]
  /\ query \in Query
  /\ answer = "native"

\* An entry changes on its own; only its owner replaces a mapping.
Only(i) ==
  /\ UNCHANGED <<query, answer>>
  /\ \A j \in Identity : j # i => table'[j] = table[j]

Publish(i) ==
  /\ Only(i)
  /\ table'[i] \in Entries
  /\ Mapped(i) => table'[i].owner = table[i].owner

Withdraw(i) ==
  /\ Only(i)
  /\ table'[i] = Unmapped

Ask(q) ==
  /\ answer # "pending"
  /\ query' = q
  /\ answer' = "pending"
  /\ UNCHANGED table

\* The decision is one atomic look, or the driver fails open; a decided query
\* is forgotten.
Decide ==
  /\ answer = "pending"
  /\ \/ Routed(query) /\ answer' = "redirect"
     \/ ~Routed(query) /\ answer' = "native"
     \/ answer' = "failOpen"
  /\ query' \in Query
  /\ UNCHANGED table

Next ==
  \/ \E i \in Identity : Publish(i) \/ Withdraw(i)
  \/ \E q \in Query : Ask(q)
  \/ Decide

Spec == Init /\ [][Next]_tableVars

===============================================================================
