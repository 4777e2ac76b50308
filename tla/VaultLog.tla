------------------------------ MODULE VaultLog ------------------------------
(***************************************************************************)
(* What the coordinator promises its clients.  A vault is the state a log  *)
(* of mutations leads to.  A mutation enters the log once, and only if it  *)
(* was made from the revision its entry has at that point of the log; it   *)
(* gives the entry its next revision and its content.                      *)
(***************************************************************************)
EXTENDS Naturals, Sequences

CONSTANTS
  Entry,
  Mutation,   \* records with an id, an entry, a base revision and a blob
  NoBlob

VARIABLES
  log,
  vault       \* the revision and the content of each entry

Init ==
  /\ log = <<>>
  /\ vault = [e \in Entry |-> [rev |-> 0, blob |-> NoBlob]]

Logged(id) == \E i \in DOMAIN log: log[i].id = id

Accepts(m) == m.base = vault[m.entry].rev /\ ~Logged(m.id)

\* One mutation is appended.  Naming it by its place in the new log leaves
\* nothing to enumerate.
Next ==
  /\ Len(log') = Len(log) + 1
  /\ LET m == log'[Len(log')]
     IN /\ m \in Mutation /\ Accepts(m)
        /\ log' = Append(log, m)
        /\ vault' = [vault EXCEPT ![m.entry] = [rev |-> m.base + 1, blob |-> m.blob]]

Spec == Init /\ [][Next]_<<log, vault>>
=============================================================================
