----------------------------- MODULE MCSyncFeed -----------------------------
(***************************************************************************)
(* The feed of one vault with three connections of two devices.  A         *)
(* behaviour exercises the cursor, the storage status, presence or the      *)
(* pages of the history.                                                   *)
(***************************************************************************)
EXTENDS HistoryPages, TLC

CONSTANTS c1, c2, c3, d1, d2, e1, e2, h1, h2

OwnerOf == c1 :> d1 @@ c2 :> d1 @@ c3 :> d2

\* Entries, handlers and the two connections of one device are alike.
Alike == Permutations({e1, e2}) \cup Permutations({h1, h2})
           \cup Permutations({c1, c2})

Kinds == {"accept", "close", "leave", "hello", "commit", "list", "storage", "watch", "presence",
          "fault", "restart", "edit", "page", "later"}

Workload(where, some) ==
  [runtime |-> where,
   budget |-> [k \in Kinds |-> IF k \in DOMAIN some THEN some[k] ELSE 0]]

\* Two devices list while they commit, batches too.
Listing == {Workload("node", [accept |-> 2, commit |-> 3, list |-> 4]),
            Workload("object", [accept |-> 2, commit |-> 2, list |-> 3])}

\* Commits while connections say hello, are replaced and leave.
Telling(where) ==
  Workload(where, [accept |-> 3, hello |-> 2, commit |-> 2, leave |-> 1,
                   fault |-> 1])

\* Uploads and a new limit while sockets come, watch and go.
Storing(where) ==
  Workload(where, [accept |-> 2, storage |-> 3, watch |-> 2, leave |-> 1,
                   fault |-> 1, restart |-> 1])

\* Clients watch, move and leave; a replaced socket, a hibernation.
Showing == {Workload("object", [accept |-> 3, presence |-> 5, close |-> 1,
                                restart |-> 1]),
            Workload("node", [accept |-> 3, presence |-> 5, leave |-> 1])}

\* Deletions, restores, purges and time between the pages.
Paging == {Workload("object", [accept |-> 1, edit |-> 3, page |-> 3, later |-> 2])}

AllWorkloads == Paging \cup Listing \cup Showing
  \cup {Telling(where) : where \in {"object", "node"}}
  \cup {Storing(where) : where \in {"object", "node"}}
=============================================================================
