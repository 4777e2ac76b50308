---------------------------- MODULE ObjectStore ----------------------------
(***************************************************************************)
(* What uploads, collection and the purge of a vault rely on in the object *)
(* storage, whichever of the three it is:                                  *)
(*   - an object appears by an upload that runs, and it appears complete,  *)
(*     unless the storage tears: then it may be cut;                       *)
(*   - an object disappears only by a running deletion of its key;         *)
(*   - an upload is answered ok only if its own object has appeared;       *)
(*   - a key a deletion does not report as failed was absent at some       *)
(*     moment since the deletion began;                                    *)
(*   - a download is answered with what its key holds.                     *)
(***************************************************************************)
CONSTANTS Key, Op

VARIABLES
  tears,    \* a refused upload may leave its object cut
  content,  \* what each key holds
  asked,    \* what each operation does, and to which keys
  placed,   \* running uploads that know that their object has appeared
  owed,     \* keys a running deletion does not yet know to have been absent
  answer    \* what an operation was answered, and the keys reported as failed

vars == <<tears, content, asked, placed, owed, answer>>

Nothing == [does |-> "nothing", keys |-> {}]

Unanswered == [is |-> "none", failed |-> {}]

Init ==
  /\ tears \in BOOLEAN
  /\ content \in [Key -> {"absent", "whole"}]
  /\ asked = [o \in Op |-> Nothing]
  /\ placed = {}
  /\ owed = [o \in Op |-> {}]
  /\ answer = [o \in Op |-> Unanswered]

Ask(o, does, K) ==
  /\ asked[o] = Nothing
  /\ asked' = [asked EXCEPT ![o] = [does |-> does, keys |-> K]]
  /\ owed' = [owed EXCEPT ![o] = IF does = "delete" THEN K ELSE {}]
  /\ answer' = [answer EXCEPT ![o] = Unanswered]
  /\ UNCHANGED <<tears, content, placed>>

Hold(K, what) == content' = [k \in Key |-> IF k \in K THEN what ELSE content[k]]

Appear(o) ==
  /\ asked[o].does = "put"
  /\ Hold(asked[o].keys, "whole")
  /\ placed' \in {placed, placed \cup {o}}
  /\ UNCHANGED <<tears, asked, owed, answer>>

Tear(o) ==
  /\ asked[o].does = "put" /\ tears
  /\ Hold(asked[o].keys, "cut")
  /\ UNCHANGED <<tears, asked, placed, owed, answer>>

Remove(o, gone, seen) ==
  /\ asked[o].does = "delete" /\ gone \subseteq asked[o].keys
  /\ Hold(gone, "absent")
  /\ \A k \in seen : content'[k] = "absent"
  /\ owed' = [owed EXCEPT ![o] = @ \ seen]
  /\ UNCHANGED <<tears, asked, placed, answer>>

MayAnswer(o, a) ==
  \/ a.is = "failed"
  \/ /\ asked[o].does = "put"
     /\ a.is = "ok" /\ o \in placed
  \/ /\ asked[o].does = "delete"
     /\ a.is = "ok" /\ owed[o] \subseteq a.failed
  \/ /\ asked[o].does = "get"
     /\ \E k \in asked[o].keys : a.is = content[k]

Answer(o, a) ==
  /\ asked[o] # Nothing /\ MayAnswer(o, a)
  /\ answer' = [answer EXCEPT ![o] = a]
  /\ asked' = [asked EXCEPT ![o] = Nothing]
  /\ owed' = [owed EXCEPT ![o] = {}]
  /\ placed' = placed \ {o}
  /\ UNCHANGED <<tears, content>>

\* The process that runs the operations ends.
Forget ==
  /\ asked' = [o \in Op |-> Nothing]
  /\ owed' = [o \in Op |-> {}]
  /\ placed' = {}
  /\ answer' = [o \in Op |-> Unanswered]
  /\ UNCHANGED <<tears, content>>

Answers == [is : {"ok", "failed", "absent", "whole", "cut"}, failed : SUBSET Key]

Next ==
  \/ \E o \in Op :
       \/ \E does \in {"put", "get", "delete"}, K \in SUBSET Key : Ask(o, does, K)
       \/ Appear(o) \/ Tear(o)
       \/ \E gone, seen \in SUBSET Key : Remove(o, gone, seen)
       \/ \E a \in Answers : Answer(o, a)
  \/ Forget

Spec == Init /\ [][Next]_vars
=============================================================================
