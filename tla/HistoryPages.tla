---------------------------- MODULE HistoryPages ----------------------------
(***************************************************************************)
(* The pages in which a client reads a vault's history: the deleted        *)
(* entries it could restore, and the versions of one entry                 *)
(* (EntryService.listDeletedEntries and listEntryVersions).  Both queries  *)
(* go down from the newest row, and the last row of a page is where the    *)
(* next begins, while others delete, restore, purge and time passes.       *)
(*                                                                         *)
(* The commits of this module are those of SyncFeed seen from the rows     *)
(* they leave behind; what is told about them is SyncFeed's.               *)
(***************************************************************************)
EXTENDS SyncFeed

CONSTANTS
  Files,        \* entry ids of the history: the queries order by them
  VersionIds,   \* version ids, drawn at random
  Retention,    \* how long a version can be restored
  PageRows      \* rows of one page: at most 100 in the code

ASSUME HistoryAssumptions ==
  /\ Files \subseteq Nat \ {0} /\ IsFiniteSet(Files)
  /\ VersionIds \subseteq Nat /\ IsFiniteSet(VersionIds)
  /\ Retention \in Nat /\ PageRows \in Nat \ {0}
  /\ None \notin [at : Nat, id : Nat, rev : Nat]

VARIABLES
  clock,      \* Date.now()
  file,       \* the row of an entry: deleted or not, its revision, updated_at
  versions,   \* rows of entry_versions
  drawn,      \* version ids used so far: they do not recur
  listing     \* a client's listing: of what, the last row it has, all rows it
              \*   has, and the rows there were when it began

historyVars == <<clock, file, versions, drawn, listing>>

Bin == 0    \* the listing of the deleted entries; others are of an entry

NoListing == [of |-> None, last |-> None, got |-> {}, began |-> {}]

HistoryInit ==
  /\ clock = 0
  /\ file = [f \in Files |-> [deleted |-> FALSE, rev |-> 1, at |-> 0]]
  /\ versions = {} /\ drawn = {}
  /\ listing = NoListing

-----------------------------------------------------------------------------
(* What commits leave behind.                                              *)

RetentionStart == clock - Retention

HasRestorableHistory(f) ==
  \E v \in versions : v.file = f /\ v.content /\ v.at >= RetentionStart

Unused == VersionIds \ drawn

\* A batch of deletions: all its rows have one updated_at, and each entry a
\* version of what it was (before_delete).
DeleteFiles(F) ==
  /\ F # {} /\ \A f \in F : ~file[f].deleted
  /\ Spend("edit")
  /\ file' = [f \in Files |->
       IF f \in F
       THEN [deleted |-> TRUE, rev |-> file[f].rev + 1, at |-> clock]
       ELSE file[f]]
  /\ \E id \in [F -> Unused] :
       /\ \A f, g \in F : id[f] = id[g] => f = g
       /\ versions' = versions \cup
            {[id |-> id[f], file |-> f, at |-> clock, content |-> TRUE] : f \in F}
       /\ drawn' = drawn \cup {id[f] : f \in F}
  /\ UNCHANGED <<clock, listing>>

\* restoreEntryVersion: the deleted state becomes a version of its own.
RestoreFile(f) ==
  /\ file[f].deleted /\ HasRestorableHistory(f)
  /\ Spend("edit")
  /\ file' = [file EXCEPT ![f] =
                [deleted |-> FALSE, rev |-> @.rev + 1, at |-> clock]]
  /\ \E id \in Unused :
       /\ versions' = versions \cup
            {[id |-> id, file |-> f, at |-> clock, content |-> FALSE]}
       /\ drawn' = drawn \cup {id}
  /\ UNCHANGED <<clock, listing>>

\* purgeDeletedEntries: the entry stays deleted, its history goes.
PurgeFile(f) ==
  /\ file[f].deleted /\ HasRestorableHistory(f)
  /\ Spend("edit")
  /\ versions' = {v \in versions : v.file # f}
  /\ UNCHANGED <<clock, file, drawn, listing>>

\* Time passes, and the collection removes what has expired.
Later ==
  /\ Spend("later")
  /\ clock' = clock + 1
  /\ versions' \in {versions, {v \in versions : v.at + Retention > clock + 1}}
  /\ UNCHANGED <<file, drawn, listing>>

-----------------------------------------------------------------------------
(* Pages.  A row is its time and id, in that order, and the revision.      *)

DeletedRows ==
  {[at |-> file[f].at, id |-> f, rev |-> file[f].rev] :
     f \in {g \in Files : file[g].deleted /\ HasRestorableHistory(g)}}

VersionRows(f) ==
  {[at |-> v.at, id |-> v.id, rev |-> 0] :
     v \in {w \in versions : w.file = f /\ w.at >= RetentionStart}}

RowsOf(what) == IF what = Bin THEN DeletedRows ELSE VersionRows(what)

Older(r, s) == r.at < s.at \/ (r.at = s.at /\ r.id < s.id)

\* Mutant: rows of one moment are not told apart.
BelowTime(rows, last) == {r \in rows : last = None \/ r.at < last.at}

Below(rows, last) == {r \in rows : last = None \/ Older(r, last)}

\* The newest rows, as many as a page has.
TopOf(rows) ==
  {r \in rows : Cardinality({s \in rows : Older(r, s)}) < PageRows}

Received(what, last, got, began) ==
  LET rows == Below(RowsOf(what), last)
      page == TopOf(rows)
  IN  listing' =
        [of |-> what,
         last |-> IF Cardinality(rows) > PageRows
                  THEN CHOOSE r \in page : \A s \in page : s = r \/ Older(r, s)
                  ELSE None,
         got |-> got \cup page, began |-> began]

StartListing(what) ==
  /\ Spend("page")
  /\ Received(what, None, {}, RowsOf(what))
  /\ UNCHANGED <<clock, file, versions, drawn>>

\* The client goes on while hasMore.
NextPage ==
  /\ listing.last # None
  /\ Spend("page")
  /\ Received(listing.of, listing.last, listing.got, listing.began)
  /\ UNCHANGED <<clock, file, versions, drawn>>

-----------------------------------------------------------------------------
OverSocket == (\E c \in Conns : Open(c)) /\ Turn

HistoryStep ==
  /\ \/ /\ OverSocket
        /\ \/ (\E F \in SUBSET Files : DeleteFiles(F))
           \/ (\E f \in Files : RestoreFile(f) \/ PurgeFile(f))
           \/ (\E what \in Files \cup {Bin} : StartListing(what))
           \/ NextPage
     \/ Later
  /\ UNCHANGED <<runtime, feedVars, statusVars, socket, presenceVars, handler,
                 sent, device>>

FeedInit == Init /\ HistoryInit

FeedNext == (Next /\ UNCHANGED historyVars) \/ HistoryStep

FeedSpec == FeedInit /\ [][FeedNext]_<<vars, historyVars>>

-----------------------------------------------------------------------------
\* A listing that has come to its end has every row that was there from the
\* beginning and still is, whatever was deleted, restored, purged or expired
\* between its pages, also when a batch gave many rows one time; and it has
\* nothing twice (listDeletedEntries, listEntryVersions).
HistoryListed ==
  listing.of # None =>
    /\ listing.last = None =>
         listing.began \cap RowsOf(listing.of) \subseteq listing.got
    /\ \A r, s \in listing.got : r.id = s.id => r = s
=============================================================================
