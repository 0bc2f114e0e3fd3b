---------------------------- MODULE BazaarPass ----------------------------
(***************************************************************************)
(* The Bazaar catalog pass (src/aggregators/bazaar.js, bazaar-presence.js):*)
(* a poll pages through the upstream listing, resumes where an earlier one *)
(* stopped, stamps the rows it lists with the number of the pass, and at   *)
(* the end of the catalog closes the pass: rows it did not list are marked *)
(* missing, and rows absent from RETIRE_AFTER complete passes retired.     *)
(*                                                                         *)
(* A page is processed without an await and is one action.  Closing a pass *)
(* has no await either, but every write commits on its own, so a crash can *)
(* fall between any two: each is an action, and nothing else of the        *)
(* process runs in between (~Closing).  Rows are marked and retired in     *)
(* chunks; a chunk is one row here.                                        *)
(***************************************************************************)
EXTENDS Integers, SequencesExt

CONSTANTS
  Resources,        \* urls the upstream may list
  Malformed,        \* those whose item cannot be normalized
  Polls,            \* polls that may be in flight at once
  PAGE_SIZE,
  COMPLETE_SHARE,   \* percent of the upstream total a complete pass lists
  RETIRE_AFTER,
  MaxPass,          \* bound: passes closed
  MaxChanges,       \* bound: changes of the upstream listing
  MaxCrashes        \* bound: crashes

ASSUME PassAssumption ==
  /\ IsFiniteSet(Resources) /\ Malformed \subseteq Resources
  /\ PAGE_SIZE \in Nat \ {0} /\ COMPLETE_SHARE \in 1..100
  /\ RETIRE_AFTER \in Nat /\ RETIRE_AFTER >= 2
  /\ MaxPass \in Nat /\ MaxChanges \in Nat /\ MaxCrashes \in Nat

VARIABLES
  catalog,   \* the upstream listing
  row,       \* services rows of source bazaar; seen is bazaar_seen_pass
  offset,    \* sync_state bazaar_offset
  fullPass,  \* whether there is a sync_state bazaar_last_full_pass
  passId,    \* sync_state bazaar_pass_id
  logged,    \* pass ids in bazaar_passes
  complete,  \* those with complete = 1
  poll,      \* pollBazaar calls: progress, offset, total, pass id, urls done
  changes, crashes,
  \* history
  listed,    \* rows upserted since the current pass began
  absent,    \* complete passes logged in a row that did not list the row
  steady,    \* resources listed upstream ever since the current pass began
  moved      \* has the listing changed in this pass other than at its end?

db == <<row, offset, fullPass, passId, logged, complete>>
history == <<listed, absent, steady, moved>>
vars == <<catalog, row, offset, fullPass, passId, logged, complete, poll, changes, crashes,
          listed, absent, steady, moved>>

NoTotal == -1
Stages == {"idle", "fetching", "closing", "dating", "marking", "retiring", "logging", "bumping"}
Idle == [at |-> "idle", offset |-> 0, total |-> NoTotal, pass |-> 1, done |-> {}]

TypeOK ==
  /\ IsInjective(catalog) /\ ToSet(catalog) \subseteq Resources
  /\ row \in [Resources -> [status : {"none", "active", "retired"}, seen : 0..MaxPass, missing : BOOLEAN]]
  /\ offset \in Nat /\ fullPass \in BOOLEAN
  /\ passId \in 1..(MaxPass + 1)
  /\ logged \subseteq 1..MaxPass /\ complete \subseteq logged
  /\ poll \in [Polls -> [at : Stages, offset : Nat, total : Nat \union {NoTotal},
                          pass : 1..(MaxPass + 1), done : SUBSET Resources]]
  /\ changes \in 0..MaxChanges /\ crashes \in 0..MaxCrashes
  /\ listed \subseteq Resources /\ steady \subseteq Resources
  /\ absent \in [Resources -> Nat] /\ moved \in BOOLEAN

Init ==
  /\ catalog \in {s \in SetToAllKPermutations(Resources) : Len(s) = 2}
  /\ row = [r \in Resources |-> [status |-> "none", seen |-> 0, missing |-> FALSE]]
  /\ offset = 0 /\ fullPass = FALSE /\ passId = 1
  /\ logged = {} /\ complete = {}
  /\ poll = [p \in Polls |-> Idle]
  /\ changes = 0 /\ crashes = 0
  /\ listed = {} /\ absent = [r \in Resources |-> 0]
  /\ steady = ToSet(catalog) /\ moved = FALSE

Closing == \E p \in Polls : poll[p].at \notin {"idle", "fetching"}
Goto(p, stage) == poll' = [poll EXCEPT ![p].at = stage]

----------------------------------------------------------------------------
(* The upstream *)

Lists(s, inPlace) ==
  /\ changes < MaxChanges /\ changes' = changes + 1
  /\ catalog' = s
  /\ steady' = steady \intersect ToSet(s)
  /\ moved' = (moved \/ ~inPlace)
  /\ UNCHANGED <<db, poll, crashes, listed, absent>>

Enlist(r, i) ==
  /\ r \notin ToSet(catalog)
  /\ Lists(InsertAt(catalog, i, r), i = Len(catalog) + 1)

Delist(i) == Lists(RemoveAt(catalog, i), FALSE)

----------------------------------------------------------------------------
(* pollBazaar *)

(* Resume from the saved offset, or from 0 when the last full pass is too long
   ago or there was none. The interval starts a poll whether or not one is in
   flight. *)
PollStart(p, overdue) ==
  /\ poll[p].at = "idle" /\ ~Closing /\ passId <= MaxPass
  /\ fullPass \/ overdue
  /\ offset' = IF overdue THEN 0 ELSE offset
  /\ poll' = [poll EXCEPT ![p] = [Idle EXCEPT !.at = "fetching", !.offset = offset', !.pass = passId]]
  /\ UNCHANGED <<catalog, row, fullPass, passId, logged, complete, changes, crashes, history>>

Page(from) == {catalog[i] : i \in (from + 1)..(from + PAGE_SIZE) \intersect 1..Len(catalog)}

(* The upsert: listed again, whatever it was. *)
Stamped(r, pass) == [status |-> "active", seen |-> pass, missing |-> FALSE]

(* An item that cannot be normalized, or was done in this poll, is skipped.
   The loop ends at the total read with the poll's first page, or at an empty
   page; the pass is closed only if the end was reached. *)
PageFetched(p) ==
  LET q == poll[p]
      page == Page(q.offset)
      new == page \ (Malformed \union q.done)
      total == IF q.total = NoTotal THEN Len(catalog) ELSE q.total
      next == IF page = {} THEN q.offset ELSE q.offset + PAGE_SIZE
  IN
  /\ q.at = "fetching" /\ ~Closing /\ passId <= MaxPass
  /\ row' = [r \in Resources |-> IF r \in new THEN Stamped(r, q.pass) ELSE row[r]]
  /\ offset' = IF page = {} THEN offset ELSE next
  /\ poll' = [poll EXCEPT ![p] =
                [q EXCEPT !.offset = next, !.total = total, !.done = @ \union new,
                          !.at = IF next >= total THEN "closing"
                                 ELSE IF page = {} THEN "idle" ELSE "fetching"]]
  /\ listed' = listed \union new
  /\ absent' = [r \in Resources |-> IF r \in new THEN 0 ELSE absent[r]]
  /\ UNCHANGED <<catalog, fullPass, passId, logged, complete, changes, crashes, steady, moved>>

(* Bug: a page that cannot be fetched is skipped. *)
PageSkipped(p) ==
  /\ poll[p].at = "fetching" /\ ~Closing
  /\ Goto(p, "idle")
  /\ offset' = poll[p].offset + PAGE_SIZE
  /\ UNCHANGED <<catalog, row, fullPass, passId, logged, complete, changes, crashes, history>>

(* Rate limits and errors: after the retries the poll stops where it is. *)
FetchFailed(p) ==
  /\ poll[p].at = "fetching" /\ ~Closing
  /\ Goto(p, "idle")
  /\ UNCHANGED <<catalog, db, changes, crashes, history>>

----------------------------------------------------------------------------
(* The end of the catalog: completePass *)

ResetOffset(p) ==
  /\ poll[p].at = "closing"
  /\ offset' = 0
  /\ Goto(p, "dating")
  /\ UNCHANGED <<catalog, row, fullPass, passId, logged, complete, changes, crashes, history>>

DateFullPass(p) ==
  /\ poll[p].at = "dating"
  /\ fullPass' = TRUE
  /\ Goto(p, "marking")
  /\ UNCHANGED <<catalog, row, offset, passId, logged, complete, changes, crashes, history>>

Seen == {r \in Resources : row[r].seen = passId}

(* COMPLETE_SHARE of the total was listed in this pass, by whatever poll. *)
IsComplete(p) == poll[p].total > 0 /\ Cardinality(Seen) * 100 >= poll[p].total * COMPLETE_SHARE

Absent(pass) == {r \in Resources : row[r].status = "active" /\ row[r].seen < pass}

(* Bug: a missing row gets a status of its own. *)
MissingStatus(r) == [row[r] EXCEPT !.status = "missing"]

Missing(r) == [row[r] EXCEPT !.missing = TRUE]

(* An UPDATE in chunks: one row of those it is about, until there is none. *)
Chunk(p, targets, updated, next) ==
  \/ \E r \in targets : row' = [row EXCEPT ![r] = updated[r]] /\ UNCHANGED poll
  \/ targets = {} /\ Goto(p, next) /\ UNCHANGED row

MarkMissing(p) ==
  /\ poll[p].at = "marking"
  /\ LET unmarked == {r \in Absent(passId) : IsComplete(p) /\ ~row[r].missing}
     IN Chunk(p, unmarked, [r \in unmarked |-> Missing(r)], "retiring")
  /\ UNCHANGED <<catalog, offset, fullPass, passId, logged, complete, changes, crashes, history>>

(* Bug: the current pass is not counted. *)
LateHorizon == {c \in complete : Cardinality({d \in complete : d >= c}) = RETIRE_AFTER}

(* The RETIRE_AFTER-th most recent complete pass, counting the current one,
   which is not in the table yet: none, or one. *)
Horizon == {c \in complete : Cardinality({d \in complete : d >= c}) = RETIRE_AFTER - 1}

Retired(r) == [row[r] EXCEPT !.status = "retired"]

RetireAbsent(p) ==
  /\ poll[p].at = "retiring"
  /\ LET gone == {r \in Resources : IsComplete(p) /\ \E horizon \in Horizon : r \in Absent(horizon)}
     IN Chunk(p, gone, [r \in gone |-> Retired(r)], "logging")
  /\ UNCHANGED <<catalog, offset, fullPass, passId, logged, complete, changes, crashes, history>>

(* The primary key of bazaar_passes refuses a second row for a pass: the poll
   ends with an exception. *)
LogPass(p) ==
  /\ poll[p].at = "logging"
  /\ IF passId \in logged
     THEN Goto(p, "idle") /\ UNCHANGED <<logged, complete, absent>>
     ELSE /\ Goto(p, "bumping")
          /\ logged' = logged \union {passId}
          /\ complete' = IF IsComplete(p) THEN complete \union {passId} ELSE complete
          /\ absent' = [r \in Resources |->
                          IF IsComplete(p) /\ r \notin listed THEN absent[r] + 1 ELSE absent[r]]
  /\ UNCHANGED <<catalog, row, offset, fullPass, passId, changes, crashes, listed, steady, moved>>

(* The next pass begins. *)
NextPass(p) ==
  /\ poll[p].at = "bumping"
  /\ passId' = passId + 1
  /\ Goto(p, "idle")
  /\ listed' = {} /\ steady' = ToSet(catalog) /\ moved' = FALSE
  /\ UNCHANGED <<catalog, row, offset, fullPass, logged, complete, changes, crashes, absent>>

Crash ==
  /\ crashes < MaxCrashes
  /\ crashes' = crashes + 1
  /\ poll' = [p \in Polls |-> Idle]
  /\ UNCHANGED <<catalog, db, changes, history>>

----------------------------------------------------------------------------

Next ==
  \/ \E r \in Resources, i \in 1..(Len(catalog) + 1) : Enlist(r, i)
  \/ \E i \in 1..Len(catalog) : Delist(i)
  \/ \E p \in Polls :
       \/ \E overdue \in BOOLEAN : PollStart(p, overdue)
       \/ PageFetched(p) \/ FetchFailed(p)
       \/ ResetOffset(p) \/ DateFullPass(p) \/ MarkMissing(p) \/ RetireAbsent(p) \/ LogPass(p) \/ NextPass(p)
  \/ Crash

Spec == Init /\ [][Next]_vars

----------------------------------------------------------------------------
(* What holds *)

Due(p, r) == IsComplete(p) /\ r \notin listed /\ absent[r] + 1 >= RETIRE_AFTER

(* A pass retires exactly the rows absent from RETIRE_AFTER complete passes in
   a row, itself included, across resumed polls, crashes and truncated passes. *)
RetiresExactly ==
  [][\A p \in Polls, r \in Resources :
       poll[p].at = "retiring" /\ row[r].status = "active" =>
         /\ row'[r].status = "retired" => Due(p, r)
         /\ poll'[p].at = "logging" => ~Due(p, r)]_vars

(* While the upstream only grows at its end, a complete pass has listed every
   resource that was there all along, wherever its polls stopped and resumed. *)
NothingSkipped ==
  [][\A p \in Polls :
       poll[p].at = "logging" /\ IsComplete(p) /\ ~moved => steady \ Malformed \subseteq listed]_vars

----------------------------------------------------------------------------
(* What the module header says and the code does not do *)

(* Every full catalog pass logs itself in bazaar_passes. *)
FullPassIsLogged ==
  [][\A p \in Polls : poll[p].at = "logging" /\ poll'[p].at # "logging" /\ crashes' = crashes
       => logged' # logged]_vars

(* Rows the pass did not list get upstream_missing_since: not one it listed. *)
ListedNotMissing == \A r \in listed : ~row[r].missing
===========================================================================
