--------------------------- MODULE Intake_proofs ---------------------------
(* A sweep hides no row that a catalog still lists, and a domain registers no
   more rows in an hour than its limit, for any rows and catalogs.  The
   invariant says that the sources of a row name the catalogs that list it, as
   long as no administrator has overwritten them, and that a limit that was
   exceeded by the present one was that of a claim verified within the hour. *)
EXTENDS Intake, FiniteSetTheorems, TLAPS

Rows == [is : {"row"}, source : SUBSET (Catalogs \cup {Self, Change}),
         deleted : BOOLEAN, recent : BOOLEAN]

RowTypes ==
  /\ entry \in [Keys -> {NoEntry} \cup Rows]
  /\ onList \in [Keys -> SUBSET {c \in Catalogs : Sweeps(c)}]
  /\ hiddenBy \in [Keys -> {"nobody", "owner", "sweep"}]

(* A row whose sources were overwritten has more than one source from the next
   poll on, so it is never swept. *)
SourcesTellLists ==
  \A k \in Keys :
    /\ ~Stored(k) => onList[k] = {}
    /\ Stored(k) /\ Change \notin entry[k].source => onList[k] \subseteq entry[k].source

InInv == RowTypes /\ SourcesTellLists /\ SweptIsUnlisted

LEMMA CatalogsAreNoMarks == Self \notin Catalogs /\ Change \notin Catalogs
BY IntakeAssumption DEF Known, Self, Change

LEMMA StoredIsRow == ASSUME RowTypes, NEW k \in Keys PROVE Stored(k) <=> entry[k] \in Rows
BY DEF RowTypes, Stored, Rows, NoEntry

LEMMA FreshIsRow ==
  ASSUME NEW s \in SUBSET (Catalogs \cup {Self, Change}), NEW r \in BOOLEAN
  PROVE  /\ Fresh(s, r) \in Rows
         /\ Fresh(s, r).is = "row" /\ Fresh(s, r).source = s /\ Fresh(s, r).deleted = FALSE
BY DEF Fresh, Rows

LEMMA RowFields ==
  ASSUME NEW e \in Rows
  PROVE  /\ e.is = "row" /\ e.deleted \in BOOLEAN
         /\ e.source \in SUBSET (Catalogs \cup {Self, Change})
BY DEF Rows

(* What an update of a column leaves of a row. *)
LEMMA SetHidden ==
  ASSUME NEW e \in Rows, NEW f, f = [e EXCEPT !.deleted = TRUE]
  PROVE  f \in Rows /\ f.is = "row" /\ f.source = e.source
BY DEF Rows

LEMMA SetShown ==
  ASSUME NEW e \in Rows, NEW f, f = [e EXCEPT !.deleted = FALSE]
  PROVE  f \in Rows /\ f.is = "row" /\ f.source = e.source
BY DEF Rows

LEMMA SetOld ==
  ASSUME NEW e \in Rows, NEW f, f = [e EXCEPT !.recent = FALSE]
  PROVE  f \in Rows /\ f.is = "row" /\ f.source = e.source
BY DEF Rows

LEMMA InInitInv == InInit => InInv
BY DEF InInit, InInv, RowTypes, SourcesTellLists, SweptIsUnlisted, Stored, NoEntry

(* What a poll writes into one row. *)
LEMMA UpsertedRow ==
  ASSUME RowTypes, NEW c \in Catalogs, NEW done \in SUBSET Keys, NEW k \in Keys
  PROVE  LET new == AfterUpserts(c, done)[k]
         IN /\ k \notin Writes(c, done) => new = entry[k]
            /\ k \in Writes(c, done) =>
                 /\ new \in Rows
                 /\ Stored(k) => entry[k].source \subseteq new.source
                 /\ ~Stored(k) => Change \notin new.source
                 /\ Sweeps(c) => c \in new.source /\ ~new.deleted
<1> DEFINE new == AfterUpserts(c, done)[k]
<1>1. CASE k \notin Writes(c, done)
  BY <1>1 DEF AfterUpserts
<1>2. CASE k \in Writes(c, done) /\ ~Stored(k)
  <2>1. new = Fresh({c}, FALSE)
    BY <1>2 DEF AfterUpserts
  <2>. QED BY <2>1, <1>2, FreshIsRow, CatalogsAreNoMarks
<1>3. CASE k \in Writes(c, done) /\ Stored(k)
  <2> DEFINE e == entry[k]
  <2>1. new = Updated(c, e)
    BY <1>3 DEF AfterUpserts
  <2>2. e \in Rows
    BY <1>3, StoredIsRow
  <2>3. PICK s : s = IF Merges(c) /\ ~Within(c, e.source) THEN e.source \cup {c} ELSE e.source
    OBVIOUS
  <2>4. s \in SUBSET (Catalogs \cup {Self, Change}) /\ e.source \subseteq s /\ (Sweeps(c) => c \in s)
    <3>1. e.source \in SUBSET (Catalogs \cup {Self, Change})
      BY <2>2, RowFields
    <3>2. Sweeps(c) => Merges(c)
      BY DEF Sweeps, Merges
    <3>3. CASE Merges(c) /\ ~Within(c, e.source)
      BY <3>1, <3>3, <2>3
    <3>4. CASE ~(Merges(c) /\ ~Within(c, e.source))
      BY <3>1, <3>2, <3>4, <2>3 DEF Within
    <3>. QED BY <3>3, <3>4
  <2>5. PICK d \in BOOLEAN : (d <=> e.deleted /\ ~Sweeps(c)) /\ d = (e.deleted /\ ~Sweeps(c))
    BY DEF Sweeps
  <2>6. new = [e EXCEPT !.source = s, !.deleted = d]
    BY <2>1, <2>2, <2>3, <2>5 DEF Updated
  <2>7. PICK n : n = new
    OBVIOUS
  <2>8. PICK g \in Rows : g = e
    BY <2>2
  <2>9. PICK t \in SUBSET (Catalogs \cup {Self, Change}) : t = s
    BY <2>4
  <2>10. n = [g EXCEPT !.source = t, !.deleted = d]
    BY <2>6, <2>7, <2>8, <2>9
  <2>11. n \in Rows /\ n.is = "row" /\ n.source = t /\ n.deleted = d
    BY <2>10 DEF Rows
  <2>. QED BY <2>4, <2>5, <2>7, <2>9, <2>11, <1>3
<1>. QED BY <1>1, <1>2, <1>3

(* A stretch of a poll: an answer, the part of it that is written, and the
   sweep of the rest. *)
LEMMA PollInv ==
  ASSUME InInv, NEW c \in Catalogs, NEW seen \in SUBSET Keys, NEW done \in SUBSET seen, NEW swept \in BOOLEAN,
         swept => Sweeps(c), Poll(c, seen, done, swept)
  PROVE  InInv'
<1> DEFINE rows == AfterUpserts(c, done)
           stale == IF swept THEN Stale(c, rows, seen) ELSE {}
<1>1. /\ entry' = [k \in Keys |-> IF k \in stale THEN [rows[k] EXCEPT !.deleted = TRUE] ELSE rows[k]]
      /\ onList' = [k \in Keys |->
           IF ~Sweeps(c) THEN onList[k]
           ELSE IF k \in Writes(c, done) THEN onList[k] \cup {c}
           ELSE IF k \in seen THEN onList[k] ELSE onList[k] \ {c}]
      /\ hiddenBy' = [k \in Keys |->
           IF k \in stale THEN "sweep"
           ELSE IF entry'[k].is = "row" /\ entry'[k].deleted THEN hiddenBy[k]
           ELSE "nobody"]
  BY DEF Poll
<1>2. \A k \in stale : /\ k \in Keys \ seen /\ swept /\ Sweeps(c)
                       /\ rows[k].is = "row" /\ rows[k].source = {c}
  BY DEF Stale
<1>3. \A k \in Writes(c, done) : k \in done
  BY DEF Writes
<1>4. ASSUME NEW k \in stale
      PROVE  /\ k \in Keys /\ rows[k] = entry[k] /\ Stored(k) /\ entry[k].source = {c}
             /\ entry'[k] = [entry[k] EXCEPT !.deleted = TRUE]
             /\ onList'[k] = {}
  <2>1. k \in Keys /\ k \notin Writes(c, done) /\ k \notin seen
    BY <1>2, <1>3
  <2>2. rows[k] = entry[k]
    BY <2>1, UpsertedRow DEF InInv
  <2>3. Stored(k) /\ entry[k].source = {c} /\ Sweeps(c)
    BY <1>2, <2>2 DEF Stored
  <2>4. onList[k] \subseteq {c}
    BY <2>1, <2>3, CatalogsAreNoMarks DEF InInv, SourcesTellLists
  <2>5. onList'[k] = onList[k] \ {c}
    BY <1>1, <2>1, <2>3
  <2>. QED BY <1>1, <2>1, <2>2, <2>3, <2>4, <2>5
<1>5. ASSUME NEW k \in Keys, k \notin stale
      PROVE  /\ k \notin Writes(c, done) => entry'[k] = entry[k] /\ onList'[k] \subseteq onList[k]
             /\ k \in Writes(c, done) =>
                  /\ entry'[k] \in Rows
                  /\ Stored(k) => entry[k].source \subseteq entry'[k].source
                  /\ ~Stored(k) => Change \notin entry'[k].source
                  /\ Sweeps(c) => c \in entry'[k].source /\ ~entry'[k].deleted
                  /\ onList'[k] = IF Sweeps(c) THEN onList[k] \cup {c} ELSE onList[k]
  <2>1. entry'[k] = rows[k]
    BY <1>1, <1>5
  <2>2. k \notin Writes(c, done) => entry'[k] = entry[k]
    BY <2>1, UpsertedRow DEF InInv
  <2>3. k \in Writes(c, done) =>
          /\ entry'[k] \in Rows
          /\ Stored(k) => entry[k].source \subseteq entry'[k].source
          /\ ~Stored(k) => Change \notin entry'[k].source
          /\ Sweeps(c) => c \in entry'[k].source /\ ~entry'[k].deleted
    BY <2>1, UpsertedRow DEF InInv
  <2>. QED BY <2>2, <2>3, <1>1
<1>6. RowTypes'
  <2>1. \A k \in Keys : entry'[k] \in {NoEntry} \cup Rows
    <3> TAKE k \in Keys
    <3>1. CASE k \in stale
      <4>1. entry[k] \in Rows
        BY <3>1, <1>4, StoredIsRow DEF InInv
      <4>. QED BY <3>1, <4>1, <1>4, SetHidden
    <3>2. CASE k \notin stale
      BY <3>2, <1>5 DEF InInv, RowTypes
    <3>. QED BY <3>1, <3>2
  <2>2. entry' \in [Keys -> {NoEntry} \cup Rows]
    BY <1>1, <2>1
  <2>3. onList' \in [Keys -> SUBSET {d \in Catalogs : Sweeps(d)}]
    BY <1>1 DEF InInv, RowTypes
  <2>4. hiddenBy' \in [Keys -> {"nobody", "owner", "sweep"}]
    BY <1>1 DEF InInv, RowTypes
  <2>. QED BY <2>2, <2>3, <2>4 DEF RowTypes
<1>7. SourcesTellLists'
  <2>1. SUFFICES ASSUME NEW k \in Keys
                 PROVE  /\ ~(entry'[k].is = "row") => onList'[k] = {}
                        /\ entry'[k].is = "row" /\ Change \notin entry'[k].source => onList'[k] \subseteq entry'[k].source
    BY DEF SourcesTellLists, Stored
  <2>2. CASE k \in stale
    <3>1. entry[k] \in Rows
      BY <2>2, <1>4, StoredIsRow DEF InInv
    <3>2. entry'[k].is = "row"
      BY <2>2, <3>1, <1>4, SetHidden
    <3>. QED BY <2>2, <3>2, <1>4
  <2>3. CASE k \notin stale /\ k \notin Writes(c, done)
    BY <2>1, <2>3, <1>5 DEF InInv, SourcesTellLists, Stored
  <2>4. CASE k \notin stale /\ k \in Writes(c, done)
    <3>1. entry'[k].is = "row"
      BY <2>4, <1>5, RowFields
    <3>2. CASE Stored(k)
      BY <3>1, <3>2, <2>4, <1>5 DEF InInv, SourcesTellLists
    <3>3. CASE ~Stored(k)
      BY <3>1, <3>3, <2>4, <1>5 DEF InInv, SourcesTellLists
    <3>. QED BY <3>2, <3>3
  <2>. QED BY <2>2, <2>3, <2>4
<1>8. SweptIsUnlisted'
  <2>1. SUFFICES ASSUME NEW k \in Keys, hiddenBy'[k] = "sweep", k \notin stale
                 PROVE  onList'[k] = {}
    BY <1>4 DEF SweptIsUnlisted
  <2>2. entry'[k].is = "row" /\ entry'[k].deleted /\ hiddenBy[k] = "sweep"
    BY <2>1, <1>1
  <2>3. onList[k] = {}
    BY <2>2 DEF InInv, SweptIsUnlisted
  <2>. QED BY <2>1, <2>2, <2>3, <1>5
<1>. QED BY <1>6, <1>7, <1>8 DEF InInv

(* A new row has the sources of who inserts it and is on no list. *)
LEMMA RegisterInv ==
  ASSUME InInv, NEW k \in Keys, NEW found, RegisterRow(k, found)
  PROVE  InInv'
<1>1. PICK keys \in SUBSET Keys : entry' = Upserted(keys) /\ UNCHANGED <<onList, hiddenBy>>
  <2> DEFINE bonus == {b \in Keys \ {k} : b[1] = k[1] /\ b[2] \in found /\ ~Hidden(b)}
  <2>1. PICK also \in SUBSET bonus : entry' = Upserted({k} \cup also)
    BY DEF RegisterRow
  <2>. QED BY <2>1 DEF RegisterRow
<1>2. \A j \in Keys : entry'[j] = IF j \in keys /\ ~Stored(j) THEN Fresh({Self}, TRUE) ELSE entry[j]
  BY <1>1 DEF Upserted
<1>3. RowTypes'
  BY <1>1, <1>2, FreshIsRow DEF Upserted, InInv, RowTypes
<1>4. SourcesTellLists'
  <2>1. SUFFICES ASSUME NEW j \in Keys
                 PROVE  /\ ~(entry'[j].is = "row") => onList[j] = {}
                        /\ entry'[j].is = "row" /\ Change \notin entry'[j].source => onList[j] \subseteq entry'[j].source
    BY <1>1 DEF SourcesTellLists, Stored
  <2>2. CASE j \in keys /\ ~Stored(j)
    BY <2>2, <1>2 DEF InInv, SourcesTellLists
  <2>3. CASE ~(j \in keys /\ ~Stored(j))
    BY <2>3, <1>2 DEF InInv, SourcesTellLists, Stored
  <2>. QED BY <2>2, <2>3
<1>. QED BY <1>1, <1>3, <1>4 DEF InInv, SweptIsUnlisted

(* One row changes, by a hand and not by a poll. *)
LEMMA RowChanges ==
  ASSUME InInv, NEW k \in Keys, NEW e \in {NoEntry} \cup Rows,
         entry' = [entry EXCEPT ![k] = e],
         \A j \in Keys \ {k} : onList'[j] = onList[j] /\ hiddenBy'[j] = hiddenBy[j],
         onList' \in [Keys -> SUBSET {c \in Catalogs : Sweeps(c)}],
         hiddenBy' \in [Keys -> {"nobody", "owner", "sweep"}],
         e.is # "row" => onList'[k] = {},
         e.is = "row" /\ Change \notin e.source => onList'[k] \subseteq e.source,
         hiddenBy'[k] = "sweep" => onList'[k] = {}
  PROVE  InInv'
<1>1. RowTypes'
  BY DEF InInv, RowTypes
<1>2. entry'[k] = e /\ \A j \in Keys \ {k} : entry'[j] = entry[j]
  BY DEF InInv, RowTypes
<1>3. SourcesTellLists'
  BY <1>2 DEF InInv, SourcesTellLists, Stored
<1>4. SweptIsUnlisted'
  BY DEF InInv, SweptIsUnlisted
<1>. QED BY <1>1, <1>3, <1>4 DEF InInv

LEMMA HandsInv ==
  ASSUME InInv, NEW k \in Keys,
         ApproveChange(k) \/ OwnerDeletes(k) \/ AdminRestores(k) \/ RowDeleted(k) \/ HourPasses(k)
  PROVE  InInv'
<1>1. Stored(k) => entry[k] \in Rows
  BY StoredIsRow DEF InInv
<1>2. /\ onList \in [Keys -> SUBSET {c \in Catalogs : Sweeps(c)}] /\ hiddenBy \in [Keys -> {"nobody", "owner", "sweep"}]
      /\ (~Stored(k) => onList[k] = {})
      /\ (Stored(k) /\ Change \notin entry[k].source => onList[k] \subseteq entry[k].source)
      /\ (hiddenBy[k] = "sweep" => onList[k] = {})
  BY DEF InInv, RowTypes, SourcesTellLists, SweptIsUnlisted
<1>3. CASE ApproveChange(k)
  <2>1. PICK e : e = IF Stored(k) THEN [entry[k] EXCEPT !.source = {Change}] ELSE Fresh({Change}, TRUE)
    OBVIOUS
  <2>2. entry' = [entry EXCEPT ![k] = e] /\ UNCHANGED <<onList, hiddenBy>>
    BY <1>3, <2>1 DEF ApproveChange
  <2>3. e \in Rows /\ e.is = "row" /\ Change \in e.source
    <3>1. {Change} \in SUBSET (Catalogs \cup {Self, Change}) /\ Change \in {Change}
      OBVIOUS
    <3>2. CASE Stored(k)
      <4>1. PICK g \in Rows, s \in SUBSET (Catalogs \cup {Self, Change}) : g = entry[k] /\ s = {Change}
        BY <3>1, <3>2, <1>1
      <4>2. e = [g EXCEPT !.source = s]
        BY <3>2, <2>1, <4>1
      <4>3. e \in Rows /\ e.is = "row" /\ e.source = s
        BY <4>2 DEF Rows
      <4>. QED BY <3>1, <4>1, <4>3
    <3>3. CASE ~Stored(k)
      <4>1. e = Fresh({Change}, TRUE)
        BY <3>3, <2>1
      <4>2. e \in Rows /\ e.is = "row" /\ e.source = {Change}
        BY <3>1, <4>1, FreshIsRow
      <4>. QED BY <3>1, <4>2
    <3>. QED BY <3>2, <3>3
  <2>. QED BY <2>2, <2>3, <1>2, RowChanges
<1>4. CASE OwnerDeletes(k)
  <2>1. PICK e : e = [entry[k] EXCEPT !.deleted = TRUE]
    OBVIOUS
  <2>2. entry' = [entry EXCEPT ![k] = e] /\ onList' = onList /\ hiddenBy' = [hiddenBy EXCEPT ![k] = "owner"] /\ Stored(k)
    BY <1>4, <2>1 DEF OwnerDeletes, Shown
  <2>3. e \in Rows /\ e.is = "row" /\ e.source = entry[k].source
    BY <2>1, <2>2, <1>1, SetHidden
  <2>. QED BY <2>2, <2>3, <1>2, RowChanges
<1>5. CASE AdminRestores(k)
  <2>1. PICK e : e = [entry[k] EXCEPT !.deleted = FALSE]
    OBVIOUS
  <2>2. entry' = [entry EXCEPT ![k] = e] /\ onList' = onList /\ hiddenBy' = [hiddenBy EXCEPT ![k] = "nobody"] /\ Stored(k)
    BY <1>5, <2>1 DEF AdminRestores, Hidden
  <2>3. e \in Rows /\ e.is = "row" /\ e.source = entry[k].source
    BY <2>1, <2>2, <1>1, SetShown
  <2>. QED BY <2>2, <2>3, <1>2, RowChanges
<1>6. CASE RowDeleted(k)
  <2>1. entry' = [entry EXCEPT ![k] = NoEntry] /\ onList' = [onList EXCEPT ![k] = {}]
        /\ hiddenBy' = [hiddenBy EXCEPT ![k] = "nobody"]
    BY <1>6 DEF RowDeleted
  <2>2. NoEntry.is # "row" /\ onList'[k] = {} /\ hiddenBy'[k] # "sweep"
        /\ onList' \in [Keys -> SUBSET {c \in Catalogs : Sweeps(c)}] /\ hiddenBy' \in [Keys -> {"nobody", "owner", "sweep"}]
        /\ \A j \in Keys \ {k} : onList'[j] = onList[j] /\ hiddenBy'[j] = hiddenBy[j]
    BY <2>1, <1>2 DEF NoEntry
  <2>. QED BY <2>1, <2>2, RowChanges
<1>7. CASE HourPasses(k)
  <2>1. PICK e : e = [entry[k] EXCEPT !.recent = FALSE]
    OBVIOUS
  <2>2. entry' = [entry EXCEPT ![k] = e] /\ UNCHANGED <<onList, hiddenBy>> /\ Stored(k)
    BY <1>7, <2>1 DEF HourPasses
  <2>3. e \in Rows /\ e.is = "row" /\ e.source = entry[k].source
    BY <2>1, <2>2, <1>1, SetOld
  <2>. QED BY <2>2, <2>3, <1>2, RowChanges
<1>. QED BY <1>3, <1>4, <1>5, <1>6, <1>7

LEMMA PollsInv ==
  ASSUME InInv, NEW c, (Snapshot(c) /\ Sweeps(c)) \/ Additions(c)
  PROVE  InInv'
<1>1. c \in Catalogs
  BY DEF Snapshot, Additions
<1>2. OfHost(c) \subseteq SUBSET Keys
  BY DEF OfHost
<1>3. CASE Snapshot(c) /\ Sweeps(c)
  <2>1. PICK seen \in OfHost(c), swept \in BOOLEAN : \E done \in SUBSET seen : Poll(c, seen, done, swept)
    BY <1>3 DEF Snapshot
  <2>2. PICK done \in SUBSET seen : Poll(c, seen, done, swept)
    BY <2>1
  <2>. QED BY <1>1, <1>2, <1>3, <2>2, PollInv
<1>4. CASE Additions(c)
  <2>1. PICK done \in OfHost(c) : Poll(c, done, done, FALSE)
    BY <1>4 DEF Additions
  <2>. QED BY <1>1, <1>2, <2>1, PollInv
<1>. QED BY <1>3, <1>4

LEMMA InNextInv == InInv /\ [InNext]_inVars => InInv'
<1> SUFFICES ASSUME InInv, [InNext]_inVars PROVE InInv'
  OBVIOUS
<1>1. CASE UNCHANGED inVars
  BY <1>1 DEF inVars, InInv, RowTypes, SourcesTellLists, Stored, SweptIsUnlisted
<1>2. CASE \E k \in Keys : \E found \in SUBSET {j[2] : j \in Keys} : RegisterRow(k, found)
  BY <1>2, RegisterInv
<1>3. CASE \E k \in Keys : ApproveChange(k) \/ OwnerDeletes(k) \/ AdminRestores(k) \/ RowDeleted(k) \/ HourPasses(k)
  BY <1>3, HandsInv
<1>4. CASE PollMPP \/ PollMppscan
  BY <1>4, PollsInv DEF PollMPP, PollMppscan, Sweeps
<1>5. CASE PollL402Apps \/ PollL402Directory \/ PollSponge \/ PollSatring \/ LoadListings
  BY <1>5, PollsInv DEF PollL402Apps, PollL402Directory, PollSponge, PollSatring, LoadListings
<1>6. CASE ClaimTurns
  BY <1>6 DEF ClaimTurns, InInv, RowTypes, SourcesTellLists, Stored, SweptIsUnlisted
<1>. QED BY <1>1, <1>2, <1>3, <1>4, <1>5, <1>6 DEF InNext

(* aggregators/mpp.js and mppscan.js: a row that a sweep hid was on the latest
   list of neither catalog. *)
THEOREM SweptAreUnlisted == InSpec => []SweptIsUnlisted
<1>1. InInv => SweptIsUnlisted
  BY DEF InInv
<1>. QED BY <1>1, InInitInv, InNextInv, PTL DEF InSpec

----------------------------------------------------------------------------
(* The window of a domain *)

ClaimIsRemembered == proven \in BOOLEAN /\ hourly \in BOOLEAN /\ (proven => hourly)

WindowInv == InInv /\ ClaimIsRemembered /\ DomainWindow

LEMMA CountIsNat ==
  /\ Registrations \subseteq Keys /\ IsFiniteSet(Registrations) /\ Cardinality(Registrations) \in Nat
  /\ UnverifiedLimit \in Nat /\ VerifiedLimit \in Nat /\ UnverifiedLimit <= VerifiedLimit
<1>1. Registrations \subseteq Keys
  BY DEF Registrations
<1>. QED BY <1>1, IntakeAssumption, FS_Subset, FS_CardinalityType

LEMMA CountIsNatNext ==
  Registrations' \subseteq Keys /\ IsFiniteSet(Registrations') /\ Cardinality(Registrations') \in Nat
<1>1. Registrations' \subseteq Keys
  BY DEF Registrations
<1>. QED BY <1>1, IntakeAssumption, FS_Subset, FS_CardinalityType

LEMMA LeastOfTwo == ASSUME NEW a \in Int, NEW b \in Int PROVE Min({a, b}) <= a /\ Min({a, b}) <= b
<1>1. \E x \in {a, b} : \A y \in {a, b} : x <= y
  <2>1. CASE a <= b
    BY <2>1
  <2>2. CASE ~(a <= b)
    BY <2>2
  <2>. QED BY <2>1, <2>2
<1>. QED BY <1>1 DEF Min

(* A step after which no other row counts keeps the window. *)
LEMMA FewerRegistrations ==
  ASSUME DomainWindow, Registrations' \subseteq Registrations, hourly' = hourly
  PROVE  DomainWindow'
<1>1. Cardinality(Registrations') <= Cardinality(Registrations)
  BY CountIsNat, FS_Subset
<1>. QED BY <1>1, CountIsNat, CountIsNatNext DEF DomainWindow

LEMMA SelfAlone ==
  ASSUME NEW s, NEW c, c # Self, s \cup {c} = {Self}
  PROVE  FALSE
OBVIOUS

(* A poll makes no registration: what it inserts is its own, and what it adds
   to the sources of a row takes the row out of the count. *)
LEMMA PollKeepsCount ==
  ASSUME InInv, NEW c \in Catalogs, NEW seen \in SUBSET Keys, NEW done \in SUBSET seen, NEW swept \in BOOLEAN,
         Poll(c, seen, done, swept)
  PROVE  Registrations' \subseteq Registrations /\ UNCHANGED <<proven, hourly>>
<1> DEFINE rows == AfterUpserts(c, done)
           stale == IF swept THEN Stale(c, rows, seen) ELSE {}
<1>1. entry' = [k \in Keys |-> IF k \in stale THEN [rows[k] EXCEPT !.deleted = TRUE] ELSE rows[k]]
      /\ UNCHANGED <<proven, hourly>>
  BY DEF Poll
<1>2. c # Self
  BY CatalogsAreNoMarks
<1>3. SUFFICES ASSUME NEW k \in Keys, entry'[k].is = "row", entry'[k].source = {Self}, entry'[k].recent
               PROVE  Stored(k) /\ entry[k].source = {Self} /\ entry[k].recent
  BY <1>1 DEF Registrations, Stored
<1>4. k \notin stale
  <2>1. SUFFICES ASSUME k \in stale PROVE FALSE
    OBVIOUS
  <2>2. rows[k].source = {c} /\ rows[k].is = "row" /\ k \notin Writes(c, done)
    BY <2>1 DEF Stale, Writes
  <2>3. rows[k] = entry[k]
    BY <2>2, UpsertedRow DEF InInv
  <2>4. entry[k] \in Rows
    BY <2>2, <2>3, StoredIsRow DEF InInv, Stored
  <2>5. entry'[k] = [entry[k] EXCEPT !.deleted = TRUE]
    BY <1>1, <2>1, <2>3
  <2>6. entry'[k].source = entry[k].source
    BY <2>4, <2>5, SetHidden
  <2>7. entry[k].source = {c}
    BY <2>2, <2>3
  <2>. QED BY <2>6, <2>7, <1>2, <1>3
<1>5. entry'[k] = rows[k]
  BY <1>1, <1>4
<1>6. CASE k \notin Writes(c, done)
  BY <1>3, <1>5, <1>6, UpsertedRow DEF InInv, Stored
<1>7. CASE k \in Writes(c, done) /\ ~Stored(k)
  <2>1. rows[k] = Fresh({c}, FALSE)
    BY <1>7 DEF AfterUpserts
  <2>. QED BY <1>2, <1>3, <1>5, <2>1 DEF Fresh
<1>8. CASE k \in Writes(c, done) /\ Stored(k)
  <2>1. rows[k] = Updated(c, entry[k])
    BY <1>8 DEF AfterUpserts
  <2>2. PICK g \in Rows : g = entry[k]
    BY <1>8, StoredIsRow DEF InInv
  <2>3. PICK s : s = IF Merges(c) /\ ~Within(c, g.source) THEN g.source \cup {c} ELSE g.source
    OBVIOUS
  <2>4. PICK d : d = (g.deleted /\ ~Sweeps(c))
    OBVIOUS
  <2>5. rows[k] = [g EXCEPT !.source = s, !.deleted = d]
    BY <2>1, <2>2, <2>3, <2>4 DEF Updated
  <2>6. entry'[k].source = s /\ entry'[k].recent = g.recent
    BY <1>5, <2>5 DEF Rows
  <2>7. s = g.source
    BY <1>2, <1>3, <2>3, <2>6, SelfAlone
  <2>. QED BY <1>3, <1>8, <2>2, <2>6, <2>7
<1>. QED BY <1>6, <1>7, <1>8

LEMMA PollsKeepCount ==
  ASSUME InInv, NEW c, Snapshot(c) \/ Additions(c)
  PROVE  Registrations' \subseteq Registrations /\ UNCHANGED <<proven, hourly>>
<1>1. c \in Catalogs /\ OfHost(c) \subseteq SUBSET Keys
  BY DEF Snapshot, Additions, OfHost
<1>2. CASE Snapshot(c)
  <2>1. PICK seen \in OfHost(c), swept \in BOOLEAN : \E done \in SUBSET seen : Poll(c, seen, done, swept)
    BY <1>2 DEF Snapshot
  <2>2. PICK done \in SUBSET seen : Poll(c, seen, done, swept)
    BY <2>1
  <2>. QED BY <1>1, <2>2, PollKeepsCount
<1>3. CASE Additions(c)
  <2>1. PICK done \in OfHost(c) : Poll(c, done, done, FALSE)
    BY <1>3 DEF Additions
  <2>. QED BY <1>1, <2>1, PollKeepsCount
<1>. QED BY <1>2, <1>3

(* The primary row and its bonus rows stay within the limit together. *)
LEMMA RegisterWithin ==
  ASSUME WindowInv, NEW k \in Keys, NEW found, RegisterRow(k, found)
  PROVE  Cardinality(Registrations') <= domainLimit
<1> DEFINE bonus == {b \in Keys \ {k} : b[1] = k[1] /\ b[2] \in found /\ ~Hidden(b)}
<1>1. Cardinality(Registrations) < domainLimit
  BY DEF RegisterRow
<1>2. PICK also \in SUBSET bonus : Cardinality(also) = Min({BonusBudget, Cardinality(bonus)})
                                   /\ entry' = Upserted({k} \cup also)
  BY DEF RegisterRow
<1>3. domainLimit \in Nat
  BY CountIsNat DEF domainLimit
<1>4. bonus \subseteq Keys
  OBVIOUS
<1>5. IsFiniteSet(bonus) /\ Cardinality(bonus) \in Nat
  BY <1>4, IntakeAssumption, FS_Subset, FS_CardinalityType
<1>6. IsFiniteSet(also) /\ Cardinality(also) \in Nat
  BY <1>5, FS_Subset, FS_CardinalityType
<1>7. Cardinality(also) <= BonusBudget /\ BonusBudget = domainLimit - (Cardinality(Registrations) + 1)
  <2>1. BonusBudget = domainLimit - (Cardinality(Registrations) + 1)
    BY DEF BonusBudget
  <2>2. BonusBudget \in Int
    BY <2>1, <1>3, CountIsNat
  <2>. QED BY <1>2, <1>5, <2>1, <2>2, LeastOfTwo
<1>8. Registrations' \subseteq (Registrations \cup {k}) \cup also
  <2>1. SUFFICES ASSUME NEW j \in Keys, entry'[j].is = "row", entry'[j].source = {Self}, entry'[j].recent,
                        j \notin {k} \cup also
                 PROVE  j \in Registrations
    BY DEF Registrations, Stored
  <2>2. entry'[j] = entry[j]
    BY <1>2, <2>1 DEF Upserted
  <2>. QED BY <2>1, <2>2 DEF Registrations, Stored
<1>9. IsFiniteSet(Registrations \cup {k}) /\ Cardinality(Registrations \cup {k}) \in Nat
      /\ Cardinality(Registrations \cup {k}) <= Cardinality(Registrations) + 1
  <2>1. IsFiniteSet(Registrations \cup {k})
        /\ Cardinality(Registrations \cup {k}) =
             IF k \in Registrations THEN Cardinality(Registrations) ELSE Cardinality(Registrations) + 1
    BY CountIsNat, FS_AddElement
  <2>. QED BY <2>1, CountIsNat
<1>10. LET all == (Registrations \cup {k}) \cup also
       IN IsFiniteSet(all) /\ Cardinality(all) <= Cardinality(Registrations \cup {k}) + Cardinality(also)
  <2> DEFINE one == Registrations \cup {k}
  <2>1. IsFiniteSet(one \cap also) /\ Cardinality(one \cap also) \in Nat
    BY <1>6, FS_Intersection, FS_CardinalityType
  <2>2. IsFiniteSet(one \cup also)
        /\ Cardinality(one \cup also) = Cardinality(one) + Cardinality(also) - Cardinality(one \cap also)
    BY <1>6, <1>9, FS_Union
  <2>. QED BY <1>6, <1>9, <2>1, <2>2
<1>11. LET all == (Registrations \cup {k}) \cup also
       IN Cardinality(Registrations') <= Cardinality(all) /\ Cardinality(all) \in Nat
  BY <1>8, <1>10, FS_Subset, FS_CardinalityType
<1>. QED BY <1>1, <1>3, <1>6, <1>7, <1>9, <1>10, <1>11, CountIsNat, CountIsNatNext

(* A hand on one row counts it out, or leaves it as it was. *)
LEMMA HandsKeepCount ==
  ASSUME InInv, NEW k \in Keys,
         ApproveChange(k) \/ OwnerDeletes(k) \/ AdminRestores(k) \/ RowDeleted(k) \/ HourPasses(k)
  PROVE  Registrations' \subseteq Registrations
<1>1. SUFFICES ASSUME NEW j \in Keys, entry'[j].is = "row", entry'[j].source = {Self}, entry'[j].recent
               PROVE  Stored(j) /\ entry[j].source = {Self} /\ entry[j].recent
  BY DEF Registrations, Stored
<1>2. entry \in [Keys -> {NoEntry} \cup Rows] /\ (Stored(k) => entry[k] \in Rows)
  BY StoredIsRow DEF InInv, RowTypes
<1>3. CASE j # k
  <2>1. entry'[j] = entry[j]
    BY <1>2, <1>3 DEF ApproveChange, OwnerDeletes, AdminRestores, RowDeleted, HourPasses
  <2>. QED BY <1>1, <2>1 DEF Stored
<1>4. CASE j = k
  <2>1. CASE ApproveChange(k)
    <3>1. entry'[k].source = {Change}
      <4>1. CASE Stored(k)
        <5>1. PICK g \in Rows : g = entry[k]
          BY <4>1, <1>2
        <5>2. entry'[k] = [g EXCEPT !.source = {Change}]
          BY <2>1, <4>1, <5>1, <1>2 DEF ApproveChange
        <5>. QED BY <5>2 DEF Rows
      <4>2. CASE ~Stored(k)
        BY <2>1, <4>2, <1>2 DEF ApproveChange, Fresh
      <4>. QED BY <4>1, <4>2
    <3>. QED BY <1>1, <1>4, <3>1 DEF Self, Change
  <2>2. CASE OwnerDeletes(k) \/ AdminRestores(k)
    <3>1. Stored(k)
      BY <2>2 DEF OwnerDeletes, AdminRestores, Shown, Hidden
    <3>2. PICK g \in Rows : g = entry[k]
      BY <3>1, <1>2
    <3>3. \E d \in BOOLEAN : entry'[k] = [g EXCEPT !.deleted = d]
      BY <2>2, <3>2, <1>2 DEF OwnerDeletes, AdminRestores
    <3>. QED BY <1>1, <1>4, <3>1, <3>2, <3>3 DEF Rows
  <2>3. CASE RowDeleted(k)
    BY <2>3, <1>1, <1>2, <1>4 DEF RowDeleted, NoEntry
  <2>4. CASE HourPasses(k)
    <3>1. PICK g \in Rows : g = entry[k]
      BY <2>4, <1>2 DEF HourPasses
    <3>2. entry'[k] = [g EXCEPT !.recent = FALSE]
      BY <2>4, <3>1, <1>2 DEF HourPasses
    <3>. QED BY <1>1, <1>4, <3>2 DEF Rows
  <2>. QED BY <2>1, <2>2, <2>3, <2>4
<1>. QED BY <1>3, <1>4

(* The claim is forgotten when the last row it let in is older than an hour. *)
LEMMA HourKeepsWindow ==
  ASSUME WindowInv, NEW k \in Keys, HourPasses(k)
  PROVE  ClaimIsRemembered' /\ DomainWindow'
<1>1. Registrations' \subseteq Registrations
  BY HandsKeepCount DEF WindowInv
<1>2. hourly' = (hourly /\ (proven \/ \E j \in Registrations \ {k} : TRUE)) /\ proven' = proven
  BY DEF HourPasses
<1>3. ClaimIsRemembered'
  BY <1>2 DEF WindowInv, ClaimIsRemembered
<1>4. CASE hourly' = hourly
  BY <1>1, <1>3, <1>4, FewerRegistrations DEF WindowInv
<1>5. CASE hourly' # hourly
  <2>1. Registrations \ {k} = {}
    BY <1>2, <1>5 DEF WindowInv, ClaimIsRemembered
  <2>2. k \notin Registrations'
    <3>1. Stored(k)
      BY DEF HourPasses
    <3>2. PICK g \in Rows : g = entry[k]
      BY <3>1, StoredIsRow DEF WindowInv, InInv
    <3>3. entry'[k] = [g EXCEPT !.recent = FALSE]
      BY <3>2 DEF HourPasses, WindowInv, InInv, RowTypes
    <3>. QED BY <3>3 DEF Registrations, Rows
  <2>3. Registrations' = {}
    BY <1>1, <2>1, <2>2
  <2>. QED BY <1>3, <2>3, CountIsNat, FS_EmptySet DEF DomainWindow
<1>. QED BY <1>4, <1>5, <1>3

LEMMA WindowNext == WindowInv /\ [InNext]_inVars => WindowInv'
<1> SUFFICES ASSUME WindowInv, [InNext]_inVars PROVE WindowInv'
  OBVIOUS
<1>1. InInv /\ InInv'
  BY InNextInv DEF WindowInv
<1>2. ASSUME Registrations' \subseteq Registrations, UNCHANGED <<proven, hourly>>
      PROVE  WindowInv'
  BY <1>1, <1>2, FewerRegistrations DEF WindowInv, ClaimIsRemembered
<1>3. CASE UNCHANGED inVars
  BY <1>2, <1>3 DEF inVars, Registrations, Stored
<1>4. ASSUME NEW k \in Keys, NEW found, RegisterRow(k, found) PROVE WindowInv'
  <2>1. UNCHANGED <<proven, hourly>> /\ Cardinality(Registrations') <= domainLimit
    BY <1>4, RegisterWithin DEF RegisterRow
  <2>2. domainLimit <= VerifiedLimit /\ (~hourly => domainLimit = UnverifiedLimit) /\ domainLimit \in Nat
    BY CountIsNat DEF domainLimit, WindowInv, ClaimIsRemembered
  <2>. QED BY <1>1, <2>1, <2>2, CountIsNat, CountIsNatNext DEF WindowInv, ClaimIsRemembered, DomainWindow
<1>5. ASSUME NEW k \in Keys, ApproveChange(k) \/ OwnerDeletes(k) \/ AdminRestores(k) \/ RowDeleted(k)
      PROVE  WindowInv'
  <2>1. UNCHANGED <<proven, hourly>>
    BY <1>5 DEF ApproveChange, OwnerDeletes, AdminRestores, RowDeleted
  <2>. QED BY <1>1, <1>2, <1>5, <2>1, HandsKeepCount
<1>6. ASSUME NEW k \in Keys, HourPasses(k) PROVE WindowInv'
  BY <1>1, <1>6, HourKeepsWindow DEF WindowInv
<1>7. CASE PollMPP \/ PollMppscan \/ PollL402Apps \/ PollL402Directory \/ PollSponge \/ PollSatring \/ LoadListings
  BY <1>1, <1>2, <1>7, PollsKeepCount
     DEF PollMPP, PollMppscan, PollL402Apps, PollL402Directory, PollSponge, PollSatring, LoadListings
<1>8. CASE ClaimTurns
  <2>1. Registrations' = Registrations /\ hourly' = TRUE /\ proven' \in BOOLEAN
    BY <1>8 DEF ClaimTurns, Registrations, Stored
  <2>. QED BY <1>1, <2>1 DEF WindowInv, ClaimIsRemembered, DomainWindow
<1>. QED BY <1>3, <1>4, <1>5, <1>6, <1>7, <1>8 DEF InNext

(* routes/api/register.js: what is registered on a domain within an hour, bonus
   rows included, is within the limit of a verified domain, and of an unverified
   one unless the claim was verified within that hour. *)
THEOREM WindowsHold == InSpec => []DomainWindow
<1>1. InInit => WindowInv
  <2>1. InInit => Registrations = {}
    BY DEF InInit, Registrations, Stored, NoEntry
  <2>2. InInit => DomainWindow
    BY <2>1, CountIsNat, FS_EmptySet DEF DomainWindow
  <2>3. InInit => ClaimIsRemembered
    BY DEF InInit, ClaimIsRemembered
  <2>. QED BY <2>2, <2>3, InInitInv DEF WindowInv
<1>2. WindowInv => DomainWindow
  BY DEF WindowInv
<1>. QED BY <1>1, <1>2, WindowNext, PTL DEF InSpec
============================================================================
