------------------------------- MODULE Intake -------------------------------
(* How rows come into the index of one host and leave it: the registration
   with the bonus rows of the other protocols its probe found and the limit per
   hour (routes/api/register.js), the catalogs polled on a schedule and the
   sweep of two of them (aggregators/, listings.js), approved protocol changes,
   the owner and the administrator (routes/api/admin.js).  Status and editorial fields are in DomainClaim, the passes of
   the Bazaar in BazaarPass, the probe in ProbeConfig and ProbeQueue. *)
EXTENDS Naturals, FiniteSets, FiniteSetsExt

CONSTANTS
  Keys,             \* rows of the host: url and protocol
  Catalogs,         \* of the catalogs below, those that are polled
  UnverifiedLimit,  \* registrations per hour of a domain nobody has verified
  VerifiedLimit     \* of a verified one

Known == {"mpp", "mppscan", "l402apps", "l402directory", "sponge", "satring",
          "exclusive"}

Sweeps(c) == c \in {"mpp", "mppscan"}     \* and shows a hidden row again

ASSUME IntakeAssumption ==
  /\ IsFiniteSet(Keys) /\ Catalogs \subseteq Known
  /\ UnverifiedLimit \in Nat /\ VerifiedLimit \in Nat
  /\ UnverifiedLimit <= VerifiedLimit

VARIABLES
  entry,   \* per key: no row, or its source tokens, provider_deleted, and
           \* whether registered_at is within the hour
  proven,  \* domain_claims holds a verified claim
  hourly,  \* history: the claim was verified at some time of the last hour
  onList,  \* history: per row, the sweeping catalogs whose latest poll wrote it
  hiddenBy \* history: per row, who hid it: the owner, a sweep, or nobody

inVars == <<entry, proven, hourly, onList, hiddenBy>>

Self == "self-registered"
Change == "protocol-change"
NoEntry == [is |-> "none"]
Fresh(sources, recent) ==
  [is |-> "row", source |-> sources, deleted |-> FALSE, recent |-> recent]

Stored(k) == entry[k].is = "row"
Shown(k) == Stored(k) /\ ~entry[k].deleted
Hidden(k) == Stored(k) /\ entry[k].deleted

InTypeOK ==
  /\ entry \in [Keys -> {NoEntry} \cup
       [is : {"row"}, source : SUBSET (Catalogs \cup {Self, Change}),
        deleted : BOOLEAN, recent : BOOLEAN]]
  /\ \A k \in Keys : Stored(k) => entry[k].source # {}
  /\ proven \in BOOLEAN /\ hourly \in BOOLEAN
  /\ onList \in [Keys -> SUBSET {c \in Catalogs : Sweeps(c)}]
  /\ hiddenBy \in [Keys -> {"nobody", "owner", "sweep"}]

InInit ==
  /\ entry = [k \in Keys |-> NoEntry]
  /\ proven = FALSE /\ hourly = FALSE
  /\ onList = [k \in Keys |-> {}]
  /\ hiddenBy = [k \in Keys |-> "nobody"]

----------------------------------------------------------------------------
(* Registration *)

(* The count is by the exact source, hidden rows included. *)
Registrations == {k \in Keys : Stored(k) /\ entry[k].source = {Self} /\ entry[k].recent}
domainLimit == IF proven THEN VerifiedLimit ELSE UnverifiedLimit

(* registerUpsert: an existing row keeps its source and registered_at. *)
Upserted(keys) ==
  [k \in Keys |-> IF k \in keys /\ ~Stored(k) THEN Fresh({Self}, TRUE) ELSE entry[k]]

(* The primary row is not counted against the bonus rows. *)
PrimaryUncounted == domainLimit - Cardinality(Registrations)

(* What is left of the limit after the primary row. *)
BonusBudget == domainLimit - (Cardinality(Registrations) + 1)

(* The probe is over and valid: the rest of the handler awaits nothing.  A row
   its owner removed is refused; a bonus row he removed is passed over. *)
RegisterRow(k, found) ==
  LET bonus == {b \in Keys \ {k} : b[1] = k[1] /\ b[2] \in found /\ ~Hidden(b)}
  IN /\ ~Hidden(k)
     /\ Cardinality(Registrations) < domainLimit
     /\ \E also \in SUBSET bonus :
          /\ Cardinality(also) = Min({BonusBudget, Cardinality(bonus)})
          /\ entry' = Upserted({k} \cup also)
     /\ UNCHANGED <<proven, hourly, onList, hiddenBy>>

(* An administrator approves a protocol the checker found beside a row.  A live
   row of that protocol is a conflict; one that is pending (only a registration
   leaves one so) or hidden is upserted, and whatever its source was, it is
   overwritten. *)
ApproveChange(k) ==
  /\ \E j \in Keys \ {k} : j[1] = k[1] /\ Stored(j)
  /\ Shown(k) => Self \in entry[k].source
  /\ entry' = [entry EXCEPT ![k] =
       IF Stored(k) THEN [@ EXCEPT !.source = {Change}] ELSE Fresh({Change}, TRUE)]
  /\ UNCHANGED <<proven, hourly, onList, hiddenBy>>

----------------------------------------------------------------------------
(* Catalogs *)

Carries(c) ==
  CASE c \in {"mpp", "mppscan"} -> {"MPP"}
    [] c \in {"l402apps", "l402directory"} -> {"L402"}
    [] c = "sponge" -> {"x402"}
    [] c \in {"satring", "exclusive"} -> {"L402", "x402"}   \* as listings/ has them

Merges(c) == c \notin {"satring", "exclusive"}
Guarded(c) == c \notin {"mpp", "mppscan", "exclusive"}

(* The sources are compared as text: mpp is found in mppscan. *)
AsText(c, sources) ==
  c \in sources \/ (c = "mpp" /\ "mppscan" \in sources)

(* The token is in the list of sources: a whole token, not a substring. *)
Within(c, sources) == c \in sources

(* The row after ON CONFLICT. *)
Updated(c, e) ==
  [e EXCEPT !.source = IF Merges(c) /\ ~Within(c, @) THEN @ \cup {c} ELSE @,
            !.deleted = @ /\ ~Sweeps(c)]

(* Rows the poll writes: a guarded upsert leaves a hidden row alone. *)
Writes(c, keys) == {k \in keys : ~(Guarded(c) /\ Hidden(k))}

AfterUpserts(c, keys) ==
  [k \in Keys |-> IF k \notin Writes(c, keys) THEN entry[k]
                  ELSE IF Stored(k) THEN Updated(c, entry[k])
                  ELSE Fresh({c}, FALSE)]

(* The sweep hides the rows that come from this catalog alone and are not in
   its answer. *)
Stale(c, rows, seen) ==
  {k \in Keys \ seen : /\ rows[k].is = "row" /\ ~rows[k].deleted
                       /\ rows[k].source = {c}}

(* seen is the answer as far as this host goes, done the part of it that was
   written: a record that raises an error is passed over, a kill ends the poll. *)
Poll(c, seen, done, swept) ==
  LET rows == AfterUpserts(c, done)
      stale == IF swept THEN Stale(c, rows, seen) ELSE {}
  IN /\ entry' = [k \in Keys |->
          IF k \in stale THEN [rows[k] EXCEPT !.deleted = TRUE] ELSE rows[k]]
     /\ onList' = [k \in Keys |->
          IF ~Sweeps(c) THEN onList[k]
          ELSE IF k \in Writes(c, done) THEN onList[k] \cup {c}
          ELSE IF k \in seen THEN onList[k] ELSE onList[k] \ {c}]
     /\ hiddenBy' = [k \in Keys |->
          IF k \in stale THEN "sweep"
          ELSE IF entry'[k].is = "row" /\ entry'[k].deleted THEN hiddenBy[k]
          ELSE "nobody"]
     /\ UNCHANGED <<proven, hourly>>

OfHost(c) == SUBSET {k \in Keys : k[2] \in Carries(c)}

(* A catalog that comes in one answer and is swept, with no await between: not
   after an answer without endpoints, one of which too few were understood, or
   a poll that was killed. *)
Snapshot(c) ==
  /\ c \in Catalogs
  /\ \E seen \in OfHost(c), swept \in BOOLEAN : \E done \in SUBSET seen : Poll(c, seen, done, swept)

(* A stretch of a poll that only adds: the whole of it, or what lies between two
   of its awaits.  Blocked hosts and discovery documents are not this host. *)
Additions(c) == c \in Catalogs /\ \E done \in OfHost(c) : done # {} /\ Poll(c, done, done, FALSE)

PollMPP == Snapshot("mpp")
PollMppscan == Snapshot("mppscan")
PollL402Apps == Additions("l402apps")
PollL402Directory == Additions("l402directory")
PollSponge == Additions("sponge")       \* a service and its endpoints
PollSatring == Additions("satring")     \* a page, not fetched after an error
LoadListings == Additions("exclusive")  \* at every start of the server

----------------------------------------------------------------------------
(* The owner, the administrator, the purge and the clock *)

OwnerDeletes(k) ==
  /\ Shown(k) /\ proven
  /\ entry' = [entry EXCEPT ![k].deleted = TRUE]
  /\ hiddenBy' = [hiddenBy EXCEPT ![k] = "owner"]
  /\ UNCHANGED <<proven, hourly, onList>>

AdminRestores(k) ==
  /\ Hidden(k)
  /\ entry' = [entry EXCEPT ![k].deleted = FALSE]
  /\ hiddenBy' = [hiddenBy EXCEPT ![k] = "nobody"]
  /\ UNCHANGED <<proven, hourly, onList>>

(* The administrator deletes any row, the hourly purge the old hidden ones. *)
RowDeleted(k) ==
  /\ Stored(k)
  /\ entry' = [entry EXCEPT ![k] = NoEntry]
  /\ onList' = [onList EXCEPT ![k] = {}]
  /\ hiddenBy' = [hiddenBy EXCEPT ![k] = "nobody"]
  /\ UNCHANGED <<proven, hourly>>

ClaimTurns ==
  /\ proven' = ~proven /\ hourly' = TRUE
  /\ UNCHANGED <<entry, onList, hiddenBy>>

HourPasses(k) ==
  /\ Stored(k) /\ entry[k].recent
  /\ entry' = [entry EXCEPT ![k].recent = FALSE]
  /\ hourly' = (hourly /\ (proven \/ \E j \in Registrations \ {k} : TRUE))
  /\ UNCHANGED <<proven, onList, hiddenBy>>

InNext ==
  \/ \E k \in Keys :
       \/ \E found \in SUBSET {j[2] : j \in Keys} : RegisterRow(k, found)
       \/ ApproveChange(k) \/ OwnerDeletes(k) \/ AdminRestores(k)
       \/ RowDeleted(k) \/ HourPasses(k)
  \/ PollMPP \/ PollMppscan \/ PollL402Apps \/ PollL402Directory
  \/ PollSponge \/ PollSatring \/ LoadListings
  \/ ClaimTurns

InSpec == InInit /\ [][InNext]_inVars

----------------------------------------------------------------------------
(* The limit per hour holds for the rows it counts, bonus rows included, in
   every order of registrations, polls, deletions and changes of the claim. *)
DomainWindow ==
  /\ Cardinality(Registrations) <= VerifiedLimit
  /\ ~hourly => Cardinality(Registrations) <= UnverifiedLimit

(* A row that a sweep hid is on the latest list of no catalog: a sweep never
   takes a row away that another catalog still lists, under whatever sequence
   of polls, registrations and restorations its sources were merged. *)
SweptIsUnlisted ==
  \A k \in Keys : hiddenBy[k] = "sweep" => onList[k] = {}
============================================================================
