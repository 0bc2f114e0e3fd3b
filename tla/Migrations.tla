----------------------------- MODULE Migrations -----------------------------
(* The boot of the server brings an older database up to date, statement by
   statement, and may be cut short after any of them: by a kill, a full disk or
   the next deploy.  What is inside BEGIN and COMMIT is one step here
   (src/src/db.js).  Each later boot starts from what the last one left. *)
EXTENDS Naturals, FiniteSets

CONSTANTS
  OldRows,   \* services of the old database
  OldClaims, \* domain claims of the old database, their tokens in the clear
  MaxCuts    \* bound: boots cut short

VARIABLES
  pc,       \* where the boot stands; serving once it is done
  services, \* the services table: its two CHECKs, its columns, its rows, and
            \* per column the rows for which it holds a value
  checks,   \* health_checks: whether its CHECK is current, and a left-over copy
  claims,   \* domain_claims: its schema, rows and left-over copy, token_hashed,
            \* and history: how often each token was hashed
  cuts      \* boots cut short so far

mgVars == <<pc, services, checks, claims, cuts>>

(* Columns that are filled from others once they exist. *)
Cols == {"hostname", "l402_format", "lnget_compatible"}
MppTest == "__mpp_test__"

ASSUME MigrationsAssumption == MaxCuts \in Nat /\ MppTest \notin OldRows   \* the others are UUIDs

Boot == <<"source", "checks", "hostname", "fillHostname", "l402_format",
  "fillFormat", "lnget_compatible", "fillLnget", "mppProbe", "mppUnprobe",
  "mppRebuild", "claims", "claimsProbe", "claimsCopy", "claimsFill",
  "claimsDrop", "claimsRename", "hashedCol", "hashedClear", "hash", "serving">>
Places == {Boot[i] : i \in DOMAIN Boot}

MGTypeOK ==
  /\ pc \in Places
  /\ services \in [sourceCheck : BOOLEAN, mpp : BOOLEAN, cols : SUBSET Cols,
       rows : SUBSET (OldRows \cup {MppTest}), filled : [Cols -> SUBSET OldRows]]
  /\ checks \in [full : BOOLEAN, leftover : BOOLEAN]
  /\ claims \in [table : {"none", "old", "new"}, rows : SUBSET OldClaims,
       copy : {"none", "empty", "full"}, hashedCol : BOOLEAN,
       flag : [OldClaims -> BOOLEAN], hashes : [OldClaims -> Nat]]
  /\ cuts \in 0..MaxCuts

(* A database some earlier version left: each migration is there or not, in the
   order the versions added them, and a rebuild of health_checks from before it
   was a transaction may have left its copy behind. *)
MGInit ==
  /\ pc = "source" /\ cuts = 0
  /\ \E check, mpp \in BOOLEAN, cols \in {{}, {"hostname"}, Cols} :
       /\ mpp => cols = Cols
       /\ cols # {} => ~check
       /\ services = [sourceCheck |-> check, mpp |-> mpp, cols |-> cols,
            rows |-> OldRows,
            filled |-> [c \in Cols |-> IF c \in cols THEN OldRows ELSE {}]]
  /\ checks \in [full : BOOLEAN, leftover : BOOLEAN]
  /\ \E table \in {"none", "old", "new"} :
       claims = [table |-> table, copy |-> "none", hashedCol |-> FALSE,
                 rows |-> IF table = "none" THEN {} ELSE OldClaims,
                 flag |-> [c \in OldClaims |-> FALSE],
                 hashes |-> [c \in OldClaims |-> 0]]

At(p) == \E i \in DOMAIN Boot : Boot[i] = p /\ pc = p /\ pc' = Boot[i + 1]
Skip(p, q) == pc = p /\ pc' = q

----------------------------------------------------------------------------
(* The services table *)

(* The CHECK on source goes: a rebuild in one transaction, if it is there. *)
SourceCheck ==
  /\ At("source")
  /\ services' = [services EXCEPT !.sourceCheck = FALSE]
  /\ UNCHANGED <<checks, claims, cuts>>

(* ADD COLUMN throws when the column exists, and that is caught. *)
AddColumn(c) ==
  /\ c \notin services.cols
  /\ services' = [services EXCEPT !.cols = @ \cup {c}, !.filled[c] = {}]
  /\ UNCHANGED <<checks, claims, cuts>>

HasColumn(c) == c \in services.cols /\ UNCHANGED <<services, checks, claims, cuts>>

(* hostname and l402_format are filled wherever they are still empty. *)
AddHostname ==
  At("hostname") /\ (AddColumn("hostname") \/ HasColumn("hostname"))
AddFormat ==
  At("l402_format") /\ (AddColumn("l402_format") \/ HasColumn("l402_format"))

Filled(c) == [services EXCEPT !.filled[c] = services.rows \ {MppTest}]

FillHostname ==
  /\ At("fillHostname") /\ services' = Filled("hostname")
  /\ UNCHANGED <<checks, claims, cuts>>
FillFormat ==
  /\ At("fillFormat") /\ services' = Filled("l402_format")
  /\ UNCHANGED <<checks, claims, cuts>>

(* lnget_compatible is filled only by the boot that adds it. *)
AddLnget ==
  \/ At("lnget_compatible") /\ AddColumn("lnget_compatible")
  \/ Skip("lnget_compatible", "mppProbe") /\ HasColumn("lnget_compatible")
FillLnget ==
  /\ At("fillLnget") /\ services' = Filled("lnget_compatible")
  /\ UNCHANGED <<checks, claims, cuts>>

(* Whether MPP is allowed is asked with an insert, which is then deleted. *)
MppProbe ==
  /\ IF services.mpp /\ MppTest \notin services.rows
     THEN /\ At("mppProbe")
          /\ services' = [services EXCEPT !.rows = @ \cup {MppTest}]
     ELSE Skip("mppProbe", "mppRebuild") /\ UNCHANGED services
  /\ UNCHANGED <<checks, claims, cuts>>
MppUnprobe ==
  /\ Skip("mppUnprobe", "claims")
  /\ services' = [services EXCEPT !.rows = @ \ {MppTest}]
  /\ UNCHANGED <<checks, claims, cuts>>
MppRebuild ==
  /\ At("mppRebuild")
  /\ services' = [services EXCEPT !.mpp = TRUE]
  /\ UNCHANGED <<checks, claims, cuts>>

----------------------------------------------------------------------------
(* health_checks: the stored CHECK is read, and a rebuild starts by dropping
   whatever copy an earlier one left. *)
ChecksConstraint ==
  /\ At("checks")
  /\ checks' = IF checks.full THEN checks ELSE [full |-> TRUE, leftover |-> FALSE]
  /\ UNCHANGED <<services, claims, cuts>>

----------------------------------------------------------------------------
(* domain_claims *)

CreateClaims ==
  /\ At("claims")
  /\ claims' = IF claims.table = "none"
               THEN [claims EXCEPT !.table = "old", !.rows = {}] ELSE claims
  /\ UNCHANGED <<services, checks, cuts>>

(* The rebuild is five statements and no transaction. *)
ProbeClaims ==
  /\ IF claims.table = "new" THEN Skip("claimsProbe", "hashedCol")
                             ELSE At("claimsProbe")
  /\ UNCHANGED <<services, checks, claims, cuts>>
CopyClaims ==
  /\ IF claims.copy # "none"           \* the table exists: the migration stops
     THEN Skip("claimsCopy", "hashedCol") /\ UNCHANGED claims
     ELSE At("claimsCopy") /\ claims' = [claims EXCEPT !.copy = "empty"]
  /\ UNCHANGED <<services, checks, cuts>>
FillClaims ==
  /\ At("claimsFill") /\ claims' = [claims EXCEPT !.copy = "full"]
  /\ UNCHANGED <<services, checks, cuts>>
DropClaims ==
  /\ At("claimsDrop") /\ claims' = [claims EXCEPT !.table = "none"]
  /\ UNCHANGED <<services, checks, cuts>>
RenameClaims ==
  /\ At("claimsRename") /\ claims' = [claims EXCEPT !.table = "new", !.copy = "none"]
  /\ UNCHANGED <<services, checks, cuts>>

(* token_hashed is 1 by default; the boot that adds it clears it for the rows
   that are there. *)
AddHashed ==
  /\ IF claims.hashedCol
     THEN Skip("hashedCol", "hash") /\ UNCHANGED claims
     ELSE /\ At("hashedCol")
          /\ claims' = [claims EXCEPT !.hashedCol = TRUE,
                          !.flag = [c \in OldClaims |-> TRUE]]
  /\ UNCHANGED <<services, checks, cuts>>
ClearHashed ==
  /\ At("hashedClear")
  /\ claims' = [claims EXCEPT !.flag = [c \in OldClaims |-> c \notin claims.rows]]
  /\ UNCHANGED <<services, checks, cuts>>

Unhashed == {c \in claims.rows : ~claims.flag[c]}

(* The token is hashed and the flag is not set. *)
HashedUnmarked ==
  /\ At("hash")
  /\ claims' = [claims EXCEPT !.hashes =
       [c \in OldClaims |-> IF c \in Unhashed THEN @[c] + 1 ELSE @[c]]]
  /\ UNCHANGED <<services, checks, cuts>>

(* migrateTokenHashes: every row whose flag is 0, in one transaction. *)
MigrateTokenHashes ==
  /\ At("hash")
  /\ claims' = [claims EXCEPT
       !.hashes = [c \in OldClaims |-> IF c \in Unhashed THEN @[c] + 1 ELSE @[c]],
       !.flag = [c \in OldClaims |-> @[c] \/ c \in Unhashed]]
  /\ UNCHANGED <<services, checks, cuts>>

----------------------------------------------------------------------------
(* The process ends, in the middle of its boot or later, and boots again. *)
Reboot ==
  /\ pc' = "source"
  /\ pc # "source"
  /\ IF pc = "serving" THEN UNCHANGED cuts
                       ELSE cuts < MaxCuts /\ cuts' = cuts + 1
  /\ UNCHANGED <<services, checks, claims>>

MGNext ==
  \/ SourceCheck \/ AddHostname \/ FillHostname \/ AddFormat \/ FillFormat
  \/ AddLnget \/ FillLnget \/ MppProbe \/ MppUnprobe \/ MppRebuild
  \/ ChecksConstraint \/ CreateClaims \/ ProbeClaims \/ CopyClaims \/ FillClaims
  \/ DropClaims \/ RenameClaims \/ AddHashed \/ ClearHashed
  \/ MigrateTokenHashes \/ Reboot

MGSpec == MGInit /\ [][MGNext]_mgVars

----------------------------------------------------------------------------
(* A boot that gets to its end leaves the current schema, from any older
   database and however many boots were cut short before it, with every service
   kept, the columns that can be refilled full, and no token hashed twice; when
   no boot was cut short every claim is kept too, its token hashed once. *)
BootCatchesUp ==
  pc = "serving" =>
    /\ ~services.sourceCheck /\ services.mpp /\ checks.full
    /\ services.cols = Cols /\ OldRows \subseteq services.rows
    /\ \A c \in {"hostname", "l402_format"} : OldRows \subseteq services.filled[c]
    /\ \A c \in OldClaims : claims.hashes[c] <= 1
    /\ Unhashed = {}
    /\ cuts = 0 =>
         /\ claims.table = "new" /\ \A c \in claims.rows : claims.hashes[c] = 1
         /\ MppTest \notin services.rows
         /\ OldRows \subseteq services.filled["lnget_compatible"]
============================================================================
