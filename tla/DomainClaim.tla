---------------------------- MODULE DomainClaim ----------------------------
(***************************************************************************)
(* Domain ownership and the listings under it                              *)
(* (src/services/domain-verify.js, the admin and registration routes and   *)
(* the upserts of the aggregators, src/listings.js at every start).  One   *)
(* domain is modelled: claims of different domains share nothing.          *)
(*                                                                         *)
(* Every handler but verifyClaim runs to its end without an await and is   *)
(* one action.  verifyClaim reads the claim, awaits the domain's file, and *)
(* writes from the claim it read: everything else may run in between.      *)
(*                                                                         *)
(* Of the columns an owner may edit a row says whose they are, not what is *)
(* in them: `own` are the groups that hold what the owner wrote.  "text"   *)
(* is name, description and category, which an upsert spares on a flagged  *)
(* row; "price" is the prices, the asset and the network, which none does. *)
(*                                                                         *)
(* A token is the number of its issue; the domain's file holds the hash of *)
(* one of them, or of none (0).  A request with a wrong token changes      *)
(* nothing and is left out.                                                *)
(***************************************************************************)
EXTENDS Naturals

CONSTANTS
  Services,     \* the (url, protocol) pairs under the domain
  Requests,     \* calls of POST /claim/verify
  MaxTokens     \* bound: how many tokens are issued

ASSUME ClaimAssumption == MaxTokens \in Nat

VARIABLES
  claim,    \* the domain_claims row; lapsed: expires_at has passed
  issued,   \* how many tokens were issued
  row,      \* the services rows; status "none" is no row
  req,      \* verifyClaim calls: progress, the token read, the file fetched
  file,     \* the token whose hash the domain serves, 0 for none
  mpp,      \* the listings of protocol MPP; the others are x402 or L402
  exclusive,  \* the listings a file of listings/ describes
  \* history
  shown,    \* tokens whose hash the domain ever served
  kept      \* per service, what its owner wrote; a revocation, a new registration,
            \* an approved protocol change and the removal of the row end it

vars == <<claim, issued, row, req, file, mpp, exclusive, shown, kept>>

(* EDITABLE_FIELDS *)
Columns == {"text", "price"}

NewRow(source, status) ==
  [source |-> source, own |-> {}, status |-> status,
   flagged |-> FALSE, deleted |-> FALSE, reason |-> "other"]
Gone == NewRow("none", "none")

Upstreams(s) == IF s \in mpp THEN {"mpp"} ELSE {"bazaar", "other"}
Statuses == {"none", "active", "pending", "rejected", "retired"}
Sources == {"none", "bazaar", "mpp", "other"}
Reasons == {"domain", "other"}

TypeOK ==
  /\ claim \in [status : {"none", "pending", "verified", "expired", "revoked"},
                token : 0..MaxTokens, lapsed : BOOLEAN]
  /\ issued \in 0..MaxTokens
  /\ row \in [Services -> [source : Sources, own : SUBSET Columns, status : Statuses,
                           flagged : BOOLEAN, deleted : BOOLEAN, reason : Reasons]]
  /\ req \in [Requests -> [at : {"idle", "fetching", "reading", "verified", "refused"},
                           token : 0..MaxTokens, body : 0..MaxTokens]]
  /\ file \in 0..MaxTokens
  /\ mpp \subseteq Services /\ exclusive \subseteq Services
  /\ shown \subseteq 1..MaxTokens
  /\ kept \in [Services -> SUBSET Columns]

Init ==
  /\ claim = [status |-> "none", token |-> 0, lapsed |-> FALSE]
  /\ issued = 0
  /\ row = [s \in Services |-> Gone]
  /\ req = [v \in Requests |-> [at |-> "idle", token |-> 0, body |-> 0]]
  /\ file = 0 /\ mpp \in SUBSET Services /\ exclusive \in SUBSET Services
  /\ shown = {} /\ kept = [s \in Services |-> {}]

Write(s, r) == row' = [row EXCEPT ![s] = r]
Forget(s) == kept' = [kept EXCEPT ![s] = {}]

----------------------------------------------------------------------------
(* The claim *)

NewToken == [status |-> "pending", token |-> issued + 1, lapsed |-> FALSE]

(* initiateClaim: a pending claim gets a new token, a closed one is replaced. *)
InitiateClaim ==
  /\ claim.status # "verified" /\ issued < MaxTokens
  /\ claim' = NewToken
  /\ issued' = issued + 1
  /\ UNCHANGED <<row, req, file, mpp, exclusive, shown, kept>>

(* The admin reset gives any claim a new token and leaves the flags alone. *)
ResetClaim ==
  /\ claim.status # "none" /\ issued < MaxTokens
  /\ claim' = NewToken
  /\ issued' = issued + 1
  /\ UNCHANGED <<row, req, file, mpp, exclusive, shown, kept>>

(* Only active rows lose the flag. *)
Unflagged(r) == IF r.status = "active" THEN [r EXCEPT !.flagged = FALSE] ELSE r

RevokeClaim ==
  /\ claim.status = "verified"
  /\ claim' = [claim EXCEPT !.status = "revoked"]
  /\ row' = [s \in Services |-> Unflagged(row[s])]
  /\ kept' = [s \in Services |-> {}]
  /\ UNCHANGED <<issued, req, file, mpp, exclusive, shown>>

ClaimLapses ==
  /\ claim.status = "pending" /\ ~claim.lapsed
  /\ claim' = [claim EXCEPT !.lapsed = TRUE]
  /\ UNCHANGED <<issued, row, req, file, mpp, exclusive, shown, kept>>

(* The head of verifyClaim. A claim past its term is expired here and only here. *)
VerifyStart(v) ==
  /\ req[v].at = "idle"
  /\ IF claim.status = "pending" /\ ~claim.lapsed
     THEN /\ req' = [req EXCEPT ![v] = [at |-> "fetching", token |-> claim.token, body |-> 0]]
          /\ UNCHANGED claim
     ELSE /\ req' = [req EXCEPT ![v].at = "refused"]
          /\ claim' = IF claim.status = "pending" THEN [claim EXCEPT !.status = "expired"] ELSE claim
  /\ UNCHANGED <<issued, row, file, mpp, exclusive, shown, kept>>

FileFetched(v) ==
  /\ req[v].at = "fetching"
  /\ req' = [req EXCEPT ![v].at = "reading", ![v].body = file]
  /\ UNCHANGED <<claim, issued, row, file, mpp, exclusive, shown, kept>>

(* A blocked address, a timeout, a redirect, another status, an oversized file. *)
FetchFailed(v) ==
  /\ req[v].at \in {"fetching", "reading"}
  /\ req' = [req EXCEPT ![v].at = "refused"]
  /\ UNCHANGED <<claim, issued, row, file, mpp, exclusive, shown, kept>>

(* Bug: an empty file is compared with nothing. *)
AnyFile(v) == req[v].body \in {0, req[v].token}

HashMatches(v) == req[v].body = req[v].token

(* Bug: the UPDATE has no status guard. *)
MarkedAnyway == [claim EXCEPT !.status = "verified"]

(* The UPDATE is guarded by the status, not by the token. *)
Marked == [claim EXCEPT !.status = IF @ = "pending" THEN "verified" ELSE @]

(* Active rows are flagged, then pending ones that are not deleted approved. *)
Vouched(r) ==
  IF r.status = "active" THEN [r EXCEPT !.flagged = TRUE]
  ELSE IF r.status = "pending" /\ ~r.deleted THEN [r EXCEPT !.status = "active", !.reason = "domain"]
  ELSE r

VerifyFinished(v) ==
  /\ req[v].at = "reading"
  /\ IF HashMatches(v)
     THEN /\ claim' = Marked
          /\ row' = [s \in Services |-> Vouched(row[s])]
          /\ req' = [req EXCEPT ![v].at = "verified"]
     ELSE /\ req' = [req EXCEPT ![v].at = "refused"]
          /\ UNCHANGED <<claim, row>>
  /\ UNCHANGED <<issued, file, mpp, exclusive, shown, kept>>

(* The domain serves the hash of a token it was given, or takes the file away. *)
Publish(t) ==
  /\ t # file
  /\ file' = t
  /\ shown' = shown \union ({t} \ {0})
  /\ UNCHANGED <<claim, issued, row, req, mpp, exclusive, kept>>

----------------------------------------------------------------------------
(* The owner's edits: the caller holds the token of a verified claim *)

Owns == claim.status = "verified"
Exists(s) == row[s].status # "none"

(* Bug: an edit does not set domain_verified. *)
EditedOnly(s, fields) == [row[s] EXCEPT !.own = @ \union fields]

Edited(s, fields) == [row[s] EXCEPT !.own = @ \union fields, !.flagged = TRUE]

EditService(s, fields) ==
  /\ Owns /\ Exists(s) /\ ~row[s].deleted /\ fields # {}
  /\ Write(s, Edited(s, fields))
  /\ kept' = [kept EXCEPT ![s] = @ \union fields]
  /\ UNCHANGED <<claim, issued, req, file, mpp, exclusive, shown>>

(* deleteService, and bulkDeleteServices in one transaction. *)
DeleteServices(S) ==
  /\ Owns /\ S # {} /\ \A s \in S : Exists(s)
  /\ row' = [s \in Services |-> IF s \in S THEN [row[s] EXCEPT !.deleted = TRUE] ELSE row[s]]
  /\ UNCHANGED <<claim, issued, req, file, mpp, exclusive, shown, kept>>

----------------------------------------------------------------------------
(* Registration, the administrator and the aggregators *)

(* registerUpsert: the name is always written, a price only when the caller has
   one; an active row stays active, any other waits for review. *)
Registered(r, priced) ==
  IF r.status = "none" THEN NewRow("other", "pending")
  ELSE [r EXCEPT !.own = IF priced THEN {} ELSE @ \ {"text"},
                 !.status = IF @ = "active" THEN "active" ELSE "pending"]

Approved(r, reason) == [r EXCEPT !.status = "active", !.reason = reason]

(* A deleted url is refused; a gateway partner or a verified domain goes live. *)
Register(s, gateway, priced) ==
  /\ ~row[s].deleted
  /\ LET r == Registered(row[s], priced) IN
       Write(s, IF r.status = "active" THEN r
                ELSE IF gateway THEN Approved(r, "other")
                ELSE IF claim.status = "verified" THEN Approved(r, "domain")
                ELSE r)
  /\ Forget(s)
  /\ UNCHANGED <<claim, issued, req, file, mpp, exclusive, shown>>

AdminApprove(s) ==
  /\ row[s].status = "pending"
  /\ Write(s, Approved(row[s], "other"))
  /\ UNCHANGED <<claim, issued, req, file, mpp, exclusive, shown, kept>>

(* The administrator approves a protocol that a health check found at the url of
   a row, which may belong to the other protocols of that url outside Services:
   the row of the new protocol is registered without a price.  Only an active row
   that is not deleted stands in the way. *)
ApproveChange(s) ==
  /\ ~(row[s].status = "active" /\ ~row[s].deleted)
  /\ Write(s, [Approved(Registered(row[s], FALSE), "other") EXCEPT !.source = "other"])
  /\ Forget(s)
  /\ UNCHANGED <<claim, issued, req, file, mpp, exclusive, shown>>

AdminReject(s) ==
  /\ row[s].status = "pending"
  /\ Write(s, [row[s] EXCEPT !.status = "rejected"])
  /\ UNCHANGED <<claim, issued, req, file, mpp, exclusive, shown, kept>>

AdminRestore(s) ==
  /\ row[s].deleted
  /\ Write(s, [row[s] EXCEPT !.deleted = FALSE])
  /\ UNCHANGED <<claim, issued, req, file, mpp, exclusive, shown, kept>>

(* The administrator's hard delete; the purge of rows deleted 30 days ago. *)
RowPurged(s) ==
  /\ Exists(s)
  /\ Write(s, Gone)
  /\ Forget(s)
  /\ UNCHANGED <<claim, issued, req, file, mpp, exclusive, shown>>

(* The upsert of an aggregator spares the text of a flagged row, and the price
   only when it has none of its own to write. *)
Spared(r, priced) == (IF r.flagged THEN {"text"} ELSE {}) \union (IF priced THEN {} ELSE {"price"})
Refreshed(r, priced) == [r EXCEPT !.own = @ \intersect Spared(r, priced)]

(* What the upserts of bazaar, mpp and mppscan do to a deleted row. *)
Relisted(r) == [r EXCEPT !.deleted = FALSE, !.reason = IF r.deleted THEN "other" ELSE @]

(* satring, l402apps, l402directory and sponge pass a deleted row by.  bazaar and
   satring write the price they have or none, the others keep a price when they
   have none. *)
Poll(s, upstream, priced) ==
  LET r == Refreshed(row[s], priced) IN
  /\ upstream \in Upstreams(s)
  /\ upstream = "bazaar" => priced
  /\ upstream = "other" => ~row[s].deleted
  /\ Write(s, IF ~Exists(s) THEN NewRow(upstream, "active")
              ELSE CASE upstream = "other"  -> r
                     [] upstream = "mpp"    -> Relisted(r)
                     [] upstream = "bazaar" ->
                          [Relisted(r) EXCEPT !.status = IF @ = "retired" THEN "active" ELSE @])
  /\ UNCHANGED <<claim, issued, req, file, mpp, exclusive, shown, kept>>

(* loadListings: every column of a listing that a file describes is written,
   whatever the row's flag; the flag, the status and the source stay. *)
Loaded(s) ==
  IF s \notin exclusive THEN row[s]
  ELSE IF Exists(s) THEN [row[s] EXCEPT !.own = {}] ELSE NewRow("other", "active")

(* The process starts anew: verifications in flight are lost, and startScheduler
   loads the listings. *)
Restart ==
  /\ req' = [v \in Requests |->
               IF req[v].at \in {"fetching", "reading"} THEN [req[v] EXCEPT !.at = "refused"] ELSE req[v]]
  /\ row' = [s \in Services |-> Loaded(s)]
  /\ UNCHANGED <<claim, issued, file, mpp, exclusive, shown, kept>>

(* The upstream stops listing the row: mpp and mppscan sweep it, the Bazaar
   passes retire it. *)
SweepStale(s) ==
  /\ row[s].source = "mpp" /\ ~row[s].deleted
  /\ Write(s, [row[s] EXCEPT !.deleted = TRUE])
  /\ UNCHANGED <<claim, issued, req, file, mpp, exclusive, shown, kept>>

Retire(s) ==
  /\ row[s].source = "bazaar" /\ row[s].status = "active"
  /\ Write(s, [row[s] EXCEPT !.status = "retired"])
  /\ UNCHANGED <<claim, issued, req, file, mpp, exclusive, shown, kept>>

----------------------------------------------------------------------------

Verify(v) == VerifyStart(v) \/ FileFetched(v) \/ FetchFailed(v) \/ VerifyFinished(v)

Next ==
  \/ InitiateClaim \/ ResetClaim \/ RevokeClaim \/ ClaimLapses
  \/ \E v \in Requests : Verify(v)
  \/ \E t \in 0..issued : Publish(t)
  \/ \E S \in SUBSET Services : DeleteServices(S)
  \/ \E s \in Services :
       \/ AdminApprove(s) \/ AdminReject(s) \/ AdminRestore(s) \/ ApproveChange(s) \/ RowPurged(s)
       \/ \E fields \in SUBSET Columns : EditService(s, fields)
       \/ \E gateway \in BOOLEAN, priced \in BOOLEAN : Register(s, gateway, priced)
       \/ \E upstream \in {"bazaar", "mpp", "other"}, priced \in BOOLEAN : Poll(s, upstream, priced)
       \/ SweepStale(s) \/ Retire(s)
  \/ Restart

Spec == Init /\ [][Next]_vars

----------------------------------------------------------------------------
(* What holds *)

(* The claim is verified, and a row is approved in the domain's name, only
   once the domain has served the hash of a token issued for it. *)
DomainProven ==
  claim.status = "verified" \/ (\E s \in Services : row[s].reason = "domain") => shown # {}

(* A revoked or expired claim is never verified by a request that was in
   flight: it takes a new token first. *)
ClosedStaysClosed ==
  [][claim.status \in {"expired", "revoked"} =>
       claim'.status = claim.status \/ (claim'.status = "pending" /\ claim'.token > claim.token)]_vars

(* The texts an owner wrote (name, description, category) survive polls, sweeps,
   retirements, verifications, token resets, deletions, restorations and restarts,
   until the claim is revoked, somebody registers the row anew or a protocol change
   is approved over it.  Two things are not claimed, because the code does not keep
   them (EveryEditStands): the prices, which the upserts write on flagged rows too,
   and any column of a listing that a file describes, which every start writes. *)
OwnerEditStands == \A s \in Services \ exclusive : "text" \in kept[s] => "text" \in row[s].own

(* Inductively: a row its owner edited exists and carries the flag. *)
EditsAreFlagged == \A s \in Services : kept[s] # {} => Exists(s) /\ row[s].flagged

(* Inductively: the claim's token is the last one issued, a request carries a
   token that was issued, and a file that was fetched was served. *)
TokensIssued ==
  /\ claim.token = issued
  /\ claim.status # "none" => issued # 0
  /\ \A v \in Requests : req[v].at \in {"fetching", "reading"} => req[v].token # 0
  /\ \A v \in Requests : req[v].body # 0 => req[v].body \in shown

IInv == TypeOK /\ TokensIssued /\ DomainProven /\ EditsAreFlagged /\ OwnerEditStands

----------------------------------------------------------------------------
(* What the repository says and the code does not do *)

(* domain-verification-spec.md: the token fetched is the token of the claim. *)
VerifiedTokenServed == claim.status = "verified" => claim.token \in shown

Finishes(v) == req[v].at # "verified" /\ req'[v].at = "verified"

(* domain-verify.js: a request answered 'verified' has marked the claim. *)
VerifiedAnswerTrue == [][\A v \in Requests : Finishes(v) => claim'.status = "verified"]_vars

(* domain-verify.js: verification flags all services under the domain. *)
VerifyFlagsAll ==
  [][\A v \in Requests, s \in Services :
       Finishes(v) /\ row'[s].status = "active" => row'[s].flagged]_vars

(* domain-verify.js: after a revocation pollers may update the rows again. *)
RevokeFreesRows == claim.status = "revoked" => \A s \in Services : ~row[s].flagged

(* db.js: the flag domain_verified "protects provider edits from poller
   overwrite". *)
EveryEditStands == \A s \in Services : kept[s] \subseteq row[s].own

(* domain-verification.test.js: the Bazaar upsert does not resurrect a row
   its owner deleted. *)
UpsertKeepsDeleted ==
  [][\A s \in Services : row[s].deleted /\ Poll(s, "bazaar", TRUE) => row'[s].deleted]_vars
============================================================================
