---------------------------- MODULE VectorIndex ----------------------------
(* The vectors of the services and the search that reads them: embedding a
   service behind a semaphore with a bounded queue (embeddings.js), the backfill
   script that works from a snapshot while the server runs
   (scripts/backfill-embeddings.mjs), the two ways a row is removed for good
   (db.js, admin.js), and the hybrid search that joins the rows that match the
   text with the nearest vectors, with an await in between
   (src/src/queries/services.js).  Rows and vectors are shared by the two
   processes and survive a crash; the slots and the search do not. *)
EXTENDS Naturals, FiniteSets, Sequences, SequencesExt

CONSTANTS
  Ids,           \* service ids
  Lit,            \* rows whose name, description or URL contains the query
  MAX_CONCURRENT, \* embeddings calls out at once
  MAX_PENDING,    \* callers that may wait for a slot
  K,              \* nearest vectors a search asks for
  LikeCap         \* rows the text query fetches at most

ASSUME VectorIndexAssumption ==
  /\ IsFiniteSet(Ids) /\ Lit \subseteq Ids
  /\ MAX_CONCURRENT \in Nat \ {0} /\ MAX_PENDING \in Nat
  /\ K \in Nat \ {0} /\ LikeCap \in Nat \ {0}

VARIABLES
  svc,      \* per id: not inserted yet, listed, hidden (soft-deleted or not
            \* approved), or gone for good: an id is never used again
  vec,      \* rows with a vector in vec_service_embeddings
  job,      \* per row, its generateEmbedding: none, waiting, calling, or
            \* missing when the slot came and the row was gone
  pending,  \* callers waiting for a slot, oldest first
  inflight, \* the semaphore's count
  script,   \* the backfill: off, or the rows of its snapshot still to embed
  search    \* the search under way: off, or the page it has and what it awaits

viVars == <<svc, vec, job, pending, inflight, script, search>>

Off == [at |-> "off"]
Listed == {r \in Ids : svc[r] = "listed"}
Exists(r) == svc[r] \in {"listed", "hidden"}
Orphans == {r \in vec : ~Exists(r)}

VITypeOK ==
  /\ svc \in [Ids -> {"new", "listed", "hidden", "gone"}]
  /\ vec \subseteq Ids
  /\ job \in [Ids -> {"none", "waiting", "calling", "missing"}]
  /\ pending \in Seq(Ids) /\ Len(pending) <= MAX_PENDING
  /\ inflight \in 0..MAX_CONCURRENT
  /\ script \in {Off} \cup [at : {"embedding"}, todo : SUBSET Ids]
  /\ search.at \in {"off", "embedding", "shown"}

VIInit ==
  /\ svc \in [Ids -> {"new", "listed"}] /\ vec = {}   \* rows older than the index
  /\ job = [r \in Ids |-> "none"] /\ pending = <<>> /\ inflight = 0
  /\ script = Off /\ search = Off

(* What a search has read before its await may now be stale. *)
Disturbed ==
  search' = IF search.at = "embedding" THEN [search EXCEPT !.quiet = FALSE] ELSE Off

----------------------------------------------------------------------------
(* The semaphore: a caller with a slot, in the queue, or turned away. *)

AcquireSlot(r) ==
  \/ /\ inflight < MAX_CONCURRENT
     /\ inflight' = inflight + 1
     /\ job' = [job EXCEPT ![r] = "calling"]
     /\ UNCHANGED pending
  \/ /\ inflight >= MAX_CONCURRENT /\ Len(pending) < MAX_PENDING
     /\ pending' = Append(pending, r)
     /\ job' = [job EXCEPT ![r] = "waiting"]
     /\ UNCHANGED inflight
  \/ /\ inflight >= MAX_CONCURRENT /\ Len(pending) >= MAX_PENDING
     /\ UNCHANGED <<pending, job, inflight>>

(* The slot is handed over and given back too. *)
HandedAndFreed(r) ==
  /\ inflight' = inflight - 1
  /\ IF pending # <<>>
     THEN /\ pending' = Tail(pending)
          /\ job' = [job EXCEPT ![r] = "none", ![Head(pending)] = "calling"]
     ELSE /\ job' = [job EXCEPT ![r] = "none"]
          /\ UNCHANGED pending

(* The slot goes to the oldest waiter; only with nobody waiting is it free. *)
ReleaseSlot(r) ==
  IF pending # <<>>
  THEN /\ pending' = Tail(pending)
       /\ job' = [job EXCEPT ![r] = "none", ![Head(pending)] =
                    IF Exists(Head(pending)) THEN "calling" ELSE "missing"]
       /\ UNCHANGED inflight
  ELSE /\ inflight' = inflight - 1
       /\ job' = [job EXCEPT ![r] = "none"]
       /\ UNCHANGED pending

----------------------------------------------------------------------------
(* Rows come and go *)

(* A new row, of a registration, a catalog or an approved change: the insert,
   then generateEmbedding that nobody awaits. *)
Insert(r) ==
  /\ svc[r] = "new"
  /\ svc' = [svc EXCEPT ![r] = "listed"]
  /\ AcquireSlot(r)
  /\ Disturbed /\ UNCHANGED <<vec, script>>

Hide(r) ==
  /\ svc[r] = "listed"
  /\ svc' = [svc EXCEPT ![r] = "hidden"]
  /\ Disturbed /\ UNCHANGED <<vec, job, pending, inflight, script>>

Restore(r) ==
  /\ svc[r] = "hidden"
  /\ svc' = [svc EXCEPT ![r] = "listed"]
  /\ Disturbed /\ UNCHANGED <<vec, job, pending, inflight, script>>

(* The hourly purge takes the old hidden rows and their vectors. *)
PurgeSoftDeleted(doomed) ==
  /\ doomed # {} /\ \A r \in doomed : svc[r] = "hidden"
  /\ svc' = [r \in Ids |-> IF r \in doomed THEN "gone" ELSE svc[r]]
  /\ vec' = vec \ doomed
  /\ Disturbed /\ UNCHANGED <<job, pending, inflight, script>>

(* The operator's delete takes the row and its checks, not the vector. *)
AdminDelete(r) ==
  /\ Exists(r)
  /\ svc' = [svc EXCEPT ![r] = "gone"]
  /\ Disturbed /\ UNCHANGED <<vec, job, pending, inflight, script>>

----------------------------------------------------------------------------
(* Embedding *)

(* generateEmbedding after its await: a row that was gone when the slot came is
   left alone; one that goes while the call is out still gets its vector. *)
EmbeddingStored(r) ==
  /\ job[r] = "calling"
  /\ vec' = vec \cup {r}
  /\ ReleaseSlot(r)
  /\ Disturbed /\ UNCHANGED <<svc, script>>

(* No such row, an error of the service, or its 10 s. *)
EmbeddingSkipped(r) ==
  /\ job[r] \in {"calling", "missing"}
  /\ ReleaseSlot(r)
  /\ UNCHANGED <<svc, vec, script, search>>

(* The script reads the rows without a vector once, all of them with --force. *)
BackfillStarts(force) ==
  /\ script.at = "off"
  /\ script' = [at |-> "embedding",
                todo |-> {r \in Ids : Exists(r) /\ (force \/ r \notin vec)}]
  /\ UNCHANGED <<svc, vec, job, pending, inflight, search>>

(* One row of the snapshot, whether or not it is still in the table. *)
BackfillEmbeds(r, ok) ==
  /\ script.at = "embedding" /\ r \in script.todo
  /\ vec' = IF ok THEN vec \cup {r} ELSE vec
  /\ script' = [script EXCEPT !.todo = @ \ {r}]
  /\ Disturbed /\ UNCHANGED <<svc, job, pending, inflight>>

BackfillEnds ==
  /\ script.at = "embedding" /\ script.todo = {}
  /\ vec' = vec \ Orphans
  /\ script' = Off
  /\ Disturbed /\ UNCHANGED <<svc, job, pending, inflight>>

(* The server or the script dies: the files stay. *)
ServerDies ==
  /\ job' = [r \in Ids |-> "none"] /\ pending' = <<>> /\ inflight' = 0
  /\ search' = Off
  /\ UNCHANGED <<svc, vec, script>>

BackfillKilled ==
  /\ script.at = "embedding" /\ script' = Off
  /\ UNCHANGED <<svc, vec, job, pending, inflight, search>>

----------------------------------------------------------------------------
(* The search *)

Matching == Listed \cap Lit

(* The page is fetched before the await: at most LikeCap of the matches. *)
SearchStarts(page) ==
  /\ search.at # "embedding"
  /\ page \subseteq Matching
  /\ Cardinality(page) =
       IF Cardinality(Matching) < LikeCap THEN Cardinality(Matching) ELSE LikeCap
  /\ search' = [at |-> "embedding", page |-> page, quiet |-> TRUE]
  /\ UNCHANGED <<svc, vec, job, pending, inflight, script>>

(* The matches beyond the page are counted twice. *)
MatchesTwice(near, page) == (near \ page) \cap Listed

(* Of the nearest vectors not on the page, the rows that are listed now and do
   not match the text: a match beyond LikeCap is in the count already. *)
SemanticOnly(near, page) == (near \ page) \cap (Listed \ Lit)

ShownTotal(near, page) ==
  Cardinality(Matching) + Cardinality(SemanticOnly(near, page))

(* The vector of the query is there: the K nearest, orphans among them. *)
SearchEnds(near) ==
  /\ search.at = "embedding" /\ vec # {}
  /\ near \subseteq vec
  /\ Cardinality(near) = IF Cardinality(vec) < K THEN Cardinality(vec) ELSE K
  /\ search' = [at |-> "shown", page |-> search.page, near |-> near,
                quiet |-> search.quiet,
                candidates |-> search.page \cup SemanticOnly(near, search.page),
                total |-> ShownTotal(near, search.page)]
  /\ UNCHANGED <<svc, vec, job, pending, inflight, script>>

(* No vector for the query, or an empty index: the text matches alone. *)
SearchDegrades ==
  /\ search.at = "embedding"
  /\ search' = [at |-> "shown", page |-> search.page, near |-> {},
                quiet |-> search.quiet, candidates |-> search.page,
                total |-> Cardinality(Matching)]
  /\ UNCHANGED <<svc, vec, job, pending, inflight, script>>

VINext ==
  \/ \E r \in Ids :
       \/ Insert(r) \/ Hide(r) \/ Restore(r) \/ AdminDelete(r)
       \/ EmbeddingStored(r) \/ EmbeddingSkipped(r)
       \/ \E ok \in BOOLEAN : BackfillEmbeds(r, ok)
  \/ \E doomed \in SUBSET Ids : PurgeSoftDeleted(doomed)
  \/ \E force \in BOOLEAN : BackfillStarts(force)
  \/ BackfillEnds \/ ServerDies \/ BackfillKilled
  \/ \E page \in SUBSET Matching : SearchStarts(page)
  \/ \E near \in SUBSET vec : SearchEnds(near)
  \/ SearchDegrades

VISpec == VIInit /\ [][VINext]_viVars

----------------------------------------------------------------------------
(* The semaphore's count is the number of calls out, never above the limit, and
   a slot is never free while somebody waits: a slot handed over is neither
   lost nor counted twice, whatever ends a call and after a crash. *)
SlotsCounted ==
  /\ inflight = Cardinality({r \in Ids : job[r] \in {"calling", "missing"}})
  /\ pending # <<>> => inflight = MAX_CONCURRENT
  /\ {r \in Ids : job[r] = "waiting"} = ToSet(pending)
  /\ IsInjective(pending)

(* A search during which nothing was written counts every listed row that
   matches or is near exactly once, whatever the cap on the matches it fetched
   and whatever orphans the index holds. *)
TotalCountsOnce ==
  search.at = "shown" /\ search.quiet =>
    search.total = Cardinality(Matching \cup (Listed \cap search.near))
============================================================================
