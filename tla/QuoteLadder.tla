---------------------------- MODULE QuoteLadder ----------------------------
(* From a capability to a firm quote and its payment: the pages of the live
   index, the candidates in order (quote.ts), the routes that are asked for a
   quote one after the other (prepareJob, routes/), and the adapter that pays
   the invoice once the human has agreed (settlement/).  While a job waits for
   an answer the index moves and other jobs mark pairs of a service and a route
   as degraded.  Router takes all of this as one choice.

   Amounts are sats, prices cents. *)
EXTENDS Integers, FiniteSets, Sequences, FiniteSetsExt, SequencesExt

CONSTANTS
  IndexRows,        \* what the index may list as healthy L402 services
  Compatible,       \* those with lnget_compatible = 1
  Proven,           \* config.provenFallbacks
  CatalogSats, Score, Latency,
  RouteOrder,       \* config.routeOrder, of "direct-l402" and "l402space"
  AdapterList,      \* the registry in order: [name, l402, minSats, movesRealFunds, onlyWhenPinned]
  Pinned,           \* the pinned adapter, or Nil
  Challenges,       \* what a 402 may say: [stated, invoice] in sats, either may be Nil
  PageSize, MAX_DEAD_CANDIDATES,
  MaxPrice, MIN_CHARGE, CentsPer1000,
  JobCap,           \* config.maxSatsPerJob
  DegradedAtStart,
  MaxMoves,         \* bound: changes of the index or of the degraded pairs
  Nil

ASSUME LadderAssumption ==
  /\ Compatible \union Proven \subseteq IndexRows /\ IsFiniteSet(IndexRows)
  /\ \A f \in {CatalogSats, Score, Latency} : f \in [IndexRows -> Nat]
  /\ RouteOrder \in Seq({"direct-l402", "l402space"})
  /\ {PageSize, MAX_DEAD_CANDIDATES} \subseteq Nat \ {0}
  /\ Challenges \subseteq [stated : Nat \union {Nil}, invoice : Nat \union {Nil}] /\ JobCap \in Nat
  /\ Nil \notin Int

VARIABLES
  listing,          \* what the index lists now, in its order
  degraded,         \* degraded_candidates: [row, route], route "*" for all
  phase,
  rows,             \* read so far
  ladder,           \* the rungs still to be asked
  quote,            \* what prepareJob returned
  outflow,          \* sats of the invoice the wallet has paid for it, without the fee of its swap
  known, refused,   \* history: rows and degraded pairs as they were read, pairs that were turned down
  moves

qlaVars == <<listing, degraded, phase, rows, ladder, quote, outflow, known, refused, moves>>

Pair(k, r) == [row |-> k, route |-> r]
Pairs == {Pair(k, r) : k \in IndexRows, r \in ToSet(RouteOrder)}

(* A rung of the ladder is a place in the rows that were read and a place in
   the order of the routes. *)
Rung(n, m) == [at |-> n, route |-> m]
PairOf(read, r) == Pair(read[r.at], RouteOrder[r.route])

QLATypeOK ==
  /\ ToSet(listing) \subseteq IndexRows /\ ToSet(rows) \subseteq IndexRows
  /\ phase \in {"reading", "asking", "prepared", "paid", "failed", "refused"}
  /\ ladder \subseteq [at : DOMAIN rows, route : DOMAIN RouteOrder] /\ refused \subseteq Pairs
  /\ (quote # Nil) = (phase \in {"prepared", "paid", "failed"})
  /\ outflow \in Nat

QLAInit ==
  /\ listing = SetToSeq(IndexRows)
  /\ degraded \in SUBSET DegradedAtStart
  /\ phase = "reading" /\ rows = <<>> /\ ladder = {} /\ quote = Nil /\ outflow = 0
  /\ known = Nil /\ refused = {} /\ moves = 0

----------------------------------------------------------------------------
(* fetchCandidates *)

RealFloors == {a.minSats : a \in {b \in ToSet(AdapterList) : b.movesRealFunds}}
BelowFloor(k) == RealFloors # {} /\ CatalogSats[k] < Min(RealFloors)

GoneEverywhere(k, bad) ==
  \/ Pair(k, "*") \in bad
  \/ \A r \in ToSet(RouteOrder) : Pair(k, r) \in bad

Candidate(k, bad) ==
  /\ k \in Compatible \union Proven
  /\ CatalogSats[k] * CentsPer1000 <= MaxPrice * 1000
  /\ ~GoneEverywhere(k, bad)
  /\ Score[k] > 0

Bit(b) == IF b THEN 1 ELSE 0
Rank(k) == <<Bit(k \in Proven), -Score[k], Bit(BelowFloor(k)), Latency[k]>>
Before(a, b) == \E n \in 1..4 : Rank(a)[n] < Rank(b)[n] /\ \A m \in 1 .. n - 1 : Rank(a)[m] = Rank(b)[m]

(* Bug: the candidates stay in the order of the index. *)
AsListed(read, m, n) == m < n

(* Which of two places comes first in a stable sort. *)
Precedes(read, m, n) == Before(read[m], read[n]) \/ (~Before(read[n], read[m]) /\ m < n)

(* The first few candidates, each with the routes it is not degraded on. *)
LadderOf(read, bad) ==
  LET candidates == {n \in DOMAIN read : Candidate(read[n], bad)}
      few == {n \in candidates : Cardinality({m \in candidates : Precedes(read, m, n)}) < MAX_DEAD_CANDIDATES}
  IN {r \in [at : few, route : DOMAIN RouteOrder] : PairOf(read, r) \notin bad}

Above(read, r, s) == Precedes(read, r.at, s.at) \/ (r.at = s.at /\ r.route < s.route)

(* One page at the offset of what has been read; the degraded pairs are read
   after the last one. *)
FetchPage ==
  /\ phase = "reading"
  /\ LET page == SubSeq(listing, Len(rows) + 1, Min({Len(listing), Len(rows) + PageSize}))
         read == rows \o page
     IN /\ rows' = read
        /\ IF Len(page) = PageSize THEN UNCHANGED <<phase, ladder, known>>
           ELSE /\ known' = [rows |-> ToSet(read), degraded |-> degraded]
                /\ ladder' = LadderOf(read, degraded)
                /\ phase' = IF \E k \in ToSet(read) : Candidate(k, degraded) THEN "asking" ELSE "refused"
  /\ UNCHANGED <<listing, degraded, quote, outflow, refused, moves>>

FetchFails ==
  /\ phase = "reading" /\ phase' = "refused"
  /\ UNCHANGED <<listing, degraded, rows, ladder, quote, outflow, known, refused, moves>>

----------------------------------------------------------------------------
(* The quote of a route: the sats it asks for, Nil when it throws.  The direct
   route decodes the invoice and believes the body if that states an amount;
   the gateway's body must state one, its invoice is not looked at. *)
DirectQuote(c) == IF c.invoice = Nil THEN Nil ELSE IF c.stated = Nil THEN c.invoice ELSE c.stated
GatewayQuote(c) == c.stated
Firm(route, c) == IF route = "direct-l402" THEN DirectQuote(c) ELSE GatewayQuote(c)

(* registry.select: of the adapters that can pay the amount, the pinned one,
   one that moves real funds, or the first. *)
SelectAdapter(sats) ==
  LET able == SelectSeq(AdapterList, LAMBDA a :
                a.l402 /\ sats >= a.minSats /\ (a.onlyWhenPinned => Pinned = a.name))
      real == SelectSeq(able, LAMBDA a : a.movesRealFunds)
      pinned == SelectSeq(able, LAMBDA a : a.name = Pinned)
  IN IF pinned # <<>> THEN pinned[1] ELSE IF real # <<>> THEN real[1]
     ELSE IF able # <<>> THEN able[1] ELSE Nil

Cents(sats) == (2 * sats * CentsPer1000 + 1000) \div 2000
Charge(sats) == Max({Cents(sats), MIN_CHARGE})

Payable(sats) ==
  /\ sats # Nil
  /\ SelectAdapter(sats) # Nil /\ (SelectAdapter(sats).movesRealFunds \/ Pinned = "mock")
  /\ Charge(sats) <= MaxPrice

NextRung(r) ==
  /\ refused' = refused \union {PairOf(rows, r)}
  /\ ladder' = ladder \ {r}
  /\ phase' = IF ladder' = {} THEN "refused" ELSE "asking"
  /\ UNCHANGED quote

(* A quote over the cap of a job ends the call, whatever comes below it. *)
AskRoute ==
  /\ phase = "asking"
  /\ \E r \in ladder :
       /\ \A s \in ladder : ~Above(rows, s, r)
       /\ \/ NextRung(r)   \* no 402, or one that cannot be read
          \/ \E c \in Challenges :
               LET sats == Firm(PairOf(rows, r).route, c)
               IN IF ~Payable(sats) THEN NextRung(r)
                  ELSE /\ UNCHANGED <<ladder, refused>>
                       /\ IF sats > JobCap THEN phase' = "refused" /\ UNCHANGED quote
                          ELSE /\ phase' = "prepared"
                               /\ quote' = [pair |-> PairOf(rows, r), sats |-> sats, invoice |-> c.invoice]
  /\ UNCHANGED <<listing, degraded, rows, outflow, known, moves>>

----------------------------------------------------------------------------
(* payBolt11 of both wallets: the amount is read from the invoice. *)
WithinLimits(adapter, invoice) == invoice # Nil /\ invoice >= adapter.minSats /\ invoice <= JobCap

(* The wallet pays and proves it, pays without a proof the router can use, or
   does not pay; the test double pays nothing. *)
PayJob ==
  /\ phase = "prepared"
  /\ LET adapter == SelectAdapter(quote.sats)
     IN IF ~adapter.movesRealFunds THEN phase' = "paid" /\ UNCHANGED outflow
        ELSE \/ WithinLimits(adapter, quote.invoice) /\ outflow' = quote.invoice /\ phase' \in {"paid", "failed"}
             \/ phase' = "failed" /\ UNCHANGED outflow
  /\ UNCHANGED <<listing, degraded, rows, ladder, quote, known, refused, moves>>

----------------------------------------------------------------------------
(* Meanwhile *)
Moved == phase \in {"reading", "asking"} /\ moves < MaxMoves /\ moves' = moves + 1

(* A row stops being healthy, or becomes so again in front of the others. *)
IndexMoves ==
  /\ Moved
  /\ \/ \E n \in DOMAIN listing : listing' = RemoveAt(listing, n)
     \/ \E k \in IndexRows \ ToSet(listing) : listing' = <<k>> \o listing
  /\ UNCHANGED <<degraded, phase, rows, ladder, quote, outflow, known, refused>>

(* Another job's redemption failed. *)
AnotherDegrades ==
  /\ Moved
  /\ \E p \in Pairs : degraded' = degraded \union {p}
  /\ UNCHANGED <<listing, phase, rows, ladder, quote, outflow, known, refused>>

QLANext == FetchPage \/ FetchFails \/ AskRoute \/ PayJob \/ IndexMoves \/ AnotherDegrades

QLASpec == QLAInit /\ [][QLANext]_qlaVars

----------------------------------------------------------------------------
(* What holds *)

(* The job that is prepared is on a pair that was offered and not degraded when
   the ladder was made, at a price the budget allows, through an adapter that
   moves real funds unless the mock is pinned; and every pair of a better
   candidate, or of the same one on an earlier route, had been turned down,
   although the index moved and rows were read twice. *)
PreparedIsBest ==
  quote # Nil =>
    LET p == quote.pair
        offered(q) == q.row \in known.rows /\ Candidate(q.row, known.degraded) /\ q \notin known.degraded
        earlier(q) == q.row = p.row /\ \E i \in DOMAIN RouteOrder :
                        RouteOrder[i] = q.route /\ \A j \in 1..i : RouteOrder[j] # p.route
    IN /\ offered(p) /\ Payable(quote.sats) /\ quote.sats <= JobCap
       /\ \A q \in Pairs : offered(q) /\ (Before(q.row, p.row) \/ earlier(q)) => q \in refused

----------------------------------------------------------------------------
(* What the repository says and the code does not do *)

(* quote.ts: "you never pay more than it states".  The wallet is given the cap
   of a job as its limit and not the quote (invoke.ts), so an invoice over more
   than the body states is paid in full. *)
NeverPaysMore == outflow > 0 => outflow <= quote.sats
=============================================================================
