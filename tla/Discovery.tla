----------------------------- MODULE Discovery -----------------------------
(* scripts/l402-discovery.js: for every L402 endpoint the index does not call
   healthy, a pool of workers looks for the request that is answered with a
   valid 402, in five stages and at most MAX_REQUESTS_PER_ENDPOINT requests, and
   the reports become UPDATE statements that an operator runs.

   An endpoint is what the index lists of it and what its host would answer:
     health, provider, host, url, method   the row (method Unset: none is stored)
     valid       the url can be parsed and is no .onion
     blocked     the host resolves to an address the script does not call
     parents     the parent paths of the url, longest first
     gates, half requests answered 402 with and without valid credentials
     page        the root has a page; links and hints are what it shows
     robots, sitemap                 API-like paths in either file
   A url is a path of its host.  Urls found in a JSON answer are not probed:
   walk leaves extractUrlsFromJson at every string.  A run with --url, which tries
   one url outside the index, is left out. *)
EXTENDS Integers, FiniteSets, FiniteSetsExt, SequencesExt

CONSTANTS
  Listing,          \* what the API answers: a sequence of endpoints
  Provider,         \* --provider, Unset without it
  Workers,          \* MAX_CONCURRENT of them
  MAX_REQUESTS_PER_ENDPOINT,
  WellKnownPaths, CommonPaths,
  MaxTimeouts,      \* bound: requests that get no answer
  Unset

IsList(s) == s \in Seq(ToSet(s))

ASSUME DiscoveryAssumption ==
  /\ IsList(Listing) /\ IsList(WellKnownPaths) /\ IsList(CommonPaths)
  /\ \A i \in DOMAIN Listing :
       \A s \in {Listing[i].parents, Listing[i].links, Listing[i].robots, Listing[i].sitemap} : IsList(s)
  /\ MAX_REQUESTS_PER_ENDPOINT \in Nat /\ MaxTimeouts \in Nat
  /\ Unset # {} /\ Unset \notin {"POST", "GET", "HEAD"}

VARIABLES
  items,            \* the places of the listing to look at; Unset before it is fetched
  index,            \* the last one taken
  job,              \* per worker: what it is looking at
  results,          \* the reports, by place
  script,           \* the statements still to be run; Unset before they are printed
  stored,           \* the rows, by place
  asked, missed     \* history: the requests of each item, and which got no answer

dcVars == <<items, index, job, results, script, stored, asked, missed>>

Listed == DOMAIN Listing
Idle == [item |-> 0]
NoReport == [status |-> "none"]
Row(url, method) == [url |-> url, method |-> method]

(* A page and the two files are read for what they name: an answer of 402 to
   these requests is not looked at. *)
Request(stage, url, method) == [stage |-> stage, url |-> url, method |-> method]
RootPage == Request("page", "/", "GET")
Robots == Request("file", "/robots.txt", "GET")
Sitemap == Request("file", "/sitemap.xml", "GET")
Document == {RootPage, Robots, Sitemap}

DCTypeOK ==
  /\ items = Unset \/ items \subseteq Listed
  /\ index \in 0 .. Len(Listing)
  /\ \A w \in Workers : job[w] # Idle =>
       /\ job[w].item \in 1..index /\ results[job[w].item] = NoReport
       /\ job[w].n \in 0..MAX_REQUESTS_PER_ENDPOINT
  /\ \A i \in Listed : results[i].status \in {"none", "found", "partial", "not_found"}

DCInit ==
  /\ items = Unset /\ index = 0 /\ job = [w \in Workers |-> Idle]
  /\ results = [i \in Listed |-> NoReport] /\ script = Unset
  /\ stored = [i \in Listed |-> Row(Listing[i].url, Listing[i].method)]
  /\ asked = [i \in Listed |-> <<>>] /\ missed = [i \in Listed |-> {}]

----------------------------------------------------------------------------
(* The stages *)

First(n, s) == SubSeq(s, 1, Min({n, Len(s)}))

(* A JavaScript Set: each once, in the order of the first occurrence. *)
Unique(s) ==
  LET firsts == {k \in DOMAIN s : \A j \in 1 .. k - 1 : s[j] # s[k]}
      nth(n) == CHOOSE k \in firsts : Cardinality({j \in firsts : j <= k}) = n
  IN [n \in 1 .. Cardinality(firsts) |-> s[nth(n)]]

PostThenGet(stage, urls) ==
  [k \in 1 .. 2 * Len(urls) |-> Request(stage, urls[(k + 1) \div 2], IF k % 2 = 1 THEN "POST" ELSE "GET")]

Direct(e) == <<Request("direct", e.url, "POST"), Request("direct", e.url, "GET"), Request("direct", e.url, "HEAD")>>
WellKnown == [k \in DOMAIN WellKnownPaths |-> Request("well known", WellKnownPaths[k], "GET")]
Linked(e) == PostThenGet("landing", First(10, Unique(e.links)))
Common(e) == PostThenGet("common", First(15, Unique(e.parents \o CommonPaths)))
Named(urls) == PostThenGet("robots", First(5, Unique(urls)))

(* What is requested before any answer is known. *)
Pipeline(e) == Direct(e) \o WellKnown \o <<RootPage>> \o Common(e) \o <<Robots, Sitemap>>

Is402(e, q) == <<q.url, q.method>> \in e.gates \union e.half
Gate(e, q) == q \notin Document /\ <<q.url, q.method>> \in e.gates

(* Bug: the links of the page are kept for the end. *)
LinksLast(e, q, page, named, rest) ==
  IF q = Sitemap THEN Named(named) ELSE IF q = RootPage /\ page THEN rest \o Linked(e) ELSE rest

(* What is left after a request: the links of a page that was read come at once,
   the paths of the two files after both have been asked for. *)
Continued(e, q, page, named, rest) ==
  IF q = Sitemap THEN Named(named) ELSE IF q = RootPage /\ page THEN Linked(e) \o rest ELSE rest

----------------------------------------------------------------------------
(* fetchEndpoints *)
Fetch ==
  /\ items = Unset
  /\ items' = {i \in Listed : Listing[i].health # "healthy" /\ Provider \in {Unset, Listing[i].provider}}
  /\ UNCHANGED <<index, job, results, script, stored, asked, missed>>

(* worker: index++, discoverEndpoint begins. *)
TakeEndpoint(w) ==
  /\ items # Unset /\ job[w] = Idle
  /\ \E i \in items :
       /\ i > index /\ \A k \in items : k > index => i <= k
       /\ index' = i
       /\ job' = [job EXCEPT ![w] =
                    [item |-> i, rest |-> IF Listing[i].valid THEN Pipeline(Listing[i]) ELSE <<>>,
                     n |-> 0, named |-> <<>>, hints |-> FALSE, got402 |-> FALSE, found |-> {}]]
  /\ UNCHANGED <<items, results, script, stored, asked, missed>>

MayAsk(w) == job[w].n < MAX_REQUESTS_PER_ENDPOINT /\ ~Listing[job[w].item].blocked

Busy(w) == job[w] # Idle /\ job[w].rest # <<>> /\ job[w].found = {}

(* probeUrl returns null: the budget is spent or the host is blocked. *)
SkipProbe(w) ==
  /\ Busy(w) /\ ~MayAsk(w)
  /\ LET j == job[w]
     IN job' = [job EXCEPT ![w].rest = Continued(Listing[j.item], Head(j.rest), FALSE, j.named, Tail(j.rest))]
  /\ UNCHANGED <<items, index, results, script, stored, asked, missed>>

(* The request runs into its timeout or the connection fails. *)
TimesOut(w) ==
  /\ Busy(w) /\ MayAsk(w)
  /\ MapThenSumSet(LAMBDA i : Cardinality(missed[i]), Listed) < MaxTimeouts
  /\ LET j == job[w]  q == Head(j.rest)
     IN /\ job' = [job EXCEPT ![w].n = @ + 1,
                              ![w].rest = Continued(Listing[j.item], q, FALSE, j.named, Tail(j.rest))]
        /\ asked' = [asked EXCEPT ![j.item] = Append(@, q)]
        /\ missed' = [missed EXCEPT ![j.item] = @ \union {j.n + 1}]
  /\ UNCHANGED <<items, index, results, script, stored>>

Answered(w) ==
  /\ Busy(w) /\ MayAsk(w)
  /\ LET j == job[w]  q == Head(j.rest)  e == Listing[j.item]
         body == ~Is402(e, q)
         page == q = RootPage /\ body /\ e.page
         named == j.named \o (IF q = Robots /\ body THEN e.robots ELSE IF q = Sitemap /\ body THEN e.sitemap ELSE <<>>)
     IN /\ job' = [job EXCEPT ![w] =
                     [j EXCEPT !.n = @ + 1, !.named = named,
                               !.rest = Continued(e, q, page, named, Tail(@)),
                               !.hints = @ \/ (page /\ e.hints) \/ named # <<>>,
                               !.got402 = @ \/ (q # RootPage /\ Is402(e, q)),
                               !.found = IF Gate(e, q) THEN {q} ELSE {}]]
        /\ asked' = [asked EXCEPT ![j.item] = Append(@, q)]
  /\ UNCHANGED <<items, index, results, script, stored, missed>>

(* suggestedUpdate: the url and the method when they are new. *)
MethodOf(row) == IF row.method = Unset THEN "GET" ELSE row.method
Suggestion(e, found) ==
  [url |-> {q.url : q \in found} \ {e.url}, method |-> {q.method : q \in found} \ {MethodOf(e)}]

Report(e, j) ==
  [update |-> Suggestion(e, j.found), review |-> j.found = {} /\ j.hints /\ j.got402,
   status |-> IF j.found # {} THEN "found" ELSE IF j.hints THEN "partial" ELSE "not_found"]

Finish(w) ==
  /\ job[w] # Idle /\ ~Busy(w)
  /\ results' = [results EXCEPT ![job[w].item] = Report(Listing[job[w].item], job[w])]
  /\ job' = [job EXCEPT ![w] = Idle]
  /\ UNCHANGED <<items, index, script, stored, asked, missed>>

----------------------------------------------------------------------------
(* generateSummary prints the statements: those that change a url, then those
   that change a method, so that one that changes both is there twice. *)
Updates ==
  {s \in [pass : {1, 2}, item : items] :
     LET new == results[s.item].update IN IF s.pass = 1 THEN new.url # {} ELSE new.method # {}}

RunsBefore(s, t) == s.pass < t.pass \/ (s.pass = t.pass /\ s.item < t.item)

PrintUpdates ==
  /\ script = Unset /\ items # Unset /\ \A i \in items : results[i] # NoReport
  /\ script' = Updates
  /\ UNCHANGED <<items, index, job, results, stored, asked, missed>>

(* What a statement makes of its row. *)
OneOf(new, old) == IF new = {} THEN old ELSE CHOOSE x \in new : TRUE
Updated(i) ==
  LET new == results[i].update
  IN Row(OneOf(new.url, stored[i].url), OneOf(new.method, stored[i].method))

(* The index on url and protocol of db.js: no two rows of a host have one url. *)
Collides(i, url) ==
  \E k \in Listed \ {i} : Listing[k].host = Listing[i].host /\ stored[k].url = url

(* The operator runs the statements one by one; the database refuses some. *)
RunStatement ==
  /\ script # Unset
  /\ \E s \in script :
       /\ \A t \in script \ {s} : RunsBefore(s, t)
       /\ script' = script \ {s}
       /\ stored' = IF Collides(s.item, Updated(s.item).url) THEN stored
                    ELSE [stored EXCEPT ![s.item] = Updated(s.item)]
  /\ UNCHANGED <<items, index, job, results, asked, missed>>

----------------------------------------------------------------------------
DCNext ==
  \/ Fetch
  \/ \E w \in Workers : TakeEndpoint(w) \/ SkipProbe(w) \/ TimesOut(w) \/ Answered(w) \/ Finish(w)
  \/ PrintUpdates \/ RunStatement

DCSpec == DCInit /\ [][DCNext]_dcVars

----------------------------------------------------------------------------
(* What holds *)

(* A request of an item that was answered, and not with 402. *)
WasRead(i, q) ==
  /\ \E k \in DOMAIN asked[i] \ missed[i] : asked[i][k] = q
  /\ ~Is402(Listing[i], q)

(* The requests of the five stages in their order, with the links of a page
   that was read and the paths of the files that were read. *)
LinksOf(i) == IF Listing[i].page /\ WasRead(i, RootPage) THEN Linked(Listing[i]) ELSE <<>>
NamesOf(i) ==
  (IF WasRead(i, Robots) THEN Listing[i].robots ELSE <<>>) \o (IF WasRead(i, Sitemap) THEN Listing[i].sitemap ELSE <<>>)
Offered(i) ==
  LET e == Listing[i]
  IN Direct(e) \o WellKnown \o <<RootPage>> \o LinksOf(i) \o Common(e) \o <<Robots, Sitemap>> \o Named(NamesOf(i))

(* The first of them to get a valid 402 within the budget, if any does. *)
FirstGate(i) ==
  LET e == Listing[i]
      within == IF i \in items /\ e.valid /\ ~e.blocked
                THEN 1 .. Min({MAX_REQUESTS_PER_ENDPOINT, Len(Offered(i))}) ELSE {}
      open == {k \in within : Gate(e, Offered(i)[k]) /\ k \notin missed[i]}
  IN {Offered(i)[k] : k \in {m \in open : \A l \in open : m <= l}}

(* Another row of the host has the url, or is about to get it. *)
Wanted(i, url) ==
  \E k \in Listed \ {i} :
    /\ Listing[k].host = Listing[i].host
    /\ url = Listing[k].url \/ \E q \in FirstGate(k) : url = q.url

(* The statements store, for every endpoint, the first request of the five
   stages that got a valid 402 within the budget, unless another row of the host
   stands in the way, and change nothing else: whatever the workers take in
   between, whichever answers are lost and however many paths a page or a file
   adds. *)
DiscoveryFixes ==
  script = {} =>
    \A i \in Listed :
      \/ \E q \in FirstGate(i) : stored[i].url = q.url /\ MethodOf(stored[i]) = q.method
      \/ /\ stored[i] = Row(Listing[i].url, Listing[i].method)
         /\ \A q \in FirstGate(i) : Wanted(i, q.url)

----------------------------------------------------------------------------
(* What the repository says and the code does not do *)

(* docs/L402-DISCOVERY-SCRIPT-SPEC.md, stage 5: "Run Stage 1 probes on any
   discovered paths (limit: 5)".  The first four stages leave at most one
   request of the budget for it. *)
RobotsPathsProbed ==
  \A i \in Listed :
    results[i].status \in {"partial", "not_found"} /\ WasRead(i, Robots) =>
      ToSet(Named(Listing[i].robots)) \subseteq ToSet(asked[i])

(* The same document: "Suggested DB updates: X (auto-applicable with --apply
   flag)".  Two rows of one host can be given one url, which the database
   refuses to store twice. *)
UpdatesApply ==
  script = {} => \A i \in Listed : \A q \in FirstGate(i) : stored[i].url = q.url
============================================================================
