-------------------------- MODULE Requests_proofs ---------------------------
(* What a request is promised: the live probe, the paywall and its rate limits,
   the claim of a domain and the quote of the router.  Four components that
   share nothing, one invariant each, and their composition in MCRequests. *)
EXTENDS MCRequests, SequenceTheorems, FiniteSetTheorems, TLAPS

----------------------------------------------------------------------------
(* The report of a live probe judges an answer its host gave to a probe that
   began less than CACHE_TTL before the call, for any number of calls, hosts and
   visitors.  The invariant says where an entry of the cache comes from. *)

Entry(a) == [result |-> a.result, timestamp |-> a.began]

CallTypes ==
  call \in [Calls -> {Unknown} \cup
    [url : ProbeUrls, stage : {"probing", "reported"}, since : Nat,
     report : {Unknown, "error", "healthy", "degraded", "down"}]]

(* What is in the cache for a host was once an answer of that host. *)
CacheIsOfHost ==
  /\ entry \in [Hosts -> {Unknown} \cup {Entry(a) : a \in seen}]
  /\ \A h \in Hosts : entry[h] # Unknown => \E a \in seen : a.host = h /\ entry[h] = Entry(a)

LPInv == time \in Nat /\ CallTypes /\ CacheIsOfHost /\ ReportIsFresh

LEMMA ReportIsJudgement ==
  ASSUME NEW u, NEW result
  PROVE  Report402(u, result) \in {"error", "healthy", "degraded", "down"}
BY DEF Report402

LEMMA HostOfUrl == \A u \in ProbeUrls : HostName[u] \in Hosts
BY DEF Hosts

LEMMA LPInitInv == LPInit => LPInv
BY DEF LPInit, LPInv, CallTypes, CacheIsOfHost, ReportIsFresh

(* A call is answered from the cache, or begins a probe. *)
LEMMA AskLiveInv ==
  ASSUME LPInv, NEW k \in Calls, AskLive(k)
  PROVE  LPInv'
<1>1. PICK v \in Visitors, u \in ProbeUrls :
        IF Cached(HostName[u])
        THEN /\ call' = [call EXCEPT ![k] = [url |-> u, stage |-> "reported", since |-> time,
                                             report |-> Report402(u, entry[HostName[u]].result)]]
             /\ UNCHANGED entry
        ELSE /\ call' = [call EXCEPT ![k] = [url |-> u, stage |-> "probing", since |-> time, report |-> Unknown]]
             /\ entry' = Cleaned
  BY DEF AskLive
<1>2. time' = time /\ seen' = seen
  BY DEF AskLive
<1> DEFINE h == HostName[u]
<1>3. h \in Hosts
  BY HostOfUrl
<1>4. CASE Cached(h)
  <2>1. /\ call' = [call EXCEPT ![k] = [url |-> u, stage |-> "reported", since |-> time,
                                        report |-> Report402(u, entry[h].result)]]
        /\ entry' = entry
    BY <1>1, <1>4
  <2>2. CallTypes'
    BY <2>1, ReportIsJudgement DEF LPInv, CallTypes
  <2>3. CacheIsOfHost'
    BY <2>1, <1>2 DEF LPInv, CacheIsOfHost
  <2>4. PICK a \in seen : a.host = h /\ entry[h] = Entry(a)
    BY <1>3, <1>4 DEF LPInv, CacheIsOfHost, Cached
  <2>5. time - a.began < CACHE_TTL /\ entry[h].result = a.result
    BY <2>4, <1>4 DEF Entry, Cached
  <2>6. ReportIsFresh'
    BY <2>1, <2>4, <2>5, <1>2 DEF LPInv, CallTypes, ReportIsFresh
  <2>. QED BY <2>2, <2>3, <2>6, <1>2 DEF LPInv
<1>5. CASE ~Cached(h)
  <2>1. /\ call' = [call EXCEPT ![k] = [url |-> u, stage |-> "probing", since |-> time, report |-> Unknown]]
        /\ entry' = Cleaned
    BY <1>1, <1>5
  <2>2. CallTypes'
    BY <2>1 DEF LPInv, CallTypes
  <2>3. /\ DOMAIN entry' = Hosts
        /\ \A g \in Hosts : entry'[g] = Unknown \/ entry'[g] = entry[g]
        /\ entry' \in [Hosts -> {Unknown} \cup {Entry(a) : a \in seen}]
    BY <2>1 DEF Cleaned, LPInv, CacheIsOfHost
  <2>4. CacheIsOfHost'
    BY <2>3, <1>2 DEF LPInv, CacheIsOfHost
  <2>5. ReportIsFresh'
    BY <2>1, <1>2 DEF LPInv, CallTypes, ReportIsFresh
  <2>. QED BY <2>2, <2>4, <2>5, <1>2 DEF LPInv
<1>. QED BY <1>4, <1>5

(* The entry is of the call that probed, and so is its answer. *)
LEMMA ProbeOverInv ==
  ASSUME LPInv, NEW k \in Calls, ProbeOver(k)
  PROVE  LPInv'
<1>1. PICK reply \in Replies \union {Nothing}, second \in Replies \union {Nothing} :
        LET u == call[k].url  result == Probed(u, reply, second)
        IN /\ entry' = [entry EXCEPT ![HostName[u]] = [result |-> result, timestamp |-> Stamp(k)]]
           /\ call' = [call EXCEPT ![k].stage = "reported", ![k].report = Report402(u, result)]
           /\ seen' = seen \union {[host |-> HostName[u], url |-> u, result |-> result,
                                    began |-> call[k].since, ended |-> time]}
  BY DEF ProbeOver
<1> DEFINE u == call[k].url
           result == Probed(u, reply, second)
           b == [host |-> HostName[u], url |-> u, result |-> result, began |-> call[k].since, ended |-> time]
<1>2. call[k] # Unknown /\ time' = time
  BY DEF ProbeOver
<1>3. u \in ProbeUrls /\ HostName[u] \in Hosts /\ call[k].since \in Nat
  BY <1>2, HostOfUrl DEF LPInv, CallTypes
<1>4. /\ entry' = [entry EXCEPT ![HostName[u]] = Entry(b)]
      /\ call' = [call EXCEPT ![k].stage = "reported", ![k].report = Report402(u, result)]
      /\ seen' = seen \union {b}
  BY <1>1 DEF Entry, Stamp
<1> HIDE DEF result
<1>5. b.host = HostName[u] /\ b.began = call[k].since /\ b.result = result
  OBVIOUS
<1> HIDE DEF b
<1>6. CallTypes'
  BY ZenonT(40), <1>2, <1>4, ReportIsJudgement DEF LPInv, CallTypes
<1>7. CacheIsOfHost'
  <2>1. entry' \in [Hosts -> {Unknown} \cup {Entry(a) : a \in seen'}]
    BY <1>4 DEF LPInv, CacheIsOfHost
  <2>2. ASSUME NEW g \in Hosts, entry'[g] # Unknown
        PROVE  \E a \in seen' : a.host = g /\ entry'[g] = Entry(a)
    BY <2>2, <1>3, <1>4, <1>5 DEF LPInv, CacheIsOfHost
  <2>. QED BY <2>1, <2>2 DEF CacheIsOfHost
<1>8. call'[k].since - b.began < CACHE_TTL /\ call'[k].url = u /\ call'[k].report = Report402(u, b.result)
  <2>1. call'[k].since = call[k].since /\ call'[k].url = u /\ call'[k].report = Report402(u, result)
    BY <1>2, <1>4 DEF LPInv, CallTypes
  <2>2. call[k].since - call[k].since < CACHE_TTL
    BY <1>3, LiveAssumption
  <2>. QED BY <2>1, <2>2, <1>5
<1>9. ReportIsFresh'
  <2>1. ASSUME NEW j \in Calls, j # k, call'[j] # Unknown, call'[j].stage = "reported"
        PROVE  \E a \in seen' : /\ a.host = HostName[call'[j].url]
                                /\ call'[j].since - a.began < CACHE_TTL
                                /\ call'[j].report = Report402(call'[j].url, a.result)
    <3>1. call'[j] = call[j]
      BY <2>1, <1>4 DEF LPInv, CallTypes
    <3>. QED BY <2>1, <3>1, <1>4 DEF LPInv, ReportIsFresh
  <2>. QED BY ZenonT(40), <2>1, <1>4, <1>5, <1>8 DEF ReportIsFresh
<1>. QED BY <1>2, <1>6, <1>7, <1>9 DEF LPInv

LEMMA LPNextInv == LPInv /\ [LPNext]_lpVars => LPInv'
<1> SUFFICES ASSUME LPInv, [LPNext]_lpVars PROVE LPInv'
  OBVIOUS
<1>1. ASSUME NEW k \in Calls, AskLive(k) PROVE LPInv'
  BY <1>1, AskLiveInv
<1>2. ASSUME NEW k \in Calls, ProbeOver(k) PROVE LPInv'
  BY <1>2, ProbeOverInv
<1>3. CASE TimePasses
  BY <1>3 DEF TimePasses, LPInv, CallTypes, CacheIsOfHost, ReportIsFresh
<1>4. CASE UNCHANGED lpVars
  BY <1>4 DEF lpVars, LPInv, CallTypes, CacheIsOfHost, ReportIsFresh
<1>. QED BY <1>1, <1>2, <1>3, <1>4 DEF LPNext

(* Every report of a live probe judges an answer of the right host that is less
   than the time to live old, however probes of a host overlap. *)
THEOREM ReportsAreFresh == LPSpec => []ReportIsFresh
<1>1. LPInv => ReportIsFresh
  BY DEF LPInv
<1>. QED BY LPInitInv, LPNextInv, <1>1, PTL DEF LPSpec

----------------------------------------------------------------------------
(* A deployment with a gateway answers truthfully, for any number of addresses
   and requests, any limits and windows.  The invariant relates the counter of a
   window to the requests that were counted in it. *)

(* The hits of a limiter since its window was opened. *)
InWindow(l, c) == {h \in hits[l][c] : h[2] >= window[l][c].until - WindowMs[l]}

(* The counter of a window counts requests, and no window is longer than it is. *)
CountsAreHits ==
  \A l \in Limiters, c \in Clients :
    /\ window[l][c].until <= now + WindowMs[l]
    /\ window[l][c].count <= Cardinality(InWindow(l, c))

(* A request that waits for its token was not counted yet. *)
HitsAreRequests ==
  /\ hits \in [Limiters -> [Clients -> SUBSET (Slots402 \X (0..MaxNow))]]
  /\ \A l \in Limiters, c \in Clients : \A h \in hits[l][c] :
       /\ h[2] <= now
       /\ request[h[1]] # Nobody /\ request[h[1]].stage # "verify"

(* Where a request is, and what it has by then. *)
StagesOK402 ==
  \A s \in Slots402 : request[s] # Nobody =>
    /\ request[s].stage # "answered" => request[s].answer = Nobody
    /\ request[s].answer = TooMany => request[s].by \in Limiters
    /\ request[s].stage = "verify" => request[s].token /\ ~request[s].verified
    /\ request[s].verified => request[s].token /\ paid[request[s].client] >= request[s].at

PWInv == PWTypeOK /\ CountsAreHits /\ HitsAreRequests /\ StagesOK402 /\ PaywallIsHonest

Truthful(r) == LimitedIsTrue(r) /\ ExportIsPaid(r) /\ DemandIsPayable(r)

----------------------------------------------------------------------------
(* The limiters *)

LEMMA CountingLimiters == ASSUME NEW r PROVE Counting(r) \subseteq Limiters /\ \A l \in Counting(r) : ~Skips(l, r)
<1>1. \A n \in 1..4 : Chain[n] \in Limiters
  BY DEF Chain, Limiters
<1>. QED BY <1>1 DEF Counting

(* The first limiter that refuses is the only one. *)
LEMMA OneRefuses ==
  ASSUME NEW r, NEW l \in Refusing(r), NEW k \in Refusing(r)
  PROVE  l = k
<1>1. PICK n \in 1..4 : l = Chain[n] /\ Reached(n, r)
  BY DEF Refusing, Counting
<1>2. PICK m \in 1..4 : k = Chain[m] /\ Reached(m, r)
  BY DEF Refusing, Counting
<1>3. Over(Chain[n], r) /\ Over(Chain[m], r)
  BY <1>1, <1>2 DEF Refusing
<1>4. ~(n < m)
  BY <1>2, <1>3 DEF Reached
<1>5. ~(m < n)
  BY <1>1, <1>3 DEF Reached
<1>. QED BY <1>1, <1>2, <1>4, <1>5

LEMMA HitsFinite ==
  ASSUME NEW H \in SUBSET (Slots402 \X (0..MaxNow))
  PROVE  IsFiniteSet(H)
<1>1. IsFiniteSet(Slots402) /\ IsFiniteSet(0..MaxNow)
  BY FS_Interval, PaywallAssumption DEF Slots402
<1>2. IsFiniteSet(Slots402 \X (0..MaxNow))
  BY <1>1, FS_Product
<1>. QED BY <1>2, FS_Subset

(* A larger set of hits has at least as many. *)
LEMMA MoreHits ==
  ASSUME NEW H \in SUBSET (Slots402 \X (0..MaxNow)), NEW G \in SUBSET H
  PROVE  Cardinality(G) \in Nat /\ Cardinality(H) \in Nat /\ Cardinality(G) <= Cardinality(H)
<1>1. IsFiniteSet(H)
  BY HitsFinite
<1>2. IsFiniteSet(G) /\ Cardinality(G) <= Cardinality(H)
  BY <1>1, FS_Subset
<1>. QED BY <1>1, <1>2, FS_CardinalityType

----------------------------------------------------------------------------
(* A request is counted *)

(* A request that is about to meet the limiters. *)
Arrives(s, r) ==
  /\ r \in Requests402 /\ r.stage = "verify" /\ r.answer = Nobody /\ r.at = now
  /\ r.verified => r.token /\ paid[r.client] >= now
  /\ request[s] # Nobody => request[s].stage = "verify"

(* The windows it is counted in keep their promise. *)
LEMMA CountedKeeps ==
  ASSUME PWInv, NEW s \in Slots402, NEW r, Arrives(s, r), CountIn(s, r), now' = now,
         request' = [request EXCEPT ![s] = Handled(r)],
         Handled(r) \in Requests402, Handled(r).stage # "verify"
  PROVE  /\ window' \in [Limiters -> [Clients -> [count : Nat, until : Nat]]]
         /\ HitsAreRequests' /\ CountsAreHits'
         /\ \A l \in Counting(r) : /\ <<s, now>> \in hits'[l][r.client]
                                   /\ window'[l][r.client] = Counted(l, r.client)
                                   /\ window'[l][r.client].until > now
<1> USE DEF PWInv
<1>1. r.client \in Clients /\ now \in 0..MaxNow
  BY DEF Arrives, Requests402, PWTypeOK
<1>2. \A l \in Limiters, c \in Clients :
        /\ window[l][c] \in [count : Nat, until : Nat] /\ WindowMs[l] \in Nat \ {0}
        /\ hits[l][c] \in SUBSET (Slots402 \X (0..MaxNow))
  BY PaywallAssumption DEF PWTypeOK, HitsAreRequests
<1>3. \A l \in Limiters : /\ Counted(l, r.client) \in [count : Nat, until : Nat]
                          /\ Counted(l, r.client).until > now
                          /\ Counted(l, r.client).until <= now + WindowMs[l]
  <2> TAKE l \in Limiters
  <2>1. CASE window[l][r.client].until <= now
    BY <2>1, <1>1, <1>2 DEF Counted
  <2>2. CASE ~(window[l][r.client].until <= now)
    BY <2>2, <1>1, <1>2 DEF Counted, CountsAreHits
  <2>. QED BY <2>1, <2>2
<1>4. \A l \in Limiters, c \in Clients :
        /\ window'[l][c] = IF l \in Counting(r) /\ c = r.client THEN Counted(l, c) ELSE window[l][c]
        /\ hits'[l][c] = IF l \in Counting(r) /\ c = r.client THEN hits[l][c] \union {<<s, now>>} ELSE hits[l][c]
  BY <1>1 DEF CountIn, PWTypeOK, HitsAreRequests
<1>5. window' \in [Limiters -> [Clients -> [count : Nat, until : Nat]]]
  BY <1>1, <1>3 DEF CountIn, PWTypeOK
<1>6. \A l \in Limiters : \A h \in hits[l][r.client] : h[1] # s
  BY <1>1 DEF HitsAreRequests, Arrives
<1>7. HitsAreRequests'
  <2>1. hits' \in [Limiters -> [Clients -> SUBSET (Slots402 \X (0..MaxNow))]]
    BY <1>1 DEF CountIn, HitsAreRequests
  <2>2. Handled(r) # Nobody
    BY PaywallAssumption
  <2>3. request'[s] = Handled(r) /\ \A t \in Slots402 \ {s} : request'[t] = request[t]
    BY DEF PWTypeOK
  <2>4. SUFFICES ASSUME NEW l \in Limiters, NEW c \in Clients, NEW h \in hits'[l][c]
                 PROVE  h[2] <= now /\ request'[h[1]] # Nobody /\ request'[h[1]].stage # "verify"
    BY <2>1 DEF HitsAreRequests
  <2>5. CASE h \in hits[l][c]
    <3>1. h[1] \in Slots402
      BY <2>5, <1>2
    <3>. QED BY <3>1, <2>5, <2>2, <2>3 DEF HitsAreRequests
  <2>6. CASE h = <<s, now>>
    BY <2>6, <2>2, <2>3, <1>1
  <2>7. h \in hits[l][c] \/ h = <<s, now>>
    BY ZenonT(40), <1>4
  <2>. QED BY <2>5, <2>6, <2>7
<1>8. CountsAreHits'
  <2>1. SUFFICES ASSUME NEW l \in Limiters, NEW c \in Clients
                 PROVE  /\ window'[l][c].until <= now + WindowMs[l]
                        /\ window'[l][c].count <= Cardinality(InWindow(l, c)')
    BY DEF CountsAreHits
  <2>2. CASE ~(l \in Counting(r) /\ c = r.client)
    <3>1. window'[l][c] = window[l][c] /\ hits'[l][c] = hits[l][c]
      BY <2>2, <1>4
    <3>2. InWindow(l, c)' = InWindow(l, c)
      BY <3>1 DEF InWindow
    <3>. QED BY <3>1, <3>2 DEF CountsAreHits
  <2>3. CASE l \in Counting(r) /\ c = r.client
    <3> DEFINE w == window[l][c]
               G == InWindow(l, c)
               N == InWindow(l, c)'
    <3>1. window'[l][c] = Counted(l, c) /\ hits'[l][c] = hits[l][c] \union {<<s, now>>}
      BY <2>3, <1>4
    <3>2. N \in SUBSET (Slots402 \X (0..MaxNow))
      BY <3>1, <1>1, <1>2 DEF InWindow
    <3>3. <<s, now>> \in N
      BY <3>1, <1>1, <1>2, <1>3, <2>3 DEF InWindow
    <3>4. CASE w.until <= now
      <4>1. {<<s, now>>} \in SUBSET N
        BY <3>3
      <4>2. Cardinality({<<s, now>>}) = 1
        BY FS_Singleton
      <4>3. 1 <= Cardinality(N)
        BY <3>2, <4>1, <4>2, MoreHits
      <4>4. Counted(l, c).count = 1
        BY <3>4 DEF Counted
      <4>. QED BY <4>3, <4>4, <3>1, <1>3, <2>3
    <3>5. CASE ~(w.until <= now)
      <4>1. Counted(l, c).count = w.count + 1 /\ Counted(l, c).until = w.until
        BY <3>5, <1>1, <1>2 DEF Counted
      <4>2. N = G \cup {<<s, now>>}
        BY <4>1, <3>1, <3>3 DEF InWindow
      <4>3. <<s, now>> \notin G
        BY <1>6, <2>3 DEF InWindow
      <4>4. IsFiniteSet(G)
        BY HitsFinite, <1>2 DEF InWindow
      <4>5. Cardinality(N) = Cardinality(G) + 1
        BY <4>2, <4>3, <4>4, FS_AddElement
      <4>6. w.count <= Cardinality(G) /\ Cardinality(G) \in Nat /\ w.count \in Nat
        BY <4>4, FS_CardinalityType, <1>2 DEF CountsAreHits
      <4>. QED BY <4>1, <4>5, <4>6, <3>1, <1>3, <2>3
    <3>. QED BY <3>4, <3>5
  <2>. QED BY <2>2, <2>3
<1>9. \A l \in Counting(r) : /\ <<s, now>> \in hits'[l][r.client]
                             /\ window'[l][r.client] = Counted(l, r.client)
                             /\ window'[l][r.client].until > now
  BY <1>1, <1>3, <1>4, CountingLimiters
<1>. QED BY <1>5, <1>7, <1>8, <1>9

(* What is true of an answer stays true. *)
LEMMA TruthStands ==
  ASSUME PWTypeOK, HitsAreRequests, HitsAreRequests',
         \A l \in Limiters, c \in Clients : hits[l][c] \subseteq hits'[l][c],
         paid' \in [Clients -> Int], \A c \in Clients : paid[c] <= paid'[c],
         NEW r \in Requests402, r.answer = TooMany => r.by \in Limiters, Truthful(r)
  PROVE  Truthful(r)'
<1>1. r.client \in Clients /\ r.at \in 0..MaxNow
  BY DEF Requests402
<1>2. LimitedIsTrue(r)'
  <2>1. SUFFICES ASSUME r.answer = TooMany
                 PROVE  Cardinality(Recent(r)') > Limit[r.by]
    BY DEF LimitedIsTrue, TooMany, Answer
  <2>2. Recent(r)' \in SUBSET (Slots402 \X (0..MaxNow)) /\ Recent(r) \in SUBSET Recent(r)'
    BY <1>1, <2>1 DEF Recent, HitsAreRequests
  <2>3. /\ Cardinality(Recent(r)) <= Cardinality(Recent(r)')
        /\ Cardinality(Recent(r)) \in Nat /\ Cardinality(Recent(r)') \in Nat
    BY <2>2, MoreHits
  <2>4. Cardinality(Recent(r)) > Limit[r.by] /\ Limit[r.by] \in Nat
    BY <2>1, PaywallAssumption DEF Truthful, LimitedIsTrue
  <2>. QED BY <2>3, <2>4
<1>3. ExportIsPaid(r)'
  <2>1. paid[r.client] \in Int /\ paid'[r.client] \in Int /\ paid[r.client] <= paid'[r.client]
    BY <1>1, PaywallAssumption DEF PWTypeOK, Invalid
  <2>. QED BY <2>1, <1>1, PaywallAssumption DEF Truthful, ExportIsPaid
<1>4. DemandIsPayable(r)'
  BY DEF Truthful, DemandIsPayable
<1>. QED BY <1>2, <1>3, <1>4 DEF Truthful

LEMMA AnswersDiffer == Ok # TooMany /\ Ok # Nobody /\ TooMany # Nobody
<1>1. Ok \in Answers402 /\ TooMany \in Answers402
  BY DEF Ok, TooMany, Answer, Answers402
<1>2. Ok.status # TooMany.status
  BY DEF Ok, TooMany, Answer
<1>. QED BY <1>1, <1>2, PaywallAssumption

(* What comes of a request that meets the limiters. *)
LEMMA HandledShape ==
  ASSUME NEW s, NEW r, Arrives(s, r)
  PROVE  /\ Handled(r) \in Requests402
         /\ \/ Handled(r).stage = "challenge" /\ Handled(r).answer = Nobody
            \/ Handled(r).stage = "answered" /\ Handled(r).answer = Ok /\ (r.path = "export" => r.verified)
            \/ /\ Handled(r).stage = "answered" /\ Handled(r).answer = TooMany
               /\ Handled(r).by \in Refusing(r)
               /\ L402_ENABLED => Handled(r).by # "free"
         /\ Handled(r).client = r.client /\ Handled(r).path = r.path /\ Handled(r).token = r.token
         /\ Handled(r).verified = r.verified /\ Handled(r).at = now
<1> DEFINE by == Refusing(r)
<1>1. by \subseteq Limiters
  BY CountingLimiters DEF Refusing
<1>2. Ok \in Answers402 /\ TooMany \in Answers402
  BY DEF Ok, TooMany, Answer, Answers402
<1>3. now \in 0..MaxNow /\ r \in Requests402 /\ r.answer = Nobody /\ r.at = now
  BY DEF Arrives, Requests402
<1>4. CASE by = {}
  <2>1. CASE r.path = "export" /\ ~r.verified
    <3>1. Handled(r) = [r EXCEPT !.stage = "challenge"]
      BY <1>4, <2>1 DEF Handled
    <3>. QED BY <3>1, <1>3 DEF Requests402
  <2>2. CASE ~(r.path = "export" /\ ~r.verified)
    <3>1. Handled(r) = [r EXCEPT !.stage = "answered", !.answer = Ok]
      BY <1>4, <2>2 DEF Handled
    <3>. QED BY <3>1, <2>2, <1>2, <1>3 DEF Requests402
  <2>. QED BY <2>1, <2>2
<1>5. CASE by # {} /\ by = {"free"} /\ L402_ENABLED
  <2>1. Handled(r) = [r EXCEPT !.stage = "challenge", !.by = "free", !.at = now]
    BY <1>5 DEF Handled
  <2>. QED BY <2>1, <1>3 DEF Requests402, Limiters
<1>6. CASE by # {} /\ ~(by = {"free"} /\ L402_ENABLED)
  <2> DEFINE l == CHOOSE k \in by : TRUE
  <2>1. Handled(r) = [r EXCEPT !.stage = "answered", !.answer = TooMany, !.by = l, !.at = now]
    BY <1>6 DEF Handled
  <2>2. l \in by
    BY <1>6
  <2> HIDE DEF l
  <2>3. L402_ENABLED => l # "free"
    <3>1. SUFFICES ASSUME L402_ENABLED, l = "free"
                   PROVE  FALSE
      OBVIOUS
    <3>2. by = {"free"}
      BY ZenonT(40), <2>2, <3>1, OneRefuses
    <3>. QED BY <3>1, <3>2, <1>6
  <2>. QED BY <2>1, <2>2, <2>3, <1>1, <1>2, <1>3 DEF Requests402
<1>. QED BY <1>4, <1>5, <1>6

(* A request that meets the limiters keeps the invariant. *)
LEMMA HandledKeeps ==
  ASSUME PWInv, NEW s \in Slots402, NEW r, Arrives(s, r), CountIn(s, r), now' = now, paid' = paid,
         request' = [request EXCEPT ![s] = Handled(r)]
  PROVE  PWInv'
<1> DEFINE q == Handled(r)
<1>1. q \in Requests402 /\ q.stage # "verify" /\ q # Nobody
  BY HandledShape, PaywallAssumption
<1>2. /\ window' \in [Limiters -> [Clients -> [count : Nat, until : Nat]]]
      /\ HitsAreRequests' /\ CountsAreHits'
      /\ \A l \in Counting(r) : /\ <<s, now>> \in hits'[l][r.client]
                                /\ window'[l][r.client] = Counted(l, r.client)
                                /\ window'[l][r.client].until > now
  BY <1>1, CountedKeeps
<1>3. request'[s] = q /\ \A t \in Slots402 \ {s} : request'[t] = request[t]
  BY DEF PWInv, PWTypeOK
<1>4. PWTypeOK'
  BY <1>1, <1>2 DEF PWInv, PWTypeOK
<1>5. r.client \in Clients /\ now \in 0..MaxNow /\ (r.verified => r.token /\ paid[r.client] >= now)
  BY DEF Arrives, Requests402, PWInv, PWTypeOK
<1>6. q.answer = TooMany => q.by \in Refusing(r) /\ (L402_ENABLED => q.by # "free") /\ q.stage = "answered"
  BY HandledShape, AnswersDiffer
<1>7. Refusing(r) \subseteq Counting(r) /\ Counting(r) \subseteq Limiters
  BY CountingLimiters DEF Refusing
<1>8. StagesOK402'
  <2>1. SUFFICES ASSUME NEW t \in Slots402, request'[t] # Nobody
                 PROVE  /\ request'[t].stage # "answered" => request'[t].answer = Nobody
                        /\ request'[t].answer = TooMany => request'[t].by \in Limiters
                        /\ request'[t].stage = "verify" => request'[t].token /\ ~request'[t].verified
                        /\ request'[t].verified => /\ request'[t].token
                                                  /\ paid[request'[t].client] >= request'[t].at
    BY DEF StagesOK402
  <2>2. CASE t = s
    <3>1. q.stage # "answered" => q.answer = Nobody
      BY HandledShape
    <3>2. q.verified => q.token /\ paid[q.client] >= q.at
      BY HandledShape, <1>5
    <3>. QED BY <2>2, <3>1, <3>2, <1>1, <1>3, <1>6, <1>7
  <2>3. CASE t # s
    BY <2>1, <2>3, <1>3 DEF PWInv, StagesOK402
  <2>. QED BY <2>2, <2>3
<1>9. PaywallIsHonest'
  <2>1. SUFFICES ASSUME Gateway = "partner", L402_ENABLED, NEW t \in Slots402, request'[t] # Nobody
                 PROVE  /\ LimitedIsTrue(request[t])' /\ ExportIsPaid(request[t])'
                        /\ DemandIsPayable(request[t])'
    BY DEF PaywallIsHonest
  <2>2. CASE t = s
    <3>1. PICK a : a = q
      OBVIOUS
    <3>2. LimitedIsTrue(a)'
      <4>1. SUFFICES ASSUME a.answer = TooMany
                     PROVE  Cardinality(Recent(a)') > Limit[a.by]
        BY DEF LimitedIsTrue, TooMany, Answer
      <4>2. PICK l : l = a.by
        OBVIOUS
      <4>3. l \in Refusing(r) /\ l # "free" /\ a.at = now /\ a.client = r.client
        BY <4>1, <4>2, <3>1, <2>1, <1>6, HandledShape
      <4>4. Counted(l, r.client).count > Limit[l]
        BY <4>3 DEF Refusing, Over, LimitFor
      <4>5. window'[l][r.client] = Counted(l, r.client) /\ window'[l][r.client].until > now /\ l \in Limiters
        BY <4>3, <1>2, <1>7
      <4>6. /\ window'[l][r.client].count <= Cardinality(InWindow(l, r.client)')
            /\ window'[l][r.client] \in [count : Nat, until : Nat] /\ Limit[l] \in Nat
            /\ WindowMs[l] \in Nat \ {0}
        BY <4>5, <1>2, <1>5, PaywallAssumption DEF CountsAreHits
      <4>7. /\ InWindow(l, r.client)' \in SUBSET Recent(a)'
            /\ Recent(a)' \in SUBSET (Slots402 \X (0..MaxNow))
        <5>1. hits'[l][r.client] \in SUBSET (Slots402 \X (0..MaxNow)) /\ \A h \in hits'[l][r.client] : h[2] <= now
          BY <4>5, <1>2, <1>5 DEF HitsAreRequests
        <5>2. \A h \in hits'[l][r.client] :
                h[2] >= window'[l][r.client].until - WindowMs[l] => h[2] > now - WindowMs[l]
          BY <5>1, <4>5, <4>6, <1>5
        <5>. QED BY <5>1, <5>2, <4>2, <4>3 DEF InWindow, Recent
      <4>8. /\ Cardinality(InWindow(l, r.client)') <= Cardinality(Recent(a)')
            /\ Cardinality(InWindow(l, r.client)') \in Nat /\ Cardinality(Recent(a)') \in Nat
        BY <4>7, MoreHits
      <4>. QED BY <4>2, <4>4, <4>5, <4>6, <4>8
    <3>3. ExportIsPaid(a)'
      <4>1. a.answer = Ok /\ a.path = "export" => a.verified
        BY <3>1, HandledShape, AnswersDiffer
      <4>2. a.verified => a.token /\ paid[a.client] >= a.at
        BY <3>1, HandledShape, <1>5
      <4>. QED BY <4>1, <4>2 DEF ExportIsPaid, Ok, Answer
    <3>4. DemandIsPayable(a)'
      BY <3>1, HandledShape DEF DemandIsPayable, Ok, TooMany, Answer
    <3>5. request'[t] = a
      BY <2>2, <1>3, <3>1
    <3>. QED BY <3>2, <3>3, <3>4, <3>5 DEF LimitedIsTrue, ExportIsPaid, DemandIsPayable, Recent
  <2>3. CASE t # s
    <3>1. PICK a : a = request[t]
      OBVIOUS
    <3>2. a \in Requests402 /\ (a.answer = TooMany => a.by \in Limiters) /\ Truthful(a)
      BY <3>1, <2>1, <2>3, <1>3 DEF PWInv, PWTypeOK, StagesOK402, PaywallIsHonest, Truthful
    <3>3. \A l \in Limiters, c \in Clients : hits[l][c] \subseteq hits'[l][c]
      BY <1>5 DEF CountIn, PWInv, HitsAreRequests
    <3>4. paid' \in [Clients -> Int] /\ \A c \in Clients : paid[c] <= paid'[c]
      BY PaywallAssumption DEF PWInv, PWTypeOK, Invalid
    <3>5. Truthful(a)'
      BY <3>2, <3>3, <3>4, <1>2, TruthStands DEF PWInv
    <3>6. request'[t] = a
      BY <2>3, <1>3, <3>1
    <3>. QED BY <3>5, <3>6 DEF Truthful, LimitedIsTrue, ExportIsPaid, DemandIsPayable, Recent
  <2>. QED BY <2>2, <2>3
<1>. QED BY <1>2, <1>4, <1>8, <1>9 DEF PWInv

----------------------------------------------------------------------------
(* The steps *)

LEMMA PWInitInv == PWInit => PWInv
<1> SUFFICES ASSUME PWInit PROVE PWInv
  OBVIOUS
<1>1. PWTypeOK
  BY PaywallAssumption DEF PWInit, PWTypeOK, Invalid
<1>2. CountsAreHits
  <2>1. SUFFICES ASSUME NEW l \in Limiters, NEW c \in Clients
                 PROVE  0 <= 0 + WindowMs[l] /\ 0 <= Cardinality(InWindow(l, c))
    BY DEF CountsAreHits, PWInit
  <2>2. InWindow(l, c) = {}
    BY DEF InWindow, PWInit
  <2>. QED BY <2>2, FS_EmptySet, PaywallAssumption
<1>3. HitsAreRequests /\ StagesOK402 /\ PaywallIsHonest
  BY DEF PWInit, HitsAreRequests, StagesOK402, PaywallIsHonest
<1>. QED BY <1>1, <1>2, <1>3 DEF PWInv

(* A step after which every request is what it was, or one of them is not
   answered yet or truthfully, and the windows and hits are what they were. *)
LEMMA OthersKeep ==
  ASSUME PWInv, PWTypeOK', StagesOK402', now' \in Nat, now' >= now, UNCHANGED <<window, hits>>,
         \A c \in Clients : paid[c] <= paid'[c],
         \A s \in Slots402 : request[s] # Nobody /\ request[s].stage # "verify" =>
                              request'[s] # Nobody /\ request'[s].stage # "verify",
         \A s \in Slots402 : request'[s] # request[s] /\ request'[s] # Nobody =>
                              request'[s].answer \in {Nobody, Unavailable, Answer(402, TRUE)}
  PROVE  PWInv'
<1>1. \A l \in Limiters, c \in Clients :
        /\ window[l][c] \in [count : Nat, until : Nat] /\ WindowMs[l] \in Nat \ {0}
        /\ hits[l][c] \in SUBSET (Slots402 \X (0..MaxNow))
  BY PaywallAssumption DEF PWInv, PWTypeOK, HitsAreRequests
<1>2. CountsAreHits'
  <2>1. SUFFICES ASSUME NEW l \in Limiters, NEW c \in Clients
                 PROVE  /\ window'[l][c].until <= now' + WindowMs[l]
                        /\ window'[l][c].count <= Cardinality(InWindow(l, c)')
    BY DEF CountsAreHits
  <2>2. InWindow(l, c)' = InWindow(l, c)
    BY DEF InWindow
  <2>3. window[l][c].until <= now' + WindowMs[l]
    BY <1>1 DEF PWInv, PWTypeOK, CountsAreHits
  <2>. QED BY <2>2, <2>3 DEF PWInv, CountsAreHits
<1>3. HitsAreRequests'
  <2>1. SUFFICES ASSUME NEW l \in Limiters, NEW c \in Clients, NEW h \in hits[l][c]
                 PROVE  h[2] <= now' /\ request'[h[1]] # Nobody /\ request'[h[1]].stage # "verify"
    BY DEF PWInv, HitsAreRequests
  <2>2. h[1] \in Slots402 /\ h[2] \in Nat
    BY <1>1
  <2>. QED BY <2>2 DEF PWInv, PWTypeOK, HitsAreRequests
<1>4. PaywallIsHonest'
  <2>1. SUFFICES ASSUME Gateway = "partner", L402_ENABLED, NEW t \in Slots402, request'[t] # Nobody
                 PROVE  /\ LimitedIsTrue(request[t])' /\ ExportIsPaid(request[t])'
                        /\ DemandIsPayable(request[t])'
    BY DEF PaywallIsHonest
  <2>2. PICK a : a = request'[t]
    OBVIOUS
  <2>3. CASE a = request[t]
    <3>1. a \in Requests402 /\ (a.answer = TooMany => a.by \in Limiters) /\ Truthful(a)
      BY <2>1, <2>2, <2>3 DEF PWInv, PWTypeOK, StagesOK402, PaywallIsHonest, Truthful
    <3>2. paid' \in [Clients -> Int]
      BY PaywallAssumption DEF PWTypeOK, Invalid
    <3>3. Truthful(a)'
      BY <3>1, <3>2, <1>3, TruthStands DEF PWInv
    <3>. QED BY <3>3, <2>2 DEF Truthful, LimitedIsTrue, ExportIsPaid, DemandIsPayable, Recent
  <2>4. CASE a # request[t]
    <3>1. a.answer \in {Nobody, Unavailable, Answer(402, TRUE)}
      BY <2>1, <2>2, <2>4
    <3>2. a.answer # TooMany /\ a.answer # Ok
      BY <3>1, AnswersDiffer DEF Unavailable, Ok, TooMany, Answer
    <3>3. a.answer # Nobody /\ a.answer.status = 402 => a.answer.invoice
      BY <3>1 DEF Unavailable, Answer
    <3>. QED BY <3>2, <3>3, <2>2 DEF LimitedIsTrue, ExportIsPaid, DemandIsPayable, Ok, TooMany, Answer
  <2>. QED BY <2>3, <2>4
<1>. QED BY <1>2, <1>3, <1>4 DEF PWInv

LEMMA IncomingInv ==
  ASSUME PWInv, NEW s \in Slots402, Incoming(s)
  PROVE  PWInv'
<1>1. PICK c \in Clients, p \in {"search", "list", "export"}, token \in BOOLEAN, require \in BOOLEAN :
        /\ require => p = "list"
        /\ LET r == [client |-> c, path |-> p, require |-> require, token |-> token, verified |-> FALSE,
                     stage |-> "verify", answer |-> Nobody, by |-> Nobody, at |-> now]
           IN IF token THEN request' = [request EXCEPT ![s] = r] /\ UNCHANGED <<window, hits>>
              ELSE CountIn(s, r) /\ request' = [request EXCEPT ![s] = Handled(r)]
  BY DEF Incoming
<1>2. request[s] = Nobody /\ now' = now /\ paid' = paid /\ now \in 0..MaxNow
  BY DEF Incoming, PWInv, PWTypeOK
<1>3. PICK r : r = [client |-> c, path |-> p, require |-> require, token |-> token, verified |-> FALSE,
                    stage |-> "verify", answer |-> Nobody, by |-> Nobody, at |-> now]
  OBVIOUS
<1>4. r \in Requests402 /\ r.stage = "verify" /\ r.answer = Nobody /\ r.at = now
      /\ r.token = token /\ r.verified = FALSE
  BY <1>2, <1>3 DEF Requests402
<1>5. CASE token
  <2>1. request' = [request EXCEPT ![s] = r] /\ UNCHANGED <<window, hits>>
    BY <1>1, <1>3, <1>5
  <2>2. request'[s] = r /\ \A t \in Slots402 \ {s} : request'[t] = request[t]
    BY <2>1 DEF PWInv, PWTypeOK
  <2>3. PWTypeOK'
    BY <2>1, <1>2, <1>4 DEF PWInv, PWTypeOK
  <2>4. StagesOK402'
    <3>1. r.token /\ ~r.verified /\ r.answer # TooMany
      BY <1>4, <1>5, AnswersDiffer
    <3>2. SUFFICES ASSUME NEW t \in Slots402, request'[t] # Nobody
                   PROVE  /\ request'[t].stage # "answered" => request'[t].answer = Nobody
                          /\ request'[t].answer = TooMany => request'[t].by \in Limiters
                          /\ request'[t].stage = "verify" => request'[t].token /\ ~request'[t].verified
                          /\ request'[t].verified => /\ request'[t].token
                                                    /\ paid'[request'[t].client] >= request'[t].at
      BY DEF StagesOK402
    <3>3. CASE t = s
      BY <3>1, <3>3, <2>2, <1>4
    <3>4. CASE t # s
      BY <3>2, <3>4, <2>2, <1>2 DEF PWInv, StagesOK402
    <3>. QED BY <3>3, <3>4
  <2>5. \A d \in Clients : paid[d] <= paid'[d]
    BY <1>2, PaywallAssumption DEF PWInv, PWTypeOK, Invalid
  <2>6. \A t \in Slots402 : request[t] # Nobody /\ request[t].stage # "verify" =>
                             request'[t] # Nobody /\ request'[t].stage # "verify"
    BY <2>2, <1>2
  <2>7. \A t \in Slots402 : request'[t] # request[t] /\ request'[t] # Nobody =>
                             request'[t].answer \in {Nobody, Unavailable, Answer(402, TRUE)}
    BY <2>2, <1>4
  <2>8. now' \in Nat /\ now' >= now /\ UNCHANGED <<window, hits>>
    BY <2>1, <1>2, PaywallAssumption
  <2>. QED BY <2>3, <2>4, <2>5, <2>6, <2>7, <2>8, OthersKeep
<1>6. CASE ~token
  <2>1. CountIn(s, r) /\ request' = [request EXCEPT ![s] = Handled(r)]
    BY <1>1, <1>3, <1>6
  <2>2. Arrives(s, r)
    BY <1>2, <1>4 DEF Arrives
  <2>. QED BY <2>1, <2>2, <1>2, HandledKeeps
<1>. QED BY <1>5, <1>6

LEMMA VerifiedInv ==
  ASSUME PWInv, NEW s \in Slots402, Verified402(s)
  PROVE  PWInv'
<1>1. PICK says \in Says402(request[s].client) :
        LET r == [request[s] EXCEPT !.verified = SetsVerified(says), !.at = now]
        IN CountIn(s, r) /\ request' = [request EXCEPT ![s] = Handled(r)]
  BY DEF Verified402
<1>2. PICK r : r = [request[s] EXCEPT !.verified = SetsVerified(says), !.at = now]
  OBVIOUS
<1>3. request[s] \in Requests402 /\ request[s].stage = "verify" /\ request[s].answer = Nobody /\ request[s].token
  BY DEF Verified402, PWInv, PWTypeOK, StagesOK402
<1>4. now \in 0..MaxNow /\ now' = now /\ paid' = paid /\ request[s] # Nobody
  BY DEF Verified402, PWInv, PWTypeOK
<1>5. SetsVerified(says) \in BOOLEAN /\ (SetsVerified(says) => paid[request[s].client] >= now)
  <2>1. paid[request[s].client] \in Int
    BY <1>3, PaywallAssumption DEF PWInv, PWTypeOK, Requests402, Invalid
  <2>. QED BY <2>1, <1>4 DEF SetsVerified, Says402, Invalid, Unreachable
<1>6. /\ r \in Requests402 /\ r.stage = "verify" /\ r.answer = Nobody /\ r.at = now
      /\ r.token = request[s].token /\ r.client = request[s].client /\ r.verified = SetsVerified(says)
  BY <1>2, <1>3, <1>4, <1>5 DEF Requests402
<1>7. Arrives(s, r)
  BY <1>3, <1>5, <1>6 DEF Arrives
<1>. QED BY <1>1, <1>2, <1>4, <1>7, HandledKeeps

LEMMA ChallengedInv ==
  ASSUME PWInv, NEW s \in Slots402, Challenged402(s)
  PROVE  PWInv'
<1>1. PICK minted \in IF Gateway = "none" THEN {"nothing"} ELSE {"invoice", "error"} :
        request' = [request EXCEPT ![s].stage = "answered", ![s].answer = Sold(request[s], minted)]
  BY DEF Challenged402
<1>2. PICK r : r = request[s]
  OBVIOUS
<1>3. PICK a : a = Sold(r, minted)
  OBVIOUS
<1>4. r \in Requests402 /\ r.stage = "challenge" /\ r # Nobody
  BY <1>2 DEF Challenged402, PWInv, PWTypeOK
<1>5. /\ a \in {Answer(402, TRUE), Unavailable, TooMany, Answer(402, FALSE)}
      /\ a = TooMany => r.by = "free"
      /\ a \in Answers402
  <2>1. Answer(402, TRUE).status # TooMany.status /\ Unavailable.status # TooMany.status
        /\ Answer(402, FALSE).status # TooMany.status
    BY DEF Unavailable, TooMany, Answer
  <2>. QED BY <2>1, <1>3 DEF Sold, Unavailable, TooMany, Answer, Answers402
<1>6. request'[s] = [r EXCEPT !.stage = "answered", !.answer = a]
      /\ \A t \in Slots402 \ {s} : request'[t] = request[t]
  <2>1. DOMAIN request = Slots402
    BY DEF PWInv, PWTypeOK
  <2>. QED BY <1>1, <1>2, <1>3, <2>1
<1>7. /\ request'[s] \in Requests402 /\ request'[s] # Nobody /\ request'[s].stage = "answered"
      /\ request'[s].answer = a /\ request'[s].by = r.by /\ request'[s].verified = r.verified
      /\ request'[s].token = r.token /\ request'[s].client = r.client /\ request'[s].at = r.at
  <2>1. PICK q : q = request'[s]
    OBVIOUS
  <2>2. q = [r EXCEPT !.stage = "answered", !.answer = a] /\ a \in Answers402 \cup {Nobody}
    BY <2>1, <1>5, <1>6
  <2>3. /\ q \in Requests402 /\ q.stage = "answered" /\ q.answer = a /\ q.by = r.by
        /\ q.verified = r.verified /\ q.token = r.token /\ q.client = r.client /\ q.at = r.at
    BY <2>2, <1>4 DEF Requests402
  <2>. QED BY <2>1, <2>3, PaywallAssumption
<1>8. now' = now /\ window' = window /\ paid' = paid /\ hits' = hits /\ now \in 0..MaxNow
  BY DEF Challenged402, PWInv, PWTypeOK
<1>9. PWTypeOK'
  BY <1>1, <1>6, <1>7, <1>8 DEF PWInv, PWTypeOK
<1>10. StagesOK402'
  <2>1. SUFFICES ASSUME NEW t \in Slots402, request'[t] # Nobody
                 PROVE  /\ request'[t].stage # "answered" => request'[t].answer = Nobody
                        /\ request'[t].answer = TooMany => request'[t].by \in Limiters
                        /\ request'[t].stage = "verify" => request'[t].token /\ ~request'[t].verified
                        /\ request'[t].verified => /\ request'[t].token
                                                  /\ paid'[request'[t].client] >= request'[t].at
    BY DEF StagesOK402
  <2>2. CASE t = s
    <3>1. r.verified => r.token /\ paid[r.client] >= r.at
      BY <1>2, <1>4 DEF PWInv, StagesOK402
    <3>. QED BY <2>2, <3>1, <1>5, <1>7, <1>8 DEF Limiters
  <2>3. CASE t # s
    BY <2>1, <2>3, <1>6, <1>8 DEF PWInv, StagesOK402
  <2>. QED BY <2>2, <2>3
<1>11. CASE Gateway = "partner"
  <2>1. a \in {Answer(402, TRUE), Unavailable}
    BY <1>1, <1>3, <1>11, PaywallAssumption DEF Sold
  <2>2. \A c \in Clients : paid[c] <= paid'[c]
    BY <1>8, PaywallAssumption DEF PWInv, PWTypeOK, Invalid
  <2>3. \A t \in Slots402 : request[t] # Nobody /\ request[t].stage # "verify" =>
                             request'[t] # Nobody /\ request'[t].stage # "verify"
    BY <1>6, <1>7
  <2>4. \A t \in Slots402 : request'[t] # request[t] /\ request'[t] # Nobody =>
                             request'[t].answer \in {Nobody, Unavailable, Answer(402, TRUE)}
    <3>1. request'[s].answer \in {Nobody, Unavailable, Answer(402, TRUE)}
      BY <2>1, <1>7
    <3>. QED BY <3>1, <1>6
  <2>5. now' \in Nat /\ now' >= now /\ UNCHANGED <<window, hits>>
    BY <1>8, PaywallAssumption
  <2>. QED BY <2>2, <2>3, <2>4, <2>5, <1>9, <1>10, OthersKeep
<1>12. CASE Gateway # "partner"
  <2>1. PaywallIsHonest'
    BY <1>12 DEF PaywallIsHonest
  <2>2. CountsAreHits'
    BY <1>8 DEF PWInv, CountsAreHits, InWindow
  <2>3. HitsAreRequests'
    <3>1. SUFFICES ASSUME NEW l \in Limiters, NEW c \in Clients, NEW h \in hits[l][c]
                   PROVE  h[2] <= now /\ request'[h[1]] # Nobody /\ request'[h[1]].stage # "verify"
      BY <1>8 DEF PWInv, HitsAreRequests
    <3>2. h[1] \in Slots402 /\ h[2] <= now /\ request[h[1]] # Nobody /\ request[h[1]].stage # "verify"
      BY DEF PWInv, HitsAreRequests
    <3>. QED BY <3>2, <1>6, <1>7
  <2>. QED BY <2>1, <2>2, <2>3, <1>9, <1>10 DEF PWInv
<1>. QED BY <1>11, <1>12

(* What a client bought is valid for longer than what it had. *)
LEMMA PaysInv ==
  ASSUME PWInv, NEW c \in Clients, Pays(c)
  PROVE  PWInv'
<1>1. paid[c] < now /\ paid' = [paid EXCEPT ![c] = now + Duration] /\ UNCHANGED <<now, window, request, hits>>
  BY DEF Pays
<1>2. /\ now \in 0..MaxNow /\ Duration \in Nat /\ MaxNow \in Nat
      /\ paid \in [Clients -> Invalid .. MaxNow + Duration]
  BY PaywallAssumption DEF PWInv, PWTypeOK
<1>3. paid' \in [Clients -> Invalid .. MaxNow + Duration]
  BY <1>1, <1>2 DEF Invalid
<1>4. \A d \in Clients : paid[d] <= paid'[d] /\ paid[d] \in Int /\ paid'[d] \in Int
  BY <1>1, <1>2 DEF Invalid
<1>5. PWTypeOK'
  BY <1>1, <1>3 DEF PWInv, PWTypeOK
<1>6. StagesOK402'
  <2>1. SUFFICES ASSUME NEW t \in Slots402, request[t] # Nobody, request[t].verified
                 PROVE  request[t].token /\ paid'[request[t].client] >= request[t].at
    BY <1>1 DEF PWInv, StagesOK402
  <2>2. request[t].client \in Clients /\ request[t].at \in 0..MaxNow
    BY <2>1 DEF PWInv, PWTypeOK, Requests402
  <2>3. request[t].token /\ paid[request[t].client] >= request[t].at
    BY <2>1 DEF PWInv, StagesOK402
  <2>. QED BY <2>2, <2>3, <1>4
<1>. QED BY <1>1, <1>2, <1>4, <1>5, <1>6, OthersKeep

LEMMA LaterInv == PWInv /\ Later => PWInv'
<1> SUFFICES ASSUME PWInv, Later PROVE PWInv'
  OBVIOUS
<1>1. now \in 0..MaxNow /\ now < MaxNow /\ now' = now + 1 /\ UNCHANGED <<window, request, paid, hits>> /\ MaxNow \in Nat
  BY PaywallAssumption DEF Later, PWInv, PWTypeOK
<1>2. PWTypeOK'
  BY <1>1 DEF PWInv, PWTypeOK
<1>3. StagesOK402'
  BY <1>1 DEF PWInv, StagesOK402
<1>4. \A c \in Clients : paid[c] <= paid'[c]
  BY <1>1, PaywallAssumption DEF PWInv, PWTypeOK, Invalid
<1>. QED BY <1>1, <1>2, <1>3, <1>4, OthersKeep

LEMMA PWNextInv == PWInv /\ [PWNext]_pwVars => PWInv'
<1> SUFFICES ASSUME PWInv, [PWNext]_pwVars PROVE PWInv'
  OBVIOUS
<1>1. CASE UNCHANGED pwVars
  BY ZenonT(40), <1>1 DEF pwVars, PWInv, PWTypeOK, CountsAreHits, InWindow, HitsAreRequests, StagesOK402,
              PaywallIsHonest, LimitedIsTrue, Recent, ExportIsPaid, DemandIsPayable
<1>2. CASE PWNext
  BY <1>2, IncomingInv, VerifiedInv, ChallengedInv, PaysInv, LaterInv DEF PWNext
<1>. QED BY <1>1, <1>2

(* middleware/l402.js and rate-limit.js, with a gateway: a refusal comes after
   more requests than the limit within its window, the export goes to those who
   paid, and whoever is asked to pay gets an invoice. *)
THEOREM AnswersAreHonest == PWSpec => []PaywallIsHonest
<1>1. PWInv => PaywallIsHonest
  BY DEF PWInv
<1>. QED BY <1>1, PWInitInv, PWNextInv, PTL DEF PWSpec
----------------------------------------------------------------------------
(* A claim of a domain, for any number of services, concurrent verifications
   and tokens.  DomainProven is not inductive: that the hash a request compares
   was served needs TokensIssued, which says where the token a request carries
   and the file it fetched come from. *)

RowType == [source : Sources, own : SUBSET Columns, status : Statuses,
            flagged : BOOLEAN, deleted : BOOLEAN, reason : Reasons]

(* The domains that one record update after the other stays within. *)
LEMMA NewRowType ==
  ASSUME NEW source \in Sources, NEW status \in Statuses
  PROVE  NewRow(source, status) \in RowType
  BY DEF NewRow, RowType, Reasons

LEMMA WriteType ==
  ASSUME TypeOK, NEW s \in Services, NEW r \in RowType, Write(s, r)
  PROVE  row' \in [Services -> RowType]
  BY DEF Write, TypeOK, RowType

(* Each of the row operators keeps a row a row. *)
LEMMA RowOperators ==
  ASSUME NEW r \in RowType
  PROVE  /\ Unflagged(r) \in RowType /\ Vouched(r) \in RowType /\ Relisted(r) \in RowType
         /\ \A priced \in BOOLEAN : Registered(r, priced) \in RowType /\ Refreshed(r, priced) \in RowType
         /\ \A reason \in Reasons : Approved(r, reason) \in RowType
<1>1. Unflagged(r) \in RowType /\ Vouched(r) \in RowType
  BY DEF Unflagged, Vouched, RowType, Statuses, Reasons
<1>2. Relisted(r) \in RowType
  BY DEF Relisted, RowType, Reasons
<1>3. ASSUME NEW priced \in BOOLEAN PROVE Registered(r, priced) \in RowType
  <2>1. CASE r.status = "none"
    BY <2>1, NewRowType DEF Registered, Sources, Statuses
  <2>2. CASE r.status # "none"
    BY <2>2 DEF Registered, RowType, Statuses
  <2> QED BY <2>1, <2>2
<1>4. ASSUME NEW priced \in BOOLEAN PROVE Refreshed(r, priced) \in RowType
  BY DEF Refreshed, RowType
<1>5. \A reason \in Reasons : Approved(r, reason) \in RowType
  BY DEF Approved, RowType, Statuses, Reasons
<1> QED BY <1>1, <1>2, <1>3, <1>4, <1>5

LEMMA LoadedType ==
  ASSUME NEW s \in Services, row[s] \in RowType
  PROVE  Loaded(s) \in RowType
<1>1. [row[s] EXCEPT !.own = {}] \in RowType
  BY DEF RowType
<1> QED BY <1>1, NewRowType DEF Loaded, Sources, Statuses

LEMMA InitIInv == Init => IInv
  BY ClaimAssumption
  DEF Init, IInv, TypeOK, TokensIssued, DomainProven, EditsAreFlagged, OwnerEditStands, Gone, NewRow,
      Sources, Statuses, Reasons

(* The type invariant, action by action. *)
LEMMA TypeStep ==
  ASSUME TypeOK, [Next]_vars
  PROVE  TypeOK'
<1> USE ClaimAssumption
<1>rows. \A s \in Services : row[s] \in RowType
  BY DEF TypeOK, RowType
<1>type. row' \in [Services -> RowType] => row' \in [Services ->
           [source : Sources, own : SUBSET Columns, status : Statuses,
            flagged : BOOLEAN, deleted : BOOLEAN, reason : Reasons]]
  BY DEF RowType
<1>1. CASE InitiateClaim
  BY <1>1 DEF InitiateClaim, NewToken, TypeOK
<1>2. CASE ResetClaim
  BY <1>2 DEF ResetClaim, NewToken, TypeOK
<1>3. CASE RevokeClaim
  <2>1. row' \in [Services -> RowType]
    BY <1>3, <1>rows, RowOperators DEF RevokeClaim
  <2> QED BY <1>3, <2>1, <1>type DEF RevokeClaim, TypeOK
<1>4. CASE ClaimLapses
  BY <1>4 DEF ClaimLapses, TypeOK
<1>5. ASSUME NEW v \in Requests, VerifyStart(v) PROVE TypeOK'
  BY <1>5 DEF VerifyStart, TypeOK
<1>6. ASSUME NEW v \in Requests, FileFetched(v) PROVE TypeOK'
  BY ZenonT(40), <1>6 DEF FileFetched, TypeOK
<1>7. ASSUME NEW v \in Requests, FetchFailed(v) PROVE TypeOK'
  BY <1>7 DEF FetchFailed, TypeOK
<1>8. ASSUME NEW v \in Requests, VerifyFinished(v) PROVE TypeOK'
  <2>1. row' \in [Services -> RowType]
    BY <1>8, <1>rows, RowOperators DEF VerifyFinished, TypeOK, RowType
  <2> QED BY <1>8, <2>1, <1>type DEF VerifyFinished, Marked, TypeOK
<1>9. ASSUME NEW t \in 0..issued, Publish(t) PROVE TypeOK'
  BY <1>9 DEF Publish, TypeOK
<1>10. ASSUME NEW S \in SUBSET Services, DeleteServices(S) PROVE TypeOK'
  BY ZenonT(40), <1>10 DEF DeleteServices, TypeOK
<1>11. ASSUME NEW s \in Services, NEW fields \in SUBSET Columns, EditService(s, fields) PROVE TypeOK'
  <2>1. Edited(s, fields) \in RowType
    BY <1>rows DEF Edited, RowType
  <2>2. row' \in [Services -> RowType]
    BY <1>11, <2>1, WriteType DEF EditService
  <2>3. kept' \in [Services -> SUBSET Columns]
    BY <1>11 DEF EditService, TypeOK
  <2> QED BY <1>11, <2>2, <2>3, <1>type DEF EditService, TypeOK
<1>12. ASSUME NEW s \in Services, AdminApprove(s) PROVE TypeOK'
  <2>1. row' \in [Services -> RowType]
    BY <1>12, <1>rows, RowOperators, WriteType DEF AdminApprove, Reasons
  <2> QED BY <1>12, <2>1, <1>type DEF AdminApprove, TypeOK
<1>13. ASSUME NEW s \in Services, AdminReject(s) PROVE TypeOK'
  BY <1>13 DEF AdminReject, Write, TypeOK, Statuses
<1>14. ASSUME NEW s \in Services, AdminRestore(s) PROVE TypeOK'
  BY ZenonT(40), <1>14 DEF AdminRestore, Write, TypeOK
<1>15. ASSUME NEW s \in Services, RowPurged(s) PROVE TypeOK'
  <2>1. row' \in [Services -> RowType]
    BY <1>15, NewRowType, WriteType DEF RowPurged, Gone, Sources, Statuses
  <2>2. kept' \in [Services -> SUBSET Columns]
    BY <1>15 DEF RowPurged, Forget, TypeOK
  <2> QED BY <1>15, <2>1, <2>2, <1>type DEF RowPurged, TypeOK
<1>16. ASSUME NEW s \in Services, NEW gateway \in BOOLEAN, NEW priced \in BOOLEAN,
              Register(s, gateway, priced)
       PROVE  TypeOK'
  <2> DEFINE r == Registered(row[s], priced)
  <2>1. r \in RowType /\ Approved(r, "other") \in RowType /\ Approved(r, "domain") \in RowType
    BY <1>rows, RowOperators DEF Reasons
  <2>2. \E q \in RowType : Write(s, q)
    BY <1>16, <2>1 DEF Register
  <2>3. row' \in [Services -> RowType]
    BY <2>2, WriteType
  <2>4. kept' \in [Services -> SUBSET Columns]
    BY <1>16 DEF Register, Forget, TypeOK
  <2> QED BY <1>16, <2>3, <2>4, <1>type DEF Register, TypeOK
<1>17. ASSUME NEW s \in Services, NEW upstream \in {"bazaar", "mpp", "other"}, NEW priced \in BOOLEAN,
              Poll(s, upstream, priced)
       PROVE  TypeOK'
  <2> DEFINE r == Refreshed(row[s], priced)
  <2>1. r \in RowType /\ Relisted(r) \in RowType
    BY <1>rows, RowOperators
  <2>2. [Relisted(r) EXCEPT !.status = IF @ = "retired" THEN "active" ELSE @] \in RowType
    BY <2>1 DEF RowType, Statuses
  <2>3. NewRow(upstream, "active") \in RowType
    BY NewRowType DEF Sources, Statuses
  <2>4. \E q \in RowType : Write(s, q)
    BY <1>17, <2>1, <2>2, <2>3 DEF Poll
  <2>5. row' \in [Services -> RowType]
    BY <2>4, WriteType
  <2> QED BY <1>17, <2>5, <1>type DEF Poll, TypeOK
<1>18. ASSUME NEW s \in Services, SweepStale(s) PROVE TypeOK'
  BY <1>18 DEF SweepStale, Write, TypeOK
<1>19. ASSUME NEW s \in Services, Retire(s) PROVE TypeOK'
  BY <1>19 DEF Retire, Write, TypeOK, Statuses
<1>20. ASSUME NEW s \in Services, ApproveChange(s) PROVE TypeOK'
  <2> DEFINE r == Registered(row[s], FALSE)
  <2>1. Approved(r, "other") \in RowType
    BY <1>rows, RowOperators DEF Reasons
  <2>2. [Approved(r, "other") EXCEPT !.source = "other"] \in RowType
    BY <2>1 DEF RowType, Sources
  <2>3. row' \in [Services -> RowType]
    BY <1>20, <2>2, WriteType DEF ApproveChange
  <2>4. kept' \in [Services -> SUBSET Columns]
    BY <1>20 DEF ApproveChange, Forget, TypeOK
  <2> QED BY <1>20, <2>3, <2>4, <1>type DEF ApproveChange, TypeOK
<1>21. CASE Restart
  <2>1. row' \in [Services -> RowType]
    BY <1>21, <1>rows, LoadedType DEF Restart
  <2> QED BY <1>21, <2>1, <1>type DEF Restart, TypeOK
<1>22. CASE UNCHANGED vars
  BY <1>22 DEF vars, TypeOK
<1> QED
  BY <1>1, <1>2, <1>3, <1>4, <1>5, <1>6, <1>7, <1>8, <1>9, <1>10, <1>11, <1>12, <1>13, <1>14,
     <1>15, <1>16, <1>17, <1>18, <1>19, <1>20, <1>21, <1>22 DEF Next, Verify

(* The actions on rows leave the claim, the tokens and the requests alone. *)
RowStep ==
  \/ \E S \in SUBSET Services : DeleteServices(S)
  \/ \E s \in Services :
       \/ AdminApprove(s) \/ AdminReject(s) \/ AdminRestore(s) \/ ApproveChange(s) \/ RowPurged(s)
       \/ \E fields \in SUBSET Columns : EditService(s, fields)
       \/ \E gateway \in BOOLEAN, priced \in BOOLEAN : Register(s, gateway, priced)
       \/ \E upstream \in {"bazaar", "mpp", "other"}, priced \in BOOLEAN : Poll(s, upstream, priced)
       \/ SweepStale(s) \/ Retire(s)

LEMMA RowStepFrame == RowStep => UNCHANGED <<claim, issued, req, file, shown>>
  BY DEF RowStep, DeleteServices, EditService, AdminApprove, AdminReject, AdminRestore, ApproveChange,
         RowPurged, Register, Poll, SweepStale, Retire

LEMMA TokensStep ==
  ASSUME TypeOK, TokensIssued, [Next]_vars
  PROVE  TokensIssued'
<1>1. CASE InitiateClaim \/ ResetClaim
  BY <1>1 DEF InitiateClaim, ResetClaim, NewToken, TypeOK, TokensIssued
<1>2. CASE RevokeClaim \/ ClaimLapses
  BY <1>2 DEF RevokeClaim, ClaimLapses, TypeOK, TokensIssued
<1>3. ASSUME NEW v \in Requests, VerifyStart(v) PROVE TokensIssued'
  <2>1. claim'.token = claim.token /\ (claim'.status # "none" => claim.status # "none")
    BY <1>3 DEF VerifyStart, TypeOK
  <2>2. \A w \in Requests : w # v => req'[w] = req[w]
    BY <1>3 DEF VerifyStart, TypeOK
  <2>3. CASE claim.status = "pending" /\ ~claim.lapsed
    <3>1. req'[v] = [at |-> "fetching", token |-> claim.token, body |-> 0]
      BY <1>3, <2>3 DEF VerifyStart, TypeOK
    <3>2. claim.token # 0
      BY <2>3 DEF TokensIssued
    <3> QED BY <1>3, <2>1, <2>2, <3>1, <3>2 DEF VerifyStart, TokensIssued
  <2>4. CASE ~(claim.status = "pending" /\ ~claim.lapsed)
    <3>1. req'[v].at = "refused" /\ req'[v].body = req[v].body
      BY <1>3, <2>4 DEF VerifyStart, TypeOK
    <3> QED BY <1>3, <2>1, <2>2, <3>1 DEF VerifyStart, TokensIssued
  <2> QED BY <2>3, <2>4
<1>4. ASSUME NEW v \in Requests, FetchFailed(v) PROVE TokensIssued'
  BY <1>4 DEF FetchFailed, TypeOK, TokensIssued
<1>5. ASSUME NEW v \in Requests, VerifyFinished(v) PROVE TokensIssued'
  <2>1. claim'.token = claim.token /\ (claim'.status # "none" => claim.status # "none")
    BY <1>5 DEF VerifyFinished, Marked, TypeOK
  <2>2. \A w \in Requests : w # v => req'[w] = req[w]
    BY <1>5 DEF VerifyFinished, TypeOK
  <2>3. req'[v].at \in {"verified", "refused"} /\ req'[v].body = req[v].body
    BY <1>5 DEF VerifyFinished, TypeOK
  <2> QED BY <1>5, <2>1, <2>2, <2>3 DEF VerifyFinished, TokensIssued
<1>6. ASSUME NEW v \in Requests, FileFetched(v) PROVE TokensIssued'
  BY <1>6 DEF FileFetched, TypeOK, TokensIssued
<1>7. ASSUME NEW t \in 0..issued, Publish(t) PROVE TokensIssued'
  BY <1>7 DEF Publish, TypeOK, TokensIssued
<1>8. CASE RowStep
  BY <1>8, RowStepFrame DEF TokensIssued
<1>9. CASE Restart
  <2>1. \A v \in Requests : /\ req'[v].at \in {"fetching", "reading"} => FALSE
                           /\ req'[v].body = req[v].body
    BY <1>9 DEF Restart, TypeOK
  <2> QED BY <1>9, <2>1 DEF Restart, TokensIssued
<1>10. CASE UNCHANGED vars
  BY <1>10 DEF vars, TokensIssued
<1> QED
  BY <1>1, <1>2, <1>3, <1>4, <1>5, <1>6, <1>7, <1>8, <1>9, <1>10 DEF Next, Verify, RowStep

(* A request that succeeds compared a hash the domain served; every other way
   to a verified claim or to a row approved for it starts from one. *)
LEMMA ProvenStep ==
  ASSUME TypeOK, TokensIssued, DomainProven, [Next]_vars
  PROVE  DomainProven'
<1>1. shown \subseteq shown'
  BY DEF Next, vars, Verify, InitiateClaim, ResetClaim, RevokeClaim, ClaimLapses, VerifyStart,
         FileFetched, FetchFailed, VerifyFinished, Publish, DeleteServices, EditService,
         AdminApprove, AdminReject, AdminRestore, ApproveChange, RowPurged, Register, Poll, SweepStale,
         Retire, Restart
<1>2. SUFFICES ASSUME shown = {}
               PROVE  DomainProven'
  <2>1. shown # {} => shown' # {}
    BY <1>1
  <2> QED BY <2>1 DEF DomainProven
<1>3. claim.status # "verified" /\ \A s \in Services : row[s].reason # "domain"
  BY <1>2 DEF DomainProven
<1>4. ASSUME NEW v \in Requests, VerifyFinished(v), HashMatches(v) PROVE FALSE
  BY <1>2, <1>4 DEF VerifyFinished, HashMatches, TokensIssued
<1>5. claim'.status # "verified"
  <2>1. CASE InitiateClaim \/ ResetClaim
    BY <2>1 DEF InitiateClaim, ResetClaim, NewToken
  <2>2. CASE RevokeClaim \/ ClaimLapses
    BY <1>3, <2>2 DEF RevokeClaim, ClaimLapses, TypeOK
  <2>3. ASSUME NEW v \in Requests, Verify(v) PROVE claim'.status # "verified"
    <3>1. CASE VerifyStart(v)
      BY <1>3, <3>1 DEF VerifyStart, TypeOK
    <3>2. CASE FileFetched(v) \/ FetchFailed(v)
      BY <1>3, <3>2 DEF FileFetched, FetchFailed
    <3>3. CASE VerifyFinished(v)
      BY <1>3, <1>4, <3>3 DEF VerifyFinished
    <3> QED BY <2>3, <3>1, <3>2, <3>3 DEF Verify
  <2>4. ASSUME NEW t \in 0..issued, Publish(t) PROVE claim'.status # "verified"
    BY <1>3, <2>4 DEF Publish
  <2>5. CASE RowStep \/ Restart \/ UNCHANGED vars
    BY <1>3, <2>5, RowStepFrame DEF Restart, vars
  <2> QED BY <2>1, <2>2, <2>3, <2>4, <2>5 DEF Next, RowStep
<1>6. \A s \in Services : row'[s].reason # "domain"
  <2>1. CASE RowStep
    <3>1. ASSUME NEW s \in Services, NEW r, Write(s, r), r.reason # "domain"
          PROVE  \A q \in Services : row'[q].reason # "domain"
      BY <1>3, <3>1 DEF Write, TypeOK
    <3>2. ASSUME NEW S \in SUBSET Services, DeleteServices(S)
          PROVE  \A q \in Services : row'[q].reason # "domain"
      BY <1>3, <3>2 DEF DeleteServices, TypeOK
    <3>3. ASSUME NEW s \in Services, NEW fields \in SUBSET Columns, EditService(s, fields)
          PROVE  \A q \in Services : row'[q].reason # "domain"
      BY <1>3, <3>3 DEF EditService, Owns
    <3>4. ASSUME NEW s \in Services, AdminApprove(s) \/ AdminReject(s) \/ AdminRestore(s) \/ RowPurged(s)
          PROVE  \A q \in Services : row'[q].reason # "domain"
      BY <1>3, <3>1, <3>4
         DEF AdminApprove, AdminReject, AdminRestore, RowPurged, Approved, Gone, NewRow, TypeOK
    <3>5. ASSUME NEW s \in Services, NEW gateway \in BOOLEAN, NEW priced \in BOOLEAN,
                 Register(s, gateway, priced)
          PROVE  \A q \in Services : row'[q].reason # "domain"
      <4> DEFINE r == Registered(row[s], priced)
      <4>1. r.reason # "domain" /\ Approved(r, "other").reason # "domain"
        BY <1>3 DEF Registered, Approved, NewRow, TypeOK
      <4>2. Write(s, r) \/ Write(s, Approved(r, "other"))
        BY <1>3, <3>5 DEF Register
      <4> QED BY <3>1, <4>1, <4>2
    <3>6. ASSUME NEW s \in Services, NEW upstream \in {"bazaar", "mpp", "other"}, NEW priced \in BOOLEAN,
                 Poll(s, upstream, priced)
          PROVE  \A q \in Services : row'[q].reason # "domain"
      <4> DEFINE r == Refreshed(row[s], priced)
                 q == [Relisted(r) EXCEPT !.status = IF @ = "retired" THEN "active" ELSE @]
      <4>1. r.reason # "domain" /\ Relisted(r).reason # "domain" /\ q.reason # "domain"
        BY <1>3 DEF Refreshed, Relisted, TypeOK
      <4>2. NewRow(upstream, "active").reason # "domain"
        BY DEF NewRow
      <4>3. \/ Write(s, r) \/ Write(s, Relisted(r)) \/ Write(s, q)
            \/ Write(s, NewRow(upstream, "active"))
        BY <3>6 DEF Poll
      <4> QED BY <3>1, <4>1, <4>2, <4>3
    <3>7. ASSUME NEW s \in Services, SweepStale(s) \/ Retire(s)
          PROVE  \A q \in Services : row'[q].reason # "domain"
      BY <1>3, <3>1, <3>7 DEF SweepStale, Retire, TypeOK
    <3>8. ASSUME NEW s \in Services, ApproveChange(s)
          PROVE  \A q \in Services : row'[q].reason # "domain"
      <4> DEFINE r == [Approved(Registered(row[s], FALSE), "other") EXCEPT !.source = "other"]
      <4>1. r.reason # "domain"
        BY <1>3 DEF Registered, Approved, NewRow, TypeOK
      <4>2. Write(s, r)
        BY <3>8 DEF ApproveChange
      <4> QED BY <3>1, <4>1, <4>2
    <3> QED BY <2>1, <3>2, <3>3, <3>4, <3>5, <3>6, <3>7, <3>8 DEF RowStep
  <2>2. CASE RevokeClaim \/ Restart
    <3>1. \A s \in Services : Unflagged(row[s]).reason # "domain" /\ Loaded(s).reason # "domain"
      BY <1>3 DEF Unflagged, Loaded, NewRow, TypeOK
    <3> QED BY <2>2, <3>1 DEF RevokeClaim, Restart
  <2>3. CASE ~RowStep /\ ~RevokeClaim /\ ~Restart
    <3>1. row' = row
      BY <1>4, <2>3 DEF Next, RowStep, vars, Verify, InitiateClaim, ResetClaim, ClaimLapses,
         VerifyStart, FileFetched, FetchFailed, VerifyFinished, Publish
    <3> QED BY <1>3, <3>1
  <2> QED BY <2>1, <2>2, <2>3
<1> QED BY <1>5, <1>6 DEF DomainProven

(* Whoever rewrites a text its owner wrote, or takes the flag of the row, also
   ends what is kept of it, except for the start over a listing of a file. *)
LEMMA EditsStep ==
  ASSUME TypeOK, EditsAreFlagged, OwnerEditStands, [Next]_vars
  PROVE  EditsAreFlagged' /\ OwnerEditStands'
<1> DEFINE Stands(r, k, e) == /\ k # {} => r.status # "none" /\ r.flagged
                              /\ "text" \in k /\ ~e => "text" \in r.own
           Stand == \A s \in Services : Stands(row[s], kept[s], s \in exclusive)
<1>1. SUFFICES Stand'
  <2>1. Stand' => EditsAreFlagged'
    BY DEF EditsAreFlagged, Exists
  <2>2. Stand' => OwnerEditStands'
    BY DEF OwnerEditStands
  <2> QED BY <2>1, <2>2
<1>2. Stand
  BY DEF EditsAreFlagged, OwnerEditStands, Exists
<1>frame. exclusive' = exclusive
  BY DEF Next, vars, Verify, InitiateClaim, ResetClaim, RevokeClaim, ClaimLapses, VerifyStart,
         FileFetched, FetchFailed, VerifyFinished, Publish, DeleteServices, EditService,
         AdminApprove, AdminReject, AdminRestore, ApproveChange, RowPurged, Register, Poll, SweepStale,
         Retire, Restart
<1>3. ASSUME NEW s \in Services, NEW r, Write(s, r), kept' = kept, Stands(r, kept[s], s \in exclusive)
      PROVE  Stand'
  BY <1>2, <1>3, <1>frame DEF Write, TypeOK
<1>4. ASSUME NEW s \in Services, NEW r, Write(s, r), Forget(s)
      PROVE  Stand'
  <2>1. kept'[s] = {} /\ \A q \in Services : q # s => kept'[q] = kept[q] /\ row'[q] = row[q]
    BY <1>4 DEF Write, Forget, TypeOK
  <2> QED BY <1>2, <2>1, <1>frame
<1>5. CASE UNCHANGED <<row, kept>>
  BY <1>2, <1>5, <1>frame
<1>6. CASE RevokeClaim
  BY <1>6 DEF RevokeClaim
<1>7. ASSUME NEW v \in Requests, VerifyFinished(v) PROVE Stand'
  <2>1. \A s \in Services : Stands(Vouched(row[s]), kept[s], s \in exclusive)
    BY <1>2 DEF Vouched, TypeOK
  <2> HIDE DEF Stands
  <2> QED BY <1>2, <1>7, <2>1, <1>frame DEF VerifyFinished
<1>8. ASSUME NEW S \in SUBSET Services, DeleteServices(S) PROVE Stand'
  BY <1>2, <1>8, <1>frame DEF DeleteServices, TypeOK
<1>9. ASSUME NEW s \in Services, NEW fields \in SUBSET Columns, EditService(s, fields) PROVE Stand'
  <2>1. row'[s] = Edited(s, fields) /\ kept'[s] = kept[s] \union fields /\ row[s].status # "none"
    BY <1>9 DEF EditService, Write, Exists, TypeOK
  <2>2. \A q \in Services : q # s => row'[q] = row[q] /\ kept'[q] = kept[q]
    BY <1>9 DEF EditService, Write, TypeOK
  <2>3. Stands(Edited(s, fields), kept[s] \union fields, s \in exclusive)
    BY <1>2, <2>1 DEF Edited, TypeOK
  <2> HIDE DEF Stands
  <2> QED BY <1>2, <2>1, <2>2, <2>3, <1>frame
<1>10. ASSUME NEW s \in Services,
              AdminApprove(s) \/ AdminReject(s) \/ AdminRestore(s) \/ SweepStale(s) \/ Retire(s)
       PROVE  Stand'
  BY <1>2, <1>3, <1>10 DEF AdminApprove, Approved, AdminReject, AdminRestore, SweepStale, Retire, TypeOK
<1>11. ASSUME NEW s \in Services, RowPurged(s) \/ ApproveChange(s) PROVE Stand'
  BY <1>4, <1>11 DEF RowPurged, ApproveChange
<1>12. ASSUME NEW s \in Services, NEW gateway \in BOOLEAN, NEW priced \in BOOLEAN,
              Register(s, gateway, priced)
       PROVE  Stand'
  BY <1>4, <1>12 DEF Register
<1>13. ASSUME NEW s \in Services, NEW upstream \in {"bazaar", "mpp", "other"}, NEW priced \in BOOLEAN,
              Poll(s, upstream, priced)
       PROVE  Stand'
  <2> DEFINE r == Refreshed(row[s], priced)
             q == [Relisted(r) EXCEPT !.status = IF @ = "retired" THEN "active" ELSE @]
             k == kept[s]
             e == s \in exclusive
  <2>1. CASE Exists(s)
    <3>1. row[s].flagged => r.own \intersect {"text"} = row[s].own \intersect {"text"}
      BY DEF Refreshed, Spared, TypeOK
    <3>2. r.status = row[s].status /\ r.flagged = row[s].flagged
      BY DEF Refreshed, TypeOK
    <3>3. Stands(r, k, e)
      BY <1>2, <3>1, <3>2
    <3>4. r \in RowType
      BY RowOperators DEF TypeOK, RowType
    <3>5. Stands(Relisted(r), k, e) /\ Stands(q, k, e)
      BY <3>3, <3>4 DEF Relisted, RowType
    <3>6. kept' = kept /\ (Write(s, r) \/ Write(s, Relisted(r)) \/ Write(s, q))
      BY <1>13, <2>1 DEF Poll
    <3> QED BY <1>3, <3>3, <3>5, <3>6
  <2>2. CASE ~Exists(s)
    <3>1. kept[s] = {}
      BY <2>2, <1>2 DEF Exists
    <3>2. kept' = kept /\ Write(s, NewRow(upstream, "active"))
      BY <1>13, <2>2 DEF Poll
    <3> QED BY <1>3, <3>1, <3>2
  <2> QED BY <2>1, <2>2
<1>14. CASE Restart
  <2>1. \A s \in Services : Stands(Loaded(s), kept[s], s \in exclusive)
    BY <1>2 DEF Loaded, Exists, TypeOK
  <2> HIDE DEF Stands
  <2> QED BY <1>14, <2>1, <1>frame DEF Restart
<1>15. CASE UNCHANGED vars
  BY <1>5, <1>15 DEF vars
<1> HIDE DEF Stand
<1> QED
  BY <1>5, <1>6, <1>7, <1>8, <1>9, <1>10, <1>11, <1>12, <1>13, <1>14, <1>15
  DEF Next, Verify, InitiateClaim, ResetClaim, ClaimLapses, VerifyStart, FileFetched, FetchFailed,
      Publish

----------------------------------------------------------------------------

(* domain-verify.js: types, tokens, proof and protected texts together, in every
   reachable state. *)
THEOREM ClaimInductive == Spec => []IInv
<1>1. IInv /\ [Next]_vars => IInv'
  BY TypeStep, TokensStep, ProvenStep, EditsStep DEF IInv
<1> QED BY InitIInv, <1>1, PTL DEF Spec

(* The values the variables take, in every reachable state. *)
THEOREM ClaimTypeCorrect == Spec => []TypeOK
<1>1. IInv => TypeOK
  BY DEF IInv
<1> QED BY ClaimInductive, <1>1, PTL

(* A claim is verified, and a row approved in the domain's name, only after
   the domain served the hash of a token issued for it. *)
THEOREM VerifiedDomainsAreProven == Spec => []DomainProven
<1>1. IInv => DomainProven
  BY DEF IInv
<1> QED BY ClaimInductive, <1>1, PTL

(* The texts an owner wrote stand, whichever pollers write the row, until a
   revocation, a new registration, an approved protocol change or the removal of
   the row; prices, and listings that a file describes, are not claimed. *)
THEOREM EditsAreProtected == Spec => []OwnerEditStands
<1>1. IInv => OwnerEditStands
  BY DEF IInv
<1> QED BY ClaimInductive, <1>1, PTL

(* No request in flight verifies a revoked or expired claim. *)
THEOREM ClosedClaimsStayClosed == Spec => ClosedStaysClosed
<1> DEFINE Stays == claim.status \in {"expired", "revoked"} =>
      claim'.status = claim.status \/ (claim'.status = "pending" /\ claim'.token > claim.token)
<1>1. ASSUME IInv, [Next]_vars PROVE Stays
  <2> USE <1>1 DEF IInv
  <2>1. CASE InitiateClaim \/ ResetClaim
    BY <2>1 DEF InitiateClaim, ResetClaim, NewToken, TokensIssued, TypeOK
  <2>2. CASE RevokeClaim \/ ClaimLapses
    BY <2>2 DEF RevokeClaim, ClaimLapses
  <2>3. ASSUME NEW v \in Requests, Verify(v) PROVE Stays
    <3>1. CASE VerifyStart(v)
      BY <3>1 DEF VerifyStart, TypeOK
    <3>2. CASE FileFetched(v) \/ FetchFailed(v)
      BY <3>2 DEF FileFetched, FetchFailed
    <3>3. CASE VerifyFinished(v)
      BY <3>3 DEF VerifyFinished, Marked, TypeOK
    <3> QED BY <2>3, <3>1, <3>2, <3>3 DEF Verify
  <2>4. ASSUME NEW t \in 0..issued, Publish(t) PROVE Stays
    BY <2>4 DEF Publish
  <2>5. CASE RowStep \/ Restart \/ UNCHANGED vars
    BY <2>5, RowStepFrame DEF Restart, vars
  <2> QED BY <1>1, <2>1, <2>2, <2>3, <2>4, <2>5 DEF Next, RowStep
<1>2. IInv /\ [Next]_vars => [Stays]_vars
  BY <1>1
<1> QED BY ClaimInductive, <1>2, PTL DEF Spec, ClosedStaysClosed

----------------------------------------------------------------------------
(* QuoteLadder *)

(* The ladder as it stands: every rung it was made of is still on it or its
   pair has been turned down. *)
LadderInv ==
  phase \in {"asking", "prepared", "paid", "failed"} =>
    /\ known = [rows |-> ToSet(rows), degraded |-> known.degraded]
    /\ ladder \subseteq LadderOf(rows, known.degraded)
    /\ \A r \in LadderOf(rows, known.degraded) : r \in ladder \/ PairOf(rows, r) \in refused

RowsAreListed ==
  /\ listing \in Seq(IndexRows) /\ rows \in Seq(IndexRows)
  /\ quote # Nil => phase \in {"prepared", "paid", "failed"}
  /\ ladder \subseteq [at : DOMAIN rows, route : DOMAIN RouteOrder]

QuotesInv == RowsAreListed /\ LadderInv /\ PreparedIsBest

----------------------------------------------------------------------------
(* The order *)

LEMMA RankIsOfNumbers ==
  ASSUME NEW k \in IndexRows
  PROVE  \A n \in 1..4 : Rank(k)[n] \in Int
<1>1. Score[k] \in Nat /\ Latency[k] \in Nat
  BY LadderAssumption
<1>2. Bit(k \in Proven) \in Int /\ Bit(BelowFloor(k)) \in Int
  BY DEF Bit
<1>. QED BY <1>1, <1>2 DEF Rank

(* Before compares the ranks by their first difference. *)
LEMMA BeforeIsLexicographic ==
  ASSUME NEW a \in IndexRows, NEW b \in IndexRows
  PROVE  Before(a, b) <=>
           \/ Rank(a)[1] < Rank(b)[1]
           \/ Rank(a)[1] = Rank(b)[1] /\ Rank(a)[2] < Rank(b)[2]
           \/ Rank(a)[1] = Rank(b)[1] /\ Rank(a)[2] = Rank(b)[2] /\ Rank(a)[3] < Rank(b)[3]
           \/ Rank(a)[1] = Rank(b)[1] /\ Rank(a)[2] = Rank(b)[2] /\ Rank(a)[3] = Rank(b)[3]
              /\ Rank(a)[4] < Rank(b)[4]
<1> DEFINE x == Rank(a)
           y == Rank(b)
<1>1. Before(a, b) <=> \E n \in 1..4 : x[n] < y[n] /\ \A m \in 1 .. n - 1 : x[m] = y[m]
  BY DEF Before
<1>2. x[1] \in Int /\ x[2] \in Int /\ x[3] \in Int /\ x[4] \in Int
      /\ y[1] \in Int /\ y[2] \in Int /\ y[3] \in Int /\ y[4] \in Int
  BY RankIsOfNumbers
<1> HIDE DEF x, y
<1>3. (\A m \in 1 .. 1 - 1 : x[m] = y[m]) <=> TRUE
  OBVIOUS
<1>4. (\A m \in 1 .. 2 - 1 : x[m] = y[m]) <=> x[1] = y[1]
  OBVIOUS
<1>5. (\A m \in 1 .. 3 - 1 : x[m] = y[m]) <=> x[1] = y[1] /\ x[2] = y[2]
  OBVIOUS
<1>6. (\A m \in 1 .. 4 - 1 : x[m] = y[m]) <=> x[1] = y[1] /\ x[2] = y[2] /\ x[3] = y[3]
  OBVIOUS
<1>7. \A n : n \in 1..4 <=> n \in {1, 2, 3, 4}
  OBVIOUS
<1>8. Before(a, b) <=> \E n \in {1, 2, 3, 4} : x[n] < y[n] /\ \A m \in 1 .. n - 1 : x[m] = y[m]
  BY <1>1, <1>7
<1>9. Before(a, b) <=>
           \/ x[1] < y[1]
           \/ x[1] = y[1] /\ x[2] < y[2]
           \/ x[1] = y[1] /\ x[2] = y[2] /\ x[3] < y[3]
           \/ x[1] = y[1] /\ x[2] = y[2] /\ x[3] = y[3] /\ x[4] < y[4]
  BY <1>3, <1>4, <1>5, <1>6, <1>8
<1>. QED BY <1>9 DEF x, y

(* Of two candidates in order, a third is before the second or after the
   first. *)
LEMMA BeforeIsWeakOrder ==
  ASSUME NEW a \in IndexRows, NEW b \in IndexRows, NEW c \in IndexRows
  PROVE  /\ Before(a, b) /\ Before(b, c) => Before(a, c)
         /\ Before(a, c) => Before(a, b) \/ Before(b, c)
         /\ ~Before(a, a)
<1>1. \A n \in 1..4 : Rank(a)[n] \in Int /\ Rank(b)[n] \in Int /\ Rank(c)[n] \in Int
  BY RankIsOfNumbers
<1>2. \A k \in {a, b, c} : \A l \in {a, b, c} : Before(k, l) <=>
           \/ Rank(k)[1] < Rank(l)[1]
           \/ Rank(k)[1] = Rank(l)[1] /\ Rank(k)[2] < Rank(l)[2]
           \/ Rank(k)[1] = Rank(l)[1] /\ Rank(k)[2] = Rank(l)[2] /\ Rank(k)[3] < Rank(l)[3]
           \/ Rank(k)[1] = Rank(l)[1] /\ Rank(k)[2] = Rank(l)[2] /\ Rank(k)[3] = Rank(l)[3]
              /\ Rank(k)[4] < Rank(l)[4]
  BY BeforeIsLexicographic
<1>. QED BY <1>1, <1>2

(* A candidate before one that is tried is tried. *)
LEMMA BetterIsTried ==
  ASSUME NEW read \in Seq(IndexRows), NEW bad, NEW r \in LadderOf(read, bad),
         NEW n \in DOMAIN read, Candidate(read[n], bad),
         n = r.at \/ Before(read[n], read[r.at]),
         NEW i \in DOMAIN RouteOrder, Pair(read[n], RouteOrder[i]) \notin bad
  PROVE  Rung(n, i) \in LadderOf(read, bad)
<1> DEFINE candidates == {m \in DOMAIN read : Candidate(read[m], bad)}
           ahead(m) == {l \in candidates : Precedes(read, l, m)}
           few == {m \in candidates : Cardinality(ahead(m)) < MAX_DEAD_CANDIDATES}
<1>1. r.at \in few /\ r.at \in candidates
  BY DEF LadderOf
<1>2. IsFiniteSet(candidates) /\ candidates \subseteq DOMAIN read
  <2>1. DOMAIN read = 1..Len(read) /\ Len(read) \in Nat
    OBVIOUS
  <2>2. IsFiniteSet(DOMAIN read)
    BY <2>1, FS_Interval
  <2>. QED BY <2>2, FS_Subset
<1>3. n \in candidates
  OBVIOUS
<1>4. n \in few
  <2>1. CASE n = r.at
    BY <2>1, <1>1
  <2>2. CASE Before(read[n], read[r.at])
    <3>1. \A m \in DOMAIN read : read[m] \in IndexRows
      OBVIOUS
    <3>2. ASSUME NEW l \in ahead(n) PROVE l \in ahead(r.at)
      <4>1. l \in candidates /\ Precedes(read, l, n)
        OBVIOUS
      <4>2. read[l] \in IndexRows /\ read[n] \in IndexRows /\ read[r.at] \in IndexRows
        BY <3>1, <4>1, <1>1, <1>2
      <4>3. Before(read[l], read[r.at])
        BY <4>1, <4>2, <2>2, BeforeIsWeakOrder DEF Precedes
      <4>. QED BY <4>1, <4>3 DEF Precedes
    <3>3. ahead(n) \subseteq ahead(r.at)
      BY <3>2
    <3>4. IsFiniteSet(ahead(r.at))
      BY <1>2, FS_Subset
    <3>5. /\ Cardinality(ahead(n)) <= Cardinality(ahead(r.at))
          /\ IsFiniteSet(ahead(n))
      BY <3>3, <3>4, FS_Subset
    <3>6. Cardinality(ahead(n)) \in Nat /\ Cardinality(ahead(r.at)) \in Nat
      BY <3>4, <3>5, FS_CardinalityType
    <3>7. Cardinality(ahead(r.at)) < MAX_DEAD_CANDIDATES
      BY <1>1
    <3>8. MAX_DEAD_CANDIDATES \in Int
      BY LadderAssumption
    <3> HIDE DEF ahead, candidates
    <3>9. Cardinality(ahead(n)) < MAX_DEAD_CANDIDATES
      BY <3>5, <3>6, <3>7, <3>8
    <3>. QED BY <3>9, <1>3
  <2>. QED BY <2>1, <2>2
<1>5. Rung(n, i) \in [at : few, route : DOMAIN RouteOrder]
  BY <1>4 DEF Rung
<1>6. PairOf(read, Rung(n, i)) = Pair(read[n], RouteOrder[i])
  BY DEF PairOf, Rung
<1> HIDE DEF few
<1>7. LadderOf(read, bad) = {s \in [at : few, route : DOMAIN RouteOrder] : PairOf(read, s) \notin bad}
  BY DEF LadderOf, few
<1>. QED BY <1>5, <1>6, <1>7

----------------------------------------------------------------------------
(* The rung that is prepared *)

LEMMA TopIsBest ==
  ASSUME LadderInv, phase = "asking", rows \in Seq(IndexRows),
         NEW r \in ladder, \A s \in ladder : ~Above(rows, s, r),
         NEW q \in Pairs, q.row \in known.rows, Candidate(q.row, known.degraded), q \notin known.degraded,
         \/ Before(q.row, rows[r.at])
         \/ /\ q.row = rows[r.at]
            /\ \E i \in DOMAIN RouteOrder : RouteOrder[i] = q.route /\ \A j \in 1..i : RouteOrder[j] # RouteOrder[r.route]
  PROVE  q \in refused
<1> DEFINE bad == known.degraded
<1>1. r \in LadderOf(rows, bad) /\ known.rows = ToSet(rows)
  BY DEF LadderInv
<1>2. r.at \in DOMAIN rows /\ r.route \in DOMAIN RouteOrder
  BY <1>1 DEF LadderOf
<1>3. PICK k \in IndexRows, t \in ToSet(RouteOrder) : q = Pair(k, t)
  BY DEF Pairs
<1>4. q.row = k /\ q.route = t
  BY <1>3 DEF Pair
<1>5. CASE Before(q.row, rows[r.at])
  <2>1. PICK n \in DOMAIN rows : rows[n] = k
    BY <1>1, <1>4 DEF ToSet
  <2>2. PICK i \in DOMAIN RouteOrder : RouteOrder[i] = t
    BY DEF ToSet
  <2>3. Rung(n, i) \in LadderOf(rows, bad)
    BY <1>1, <1>3, <1>4, <1>5, <2>1, <2>2, BetterIsTried
  <2>4. PairOf(rows, Rung(n, i)) = q
    BY <1>3, <2>1, <2>2 DEF PairOf, Rung
  <2>5. Above(rows, Rung(n, i), r)
    BY <1>4, <1>5, <2>1 DEF Above, Precedes, Rung
  <2>. QED BY <2>3, <2>4, <2>5 DEF LadderInv
<1>6. CASE /\ q.row = rows[r.at]
           /\ \E i \in DOMAIN RouteOrder : RouteOrder[i] = q.route /\ \A j \in 1..i : RouteOrder[j] # RouteOrder[r.route]
  <2>1. PICK i \in DOMAIN RouteOrder : RouteOrder[i] = t /\ \A j \in 1..i : RouteOrder[j] # RouteOrder[r.route]
    BY <1>4, <1>6
  <2>2. i < r.route
    <3>1. DOMAIN RouteOrder = 1..Len(RouteOrder) /\ Len(RouteOrder) \in Nat
      BY LadderAssumption
    <3>2. r.route \notin 1..i
      BY <2>1
    <3>. QED BY <3>1, <3>2, <1>2
  <2>3. Rung(r.at, i) \in LadderOf(rows, bad)
    BY <1>1, <1>2, <1>3, <1>4, <1>6, <2>1, BetterIsTried
  <2>4. PairOf(rows, Rung(r.at, i)) = q
    BY <1>3, <1>4, <1>6, <2>1 DEF PairOf, Rung
  <2>5. Above(rows, Rung(r.at, i), r)
    BY <2>2 DEF Above, Rung
  <2>. QED BY <2>3, <2>4, <2>5 DEF LadderInv
<1>. QED BY <1>5, <1>6

----------------------------------------------------------------------------
(* The steps *)

LEMMA IndexIsListed == SetToSeq(IndexRows) \in Seq(IndexRows)
<1> DEFINE size == Cardinality(IndexRows)
<1>1. size \in Nat /\ ExistsBijection(1..size, IndexRows)
  BY LadderAssumption, FS_CardinalityType
<1>2. PICK f \in [1..size -> IndexRows] : \A a, b \in 1..size : f[a] = f[b] => a = b
  BY <1>1 DEF ExistsBijection, Bijection, Injection, IsInjective
<1>3. \E g \in [1..size -> IndexRows] : IsInjective(g)
  BY <1>2 DEF IsInjective
<1>4. SetToSeq(IndexRows) \in [1..size -> IndexRows]
  BY <1>3 DEF SetToSeq
<1>. QED BY <1>1, <1>4

LEMMA PageIsListed ==
  ASSUME NEW s \in Seq(IndexRows), NEW m \in Nat
  PROVE  SubSeq(s, m + 1, Min({Len(s), m + PageSize})) \in Seq(IndexRows)
<1> DEFINE last == Min({Len(s), m + PageSize})
<1>1. Len(s) \in Int /\ m + PageSize \in Int
  BY LadderAssumption
<1>2. \E x \in {Len(s), m + PageSize} : \A y \in {Len(s), m + PageSize} : x =< y
  BY <1>1
<1>3. last \in {Len(s), m + PageSize} /\ last =< Len(s)
  BY <1>2 DEF Min
<1> HIDE DEF last
<1>4. last \in Int /\ m + 1 \in Int
  BY <1>1, <1>3
<1>5. \A i \in m + 1 .. last : s[i] \in IndexRows
  BY <1>3, <1>4
<1>6. SubSeq(s, m + 1, last) \in Seq(IndexRows)
  BY <1>4, <1>5, SubSeqProperties
<1>. QED BY <1>6 DEF last

LEMMA RemovalIsListed ==
  ASSUME NEW s \in Seq(IndexRows), NEW n \in DOMAIN s
  PROVE  RemoveAt(s, n) \in Seq(IndexRows)
<1>1. n \in 1..Len(s) /\ Len(s) \in Nat
  OBVIOUS
<1>2. SubSeq(s, 1, n - 1) \in Seq(IndexRows)
  BY <1>1, SubSeqProperties
<1>3. SubSeq(s, n + 1, Len(s)) \in Seq(IndexRows)
  BY <1>1, SubSeqProperties
<1>. QED BY <1>2, <1>3, ConcatProperties DEF RemoveAt

LEMMA RungsAreOfRows ==
  ASSUME NEW read, NEW bad
  PROVE  LadderOf(read, bad) \subseteq [at : DOMAIN read, route : DOMAIN RouteOrder]
BY DEF LadderOf

LEMMA QuotesInit == QLAInit => QuotesInv
BY IndexIsListed DEF QLAInit, QuotesInv, RowsAreListed, LadderInv, PreparedIsBest

(* What PreparedIsBest says of a quote. *)
LEMMA SameQuote ==
  ASSUME PreparedIsBest, UNCHANGED <<quote, known, refused>>
  PROVE  PreparedIsBest'
BY DEF PreparedIsBest

LEMMA QuotesStep ==
  ASSUME QuotesInv, [QLANext]_qlaVars
  PROVE  QuotesInv'
<1> USE DEF QuotesInv
<1>1. CASE FetchPage
  <2> DEFINE page == SubSeq(listing, Len(rows) + 1, Min({Len(listing), Len(rows) + PageSize}))
             read == rows \o page
  <2>1. phase = "reading" /\ quote = Nil /\ quote' = Nil /\ listing' = listing
    BY <1>1 DEF FetchPage, RowsAreListed
  <2>2. PreparedIsBest'
    BY <2>1 DEF PreparedIsBest
  <2>3. rows' = read /\ read \in Seq(IndexRows)
    <3>1. page \in Seq(IndexRows)
      BY PageIsListed DEF RowsAreListed
    <3>2. read \in Seq(IndexRows)
      BY <3>1, ConcatProperties DEF RowsAreListed
    <3>. QED BY <3>2, <1>1 DEF FetchPage
  <2> HIDE DEF read
  <2>4. CASE Len(page) = PageSize
    <3>1. phase' = "reading" /\ ladder' = ladder
      BY <1>1, <2>1, <2>4 DEF FetchPage
    <3>2. LadderInv'
      BY <3>1 DEF LadderInv
    <3>3. DOMAIN rows \subseteq DOMAIN rows'
      <4>1. page \in Seq(IndexRows) /\ rows \in Seq(IndexRows)
        BY PageIsListed DEF RowsAreListed
      <4>2. Len(read) = Len(rows) + Len(page) /\ Len(page) \in Nat /\ Len(rows) \in Nat
        BY <4>1, ConcatProperties DEF read
      <4>3. DOMAIN rows = 1..Len(rows) /\ DOMAIN read = 1..Len(read) /\ Len(read) \in Nat
        BY <4>1, <2>3
      <4> HIDE DEF page
      <4>4. 1..Len(rows) \subseteq 1..Len(read)
        BY <4>2, <4>3
      <4>. QED BY <4>3, <4>4, <2>3
    <3>4. ladder' \subseteq [at : DOMAIN rows', route : DOMAIN RouteOrder]
      BY <3>1, <3>3 DEF RowsAreListed
    <3>5. RowsAreListed'
      BY <2>1, <2>3, <3>4 DEF RowsAreListed
    <3>. QED BY <2>2, <3>2, <3>5
  <2>5. CASE Len(page) # PageSize
    <3>1. /\ known' = [rows |-> ToSet(read), degraded |-> degraded]
          /\ ladder' = LadderOf(read, degraded)
      BY <1>1, <2>5 DEF FetchPage, read
    <3>2. LadderInv'
      BY <3>1, <2>3 DEF LadderInv
    <3>3. ladder' \subseteq [at : DOMAIN rows', route : DOMAIN RouteOrder]
      BY <3>1, <2>3, RungsAreOfRows
    <3>4. RowsAreListed'
      BY <2>1, <2>3, <3>3 DEF RowsAreListed
    <3>. QED BY <2>2, <3>2, <3>4
  <2>. QED BY <2>4, <2>5
<1>2. CASE FetchFails
  <2>1. /\ phase = "reading" /\ phase' = "refused"
        /\ UNCHANGED <<listing, rows, ladder, quote, known, refused>>
    BY <1>2 DEF FetchFails
  <2>2. RowsAreListed' /\ LadderInv'
    BY <2>1 DEF RowsAreListed, LadderInv
  <2>. QED BY <2>1, <2>2, SameQuote
<1>3. CASE AskRoute
  <2>1. PICK r \in ladder :
          /\ \A s \in ladder : ~Above(rows, s, r)
          /\ \/ NextRung(r)
             \/ \E c \in Challenges :
                  /\ Payable(Firm(PairOf(rows, r).route, c))
                  /\ UNCHANGED <<ladder, refused>>
                  /\ \/ phase' = "refused" /\ UNCHANGED quote
                     \/ /\ Firm(PairOf(rows, r).route, c) \leq JobCap
                        /\ phase' = "prepared"
                        /\ quote' = [pair |-> PairOf(rows, r), sats |-> Firm(PairOf(rows, r).route, c),
                                     invoice |-> c.invoice]
    <3>1. PICK r \in ladder :
            /\ \A s \in ladder : ~Above(rows, s, r)
            /\ \/ NextRung(r)
               \/ \E c \in Challenges :
                    LET sats == Firm(PairOf(rows, r).route, c)
                    IN IF ~Payable(sats) THEN NextRung(r)
                       ELSE /\ UNCHANGED <<ladder, refused>>
                            /\ IF sats > JobCap THEN phase' = "refused" /\ UNCHANGED quote
                               ELSE /\ phase' = "prepared"
                                    /\ quote' = [pair |-> PairOf(rows, r), sats |-> sats, invoice |-> c.invoice]
      BY <1>3 DEF AskRoute
    <3>2. ASSUME NEW c \in Challenges, NEW route,
                 Payable(Firm(route, c)), ~(Firm(route, c) > JobCap)
          PROVE  Firm(route, c) \leq JobCap
      <4>1. Firm(route, c) \in Nat \union {Nil} /\ JobCap \in Nat
        BY LadderAssumption DEF Firm, DirectQuote, GatewayQuote
      <4>2. Firm(route, c) \in Nat
        BY <3>2, <4>1 DEF Payable
      <4>. QED BY <3>2, <4>1, <4>2
    <3>. QED BY <3>1, <3>2
  <2>2. phase = "asking" /\ quote = Nil /\ UNCHANGED <<listing, rows, known>>
    BY <1>3 DEF AskRoute, RowsAreListed
  <2>3. CASE NextRung(r)
    <3>1. /\ refused' = refused \union {PairOf(rows, r)} /\ ladder' = ladder \ {r}
          /\ phase' \in {"refused", "asking"} /\ quote' = Nil
      BY <2>2, <2>3 DEF NextRung
    <3>2. LadderInv'
      BY <2>2, <3>1 DEF LadderInv
    <3>3. RowsAreListed'
      BY <2>2, <3>1 DEF RowsAreListed
    <3>. QED BY <3>1, <3>2, <3>3 DEF PreparedIsBest
  <2>4. CASE phase' = "refused" /\ UNCHANGED <<ladder, refused, quote>>
    BY <2>2, <2>4 DEF RowsAreListed, LadderInv, PreparedIsBest
  <2>5. ASSUME NEW c \in Challenges,
               Payable(Firm(PairOf(rows, r).route, c)),
               UNCHANGED <<ladder, refused>>,
               Firm(PairOf(rows, r).route, c) \leq JobCap,
               phase' = "prepared",
               quote' = [pair |-> PairOf(rows, r), sats |-> Firm(PairOf(rows, r).route, c),
                         invoice |-> c.invoice]
        PROVE  QuotesInv'
    <3> DEFINE p == PairOf(rows, r)
               sats == Firm(p.route, c)
    <3>1. p.row = rows[r.at] /\ p.route = RouteOrder[r.route]
      BY DEF PairOf, Pair
    <3>2. r \in LadderOf(rows, known.degraded) /\ known.rows = ToSet(rows)
      BY <2>2 DEF LadderInv
    <3>3. p.row \in known.rows /\ Candidate(p.row, known.degraded) /\ p \notin known.degraded
      BY <3>1, <3>2 DEF LadderOf, ToSet
    <3>4. ASSUME NEW q \in Pairs, q.row \in known.rows, Candidate(q.row, known.degraded), q \notin known.degraded,
                 \/ Before(q.row, p.row)
                 \/ q.row = p.row /\ \E i \in DOMAIN RouteOrder :
                      RouteOrder[i] = q.route /\ \A j \in 1..i : RouteOrder[j] # p.route
          PROVE  q \in refused
      <4>1. rows \in Seq(IndexRows)
        BY DEF RowsAreListed
      <4>. QED BY <2>1, <2>2, <3>1, <3>4, <4>1, TopIsBest
    <3>5. quote'.pair = p /\ quote'.sats = sats /\ known' = known /\ refused' = refused
      BY <2>2, <2>5
    <3> HIDE DEF p, sats
    <3>6. Payable(sats) /\ sats \leq JobCap
      BY <2>5 DEF sats, p
    <3>7. PreparedIsBest'
      BY <3>3, <3>4, <3>5, <3>6 DEF PreparedIsBest
    <3>8. RowsAreListed' /\ LadderInv'
      BY <2>2, <2>5 DEF RowsAreListed, LadderInv
    <3>. QED BY <3>7, <3>8
  <2>. QED BY <2>1, <2>2, <2>3, <2>4, <2>5
<1>4. CASE PayJob
  <2>1. /\ phase = "prepared" /\ phase' \in {"paid", "failed"}
        /\ UNCHANGED <<listing, rows, ladder, quote, known, refused>>
    BY <1>4 DEF PayJob
  <2>2. RowsAreListed' /\ LadderInv'
    BY <2>1 DEF RowsAreListed, LadderInv
  <2>. QED BY <2>1, <2>2, SameQuote
<1>5. CASE IndexMoves
  <2>1. UNCHANGED <<phase, rows, ladder, quote, known, refused>>
    BY <1>5 DEF IndexMoves
  <2>2. listing' \in Seq(IndexRows)
    <3>1. ASSUME NEW k \in IndexRows PROVE <<k>> \o listing \in Seq(IndexRows)
      BY ConcatProperties DEF RowsAreListed
    <3>2. listing \in Seq(IndexRows)
      BY DEF RowsAreListed
    <3>. QED BY <1>5, <3>1, <3>2, RemovalIsListed DEF IndexMoves
  <2>3. RowsAreListed' /\ LadderInv'
    BY <2>1, <2>2 DEF RowsAreListed, LadderInv
  <2>. QED BY <2>1, <2>3, SameQuote
<1>6. CASE AnotherDegrades
  <2>1. UNCHANGED <<listing, phase, rows, ladder, quote, known, refused>>
    BY <1>6 DEF AnotherDegrades
  <2>2. RowsAreListed' /\ LadderInv'
    BY <2>1 DEF RowsAreListed, LadderInv
  <2>. QED BY <2>1, <2>2, SameQuote
<1>7. CASE UNCHANGED qlaVars
  <2>1. UNCHANGED <<listing, phase, rows, ladder, quote, known, refused>>
    BY <1>7 DEF qlaVars
  <2>2. RowsAreListed' /\ LadderInv'
    BY <2>1 DEF RowsAreListed, LadderInv
  <2>. QED BY <2>1, <2>2, SameQuote
<1>. QED BY <1>1, <1>2, <1>3, <1>4, <1>5, <1>6, <1>7 DEF QLANext

(* A job that is prepared is on the best pair that was offered and answered:
   every better candidate, and every earlier route of the same one, had been
   asked and turned down. *)
THEOREM PreparedJobsAreBest == QLASpec => []PreparedIsBest
<1>1. QuotesInv /\ [QLANext]_qlaVars => QuotesInv'
  BY QuotesStep
<1>2. QuotesInv => PreparedIsBest
  BY DEF QuotesInv
<1>. QED BY QuotesInit, <1>1, <1>2, PTL DEF QLASpec

----------------------------------------------------------------------------
(* The components side by side *)

(* A behaviour of the run is one of each component: the one it is about takes
   steps, the others stutter. *)
LEMMA EachRequestSteps ==
  /\ RequestsInit => Init /\ PWInit /\ LPInit /\ QLAInit
  /\ [RequestsNext]_requestsVars => [Next]_vars /\ [PWNext]_pwVars /\ [LPNext]_lpVars /\ [QLANext]_qlaVars
<1>1. RequestsInit => Init /\ PWInit /\ LPInit /\ QLAInit
  BY Zenon DEF RequestsInit
<1>2. RequestsNext => [Next]_vars /\ [PWNext]_pwVars /\ [LPNext]_lpVars /\ [QLANext]_qlaVars
  BY Zenon DEF RequestsNext
<1>3. UNCHANGED requestsVars => UNCHANGED vars /\ UNCHANGED pwVars /\ UNCHANGED lpVars /\ UNCHANGED qlaVars
  BY Zenon DEF requestsVars
<1>. QED BY <1>1, <1>2, <1>3

(* MCRequests, and with it the components it composes: a behaviour of the
   composition is one of every component, so that what is proved of the
   components' specifications holds of it. *)
THEOREM RequestsAreComposed == RequestsSpec => Spec /\ PWSpec /\ LPSpec /\ QLASpec
BY EachRequestSteps, PTL DEF RequestsSpec, Spec, PWSpec, LPSpec, QLASpec
=============================================================================
