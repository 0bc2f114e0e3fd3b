------------------------------ MODULE Paywall ------------------------------
(* The free tier and the paywall of the API: middleware/l402.js asks the gateway
   about a token, middleware/rate-limit.js counts the request against the windows
   of its address, and a request over the free limit, or one for the export
   without a token, is answered with an invoice from the gateway, with 503 when
   the gateway has none, or with 429.  Both calls of the gateway are awaited, so
   requests of one address overlap.

   A limiter of express-rate-limit opens a window with the first request of an
   address and counts every request that is not skipped, refused ones too. *)
EXTENDS Integers, FiniteSets

CONSTANTS
  Clients,          \* addresses
  MaxRequests,      \* bound: requests
  Gateway,          \* L402_GATEWAY: "partner" or "none"
  L402_ENABLED,
  Limit, WindowMs,  \* per limiter, in ticks of the clock
  Duration,         \* L402_DURATION_HOURS, in ticks
  MaxNow,           \* bound on the clock
  Nobody

Limiters == {"queryMin", "queryHour", "free", "l402"}
Slots402 == 1..MaxRequests

Answers402 == [status : {200, 402, 429, 503}, invoice : BOOLEAN]
Requests402 ==
  [client : Clients, path : {"search", "list", "export"}, require : BOOLEAN, token : BOOLEAN,
   verified : BOOLEAN, stage : {"verify", "challenge", "answered"}, answer : Answers402 \cup {Nobody},
   by : Limiters \cup {Nobody}, at : 0..MaxNow]

ASSUME PaywallAssumption ==
  /\ Gateway \in {"partner", "none"} /\ L402_ENABLED \in BOOLEAN
  /\ Limit \in [Limiters -> Nat] /\ WindowMs \in [Limiters -> Nat \ {0}] /\ Duration \in Nat
  /\ MaxRequests \in Nat /\ MaxNow \in Nat
  /\ Nobody \notin Answers402 /\ Nobody \notin Requests402

VARIABLES
  now,
  window,           \* per limiter and address: count and the end of the window
  request,          \* per slot
  paid,             \* per address: when the token it bought expires
  hits              \* history: per limiter and address, when the requests in each slot were counted

pwVars == <<now, window, request, paid, hits>>

Answer(status, invoice) == [status |-> status, invoice |-> invoice]
Invalid == -1
Unreachable == -2

Ok == Answer(200, FALSE)
TooMany == Answer(429, FALSE)

PWTypeOK ==
  /\ now \in 0..MaxNow
  /\ window \in [Limiters -> [Clients -> [count : Nat, until : Nat]]]
  /\ request \in [Slots402 -> Requests402 \cup {Nobody}]
  /\ paid \in [Clients -> Invalid .. MaxNow + Duration]

PWInit ==
  /\ now = 0
  /\ window = [l \in Limiters |-> [c \in Clients |-> [count |-> 0, until |-> 0]]]
  /\ request = [s \in Slots402 |-> Nobody]
  /\ paid = [c \in Clients |-> Invalid]
  /\ hits = [l \in Limiters |-> [c \in Clients |-> {}]]

----------------------------------------------------------------------------
(* What a request goes through after its token was looked at: the limiters that
   do not skip it, in the order they are mounted. *)

Skips(l, r) ==
  CASE l \in {"queryMin", "queryHour"} -> r.path # "search" \/ r.verified
    [] l = "free" -> r.verified
    [] l = "l402" -> ~r.verified

LimitFor(l, r) == IF l = "free" /\ r.require THEN 0 ELSE Limit[l]

Counted(l, c) ==
  LET w == window[l][c]
  IN IF w.until <= now THEN [count |-> 1, until |-> now + WindowMs[l]] ELSE [w EXCEPT !.count = @ + 1]

Over(l, r) == ~Skips(l, r) /\ Counted(l, r.client).count > LimitFor(l, r)

(* The first limiter that refuses ends the chain, so later ones do not count. *)
Chain == <<"queryMin", "queryHour", "free", "l402">>
Reached(n, r) == \A m \in 1 .. n - 1 : ~Over(Chain[m], r)
Counting(r) == {Chain[n] : n \in {k \in 1..4 : Reached(k, r) /\ ~Skips(Chain[k], r)}}
Refusing(r) == {l \in Counting(r) : Over(l, r)}

CountIn(s, r) ==
  /\ window' = [l \in Limiters |-> IF l \in Counting(r) THEN [window[l] EXCEPT ![r.client] = Counted(l, r.client)] ELSE window[l]]
  /\ hits' = [l \in Limiters |-> IF l \in Counting(r) THEN [hits[l] EXCEPT ![r.client] = @ \union {<<s, now>>}] ELSE hits[l]]

(* The handler of the limiter that refuses, or the route. *)
Handled(r) ==
  LET end(answer) == [r EXCEPT !.stage = "answered", !.answer = answer]
      sell == [r EXCEPT !.stage = "challenge"]
      by == Refusing(r)
  IN IF by = {} THEN IF r.path = "export" /\ ~r.verified THEN sell ELSE end(Ok)
     ELSE IF by = {"free"} /\ L402_ENABLED THEN [sell EXCEPT !.by = "free", !.at = now]
     ELSE [end(TooMany) EXCEPT !.by = CHOOSE l \in by : TRUE, !.at = now]

----------------------------------------------------------------------------
(* A request comes in; without a token there is nothing to wait for. *)
Incoming(s) ==
  /\ request[s] = Nobody /\ \A t \in 1 .. s - 1 : request[t] # Nobody
  /\ \E c \in Clients, p \in {"search", "list", "export"}, token \in BOOLEAN, require \in BOOLEAN :
       /\ require => p = "list"
       /\ LET r == [client |-> c, path |-> p, require |-> require, token |-> token, verified |-> FALSE,
                    stage |-> "verify", answer |-> Nobody, by |-> Nobody, at |-> now]
          IN IF token THEN request' = [request EXCEPT ![s] = r] /\ UNCHANGED <<window, hits>>
             ELSE CountIn(s, r) /\ request' = [request EXCEPT ![s] = Handled(r)]
  /\ UNCHANGED <<now, paid>>

(* What verifyToken says of a token: the tick until which it is valid, or that it
   is not, or nothing; the stub knows none. *)
Says402(c) ==
  IF Gateway = "none" THEN {Invalid} ELSE {Unreachable, paid[c]}

(* verifyL402 sets l402Verified on a valid token that has not expired; an error
   leaves the request in the free tier. *)
SetsVerified(says) == says >= now

Verified402(s) ==
  /\ request[s] # Nobody /\ request[s].stage = "verify"
  /\ \E says \in Says402(request[s].client) :
       LET r == [request[s] EXCEPT !.verified = SetsVerified(says), !.at = now]
       IN CountIn(s, r) /\ request' = [request EXCEPT ![s] = Handled(r)]
  /\ UNCHANGED <<now, paid>>

(* sendGatewayUnavailable *)
Unavailable == Answer(503, FALSE)

(* Bug: the client that was refused on purpose is told to slow down. *)
TooManyOnError(r, minted) ==
  IF minted = "invoice" THEN Answer(402, TRUE)
  ELSE IF minted = "error" /\ r.by = Nobody THEN Unavailable
  ELSE IF r.by = "free" THEN TooMany ELSE Answer(402, FALSE)

(* Without a gateway the provider is a stub that mints nothing. *)
Sold(r, minted) ==
  IF minted = "invoice" THEN Answer(402, TRUE)
  ELSE IF minted = "error" THEN Unavailable
  ELSE IF r.by = "free" THEN TooMany ELSE Answer(402, FALSE)

Challenged402(s) ==
  /\ request[s] # Nobody /\ request[s].stage = "challenge"
  /\ \E minted \in IF Gateway = "none" THEN {"nothing"} ELSE {"invoice", "error"} :
       request' = [request EXCEPT ![s].stage = "answered", ![s].answer = Sold(request[s], minted)]
  /\ UNCHANGED <<now, window, paid, hits>>

----------------------------------------------------------------------------
(* The client and the clock *)

Pays(c) ==
  /\ \E s \in Slots402 : request[s] # Nobody /\ request[s].client = c
                         /\ request[s].answer = Answer(402, TRUE)
  /\ paid[c] < now /\ paid' = [paid EXCEPT ![c] = now + Duration]
  /\ UNCHANGED <<now, window, request, hits>>

Later ==
  /\ now < MaxNow /\ now' = now + 1
  /\ UNCHANGED <<window, request, paid, hits>>

PWNext ==
  \/ \E s \in Slots402 : Incoming(s) \/ Verified402(s) \/ Challenged402(s)
  \/ \E c \in Clients : Pays(c)
  \/ Later

PWSpec == PWInit /\ [][PWNext]_pwVars

----------------------------------------------------------------------------
(* What holds *)

(* The requests the limiter that refused this one had counted by then, within
   the length of its window. *)
Recent(r) == {h \in hits[r.by][r.client] : h[2] <= r.at /\ h[2] > r.at - WindowMs[r.by]}

(* Whoever is told to slow down had been too fast, by the limit that goes for
   everybody and not the one a buyer asks for. *)
LimitedIsTrue(r) == r.answer = TooMany => Cardinality(Recent(r)) > Limit[r.by]

(* A gateway that fails opens the free tier and not what is sold. *)
ExportIsPaid(r) == r.answer = Ok /\ r.path = "export" => r.token /\ paid[r.client] >= r.at

(* Payment is asked for with something to pay. *)
DemandIsPayable(r) == r.answer # Nobody /\ r.answer.status = 402 => r.answer.invoice

(* A deployment with a gateway answers truthfully, whichever of its calls fail
   and however requests of an address overlap. *)
PaywallIsHonest ==
  Gateway = "partner" /\ L402_ENABLED =>
    \A s \in Slots402 : request[s] # Nobody =>
      LimitedIsTrue(request[s]) /\ ExportIsPaid(request[s]) /\ DemandIsPayable(request[s])

----------------------------------------------------------------------------
(* What the repository says and the code does not do *)

(* rate-limit.js: without a gateway "the client really did exhaust the free
   tier. 429 is the truth in this branch".  With ?l402=require the first request
   gets it. *)
StubIsHonest ==
  \A s \in Slots402 : request[s] # Nobody => LimitedIsTrue(request[s])
=============================================================================
