----------------------------- MODULE Onboarding -----------------------------
(* How a principal of the router gets its token and its card: the setup page,
   visited once by a human (router/src/setup.ts), and the registration inside
   the tool call of an agent without a card (router/src/registration.ts, called
   by router/src/tools/invoke.ts).  Both go through a Stripe Checkout session
   and await Stripe between reading their tables and writing them; requests for
   one session or one agent overlap. *)
EXTENDS Naturals, FiniteSets

CONSTANTS
  Sessions, \* Checkout sessions
  Visits,   \* requests to /setup/complete; each mints a principal of its own
  Agents,   \* principals without a card that call invoke
  Calls,    \* invoke calls under way at the same time
  None      \* no session, no principal

(* A visit mints a principal nobody has. *)
ASSUME OnboardingAssumption ==
  None \notin Sessions \cup Visits \cup Agents /\ Visits \cap Agents = {}

VARIABLES
  checkout, \* per session: what Stripe knows of it
  visit,    \* per visit: how far complete() is, or the page it answered
  call,     \* per call: how far the registration of its agent is
  cards,    \* per principal: the session its payment method comes from
  mandates, \* principals with a standing budget
  tokens,   \* principals with a token that resolves
  revoked,  \* principals whose token was revoked
  usedBy,   \* setup_sessions: the principal a session was used for
  pends     \* pending_registrations: the session an agent was sent to

obVars == <<checkout, visit, call, cards, mandates, tokens, revoked, usedBy, pends>>
obTables == <<cards, mandates, tokens, revoked, usedBy, pends>>

Principals == Visits \cup Agents
Absent == [is |-> "none"]
Made(status, for) == [is |-> status, for |-> for]
Nothing == [at |-> "none"]
Place(at, z) == [at |-> at, session |-> z]
InCall(at, a, z) == [at |-> at, agent |-> a, session |-> z]
Status(z) == checkout[z].is

OBTypeOK ==
  /\ checkout \in [Sessions -> {Absent} \cup
       [is : {"open", "complete", "expired"}, for : {"setup"} \cup Agents]]
  /\ visit \in [Visits -> {Nothing} \cup
       [at : {"retrieving", "reading", "shown", "told", "failed"}, session : Sessions]]
  /\ call \in [Calls -> {Nothing} \cup
       [at : {"checking", "storing", "polling", "creating", "minted"},
        agent : Agents, session : Sessions \cup {None}]]
  /\ cards \in [Principals -> Sessions \cup {None}]
  /\ mandates \subseteq Visits /\ tokens \subseteq Visits /\ revoked \subseteq Visits
  /\ usedBy \in [Sessions -> Visits \cup {None}]
  /\ pends \in [Agents -> Sessions \cup {None}]

OBInit ==
  /\ checkout = [z \in Sessions |-> Absent]
  /\ visit = [v \in Visits |-> Nothing] /\ call = [c \in Calls |-> Nothing]
  /\ cards = [p \in Principals |-> None]
  /\ mandates = {} /\ tokens = {} /\ revoked = {}
  /\ usedBy = [z \in Sessions |-> None] /\ pends = [a \in Agents |-> None]

----------------------------------------------------------------------------
(* Stripe *)

(* The human ends the hosted page, or lets it expire. *)
CheckoutEnds(z, how) ==
  /\ Status(z) = "open"
  /\ checkout' = [checkout EXCEPT ![z].is = how]
  /\ UNCHANGED <<visit, call>> /\ UNCHANGED obTables

----------------------------------------------------------------------------
(* The setup page *)

CreateSession(z) ==
  /\ Status(z) = "none"
  /\ checkout' = [checkout EXCEPT ![z] = Made("open", "setup")]
  /\ UNCHANGED <<visit, call>> /\ UNCHANGED obTables

(* A session that was used is told so and nothing else happens. *)
CompleteStarts(v, z) ==
  /\ visit[v].at = "none" /\ Status(z) # "none" /\ checkout[z].for = "setup"
  /\ visit' = [visit EXCEPT ![v] =
       Place(IF usedBy[z] # None THEN "told" ELSE "retrieving", z)]
  /\ UNCHANGED <<checkout, call>> /\ UNCHANGED obTables

CompleteRetrieved(v) ==
  /\ visit[v].at = "retrieving"
  /\ visit' = [visit EXCEPT ![v].at =
       IF Status(visit[v].session) = "complete" THEN "reading" ELSE "told"]
  /\ UNCHANGED <<checkout, call>> /\ UNCHANGED obTables

(* The session is marked without looking whether it was used meanwhile. *)
ShownAnyway(v) ==
  /\ visit[v].at = "reading"
  /\ LET z == visit[v].session
     IN /\ cards' = [cards EXCEPT ![v] = z]
        /\ usedBy' = [usedBy EXCEPT ![z] = v]
  /\ mandates' = mandates \cup {v} /\ tokens' = tokens \cup {v}
  /\ visit' = [visit EXCEPT ![v].at = "shown"]
  /\ UNCHANGED <<checkout, call, revoked, pends>>

(* The card, the mandate, the token and the session, one autocommit insert
   after the other.  The session's is refused when it was used meanwhile: the
   page is an error, and what was inserted before stays. *)
CompleteInserts(v) ==
  /\ visit[v].at = "reading"
  /\ LET z == visit[v].session
     IN /\ cards' = [cards EXCEPT ![v] = z]
        /\ mandates' = mandates \cup {v}
        /\ tokens' = tokens \cup {v}
        /\ IF usedBy[z] = None
           THEN /\ usedBy' = [usedBy EXCEPT ![z] = v]
                /\ visit' = [visit EXCEPT ![v].at = "shown"]
           ELSE /\ visit' = [visit EXCEPT ![v].at = "failed"]
                /\ UNCHANGED usedBy
  /\ UNCHANGED <<checkout, call, revoked, pends>>

RevokeToken(v) ==
  /\ v \in tokens
  /\ tokens' = tokens \ {v} /\ revoked' = revoked \cup {v}
  /\ UNCHANGED <<checkout, visit, call, cards, mandates, usedBy, pends>>

----------------------------------------------------------------------------
(* Registration inside a call *)

(* No card: completeIfRegistered looks for a pending session first. *)
ColdCall(c, a) ==
  /\ call[c].at = "none" /\ cards[a] = None
  /\ call' = [call EXCEPT ![c] =
       InCall(IF pends[a] = None THEN "creating" ELSE "checking", a, pends[a])]
  /\ UNCHANGED <<checkout, visit>> /\ UNCHANGED obTables

(* Not finished: checkoutUrlFor reads the pending session again. *)
Checked(c) ==
  /\ call[c].at = "checking"
  /\ LET a == call[c].agent
     IN call' = [call EXCEPT ![c] =
          IF Status(call[c].session) = "complete"
          THEN InCall("storing", a, call[c].session)
          ELSE InCall(IF pends[a] = None THEN "creating" ELSE "polling", a, pends[a])]
  /\ UNCHANGED <<checkout, visit>> /\ UNCHANGED obTables

(* The card is put, whatever is there; the pending row goes, whatever it is. *)
CardStored(c) ==
  /\ call[c].at = "storing"
  /\ cards' = [cards EXCEPT ![call[c].agent] = call[c].session]
  /\ pends' = [pends EXCEPT ![call[c].agent] = None]
  /\ call' = [call EXCEPT ![c] = Nothing]
  /\ UNCHANGED <<checkout, visit, mandates, tokens, revoked, usedBy>>

(* An open session is handed out again; another one is replaced. *)
Polled(c) ==
  /\ call[c].at = "polling"
  /\ IF Status(call[c].session) = "open"
     THEN call' = [call EXCEPT ![c] = Nothing] /\ UNCHANGED pends
     ELSE /\ call' = [call EXCEPT ![c] = InCall("creating", call[c].agent, None)]
          /\ pends' = [pends EXCEPT ![call[c].agent] = None]
  /\ UNCHANGED <<checkout, visit, cards, mandates, tokens, revoked, usedBy>>

(* Stripe makes the session; its answer has not arrived yet. *)
SessionMade(c, z) ==
  /\ call[c].at = "creating" /\ Status(z) = "none"
  /\ checkout' = [checkout EXCEPT ![z] = Made("open", call[c].agent)]
  /\ call' = [call EXCEPT ![c] = InCall("minted", call[c].agent, z)]
  /\ UNCHANGED visit /\ UNCHANGED obTables

SessionStored(c) ==
  /\ call[c].at = "minted"
  /\ pends' = [pends EXCEPT ![call[c].agent] = call[c].session]
  /\ call' = [call EXCEPT ![c] = Nothing]
  /\ UNCHANGED <<checkout, visit, cards, mandates, tokens, revoked, usedBy>>

(* Stripe throws: the call reports it, the tables stay. *)
CallFails(c) ==
  /\ call[c].at # "none"
  /\ call' = [call EXCEPT ![c] = Nothing]
  /\ UNCHANGED <<checkout, visit>> /\ UNCHANGED obTables

VisitFails(v) ==
  /\ visit[v].at \in {"retrieving", "reading"}
  /\ visit' = [visit EXCEPT ![v].at = "failed"]
  /\ UNCHANGED <<checkout, call>> /\ UNCHANGED obTables

----------------------------------------------------------------------------
(* The process dies after the first inserts of a visit: of the card (1), the
   mandate (2), the token (3); with 4 the session is used and no page shown. *)
DiesInserting(v, done) ==
  /\ visit[v].at = "reading" /\ done \in 1..4
  /\ done = 4 => usedBy[visit[v].session] = None
  /\ cards' = [cards EXCEPT ![v] = visit[v].session]
  /\ mandates' = IF done >= 2 THEN mandates \cup {v} ELSE mandates
  /\ tokens' = IF done >= 3 THEN tokens \cup {v} ELSE tokens
  /\ usedBy' = IF done = 4 THEN [usedBy EXCEPT ![visit[v].session] = v] ELSE usedBy
  /\ visit' = [w \in Visits |->
       IF visit[w].at \in {"retrieving", "reading"} THEN [visit[w] EXCEPT !.at = "failed"]
       ELSE visit[w]]
  /\ call' = [c \in Calls |-> Nothing]
  /\ UNCHANGED <<checkout, revoked, pends>>

OBNext ==
  \/ \E z \in Sessions : CreateSession(z)
  \/ \E z \in Sessions, how \in {"complete", "expired"} : CheckoutEnds(z, how)
  \/ \E v \in Visits, z \in Sessions : CompleteStarts(v, z)
  \/ \E v \in Visits : \/ CompleteRetrieved(v) \/ CompleteInserts(v)
                       \/ VisitFails(v) \/ RevokeToken(v)
  \/ \E v \in Visits, done \in 1..4 : DiesInserting(v, done)
  \/ \E c \in Calls, a \in Agents : ColdCall(c, a)
  \/ \E c \in Calls : \/ Checked(c) \/ CardStored(c) \/ Polled(c)
                      \/ SessionStored(c) \/ CallFails(c)
  \/ \E c \in Calls, z \in Sessions : SessionMade(c, z)

OBSpec == OBInit /\ [][OBNext]_obVars

----------------------------------------------------------------------------
(* Whatever overlaps or dies: a session shows at most one token, the principal
   of a token that was shown has the card and the budget of that very session,
   and the card of any principal was entered on a page made for it. *)
ShownTokenPays ==
  /\ \A v \in Visits : visit[v].at = "shown" =>
       /\ v \in tokens \cup revoked /\ v \in mandates
       /\ cards[v] = visit[v].session /\ usedBy[visit[v].session] = v
  /\ \A v, w \in Visits :
       visit[v].at = "shown" /\ visit[w].at = "shown"
         /\ visit[v].session = visit[w].session => v = w
  /\ \A p \in Principals : cards[p] # None =>
       checkout[cards[p]] =
         Made("complete", IF p \in Agents THEN p ELSE "setup")
============================================================================
