---------------------------- MODULE ProbeConfig ----------------------------
(* How an endpoint is called: the probe (services/probe-endpoint.js), the
   discovery of a method and a body on its host (services/wellknown-discovery.js),
   what a registration keeps of the call it validated (routes/api/register.js),
   and the check that calls the endpoint with what was kept (health/checker.js).
   The endpoint answers the same call the same way; one row of it is followed. *)
EXTENDS Naturals

CONSTANTS
  HeadAnswers, GetAnswers, PostAnswers,  \* the answers an endpoint may have
  Methods,                               \* methods a registration may name
  Unsaid                                 \* no method is named

Failed == [status |-> "failed", challenge |-> "none"]
Statuses == {"402", "400", "406", "405/200", "other", "failed"}
Challenges == {"none", "header", "body", "foreign"}

(* The default, the caller's, and the one made up from the request schema the
   host publishes (buildMinimalProbeBody). *)
Bodies == {"{}", "own", "found"}

ASSUME ProbeConfigAssumption ==
  /\ HeadAnswers \cup GetAnswers \cup PostAnswers
       \subseteq [status : Statuses, challenge : Challenges]
  /\ "GET" \in Methods /\ "POST" \in Methods /\ Unsaid \notin Methods

VARIABLES
  site,     \* the endpoint: its answer to each call, what its host says of it
  config,   \* http_method and probe_body of the row; no row yet
  assured   \* history: the last to write the row or check it found the
            \* challenge with this very call or wrote what it had found

pcVars == <<site, config, assured>>

NoConfig == [method |-> Unsaid, body |-> "{}"]
(* An x402 challenge may be in the body; the others are in the headers. *)
Sites ==
  {s \in [l402 : BOOLEAN, head : HeadAnswers, get : GetAnswers,
          post : [Bodies -> PostAnswers], says : Methods \cup {Unsaid}] :
     s.l402 => "body" \notin {s.get.challenge} \cup {s.post[b].challenge : b \in Bodies}}

PCTypeOK ==
  /\ site \in Sites
  /\ config \in [method : Methods \cup {Unsaid}, body : Bodies]
  /\ assured \in BOOLEAN
PCInit == site \in Sites /\ config = NoConfig /\ assured = FALSE

----------------------------------------------------------------------------
(* The probe *)

(* doFetch: POST is sent as such; for every other method HEAD goes first, and
   its answer stands if it is a 402, whose body is then not there to be read. *)
Fetched(method, body) ==
  IF method = "POST" THEN site.post[body]
  ELSE IF site.head.status \in {"402", "failed"} THEN site.head
  ELSE site.get

(* getPrimaryDetection finds the row's protocol, and the challenge is valid. *)
Ours(answer) == answer.challenge \in {"header", "body"}
Valid(answer) == Ours(answer) \/ answer.challenge = "foreign"

(* probeEndpoint tries POST where GET shows no price. *)
TriesPost(method, body) ==
  method = "GET" /\ Fetched(method, body).status \in {"400", "405/200"}

Promoted(method, body) ==
  /\ TriesPost(method, body)
  /\ site.post[body].status = "402" /\ Valid(site.post[body])

Answer(method, body) ==
  IF Promoted(method, body) THEN site.post[body] ELSE Fetched(method, body)
MethodUsed(method, body) == IF Promoted(method, body) THEN "POST" ELSE method

(* verifyEndpoint's valid, and the checker's healthy by a 402. *)
Challenged(method, body) ==
  LET answer == Answer(method, body) IN answer.status = "402" /\ Ours(answer)

----------------------------------------------------------------------------
(* Registration *)

(* What the document of the host says of the path: nothing where there is no
   document, it cannot be read or it does not list the path. *)
discoverProbeConfig ==
  IF site.says = Unsaid THEN {} ELSE {[method |-> site.says, body |-> "found"]}

(* The host is asked for an L402 endpoint that answers 400 or 406. *)
Discovers(method, body) ==
  /\ site.l402 /\ ~Challenged(method, body)
  /\ Answer(method, body).status \in {"400", "406"}
  /\ discoverProbeConfig # {}

(* The discovered body is probed with, and not kept. *)
GivenOnly(given, discovered) == given

StoredBody(given, discovered) ==
  IF given = "{}" /\ discovered THEN "found" ELSE given

Register(named, given) ==
  LET direct == IF named = Unsaid THEN "GET" ELSE named
      discovered == Discovers(direct, given)
      calls == IF discovered THEN discoverProbeConfig ELSE {[method |-> direct, body |-> given]}
      stored == StoredBody(given, discovered)
      kept == stored # "{}" \/ config.body = "{}"
  IN \E call \in calls :
       /\ Challenged(call.method, call.body)
       /\ config' = [method |-> IF named = Unsaid THEN MethodUsed(call.method, call.body) ELSE named,
                     body |-> IF stored = "{}" THEN config.body ELSE stored]
       /\ assured' = (kept /\ (discovered => named = Unsaid /\ given = "{}"))
       /\ UNCHANGED site

(* A catalog's upsert: what it says of the method, and {} for a POST. *)
CatalogWrites(method, body) ==
  /\ body \in {"{}", config.body}
  /\ config' = [method |-> method, body |-> body]
  /\ assured' = FALSE
  /\ UNCHANGED site

(* checkService, as far as it goes into the call: a valid challenge to the POST
   that was tried makes POST the method of the row. *)
Check ==
  /\ config.method # Unsaid
  /\ config' = [config EXCEPT !.method =
       IF TriesPost(config.method, config.body) /\ Ours(site.post[config.body])
       THEN "POST" ELSE @]
  /\ assured' = Challenged(config.method, config.body)
  /\ UNCHANGED site

PCNext ==
  \/ \E named \in Methods \cup {Unsaid}, given \in {"{}", "own"} : Register(named, given)
  \/ \E method \in Methods, body \in Bodies : CatalogWrites(method, body)
  \/ Check

PCSpec == PCInit /\ [][PCNext]_pcVars

----------------------------------------------------------------------------
(* The call that is kept is the call that was validated: what a registration of
   an endpoint accepted, or a check found, the next check finds again,
   whichever of HEAD, GET, POST and discovery led there.  Out of this are a
   registration that names a method or a body and succeeds with the discovered
   one, and one without a body over a row that has one (README, section 4). *)
StoredConfigAnswers == assured => Challenged(config.method, config.body)
============================================================================
