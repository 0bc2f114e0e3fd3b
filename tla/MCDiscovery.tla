---------------------------- MODULE MCDiscovery ----------------------------
(* Discovery with the paths of the script and six endpoints: two of one host,
   the gate of the second being the url of the first, one whose gate is the last
   path the budget reaches, one that is registered with the wrong method, one
   that only hints in its robots.txt, and a healthy one. *)
EXTENDS Discovery

MCWellKnown == <<"/.well-known/l402-services", "/.well-known/l402", "/.well-known/lsat/services">>
MCCommon == <<"/api/l402", "/api/v1", "/api", "/v1", "/api/v1/chat", "/api/v1/completions", "/api/chat",
              "/ask", "/api/generate", "/api/inference", "/api/search">>

Endpoint(host, url, gates) ==
  [health |-> "down", provider |-> "p", host |-> host, url |-> url, method |-> Unset,
   valid |-> TRUE, blocked |-> FALSE, parents |-> <<>>, gates |-> gates, half |-> {},
   page |-> FALSE, links |-> <<>>, hints |-> FALSE, robots |-> <<>>, sitemap |-> <<>>]

OfB(url, parents) ==
  [Endpoint("b", url, {<<"/v2/x", "POST">>, <<"/api", "GET">>})
     EXCEPT !.page = TRUE, !.hints = TRUE, !.links = <<"/docs", "/v2/x", "/docs">>, !.parents = parents]

MCListing == <<
  OfB("/v2/x", <<"/v2">>),
  OfB("/old", <<>>),
  [Endpoint("c", "/api/v1/a", {<<"/api/generate", "POST">>})
     EXCEPT !.parents = <<"/api/v1", "/api">>, !.page = TRUE, !.links = <<"/v1/a", "/v1/b">>],
  [Endpoint("d", "/post", {<<"/post", "POST">>}) EXCEPT !.half = {<<"/post", "GET">>}],
  [Endpoint("e", "/r", {<<"/v1/r", "GET">>, <<"/", "GET">>}) EXCEPT !.robots = <<"/v1/r">>, !.half = {<<"/r", "GET">>}],
  [Endpoint("f", "/ok", {<<"/ok", "GET">>}) EXCEPT !.health = "healthy"] >>
============================================================================
