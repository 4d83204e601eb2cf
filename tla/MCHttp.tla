--------------------------------- MODULE MCHttp ---------------------------------
(* The HTTP transport: pushes and pulls (HttpSync), reading page by page with   *)
(* cursors (CursorPaging), bodies and middleware (HttpEndpoint) and the codecs  *)
(* of event data (WireFormat). A behaviour is one of any of them.               *)
EXTENDS MCHttpSync

VARIABLES
  part,  \* which of them runs
  api, tenant, pageLog, temp, cur, wire, pages, asks,
  client, server, chain, req, stage, resp, result, exchanges,
  registry, fallback, wires, got, sent, registers

pagingVars == <<api, tenant, pageLog, temp, cur, wire, pages, asks>>
endpointVars == <<client, server, chain, req, stage, resp, result, exchanges>>
wireVars == <<registry, fallback, wires, got, sent, registers>>

Paging == INSTANCE CursorPaging WITH
  Origins <- {"n1", "n2"}, NoOrigin <- "null", Tenants <- {"t1", "t2"}, Conns <- {"c1", "c2"},
  Limits <- {0, 1, 4}, DefaultLimit <- 2, MaxLimit <- 3, MaxWireSize <- 1,
  MaxEvents <- 3, MaxAsks <- 3, log <- pageLog, got <- pages

Endpoint == INSTANCE HttpEndpoint WITH
  Sizes <- 1..4, DefaultMin <- 1, DefaultMax <- 2, DefaultDecompressed <- 3, MaxExchanges <- 1,
  ClientChoices <- [gzip : BOOLEAN, raw : BOOLEAN, min : {1}, max : {0, 2}, dec : {1, 3}],
  ServerChoices <- [gzip : BOOLEAN, threshold : {2}, max : {0, 2}, dec : {1, 3}],
  Chains <- {<<"tenant", "hmac", "bearer">>, <<"bearer", "tenant">>},
  Credentials <- {[token |-> "t1", signed |-> TRUE, header |-> "t2"],
                  [token |-> "none", signed |-> TRUE, header |-> "t2"],
                  [token |-> "bad", signed |-> FALSE, header |-> "none"]}

Wire == INSTANCE WireFormat WITH
  Kinds <- {"user", "order"}, Editions <- {"v1", "v2"}, MaxWires <- 1, MaxRegisters <- 3

PartInit ==
  /\ part \in {"sync", "paging", "endpoint", "wire"}
  /\ Init /\ Paging!Init /\ Endpoint!Init /\ Wire!Init
  /\ part # "sync" => keyed = {} /\ ~unique /\ parser = "zero"
  /\ part # "paging" => api = "pull-cursor"

PartNext ==
  /\ UNCHANGED part
  /\ \/ part = "sync" /\ Next /\ UNCHANGED <<pagingVars, endpointVars, wireVars>>
     \/ part = "paging" /\ Paging!Next /\ UNCHANGED <<vars, endpointVars, wireVars>>
     \/ part = "endpoint" /\ Endpoint!Next /\ UNCHANGED <<vars, pagingVars, wireVars>>
     \/ part = "wire" /\ Wire!Next /\ UNCHANGED <<vars, pagingVars, endpointVars>>

\* The fairness of HttpSync; the other parts are checked for safety only.
PartSpec ==
  /\ PartInit /\ [][PartNext]_<<part, vars, pagingVars, endpointVars, wireVars>>
  /\ \A p \in Pushes : /\ WF_vars(part = "sync" /\ ClientStep(p))
                       /\ WF_vars(part = "sync" /\ PushTimesOut(p))
  /\ \A at \in Attempts : WF_vars(part = "sync" /\ ServerStep(at))
  /\ WF_vars(part = "sync" /\ Pull)

\* CursorPaging: the pages a client was given leave nothing out.
PagesSkipNothing == part = "paging" => Paging!PagesSkipNothing
\* HttpEndpoint: compression changes what travels and never what is accepted.
CompressionIsTransparent == part = "endpoint" => Endpoint!CompressionIsTransparent
\* HttpEndpoint: a request is handled for the tenant of its token.
TokenTenantWins == part = "endpoint" => Endpoint!TokenTenantWins
\* WireFormat: data arrives as the value that was sent or as generic JSON.
DataIsNotMisread == part = "wire" => Wire!DataIsNotMisread
================================================================================
