------------------------------ MODULE HttpEndpoint ------------------------------
(* What happens to the bodies of /push and /pull between the client              *)
(* (transport/httptransport/client.go) and the handler (http.go): the middleware *)
(* chain, gzip in both directions, and the size limits of compression.go and     *)
(* helpers.go. A body is its length; a JSON array cut short does not decode.     *)
EXTENDS Naturals, FiniteSets, SequencesExt

CONSTANTS
  Sizes,         \* lengths of bodies, plain or compressed
  ClientChoices, \* the ClientOptions an application passes; 0 is an unset size
  ServerChoices, \* the ServerOptions
  Chains,        \* middleware chains: sequences over "bearer", "hmac", "tenant"
  Credentials,   \* what requests carry: [token, signed, header]; a token is "bad", or
                 \* names its tenant or none
  DefaultMin,    \* 1 KB
  DefaultMax, DefaultDecompressed, \* 10 MB and 20 MB
  MaxExchanges   \* a bound

VARIABLES
  client,   \* the transport's options
  server,   \* the handler's options
  chain,    \* its middleware
  req,      \* the request under way, with what middleware added to its context
  stage,    \* "new", "idle", "sent", "answered"
  resp,     \* the response: [status, wire, gzip, size]
  result,   \* what the client's caller got: "none", "ok", "error"
  exchanges

heVars == <<client, server, chain, req, stage, resp, result, exchanges>>

Nothing == [op |-> "none"]
NoTenant == "none"

--------------------------------------------------------------------------------
(* Options.                                                                     *)

DefaultClientOptions ==
  [gzip |-> TRUE, raw |-> FALSE, min |-> DefaultMin, max |-> DefaultMax, dec |-> DefaultDecompressed]
ValidateClientOptions(o) == o.max > 0 /\ o.dec > 0 /\ (o.raw => o.dec >= o.max)
Or(size, default) == IF size = 0 THEN default ELSE size

\* NewTransport: unset sizes are filled in; options that are invalid are replaced.
NewTransport(o) ==
  LET filled == [o EXCEPT !.max = Or(@, DefaultMax), !.dec = Or(@, DefaultDecompressed)]
  IN  IF ValidateClientOptions(filled) THEN filled ELSE DefaultClientOptions

Init ==
  /\ client = DefaultClientOptions
  /\ server = [gzip |-> TRUE, threshold |-> DefaultMin, max |-> DefaultMax, dec |-> DefaultDecompressed]
  /\ chain = <<>>
  /\ req = Nothing /\ resp = Nothing
  /\ stage = "new" /\ result = "none" /\ exchanges = 0

\* NewSyncHandler takes the options as they are; Chain wraps it.
Start ==
  /\ stage = "new"
  /\ \E o \in ClientChoices : client' = NewTransport(o)
  /\ server' \in ServerChoices
  /\ chain' \in Chains
  /\ stage' = "idle"
  /\ UNCHANGED <<req, resp, result, exchanges>>

--------------------------------------------------------------------------------
(* The client's requests. wire is the length of what is sent.                   *)

\* A client that sets no Accept-Encoding leaves it to Go's transport, which then
\* decompresses by itself, unless the application turned that off.
AcceptsGzip(op) == (client.gzip /\ op # "latest") \/ ~client.raw

Send(r) ==
  /\ stage = "idle" /\ exchanges < MaxExchanges
  /\ exchanges' = exchanges + 1
  /\ req' = r /\ stage' = "sent" /\ result' = "none" /\ resp' = Nothing
  /\ UNCHANGED <<client, server, chain>>

Compresses(size) == client.gzip /\ size > Or(client.min, DefaultMin)

Push(size, packed, credentials) ==
  Send([op |-> "push", size |-> size, gzip |-> Compresses(size),
        wire |-> IF Compresses(size) THEN packed ELSE size,
        credentials |-> credentials, user |-> FALSE, tenant |-> NoTenant])

Pull(op, credentials) ==
  Send([op |-> op, size |-> 0, gzip |-> FALSE, wire |-> 0,
        credentials |-> credentials, user |-> FALSE, tenant |-> NoTenant])

--------------------------------------------------------------------------------
(* The middleware, applied from the first of the chain to the last.             *)

Refused == [op |-> "refused"]

BearerAuth(r) ==
  IF r.credentials.token = "bad" THEN Refused
  ELSE [r EXCEPT !.user = TRUE, !.tenant = IF r.credentials.token = NoTenant THEN @ ELSE r.credentials.token]
HMACValidator(r) == IF r.credentials.signed THEN r ELSE Refused

TenantExtractor(r) ==
  IF r.tenant # NoTenant \/ r.credentials.header = NoTenant THEN r
  ELSE [r EXCEPT !.tenant = r.credentials.header]

Apply(r, m) ==
  CASE r = Refused -> Refused
    [] r # Refused /\ m = "bearer" -> BearerAuth(r)
    [] r # Refused /\ m = "hmac" -> HMACValidator(r)
    [] r # Refused /\ m = "tenant" -> TenantExtractor(r)
Chain(r) == FoldLeft(Apply, r, chain)

--------------------------------------------------------------------------------
(* The handler.                                                                 *)

\* The readers of a request let through what is within their limits: MaxBytesReader
\* counts what arrives, maxDecompressedReader what comes out of gzip.
MaxDecompressed(size, limit) == size <= limit
Least(a, b) == IF a < b THEN a ELSE b

CreateSafeRequestReader(r) ==
  LET max == Or(server.max, DefaultMax)
      dec == Or(server.dec, DefaultDecompressed)
  IN  IF r.gzip THEN r.wire <= max /\ MaxDecompressed(r.size, dec) ELSE r.size <= Least(max, dec)

\* handlePush compares Content-Length with the option before its default is applied.
HandlePush(r) == IF r.wire <= server.max /\ CreateSafeRequestReader(r) THEN 200 ELSE 413

NegotiateCompression(r, size) == server.gzip /\ size >= server.threshold /\ AcceptsGzip(r.op)

RespondWithJSON(r, status, size, packed) ==
  LET gzip == NegotiateCompression(r, size)
  IN  resp' = [status |-> status, size |-> size, gzip |-> gzip, wire |-> IF gzip THEN packed ELSE size]

\* size is that of the page or of the acknowledgement, packed what gzip makes of it.
ServeHTTP(size, packed) ==
  /\ stage = "sent"
  /\ LET r == Chain(req)
         status == IF r.op = "push" THEN HandlePush(r) ELSE 200
     IN  IF r = Refused
         THEN resp' = [status |-> 401, size |-> size, gzip |-> FALSE, wire |-> size] /\ UNCHANGED req
         ELSE req' = r /\ RespondWithJSON(r, status, size, packed)
  /\ stage' = "answered"
  /\ UNCHANGED <<client, server, chain, result, exchanges>>

--------------------------------------------------------------------------------
(* The client reads the answer.                                                 *)

\* Go's transport has already decompressed what it asked for itself.
Transparent == ~client.raw /\ (~client.gzip \/ req.op = "latest")

\* LimitReader ends the body at its limit, and what is left of it does not decode,
\* unless only gzip's trailer is cut.
\* Mutant of CreateSafeResponseReader: it unpacks when the option says so.
CreateSafeResponseReaderByOption(r, trailer) ==
  IF client.gzip /\ ~Transparent
  THEN r.gzip /\ (r.wire <= client.max \/ trailer) /\ r.size <= client.dec
  ELSE r.size <= client.max
CreateSafeResponseReader(r, trailer) ==
  IF r.gzip /\ ~Transparent
  THEN (r.wire <= client.max \/ trailer) /\ r.size <= client.dec
  ELSE r.size <= client.max

Receive(trailer) ==
  /\ stage = "answered"
  /\ result' = IF resp.status = 200 /\ (req.op = "push" \/ CreateSafeResponseReader(resp, trailer)) THEN "ok" ELSE "error"
  /\ stage' = "idle"
  /\ UNCHANGED <<client, server, chain, req, resp, exchanges>>

\* The connection breaks before or after the handler ran.
Lose ==
  /\ stage \in {"sent", "answered"}
  /\ result' = "error" /\ stage' = "idle" /\ resp' = Nothing
  /\ UNCHANGED <<client, server, chain, req, exchanges>>

Next ==
  \/ Start
  \/ \E c \in Credentials :
       \/ \E size, packed \in Sizes : Push(size, packed, c)
       \/ \E op \in {"pull", "latest"} : Pull(op, c)
  \/ \E size, packed \in Sizes : ServeHTTP(size, packed)
  \/ \E trailer \in BOOLEAN : Receive(trailer)
  \/ Lose

Spec == Init /\ [][Next]_heVars

--------------------------------------------------------------------------------
(* Properties.                                                                  *)

Finished == stage = "idle" /\ resp # Nothing /\ resp.status # 401

\* Compression changes what travels and never what is accepted: a body within the
\* receiver's limit as plain JSON is accepted whatever the two sides' compression
\* settings are, unless gzip made it longer, and nothing longer than the larger
\* limit of the receiver is ever accepted (compression.go, helpers.go). It holds for
\* the options whose limit after gzip is at least the one before.
CompressionIsTransparent ==
  /\ Finished /\ req.op = "push" /\ 0 < server.max /\ server.max <= server.dec =>
       /\ req.size <= server.max /\ req.wire <= req.size => result = "ok"
       /\ result = "ok" => req.size <= server.dec
  /\ Finished /\ req.op # "push" /\ client.max <= client.dec =>
       /\ resp.size <= client.max /\ resp.wire <= resp.size => result = "ok"
       /\ result = "ok" => resp.size <= client.dec

\* The tenant a request is handled for is its token's, wherever in the chain the
\* token is checked, and the header's only if the token names none
\* (middleware/bearer.go and tenant.go).
TokenTenantWins ==
  stage = "answered" /\ resp.status # 401 =>
    LET in == ToSet(chain)
    IN  req.tenant = IF "bearer" \in in /\ req.credentials.token # NoTenant THEN req.credentials.token
                     ELSE IF "tenant" \in in THEN req.credentials.header ELSE NoTenant
================================================================================
