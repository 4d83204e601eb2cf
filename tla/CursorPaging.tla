------------------------------ MODULE CursorPaging ------------------------------
(* Reading the server's events page by page: POST /pull-cursor                   *)
(* (transport/httptransport/cursor_api.go and cursor_client.go), the cursor      *)
(* server over the queries of storage/sqlite/pull.go, with integer and vector    *)
(* cursors (cursor/cursor.go), and GET /pull with its query parameters           *)
(* (query.go). Events are inserted while a client pages; requests and answers    *)
(* are lost, and the client asks again with the cursor it has.                   *)
EXTENDS Naturals, Sequences, FiniteSets, FiniteSetsExt, SequencesExt

CONSTANTS
  Origins,       \* the origin nodes of events; NoOrigin is a NULL column
  NoOrigin,
  Tenants,
  Conns,         \* the connections of the SQLite pool
  Limits,        \* the limits a client may ask for; 0 is none
  DefaultLimit, MaxLimit,  \* 200 (100 in GET /pull) and 1000
  MaxWireSize,   \* the most counters whose encoding is within maxWireCursorSize
  MaxEvents, MaxAsks  \* bounds

VARIABLES
  api,     \* "pull-cursor", "sqlite" or "pull"
  tenant,  \* the tenant filter of GET /pull; "" is none
  log,     \* the events by seq: [origin, counter, tenant]
  temp,    \* the connections that hold the temporary table "since"
  cur,     \* the client's cursor; Nil at first
  wire,    \* the request or answer under way
  got,     \* the seqs the client was given, in order
  asks

cpVars == <<api, tenant, log, temp, cur, wire, got, asks>>

Nil == [kind |-> "nil"]
Integer(seq) == [kind |-> "integer", seq |-> seq]
Vector(counters) == [kind |-> "vector", counters |-> counters]
Quiet == [pc |-> "none"]

--------------------------------------------------------------------------------
(* Cursors on the wire.                                                         *)

Registry == {"integer", "vector"}
MarshalWire(c) == [kind |-> c.kind, data |-> c, size |-> IF c.kind = "vector" THEN Cardinality(DOMAIN c.counters) ELSE 1]
ValidateWireCursor(w) == w.size <= MaxWireSize /\ w.kind \in Registry

\* Nil stands for a cursor that is not sent; Bad for an error.
Bad == [kind |-> "bad"]
UnmarshalWire(w) == IF ValidateWireCursor(w) THEN w.data ELSE Bad
Sent(c) == IF c = Nil THEN Nil ELSE MarshalWire(c)
Arrived(w) == IF w = Nil THEN Nil ELSE UnmarshalWire(w)

--------------------------------------------------------------------------------
(* The server's queries. A page is the events in order of seq, and a cursor.    *)

Limited(limit) == IF limit = 0 \/ limit > MaxLimit THEN DefaultLimit ELSE limit
FirstOf(seqs, limit) == {s \in seqs : Cardinality({t \in seqs : t <= s}) <= limit}
Counter(c, n) == IF n \in DOMAIN c THEN c[n] ELSE 0

\* Mutant of PullCursorPage: the next cursor is taken before the cut.
PullCursorPageUncut(c, limit) ==
  LET since == IF c = Nil THEN 0 ELSE c.seq
      found == {s \in DOMAIN log : s > since}
      page  == FirstOf(found, Limited(limit)) IN
  [events |-> page, next |-> IF page = {} THEN Nil ELSE Integer(Max(found))]

\* handlePullCursor: integer cursors only; no events, no next cursor.
PullCursorPage(c, limit) ==
  LET since == IF c = Nil THEN 0 ELSE c.seq
      page  == FirstOf({s \in DOMAIN log : s > since}, Limited(limit)) IN
  [events |-> page, next |-> IF page = {} THEN Nil ELSE Integer(Max(page))]

\* fetchInteger, also for a nil cursor.
FetchInteger(c, limit) ==
  LET page == FirstOf({s \in DOMAIN log : s > c.seq}, limit) IN
  [events |-> page, next |-> IF page = {} THEN c ELSE Integer(Max(page))]

\* fetchVector: the events beyond the cursor's counter of their origin; a NULL
\* origin is never beyond it.
FetchVector(c, limit) ==
  LET page  == FirstOf({s \in DOMAIN log : log[s].origin # NoOrigin /\ log[s].counter > Counter(c.counters, log[s].origin)}, limit)
      nodes == DOMAIN c.counters \cup {log[s].origin : s \in page}
      of(n) == {log[s].counter : s \in {t \in page : log[t].origin = n}} IN
  [events |-> page,
   next |-> IF page = {} THEN c ELSE Vector([n \in nodes |-> Max({Counter(c.counters, n)} \cup of(n))])]

\* handlePull with the query of ParsePullQuery: since, limit and filters.
Matches(s) == tenant = "" \/ log[s].tenant = tenant
PullPage(c, limit) ==
  LET page == FirstOf({s \in DOMAIN log : s > c.seq /\ Matches(s)}, IF limit = 0 THEN DefaultLimit ELSE limit) IN
  [events |-> page, next |-> IF page = {} THEN Nil ELSE Integer(Max(page))]

--------------------------------------------------------------------------------

Init ==
  /\ api \in {"pull-cursor", "sqlite", "pull"}
  /\ tenant \in IF api = "pull" THEN Tenants \cup {""} ELSE {""}
  /\ log = <<>> /\ temp = {} /\ got = <<>> /\ asks = 0 /\ wire = Quiet
  /\ cur \in CASE api = "pull-cursor" -> {Nil}
               [] api = "sqlite" -> {Nil, Vector([n \in {} |-> 0])}
               [] OTHER -> {Integer(0)}

\* An event is inserted; the events of an origin arrive in the order of their
\* counters.
Insert(o, t) ==
  /\ Len(log) < MaxEvents
  /\ log' = Append(log, [origin |-> o, tenant |-> t,
       counter |-> IF o = NoOrigin THEN 0 ELSE Cardinality({s \in DOMAIN log : log[s].origin = o}) + 1])
  /\ UNCHANGED <<api, tenant, temp, cur, wire, got, asks>>

\* PullWithCursor of the clients: the request with the cursor and a limit.
PullWithCursor(limit) ==
  /\ wire = Quiet /\ asks < MaxAsks /\ asks' = asks + 1
  /\ wire' = [pc |-> "request", since |-> Sent(cur),
              limit |-> IF api = "pull-cursor" THEN Limited(limit) ELSE limit]
  /\ UNCHANGED <<api, tenant, log, temp, cur, got>>

Answer(page) ==
  /\ wire' = [pc |-> "answer", events |-> page.events, next |-> Sent(page.next)]
  /\ UNCHANGED <<api, tenant, log, cur, got, asks>>
Refuse == wire' = Quiet /\ UNCHANGED <<api, tenant, log, cur, got, asks>>

HandlePullCursor ==
  LET since == Arrived(wire.since) IN
  /\ api = "pull-cursor" /\ wire.pc = "request" /\ UNCHANGED temp
  /\ \/ since.kind \in {"nil", "integer"} /\ Answer(PullCursorPage(since, wire.limit))
     \/ since.kind \notin {"nil", "integer"} /\ Refuse

\* HandlePullWithCursor with a store that runs the queries on a connection of
\* the pool. fetchVector creates its temporary table in a transaction that it
\* commits, so that a connection that holds the table refuses to do it again.
HandlePullWithCursor(conn) ==
  LET since == Arrived(wire.since)
      limit == Limited(wire.limit) IN
  /\ api = "sqlite" /\ wire.pc = "request"
  /\ \/ since = Nil /\ Answer(FetchInteger(Integer(0), limit)) /\ UNCHANGED temp
     \/ since.kind = "integer" /\ Answer(FetchInteger(since, limit)) /\ UNCHANGED temp
     \/ since.kind = "vector" /\ conn \notin temp /\ Answer(FetchVector(since, limit)) /\ temp' = temp \cup {conn}
     \/ (since = Bad \/ (since.kind = "vector" /\ conn \in temp)) /\ Refuse /\ UNCHANGED temp

\* The pool replaces a connection.
Recycle(conn) ==
  /\ conn \in temp /\ temp' = temp \ {conn}
  /\ UNCHANGED <<api, tenant, log, cur, wire, got, asks>>

HandlePull ==
  /\ api = "pull" /\ wire.pc = "request" /\ UNCHANGED temp
  /\ \/ wire.limit <= MaxLimit /\ Answer(PullPage(cur, wire.limit))
     \/ wire.limit > MaxLimit /\ Refuse

\* The client takes a page and its next cursor; with none it keeps the one it
\* has. A next cursor that cannot be read is an error, and the page is dropped.
Receive ==
  LET next == Arrived(wire.next) IN
  /\ wire.pc = "answer" /\ wire' = Quiet
  /\ IF next = Bad THEN UNCHANGED <<cur, got>>
     ELSE /\ cur' = IF next = Nil THEN cur ELSE next
          /\ got' = got \o SetToSortSeq(wire.events, <)
  /\ UNCHANGED <<api, tenant, log, temp, asks>>

\* The request or the answer is lost: the client has an error.
Lose ==
  /\ wire # Quiet /\ wire' = Quiet
  /\ UNCHANGED <<api, tenant, log, temp, cur, got, asks>>

Next ==
  \/ \E o \in Origins \cup {NoOrigin}, t \in Tenants : Insert(o, t)
  \/ \E limit \in Limits : PullWithCursor(limit)
  \/ HandlePullCursor \/ HandlePull \/ Receive \/ Lose
  \/ \E conn \in Conns : HandlePullWithCursor(conn) \/ Recycle(conn)

Spec == Init /\ [][Next]_cpVars

--------------------------------------------------------------------------------
(* Properties.                                                                  *)

\* What the client's cursor says it has read.
Passed(s) ==
  CASE cur.kind = "integer" -> s <= cur.seq /\ Matches(s)
    [] cur.kind = "vector" -> log[s].origin # NoOrigin /\ log[s].counter <= Counter(cur.counters, log[s].origin)
    [] OTHER -> FALSE

\* Paging skips nothing and repeats nothing: the client has been given exactly
\* the events that its cursor is past, each once and, with integer cursors, in
\* order, wherever pages are cut, whatever is inserted between or during
\* requests, and whichever request or answer is lost.
PagesSkipNothing ==
  /\ {got[i] : i \in DOMAIN got} = {s \in DOMAIN log : Passed(s)}
  /\ \A i, j \in DOMAIN got : i < j => got[i] # got[j] /\ (cur.kind = "integer" => got[i] < got[j])
================================================================================
