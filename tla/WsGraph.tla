------------------------------ MODULE WsGraph ------------------------------
(***************************************************************************)
(* The earnings files of Wealthsimple: download_account_earnings of        *)
(* wealthsimple.py borrows the credentials of a request that the page      *)
(* makes.  The browser records requests into a ring of the last few        *)
(* (RequestLog of zen_scraper.py), on a thread of its own, while the       *)
(* scraper looks at it.                                                    *)
(***************************************************************************)
EXTENDS WsActivity

CONSTANTS Ids,   \* _unique_account_ids of the request
          Limit  \* limit of the RequestLog

ASSUME GraphAssumption == Limit \in Nat \ {0} /\ Ids \in Seq(Range(Ids))

VARIABLES
  future,                 \* since_date is in the future
  ring, recording,        \* RequestLog._captures, its handler is attached
  next,                   \* index of the account that is tried
  chosen, hash,           \* the request borrowed from, x-ws-operation-hash is sent
  answered, earned        \* history: accounts whose graph was read; accounts whose file was written

\* A request to the endpoint: is it FetchAccountGraphData, does it carry
\* authorization, or any header that a page script may set itself.
Request == {r \in [graph : BOOLEAN, auth : BOOLEAN, usable : BOOLEAN] : r.graph \/ r.auth => r.usable}
Nothing == [graph |-> FALSE, auth |-> FALSE, usable |-> FALSE, none |-> TRUE]

\* Mutant of Kept: nothing makes room.
KeptAll(r) == Append(ring, r)

\* RequestLog.__call__: the oldest makes room for the newest.
Kept(r) == IF Len(ring) < Limit THEN Append(ring, r) ELSE Append(Tail(ring), r)

Record ==
  /\ recording /\ \E r \in Request : ring' = Kept(r)
  /\ UNCHANGED <<at, escaped, future, recording, next, chosen, hash, answered, earned>>

Turn(where) == at' = where /\ UNCHANGED <<escaped, future, ring, answered, earned>>

\* Mutant of Alone: a graph that will not answer costs the export.
GraphIsVital == "failed"

\* _earnings_alongside_activity: without the graph the activity is served alone.
Alone == "done"

\* What is neither a ScraperError nor an EarningsDataError is caught by nobody.
Escape == at' = "failed" /\ escaped' = TRUE

\* The window is checked first, outside what the graph may cost.
Begin ==
  /\ at = "earnings"
  /\ Turn(IF Ids = <<>> THEN "done" ELSE IF future THEN "failed" ELSE "record")
  /\ UNCHANGED <<recording, next, chosen, hash>>

StartRecording ==
  /\ at = "record"
  /\ \/ recording' = TRUE /\ Turn("page")
     \/ recording' = FALSE /\ Turn(Alone)
  /\ UNCHANGED <<next, chosen, hash>>

\* _open_account_graph: the page opens, whatever its tabs do, or it raises;
\* the browser's own exceptions come of a look at the URL or at a stale tab.
OpenPage ==
  /\ at = "page"
  /\ \/ Turn("watch") /\ UNCHANGED recording
     \/ Turn(Alone) /\ recording' = FALSE
     \/ Escape /\ recording' = FALSE /\ UNCHANGED <<future, ring, answered, earned>>
  /\ UNCHANGED <<next, chosen, hash>>

Usable    == {i \in DOMAIN ring : ring[i].usable}
WithAuth  == {i \in DOMAIN ring : ring[i].auth}
GraphAuth == {i \in WithAuth : ring[i].graph}

\* select_graph_headers: the best tier, and in it the latest.
Best == ring[Max(IF GraphAuth # {} THEN GraphAuth ELSE IF WithAuth # {} THEN WithAuth ELSE Usable)]

\* Mutant of IsGraph: some graph request was seen.
SeenOne == \E i \in DOMAIN ring : ring[i].graph

IsGraph == GraphAuth # {}

\* The wait for the graph's own request, or on to the next account's page.
Watch ==
  /\ at = "watch"
  /\ \/ IsGraph /\ Turn("select") /\ UNCHANGED next
     \/ ~IsGraph /\ next < Len(Ids) /\ next' = next + 1 /\ Turn("page")
     \/ ~IsGraph /\ next = Len(Ids) /\ Turn("select") /\ UNCHANGED next
  /\ UNCHANGED <<recording, chosen, hash>>

\* The log is read once more, as it may have changed since the wait ended, and
\* dropped (a handler that cannot be detached fills a log nobody reads).  The
\* screenshot of a log without a use needs a directory that the disk may refuse.
Select ==
  /\ at = "select" /\ recording' = FALSE /\ ring' = <<>>
  /\ \/ /\ Usable = {} /\ UNCHANGED <<next, chosen, hash>>
        /\ (at' = Alone /\ UNCHANGED escaped) \/ Escape
     \/ /\ Usable # {} /\ at' = "query" /\ chosen' = Best /\ hash' = IsGraph /\ next' = 1
        /\ UNCHANGED escaped
  /\ UNCHANGED <<future, answered, earned>>

\* _fetch_account_graph and daily_earnings, one account after the other.  A
\* payload of a shape nobody thought of raises what is not an EarningsDataError.
Query ==
  /\ at = "query" /\ next <= Len(Ids)
  /\ \/ at' = "write" /\ answered' = answered \union {Ids[next]} /\ UNCHANGED <<next, escaped>>
     \/ next' = next + 1 /\ UNCHANGED <<at, answered, escaped>>
     \/ Escape /\ UNCHANGED <<next, answered>>
  /\ UNCHANGED <<future, ring, recording, chosen, hash, earned>>

\* A file that the disk does not take is no ScraperError either.
WriteEarnings ==
  /\ at = "write"
  /\ \/ /\ at' = "query" /\ earned' = earned \union {Ids[next]} /\ next' = next + 1
        /\ UNCHANGED escaped
     \/ Escape /\ UNCHANGED <<next, earned>>
  /\ UNCHANGED <<future, ring, recording, chosen, hash, answered>>

EndEarnings ==
  /\ at = "query" /\ next > Len(Ids)
  /\ Turn(IF earned = {} THEN Alone ELSE "done") /\ UNCHANGED <<recording, next, chosen, hash>>

Earnings ==
  Begin \/ StartRecording \/ OpenPage \/ Watch \/ Select \/ Query \/ WriteEarnings \/ EndEarnings

GraphInit ==
  /\ future = FALSE /\ ring = <<>> /\ recording = FALSE /\ next = 1
  /\ chosen = Nothing /\ hash = FALSE /\ answered = {} /\ earned = {}

-----------------------------------------------------------------------------
(* Properties.                                                             *)

GraphTypeOK ==
  /\ future \in BOOLEAN /\ recording \in BOOLEAN /\ hash \in BOOLEAN
  /\ Len(ring) <= Limit /\ next \in 1 .. Len(Ids) + 1
  /\ chosen \in Request \union {Nothing}
  /\ earned \subseteq answered

\* Although the ring goes on turning between the look that ends the wait and
\* the one that picks a request, the operation hash that is sent along is
\* that of the graph query, with its credentials, or none; and without a
\* request that is of use nothing is queried.
HashFitsQuery ==
  /\ hash => chosen.graph /\ chosen.auth
  /\ answered # {} => chosen \in Request /\ chosen.usable
=============================================================================
