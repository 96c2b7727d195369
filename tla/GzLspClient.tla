---------------------------- MODULE GzLspClient ----------------------------
(***************************************************************************)
(* src/gz_lsp_client.cpp: the client of the Zig language server.  The main *)
(* thread asks for completions and definitions and pumps the connection    *)
(* every frame; the server is a child process that reads a pipe in order,  *)
(* answers or not, in any order, and may exit or write nonsense.           *)
(*                                                                         *)
(* A query is a document, its text and a position; the position does not   *)
(* matter here.  What the server answers is the text it had for the        *)
(* document when it read the request.  Clocks are nondeterministic: the    *)
(* restart backoff, the debouncing of completions and the time limits may  *)
(* or may not have passed.                                                 *)
(*                                                                         *)
(* The pipe to the server does not block, and send() does not look at what *)
(* store_buffer() says: of a full pipe a message may be lost whole, or cut *)
(* short, and then the server takes what follows for its rest and loses    *)
(* that too.  What the server is told of a document may be lost here,      *)
(* every time by itself; a request that is lost is one it never answers,   *)
(* or the server exits over what it reads, as it may anyway.  The messages *)
(* that arrive do so in order.                                             *)
(***************************************************************************)
EXTENDS Integers, Sequences, FiniteSets

CONSTANTS
    Docs,           \* document URIs
    Texts,          \* contents of documents
    None,           \* no query, no text
    MaxQueries      \* bound on the queries the editor makes

ASSUME ConstantsAssumption ==
    /\ None \notin Texts
    /\ None \notin [doc : Docs, text : Texts]
    /\ MaxQueries \in Nat

Queries == [doc : Docs, text : Texts]

VARIABLES
    state,              \* state
    restarts,           \* consecutive_restarts
    pid,                \* whether pid > 0
    processes,          \* counters().lsp_processes
    requests,           \* requests, by id
    nextId,             \* next_request_id
    documents,          \* [Docs -> the text last sent], None if not opened
    pendingCompletion,  \* pending_completion, None unless has_pending_completion
    pendingDefinition,  \* the same for definitions
    inFlight,           \* completion_in_flight
    cachedCompletion,   \* a query and its answer, or None
    cachedDefinition,
    pumping,            \* where the main thread is: not in pump(), after a
                        \* message, or in the signal of a completed query
    shutdown,           \* shutdown_started
    queries,            \* history: queries made
    attempts,           \* history: attempts to start since the last READY
    running,            \* the server: whether its process runs
    serverDocs,         \* the server: [Docs -> its text]
    toServer,           \* stdin of the server
    lost,               \* history: documents of which something that this
                        \* server was to be told is lost
    toClient            \* stdout of the server, in no order

pending  == <<pendingCompletion, pendingDefinition>>
cached   == <<cachedCompletion, cachedDefinition>>
process  == <<pid, processes, running, serverDocs, toClient>>
outgoing == <<requests, nextId, documents, toServer, lost>>
vars     == <<state, restarts, attempts, process, outgoing, pending, inFlight,
              cached, pumping, shutdown, queries>>

Connected == {"INITIALIZING", "READY"}
Kinds     == {"COMPLETION", "DEFINITION"}
NoDocuments == [d \in Docs |-> None]

Init ==
    /\ state = "STOPPED" /\ restarts = 0 /\ attempts = 0
    /\ pid = FALSE /\ processes = 0
    /\ running = FALSE /\ serverDocs = NoDocuments /\ toClient = {}
    /\ requests = {} /\ nextId = 1 /\ documents = NoDocuments
    /\ toServer = <<>> /\ lost = {}
    /\ pendingCompletion = None /\ pendingDefinition = None
    /\ inFlight = FALSE
    /\ cachedCompletion = None /\ cachedDefinition = None
    /\ pumping = "no" /\ shutdown = FALSE /\ queries = 0

-----------------------------------------------------------------------------
(* Connecting and disconnecting                                            *)

\* mutant: the counter is left alone
DisconnectKeepsCount(s) ==
    /\ state' = s
    /\ pid' = FALSE /\ running' = FALSE
    /\ pendingCompletion' = None /\ pendingDefinition' = None /\ inFlight' = FALSE
    /\ requests' = {} /\ documents' = NoDocuments
    /\ toServer' = <<>> /\ lost' = {} /\ toClient' = {} /\ serverDocs' = NoDocuments
    /\ UNCHANGED <<processes, nextId>>

\* mutant: the documents count as opened by the next server
DisconnectKeepsDocuments(s) ==
    /\ state' = s
    /\ processes' = IF pid THEN processes - 1 ELSE processes
    /\ pid' = FALSE /\ running' = FALSE
    /\ pendingCompletion' = None /\ pendingDefinition' = None /\ inFlight' = FALSE
    /\ requests' = {}
    /\ toServer' = <<>> /\ lost' = {} /\ toClient' = {} /\ serverDocs' = NoDocuments
    /\ UNCHANGED <<nextId, documents>>

\* what fail() and shutdown() have in common: everything asked is forgotten,
\* the process ends and its pipes are closed
Disconnect(s) ==
    /\ state' = s
    /\ processes' = IF pid THEN processes - 1 ELSE processes
    /\ pid' = FALSE /\ running' = FALSE
    /\ pendingCompletion' = None /\ pendingDefinition' = None /\ inFlight' = FALSE
    /\ requests' = {} /\ documents' = NoDocuments
    /\ toServer' = <<>> /\ lost' = {} /\ toClient' = {} /\ serverDocs' = NoDocuments
    /\ UNCHANGED nextId

Fail == Disconnect("FAILED")

\* mutant: restarts are not limited
MayStartAlways == ~shutdown /\ state \in {"STOPPED", "FAILED"}

\* start() goes on to create the process: after a failure only once, and not
\* once the extension ends; is_shutting_down() comes with shutdown(), which
\* the main thread calls right after it has raised that flag
MayStart == ~shutdown /\ (state = "STOPPED" \/ (state = "FAILED" /\ restarts < 1))

\* start() does not create a process: there is one, or there must not be one,
\* or the backoff after a failure has not passed
NotStarted == state # "STOPPED" \/ shutdown

Restarted == restarts' = IF state = "FAILED" THEN restarts + 1 ELSE restarts

\* start(): the process and its initialize request
Spawn ==
    /\ MayStart
    /\ Restarted /\ attempts' = attempts + 1
    /\ state' = "INITIALIZING"
    /\ pid' = TRUE /\ processes' = processes + 1
    /\ running' = TRUE
    /\ requests' = {[id |-> nextId, kind |-> "INITIALIZE", query |-> None]}
    /\ toServer' = <<[kind |-> "INITIALIZE", id |-> nextId, query |-> None]>>
    /\ nextId' = nextId + 1
    /\ UNCHANGED <<documents, lost, inFlight, serverDocs, toClient>>

\* start(): the process cannot be created
SpawnFails == MayStart /\ Restarted /\ attempts' = attempts + 1 /\ Fail

-----------------------------------------------------------------------------
(* Requests                                                                *)

\* synchronize(): what the server has to be told of a document first
Synchronize(q) ==
    CASE documents[q.doc] = q.text -> <<>>
      [] documents[q.doc] = None   -> <<[kind |-> "open", id |-> 0, query |-> q]>>
      [] OTHER                     -> <<[kind |-> "change", id |-> 0, query |-> q]>>

\* send() of what there is to tell of a document, which may be lost, and of a
\* request; the text counts as sent all the same
Write(told, request, doc) ==
    \/ toServer' = toServer \o told \o <<request>> /\ UNCHANGED lost
    \/ told # <<>> /\ toServer' = Append(toServer, request) /\ lost' = lost \cup {doc}

\* mutant: the next request gets the same id
SendReusesId(kind, q, others) ==
    /\ requests' = others \cup {[id |-> nextId, kind |-> kind, query |-> q]}
    /\ Write(Synchronize(q), [kind |-> kind, id |-> nextId, query |-> q], q.doc)
    /\ documents' = [documents EXCEPT ![q.doc] = q.text]
    /\ UNCHANGED nextId

\* send_completion() and send_definition(); others are the requests in flight
Send(kind, q, others) ==
    /\ requests' = others \cup {[id |-> nextId, kind |-> kind, query |-> q]}
    /\ Write(Synchronize(q), [kind |-> kind, id |-> nextId, query |-> q], q.doc)
    /\ documents' = [documents EXCEPT ![q.doc] = q.text]
    /\ nextId' = nextId + 1

Ask ==
    /\ queries < MaxQueries
    /\ queries' = queries + 1
    /\ UNCHANGED <<cached, shutdown>>

Answers(c, q) == c # None /\ c.query = q

\* complete() of a query that is neither answered nor pending; the editor
\* also calls it from the signal that a completion is ready
Complete(q) ==
    /\ Ask
    /\ pumping \in {"no", "signal"}
    /\ pumping' = IF pumping = "no" THEN "no" ELSE "message"
    /\ ~Answers(cachedCompletion, q) /\ pendingCompletion # q
    /\ \/ /\ NotStarted
          /\ pendingCompletion' = q
          /\ UNCHANGED <<state, restarts, attempts, process, outgoing, pendingDefinition, inFlight>>
       \/ /\ Spawn
          /\ pendingCompletion' = q
          /\ UNCHANGED pendingDefinition
       \/ SpawnFails

\* lookup() likewise, which is sent at once if the server is ready
Lookup(q) ==
    /\ Ask
    /\ pumping = "no" /\ UNCHANGED pumping
    /\ ~Answers(cachedDefinition, q) /\ pendingDefinition # q
    /\ \/ /\ state = "READY"
          /\ Send("DEFINITION", q, requests)
          /\ pendingDefinition' = q
          /\ UNCHANGED <<state, restarts, attempts, process, pendingCompletion, inFlight>>
       \/ /\ NotStarted /\ state # "READY"
          /\ pendingDefinition' = q
          /\ UNCHANGED <<state, restarts, attempts, process, outgoing, pendingCompletion, inFlight>>
       \/ /\ Spawn
          /\ pendingDefinition' = q
          /\ UNCHANGED pendingCompletion
       \/ SpawnFails

\* shutdown(): a server that does not exit by itself is killed
Shutdown ==
    /\ pumping = "no" /\ ~shutdown
    /\ shutdown' = TRUE
    /\ Disconnect("STOPPED")
    /\ UNCHANGED <<restarts, attempts, cached, pumping, queries>>

-----------------------------------------------------------------------------
(* pump()                                                                  *)

InPump == state \in Connected /\ ~shutdown

\* handle() of the next message, which answers the request r
Handles(m, r) ==
    /\ InPump
    /\ m \in toClient /\ toClient' = toClient \ {m}
    /\ r \in requests /\ r.id = m.id
    /\ UNCHANGED <<shutdown, queries>>

\* handle_response() to a request that is no longer known
HandleUnknown(m) ==
    /\ InPump /\ pumping' = "message"
    /\ m \in toClient /\ toClient' = toClient \ {m}
    /\ \A r \in requests : r.id # m.id
    /\ UNCHANGED <<state, restarts, attempts, pid, processes, running, serverDocs,
                   outgoing, pending, inFlight, cached, shutdown, queries>>

Asked(kind, q, rs) == \E r \in rs : r.kind = kind /\ r.query = q

\* the queries that requests gave up on asked are no longer pending
GiveUp(rs) ==
    /\ pendingCompletion' =
           IF Asked("COMPLETION", pendingCompletion, rs) THEN None ELSE pendingCompletion
    /\ pendingDefinition' =
           IF Asked("DEFINITION", pendingDefinition, rs) THEN None ELSE pendingDefinition

Busy(rs) == inFlight /\ \A r \in rs : r.kind # "COMPLETION"

\* handle_response() to an error; a failed initialize waits for its time limit
HandleError(m, r) ==
    /\ Handles(m, r) /\ m.outcome = "error" /\ pumping' = "message"
    /\ requests' = requests \ {r}
    /\ GiveUp({r})
    /\ inFlight' = Busy({r})
    /\ UNCHANGED <<state, restarts, attempts, pid, processes, running, serverDocs,
                   nextId, documents, toServer, lost, cached>>

\* mutant: a definition that waited for the server is not sent
HandleInitializedForgets(m, r) ==
    /\ Handles(m, r) /\ m.outcome = "result" /\ r.kind = "INITIALIZE"
    /\ pumping' = "message"
    /\ state' = "READY" /\ restarts' = 0 /\ attempts' = 0
    /\ requests' = requests \ {r}
    /\ UNCHANGED <<pid, processes, running, serverDocs, pending, inFlight, cached,
                   nextId, documents, toServer, lost>>

\* handle_response() to initialize: the server is ready
HandleInitialized(m, r) ==
    /\ Handles(m, r) /\ m.outcome = "result" /\ r.kind = "INITIALIZE"
    /\ pumping' = "message"
    /\ state' = "READY" /\ restarts' = 0 /\ attempts' = 0
    /\ IF pendingDefinition # None
       THEN Send("DEFINITION", pendingDefinition, requests \ {r})
       ELSE requests' = requests \ {r} /\ UNCHANGED <<nextId, documents, toServer, lost>>
    /\ UNCHANGED <<pid, processes, running, serverDocs, pending, inFlight, cached>>

\* what is kept of the answer m to the request r; told: whether the server
\* was told all of the document (history)
AnswerTo(r, m) == [query |-> r.query, text |-> m.text, told |-> r.query.doc \notin lost]

\* handle_response() to a completion; one nobody waits for is dropped
HandleCompletion(m, r) ==
    /\ Handles(m, r) /\ m.outcome = "result" /\ r.kind = "COMPLETION"
    /\ requests' = requests \ {r}
    /\ inFlight' = FALSE
    /\ IF r.query = pendingCompletion
       THEN /\ cachedCompletion' = AnswerTo(r, m)
            /\ pendingCompletion' = None
            /\ pumping' = "signal"
       ELSE pumping' = "message" /\ UNCHANGED <<cachedCompletion, pendingCompletion>>
    /\ UNCHANGED <<state, restarts, attempts, pid, processes, running, serverDocs,
                   nextId, documents, toServer, lost, pendingDefinition, cachedDefinition>>

\* handle_response() to a definition
HandleDefinition(m, r) ==
    /\ Handles(m, r) /\ m.outcome = "result" /\ r.kind = "DEFINITION"
    /\ pumping' = "message"
    /\ requests' = requests \ {r}
    /\ IF r.query = pendingDefinition
       THEN /\ cachedDefinition' = AnswerTo(r, m)
            /\ pendingDefinition' = None
       ELSE UNCHANGED <<cachedDefinition, pendingDefinition>>
    /\ UNCHANGED <<state, restarts, attempts, pid, processes, running, serverDocs,
                   nextId, documents, toServer, lost, inFlight, pendingCompletion,
                   cachedCompletion>>

\* a malformed frame, a server of another version, a server that has exited,
\* or one that does not answer initialize in time
PumpFails ==
    /\ InPump /\ pumping' = "no"
    /\ Fail
    /\ UNCHANGED <<restarts, attempts, cached, shutdown, queries>>

ParseFails   == running /\ PumpFails
ServerGone   == ~running /\ PumpFails
InitTimesOut == state = "INITIALIZING" /\ running /\ PumpFails
Incompatible ==
    /\ \E m \in toClient, r \in requests :
          r.id = m.id /\ r.kind = "INITIALIZE" /\ m.outcome = "incompatible"
    /\ PumpFails

\* requests whose time is up: with one, every older one
Late == {rs \in SUBSET {r \in requests : r.kind # "INITIALIZE"} :
            \A r \in rs, o \in requests : o.id < r.id /\ o.kind # "INITIALIZE" => o \in rs}

\* mutant: a completion that timed out still counts as in flight
PumpEndKeepsInFlight(late, due) ==
    /\ InPump /\ running /\ pumping' = "no"
    /\ late \in Late
    /\ GiveUp(late)
    /\ IF state = "READY" /\ pendingCompletion' # None /\ ~inFlight /\ due
       THEN Send("COMPLETION", pendingCompletion', requests \ late) /\ inFlight' = TRUE
       ELSE /\ requests' = requests \ late
            /\ UNCHANGED <<nextId, documents, toServer, lost, inFlight>>
    /\ UNCHANGED <<state, restarts, attempts, process, cached, shutdown, queries>>

\* mutant: the queries of requests whose time is up stay pending
PumpEndKeepsPending(late, due) ==
    /\ InPump /\ running /\ pumping' = "no"
    /\ late \in Late
    /\ UNCHANGED pending
    /\ IF state = "READY" /\ pendingCompletion # None /\ ~Busy(late) /\ due
       THEN Send("COMPLETION", pendingCompletion, requests \ late) /\ inFlight' = TRUE
       ELSE /\ requests' = requests \ late /\ inFlight' = Busy(late)
            /\ UNCHANGED <<nextId, documents, toServer, lost>>
    /\ UNCHANGED <<state, restarts, attempts, process, cached, shutdown, queries>>

\* the rest of pump(): requests time out, and a completion that has been
\* pending for long enough is sent unless one is in flight
PumpEnd(late, due) ==
    /\ InPump /\ running /\ pumping' = "no"
    /\ late \in Late
    /\ GiveUp(late)
    /\ IF state = "READY" /\ pendingCompletion' # None /\ ~Busy(late) /\ due
       THEN Send("COMPLETION", pendingCompletion', requests \ late) /\ inFlight' = TRUE
       ELSE /\ requests' = requests \ late /\ inFlight' = Busy(late)
            /\ UNCHANGED <<nextId, documents, toServer, lost>>
    /\ UNCHANGED <<state, restarts, attempts, process, cached, shutdown, queries>>

-----------------------------------------------------------------------------
(* The server                                                              *)

ServerReads ==
    /\ running /\ toServer # <<>>
    /\ toServer' = Tail(toServer)
    /\ UNCHANGED <<state, restarts, attempts, pid, processes, running, requests, nextId,
                   documents, lost, pending, inFlight, cached, pumping, shutdown, queries>>

Reply(outcome, text) ==
    toClient' = toClient \cup {[id |-> Head(toServer).id, outcome |-> outcome, text |-> text]}

\* a document is opened, or one that is open changes
ServerSynchronizes ==
    /\ ServerReads /\ Head(toServer).kind \in {"open", "change"}
    /\ LET m == Head(toServer) IN
          serverDocs' = IF m.kind = "open" \/ serverDocs[m.query.doc] # None
                        THEN [serverDocs EXCEPT ![m.query.doc] = m.query.text]
                        ELSE serverDocs
    /\ UNCHANGED toClient

\* a request is answered from what the server knows then, or never
ServerAnswers ==
    /\ ServerReads /\ Head(toServer).kind \in Kinds
    /\ \/ Reply("result", serverDocs[Head(toServer).query.doc])
       \/ Reply("error", None)
       \/ UNCHANGED toClient
    /\ UNCHANGED serverDocs

ServerInitializes ==
    /\ ServerReads /\ Head(toServer).kind = "INITIALIZE"
    /\ \/ \E outcome \in {"result", "incompatible", "error"} : Reply(outcome, None)
       \/ UNCHANGED toClient
    /\ UNCHANGED serverDocs

ServerExits ==
    /\ running /\ running' = FALSE
    /\ UNCHANGED <<state, restarts, attempts, pid, processes, serverDocs, toClient, outgoing,
                   pending, inFlight, cached, pumping, shutdown, queries>>

-----------------------------------------------------------------------------

Next ==
    \/ \E q \in Queries : Complete(q) \/ Lookup(q)
    \/ Shutdown
    \/ \E m \in toClient : HandleUnknown(m)
    \/ \E m \in toClient, r \in requests :
          \/ HandleError(m, r) \/ HandleInitialized(m, r)
          \/ HandleCompletion(m, r) \/ HandleDefinition(m, r)
    \/ ParseFails \/ ServerGone \/ InitTimesOut \/ Incompatible
    \/ \E late \in Late, due \in BOOLEAN : PumpEnd(late, due)
    \/ ServerSynchronizes \/ ServerAnswers \/ ServerInitializes \/ ServerExits

\* pump() runs every frame, and the clock goes on: time limits and the
\* debouncing of a completion pass.  Nothing is assumed of the server.
Fairness ==
    /\ WF_vars(ServerGone) /\ WF_vars(InitTimesOut)
    /\ WF_vars(\E late \in Late \ {{}}, due \in BOOLEAN : PumpEnd(late, due))
    /\ WF_vars(\E late \in Late : PumpEnd(late, TRUE))

Spec == Init /\ [][Next]_vars /\ Fairness

-----------------------------------------------------------------------------
(* Properties                                                              *)

Request  == [id : Nat, kind : Kinds, query : Queries]
            \cup [id : Nat, kind : {"INITIALIZE"}, query : {None}]
Message  == Request \cup [id : {0}, kind : {"open", "change"}, query : Queries]
Response == [id : Nat, outcome : {"result", "incompatible", "error"}, text : Texts \cup {None}]
Answer   == [query : Queries, text : Texts \cup {None}, told : BOOLEAN]

\* The variables have their types, and ids are not used twice.
TypeOK ==
    /\ state \in Connected \cup {"STOPPED", "FAILED"}
    /\ restarts \in Nat /\ attempts \in Nat /\ queries \in 0..MaxQueries
    /\ pid \in BOOLEAN /\ running \in BOOLEAN
    /\ pumping \in {"no", "message", "signal"}
    /\ shutdown \in BOOLEAN /\ inFlight \in BOOLEAN
    /\ processes \in Int
    /\ requests \subseteq Request /\ nextId \in Nat
    /\ \A r \in requests : r.id < nextId
    /\ documents \in [Docs -> Texts \cup {None}]
    /\ serverDocs \in [Docs -> Texts \cup {None}]
    /\ pendingCompletion \in Queries \cup {None}
    /\ pendingDefinition \in Queries \cup {None}
    /\ cachedCompletion \in Answer \cup {None}
    /\ cachedDefinition \in Answer \cup {None}
    /\ toServer \in Seq(Message) /\ lost \subseteq Docs /\ toClient \subseteq Response

\* Whatever was answered, timed out or failed: a completion is in flight
\* exactly when one request waits for it, and never two.  A flag that stays
\* behind would keep completions from ever being sent again.
InFlightMatches ==
    LET completions == {r \in requests : r.kind = "COMPLETION"}
    IN  /\ inFlight <=> completions # {}
        /\ \A r, s \in completions : r = s

\* A pending definition has been asked of a server that is ready: lookup()
\* sends nothing the second time the same definition is asked.
DefinitionAsked ==
    state = "READY" /\ pendingDefinition # None =>
        Asked("DEFINITION", pendingDefinition, requests)

\* The answer kept for a query was computed from the text of the query, over
\* restarts of the server, requests that crossed a change of the text, and
\* requests and answers that were lost.  Except, until the next restart, for a
\* document of which a full pipe lost an opening or a change: synchronize()
\* records the text before send() tries, and never sends it again.
AnswersMatchText ==
    \A c \in {cachedCompletion, cachedDefinition} :
        c # None /\ c.told => c.text = c.query.text

\* "[GZ] shutdown summary: ... lsp=0": the counter counts the one process the
\* client knows, no server runs without the client, and none after shutdown.
ServerCounted ==
    /\ processes = IF pid THEN 1 ELSE 0
    /\ running => pid
    /\ pid <=> state \in Connected
    /\ shutdown => state = "STOPPED" /\ requests = {}

\* A server that fails is started again once, until it has been ready.
RestartedOnce == attempts <= 2

\* While the client is connected no query waits for ever: it is answered,
\* given up, or the connection fails (the editor stops asking some time).
QueriesResolved ==
    []<>~(state \in Connected /\ pending # <<None, None>>)

=============================================================================
