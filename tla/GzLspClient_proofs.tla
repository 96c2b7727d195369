------------------------- MODULE GzLspClient_proofs -------------------------
(***************************************************************************)
(* Proofs about GzLspClient for any documents, texts and number of         *)
(* queries, about GzLspFraming for any messages and limits, and about      *)
(* MCGzLspClient, whose behaviours are behaviours of both.                 *)
(***************************************************************************)
EXTENDS MCGzLspClient, FoldInduction

-----------------------------------------------------------------------------
(* The connection                                                          *)

\* Attempts to start the server are counted by restarts, but for the first.
ConnectionInv ==
    /\ state \in Connected \cup {"STOPPED", "FAILED"}
    /\ pid \in BOOLEAN /\ running \in BOOLEAN /\ shutdown \in BOOLEAN
    /\ restarts \in 0..1 /\ attempts \in 0..(restarts + 1)
    /\ state = "STOPPED" /\ ~shutdown => restarts = 0 /\ attempts = 0
    /\ ServerCounted

\* start() either creates the process or fails.
LEMMA StartStep ==
    ASSUME ConnectionInv, Spawn \/ SpawnFails, UNCHANGED shutdown
    PROVE  ConnectionInv'
<1> USE DEF ConnectionInv, ServerCounted, Connected
<1>1. state \in {"STOPPED", "FAILED"} /\ ~shutdown /\ ~pid /\ (state = "FAILED" => restarts = 0)
  BY DEF Spawn, SpawnFails, MayStart
<1>2. restarts' \in 0..1 /\ attempts' \in 0..(restarts' + 1)
  BY <1>1 DEF Spawn, SpawnFails, Restarted
<1>3. CASE Spawn
  <2>1. processes = 0
    BY <1>1
  <2>2. processes' = 1 /\ pid' = TRUE /\ running' = TRUE /\ state' = "INITIALIZING" /\ shutdown' = FALSE
    <3>1. processes' = processes + 1 /\ pid' = TRUE /\ running' = TRUE /\ state' = "INITIALIZING"
      BY <1>3 DEF Spawn
    <3> QED BY <1>1, <2>1, <3>1
  <2>3. ServerCounted'
    BY <2>2, Zenon
  <2> QED BY <1>2, <2>2, <2>3, Zenon DEF Connected
<1>4. CASE SpawnFails
  BY <1>1, <1>2, <1>4 DEF SpawnFails, Fail, Disconnect
<1> QED BY <1>3, <1>4

\* Disconnecting takes the process out of the count.
LEMMA DisconnectStep ==
    ASSUME ConnectionInv, UNCHANGED <<restarts, attempts>>, shutdown' \in BOOLEAN,
           \/ Disconnect("FAILED") /\ UNCHANGED shutdown /\ ~shutdown
           \/ Disconnect("STOPPED") /\ shutdown'
    PROVE  ConnectionInv'
<1> USE DEF ConnectionInv, ServerCounted, Connected
<1>1. processes' = 0
  BY DEF Disconnect
<1>2. pid' = FALSE /\ running' = FALSE /\ requests' = {}
  BY DEF Disconnect
<1>3. \/ state' = "FAILED" /\ ~shutdown'
      \/ state' = "STOPPED" /\ shutdown'
  BY DEF Disconnect
<1>4. ServerCounted'
  BY <1>1, <1>2, <1>3
<1> QED BY <1>2, <1>3, <1>4

\* What does not touch the connection keeps the invariant; the server may exit.
LEMMA KeptStep ==
    ASSUME ConnectionInv, UNCHANGED <<state, restarts, attempts, pid, processes, shutdown>>,
           running' = running \/ running' = FALSE,
           shutdown => requests' = requests
    PROVE  ConnectionInv'
<1> USE DEF ConnectionInv, ServerCounted, Connected
<1>1. running' \in BOOLEAN /\ (running' => pid')
  <2>1. CASE running' = running
    BY <2>1
  <2>2. CASE running' = FALSE
    BY <2>2
  <2> QED BY <2>1, <2>2
<1>2. shutdown' => state' = "STOPPED" /\ requests' = {}
  OBVIOUS
<1>3. (pid' <=> state' \in Connected) /\ processes' = IF pid' THEN 1 ELSE 0
  BY Zenon
<1> QED BY <1>1, <1>2, <1>3

\* The answer to initialize ends the count of attempts.
LEMMA InitializedStep ==
    ASSUME ConnectionInv, NEW m, NEW r, HandleInitialized(m, r)
    PROVE  ConnectionInv'
<1> USE DEF ConnectionInv, ServerCounted, Connected
<1>1. state \in Connected /\ pid /\ ~shutdown /\ processes = 1
  BY DEF HandleInitialized, Handles, InPump
<1>2. /\ state' = "READY" /\ restarts' = 0 /\ attempts' = 0
      /\ UNCHANGED <<pid, processes, running, shutdown>>
  BY DEF HandleInitialized, Handles
<1>3. restarts' \in 0..1 /\ attempts' \in 0..(restarts' + 1)
  BY <1>2
<1>4. processes' = IF pid' THEN 1 ELSE 0
  BY <1>1, <1>2
<1> QED BY <1>1, <1>2, <1>3, <1>4, Zenon

LEMMA ConnectionStep == ConnectionInv /\ [Next]_vars => ConnectionInv'
<1> SUFFICES ASSUME ConnectionInv, [Next]_vars PROVE ConnectionInv'
  OBVIOUS
<1>1. ASSUME NEW q \in Queries, Complete(q) PROVE ConnectionInv'
  <2>1. UNCHANGED shutdown
    BY <1>1 DEF Complete, Ask
  <2>2. CASE Spawn \/ SpawnFails
    BY <2>1, <2>2, StartStep
  <2>3. CASE ~(Spawn \/ SpawnFails)
    BY <1>1, <2>1, <2>3, KeptStep DEF Complete, process, outgoing
  <2> QED BY <2>2, <2>3
<1>2. ASSUME NEW q \in Queries, Lookup(q) PROVE ConnectionInv'
  <2>1. UNCHANGED shutdown
    BY <1>2 DEF Lookup, Ask
  <2>2. CASE Spawn \/ SpawnFails
    BY <2>1, <2>2, StartStep
  <2>3. CASE ~(Spawn \/ SpawnFails)
    <3>1. UNCHANGED <<state, restarts, attempts, pid, processes, running>>
      BY <1>2, <2>3 DEF Lookup, process
    <3>2. shutdown => requests' = requests
      BY <1>2, <2>3 DEF Lookup, outgoing, ConnectionInv, ServerCounted
    <3> QED BY <2>1, <3>1, <3>2, KeptStep
  <2> QED BY <2>2, <2>3
<1>3. CASE Shutdown
  BY <1>3, DisconnectStep DEF Shutdown
<1>4. ASSUME NEW m \in toClient, HandleUnknown(m) PROVE ConnectionInv'
  BY <1>4, KeptStep DEF HandleUnknown, outgoing
<1>5. ASSUME NEW m \in toClient, NEW r \in requests,
             HandleError(m, r) \/ HandleCompletion(m, r) \/ HandleDefinition(m, r)
      PROVE  ConnectionInv'
  BY <1>5, KeptStep DEF HandleError, HandleCompletion, HandleDefinition, Handles, InPump
<1>6. ASSUME NEW m \in toClient, NEW r \in requests, HandleInitialized(m, r)
      PROVE  ConnectionInv'
  BY <1>6, InitializedStep
<1>7. CASE ParseFails \/ ServerGone \/ InitTimesOut \/ Incompatible
  <2>1. PumpFails
    BY <1>7 DEF ParseFails, ServerGone, InitTimesOut, Incompatible
  <2>2. shutdown' \in BOOLEAN
    BY <2>1 DEF PumpFails, ConnectionInv
  <2> QED BY <2>1, <2>2, DisconnectStep DEF PumpFails, Fail, InPump
<1>8. ASSUME NEW late \in Late, NEW due \in BOOLEAN, PumpEnd(late, due)
      PROVE  ConnectionInv'
  BY <1>8, KeptStep DEF PumpEnd, process, InPump
<1>9. CASE ServerSynchronizes \/ ServerAnswers \/ ServerInitializes
  BY <1>9, KeptStep DEF ServerSynchronizes, ServerAnswers, ServerInitializes, ServerReads
<1>10. CASE ServerExits
  BY <1>10, KeptStep DEF ServerExits, outgoing
<1>11. CASE UNCHANGED vars
  BY <1>11, KeptStep DEF vars, process, outgoing
<1> QED
  BY <1>1, <1>2, <1>3, <1>4, <1>5, <1>6, <1>7, <1>8, <1>9, <1>10, <1>11 DEF Next

\* A new client has no server.
LEMMA ConnectionInit == Init => ConnectionInv
<1> SUFFICES ASSUME Init PROVE ConnectionInv
  OBVIOUS
<1>1. /\ state = "STOPPED" /\ restarts = 0 /\ attempts = 0 /\ processes = 0
      /\ pid = FALSE /\ running = FALSE /\ shutdown = FALSE
  BY DEF Init
<1>2. restarts \in 0..1 /\ attempts \in 0..(restarts + 1)
  BY <1>1
<1>3. ServerCounted
  BY <1>1 DEF ServerCounted, Connected
<1> QED BY <1>1, <1>2, <1>3, Zenon DEF ConnectionInv

\* The counter of server processes counts the one the client knows, no server
\* outlives the client's connection, and there is none after shutdown.
THEOREM ServerCountedTheorem == Spec => []ServerCounted
<1>1. ConnectionInv => ServerCounted
  BY DEF ConnectionInv
<1> QED BY <1>1, ConnectionInit, ConnectionStep, PTL DEF Spec

\* A server that fails before it is ready is started at most once more.
THEOREM RestartedOnceTheorem == Spec => []RestartedOnce
<1>1. ConnectionInv => RestartedOnce
  BY DEF ConnectionInv, RestartedOnce
<1> QED BY <1>1, ConnectionInit, ConnectionStep, PTL DEF Spec

-----------------------------------------------------------------------------
(* The requests in flight                                                  *)

\* A client that is not connected has asked nothing.
RequestInv ==
    /\ inFlight \in BOOLEAN
    /\ state \notin Connected => requests = {} /\ ~inFlight
    /\ InFlightMatches
    /\ DefinitionAsked

\* Who is not connected afterwards has nothing in flight; start() asks only
\* for initialize.
LEMMA RequestsReset ==
    ASSUME RequestInv,
           Spawn \/ Disconnect("FAILED") \/ Disconnect("STOPPED")
    PROVE  RequestInv'
<1> USE DEF RequestInv
<1>1. state' # "READY" /\ inFlight' = FALSE
  BY DEF Spawn, MayStart, Disconnect, Connected
<1>2. \A r \in requests' : r.kind = "INITIALIZE"
  BY DEF Spawn, Disconnect
<1>3. {r \in requests' : r.kind = "COMPLETION"} = {}
  BY <1>2
<1>4. InFlightMatches'
  BY <1>1, <1>3 DEF InFlightMatches
<1>5. state' \notin Connected => requests' = {}
  BY DEF Spawn, Disconnect, Connected
<1>6. DefinitionAsked'
  BY <1>1 DEF DefinitionAsked
<1> QED BY <1>1, <1>4, <1>5, <1>6

\* What changes neither requests nor pending definition keeps the invariant.
LEMMA RequestsKept ==
    ASSUME RequestInv, UNCHANGED <<state, requests, inFlight, pendingDefinition>>
    PROVE  RequestInv'
BY DEF RequestInv, InFlightMatches, DefinitionAsked, Asked, Connected

\* A request that is no longer a completion in flight leaves the rest as it was.
LEMMA CompletionsLeft ==
    ASSUME InFlightMatches, inFlight \in BOOLEAN, NEW rs \in SUBSET requests
    PROVE  LET left == {r \in requests \ rs : r.kind = "COMPLETION"}
           IN  /\ Busy(rs) <=> left # {}
               /\ \A r, s \in left : r = s
<1> DEFINE left == {r \in requests \ rs : r.kind = "COMPLETION"}
<1>1. \A r, s \in left : r = s
  BY DEF InFlightMatches
<1>2. ASSUME Busy(rs) PROVE left # {}
  BY <1>2 DEF Busy, InFlightMatches
<1>3. ASSUME NEW c \in left PROVE Busy(rs)
  <2>1. inFlight
    BY DEF InFlightMatches
  <2>2. \A r \in rs : r.kind = "COMPLETION" => r = c
    BY DEF InFlightMatches
  <2> QED BY <2>1, <2>2 DEF Busy
<1> QED BY <1>1, <1>2, <1>3

\* The answered request: error, completion, definition.
LEMMA AnswerStep ==
    ASSUME RequestInv, NEW m, NEW r \in requests,
           HandleError(m, r) \/ HandleCompletion(m, r) \/ HandleDefinition(m, r)
    PROVE  RequestInv'
<1>1. state \in Connected /\ state' = state /\ requests' = requests \ {r}
  BY DEF HandleError, HandleCompletion, HandleDefinition, Handles, InPump
<1>2. inFlight' = Busy({r})
  <2>1. CASE HandleError(m, r)
    BY <2>1 DEF HandleError
  <2>2. CASE HandleCompletion(m, r)
    BY <2>2 DEF HandleCompletion, Busy
  <2>3. CASE HandleDefinition(m, r)
    BY <2>3 DEF HandleDefinition, Busy, RequestInv
  <2> QED BY <2>1, <2>2, <2>3
<1>3. inFlight' \in BOOLEAN
  BY <1>2 DEF Busy
<1>4. InFlightMatches'
  BY <1>1, <1>2, CompletionsLeft DEF InFlightMatches, RequestInv
<1>5. DefinitionAsked'
  <2> SUFFICES ASSUME state = "READY", pendingDefinition' # None
               PROVE  Asked("DEFINITION", pendingDefinition, requests \ {r})
                      /\ pendingDefinition' = pendingDefinition
    BY <1>1 DEF DefinitionAsked, Asked
  <2>1. pendingDefinition' = pendingDefinition
    BY DEF HandleError, HandleCompletion, HandleDefinition, GiveUp
  <2>2. PICK d \in requests : d.kind = "DEFINITION" /\ d.query = pendingDefinition
    BY <2>1 DEF RequestInv, DefinitionAsked, Asked
  <2>3. d # r
    <3>1. CASE HandleError(m, r)
      BY <2>1, <2>2, <3>1 DEF HandleError, GiveUp, Asked
    <3>2. CASE HandleCompletion(m, r)
      BY <2>2, <3>2 DEF HandleCompletion
    <3>3. CASE HandleDefinition(m, r)
      BY <2>1, <2>2, <3>3 DEF HandleDefinition
    <3> QED BY <3>1, <3>2, <3>3
  <2> QED BY <2>1, <2>2, <2>3 DEF Asked
<1> QED BY <1>1, <1>3, <1>4, <1>5 DEF RequestInv

\* pump() to its end: what times out is no longer pending, and a completion is
\* sent only into the free slot.
LEMMA PumpEndStep ==
    ASSUME RequestInv, NEW late \in Late, NEW due \in BOOLEAN, PumpEnd(late, due)
    PROVE  RequestInv'
<1> DEFINE left == requests \ late
<1> DEFINE sent == [id |-> nextId, kind |-> "COMPLETION", query |-> pendingCompletion']
<1>1. late \in SUBSET requests
  BY DEF Late
<1>2. state \in Connected /\ state' = state
  BY DEF PumpEnd, InPump
<1>3. /\ Busy(late) <=> {r \in left : r.kind = "COMPLETION"} # {}
      /\ \A r, s \in {x \in left : x.kind = "COMPLETION"} : r = s
  BY <1>1, CompletionsLeft DEF RequestInv
<1>4. \/ requests' = left \cup {sent} /\ inFlight' = TRUE /\ ~Busy(late)
      \/ requests' = left /\ inFlight' = Busy(late)
  BY DEF PumpEnd, Send
<1>5. inFlight' \in BOOLEAN /\ InFlightMatches'
  <2>1. CASE requests' = left \cup {sent} /\ inFlight' = TRUE /\ ~Busy(late)
    <3>1. {r \in requests' : r.kind = "COMPLETION"} = {sent}
      BY <2>1, <1>3
    <3> QED BY <2>1, <3>1 DEF InFlightMatches
  <2>2. CASE requests' = left /\ inFlight' = Busy(late)
    <3>1. inFlight' \in BOOLEAN
      BY <2>2 DEF Busy
    <3> QED BY <2>2, <1>3, <3>1 DEF InFlightMatches
  <2> QED BY <1>4, <2>1, <2>2
<1>6. DefinitionAsked'
  <2> SUFFICES ASSUME state = "READY", pendingDefinition' # None
               PROVE  \E r \in requests' : r.kind = "DEFINITION" /\ r.query = pendingDefinition'
    BY <1>2 DEF DefinitionAsked, Asked
  <2>1. pendingDefinition' = pendingDefinition /\ ~Asked("DEFINITION", pendingDefinition, late)
    BY DEF PumpEnd, GiveUp
  <2>2. PICK d \in requests : d.kind = "DEFINITION" /\ d.query = pendingDefinition
    BY <2>1 DEF RequestInv, DefinitionAsked, Asked
  <2>3. d \in left
    BY <2>1, <2>2 DEF Asked
  <2> QED BY <1>4, <2>1, <2>2, <2>3
<1> QED BY <1>2, <1>5, <1>6 DEF RequestInv

\* A definition that is sent: at once, or when the server becomes ready.
LEMMA DefinitionSent ==
    ASSUME RequestInv, NEW others \in SUBSET requests, NEW q,
           \A r \in requests \ others : r.kind = "INITIALIZE",
           Send("DEFINITION", q, others), pendingDefinition' = q,
           state' = "READY", UNCHANGED inFlight
    PROVE  RequestInv'
<1> DEFINE sent == [id |-> nextId, kind |-> "DEFINITION", query |-> q]
<1>1. requests' = others \cup {sent}
  BY DEF Send
<1>2. {r \in requests' : r.kind = "COMPLETION"} = {r \in requests : r.kind = "COMPLETION"}
  BY <1>1
<1>3. InFlightMatches' /\ inFlight' \in BOOLEAN
  BY <1>2 DEF InFlightMatches, RequestInv
<1>4. sent \in requests' /\ sent.kind = "DEFINITION" /\ sent.query = pendingDefinition'
  BY <1>1
<1>5. DefinitionAsked'
  BY <1>4 DEF DefinitionAsked, Asked
<1> QED BY <1>3, <1>5 DEF RequestInv, Connected

LEMMA RequestStep == RequestInv /\ [Next]_vars => RequestInv'
<1> SUFFICES ASSUME RequestInv, [Next]_vars PROVE RequestInv'
  OBVIOUS
<1>1. ASSUME NEW q \in Queries, Complete(q) PROVE RequestInv'
  <2>1. CASE Spawn \/ SpawnFails
    BY <2>1, RequestsReset DEF SpawnFails, Fail
  <2>2. CASE ~(Spawn \/ SpawnFails)
    BY <1>1, <2>2, RequestsKept DEF Complete, outgoing
  <2> QED BY <2>1, <2>2
<1>2. ASSUME NEW q \in Queries, Lookup(q) PROVE RequestInv'
  <2>1. CASE Spawn \/ SpawnFails
    BY <2>1, RequestsReset DEF SpawnFails, Fail
  <2>2. CASE state = "READY" /\ Send("DEFINITION", q, requests) /\ pendingDefinition' = q
             /\ UNCHANGED <<state, inFlight>>
    BY <2>2, DefinitionSent
  <2>3. CASE NotStarted /\ state # "READY" /\ UNCHANGED <<state, outgoing, inFlight>>
    <3>1. DefinitionAsked'
      BY <2>3 DEF DefinitionAsked
    <3> QED BY <2>3, <3>1 DEF RequestInv, InFlightMatches, outgoing, Connected
  <2> QED BY <1>2, <2>1, <2>2, <2>3 DEF Lookup
<1>3. CASE Shutdown
  BY <1>3, RequestsReset DEF Shutdown
<1>4. ASSUME NEW m \in toClient, HandleUnknown(m) PROVE RequestInv'
  BY <1>4, RequestsKept DEF HandleUnknown, outgoing, pending
<1>5. ASSUME NEW m \in toClient, NEW r \in requests,
             HandleError(m, r) \/ HandleCompletion(m, r) \/ HandleDefinition(m, r)
      PROVE  RequestInv'
  BY <1>5, AnswerStep
<1>6. ASSUME NEW m \in toClient, NEW r \in requests, HandleInitialized(m, r)
      PROVE  RequestInv'
  <2>1. /\ r.kind = "INITIALIZE" /\ state' = "READY"
        /\ UNCHANGED <<inFlight, pendingDefinition>>
    BY <1>6 DEF HandleInitialized, pending
  <2>2. CASE pendingDefinition # None
    BY <1>6, <2>1, <2>2, DefinitionSent DEF HandleInitialized
  <2>3. CASE pendingDefinition = None
    <3>1. requests' = requests \ {r}
      BY <1>6, <2>3 DEF HandleInitialized
    <3>2. {x \in requests' : x.kind = "COMPLETION"} = {x \in requests : x.kind = "COMPLETION"}
      BY <2>1, <3>1
    <3>3. InFlightMatches' /\ inFlight' \in BOOLEAN
      BY <2>1, <3>2 DEF InFlightMatches, RequestInv
    <3> QED BY <2>1, <2>3, <3>3 DEF RequestInv, DefinitionAsked, Connected
  <2> QED BY <2>2, <2>3
<1>7. CASE ParseFails \/ ServerGone \/ InitTimesOut \/ Incompatible
  BY <1>7, RequestsReset DEF ParseFails, ServerGone, InitTimesOut, Incompatible, PumpFails, Fail
<1>8. ASSUME NEW late \in Late, NEW due \in BOOLEAN, PumpEnd(late, due)
      PROVE  RequestInv'
  BY <1>8, PumpEndStep
<1>9. CASE ServerSynchronizes \/ ServerAnswers \/ ServerInitializes
  BY <1>9, RequestsKept
     DEF ServerSynchronizes, ServerAnswers, ServerInitializes, ServerReads, pending
<1>10. CASE ServerExits
  BY <1>10, RequestsKept DEF ServerExits, outgoing, pending
<1>11. CASE UNCHANGED vars
  BY <1>11, RequestsKept DEF vars, outgoing, pending
<1> QED
  BY <1>1, <1>2, <1>3, <1>4, <1>5, <1>6, <1>7, <1>8, <1>9, <1>10, <1>11 DEF Next

LEMMA RequestInit == Init => RequestInv
BY DEF Init, RequestInv, InFlightMatches, DefinitionAsked, Connected

\* A completion counts as in flight exactly while one request for it is known,
\* however it is answered, times out or fails.
THEOREM InFlightMatchesTheorem == Spec => []InFlightMatches
<1>1. RequestInv => InFlightMatches
  BY DEF RequestInv
<1> QED BY <1>1, RequestInit, RequestStep, PTL DEF Spec

\* A pending definition has been asked of a server that is ready, whether it was
\* asked before or after the server became ready.
THEOREM DefinitionAskedTheorem == Spec => []DefinitionAsked
<1>1. RequestInv => DefinitionAsked
  BY DEF RequestInv
<1> QED BY <1>1, RequestInit, RequestStep, PTL DEF Spec

-----------------------------------------------------------------------------
(* Types                                                                   *)

\* What the editor asked and got.
AskedType ==
    /\ queries \in 0..MaxQueries
    /\ pumping \in {"no", "message", "signal"}
    /\ pendingCompletion \in Queries \cup {None}
    /\ pendingDefinition \in Queries \cup {None}
    /\ cachedCompletion \in Answer \cup {None}
    /\ cachedDefinition \in Answer \cup {None}

\* What goes between the client and the server.
PipeType ==
    /\ requests \subseteq Request /\ nextId \in Nat \ {0}
    /\ documents \in [Docs -> Texts \cup {None}]
    /\ serverDocs \in [Docs -> Texts \cup {None}]
    /\ toServer \in Seq(Message) /\ lost \subseteq Docs /\ toClient \subseteq Response

\* The steps that matter to the pipes, whatever else they do: the client sends
\* a query, drops requests or answers, or the server reads.
Sends ==
    /\ state \in Connected /\ state' \in Connected
    /\ \E kind \in Kinds, q \in Queries, others \in SUBSET requests : Send(kind, q, others)
    /\ UNCHANGED serverDocs /\ toClient' \subseteq toClient
Drops ==
    /\ state \in Connected <=> state' \in Connected
    /\ requests' \subseteq requests /\ toClient' \subseteq toClient
    /\ UNCHANGED <<nextId, documents, serverDocs, toServer, lost>>
Resets == Disconnect("FAILED") \/ Disconnect("STOPPED")
Reads == ServerSynchronizes \/ ServerAnswers \/ ServerInitializes

\* pump() to its end sends a completion or only drops requests.
LEMMA PumpEndPipe ==
    ASSUME AskedType, NEW late \in Late, NEW due \in BOOLEAN, PumpEnd(late, due)
    PROVE  Sends \/ Drops
<1>1. late \in SUBSET requests /\ state' = state /\ state \in Connected
      /\ UNCHANGED <<serverDocs, toClient>>
  BY DEF Late, PumpEnd, InPump, process
<1>2. pendingCompletion' \in Queries \cup {None}
  BY DEF PumpEnd, GiveUp, AskedType
<1>3. CASE state = "READY" /\ pendingCompletion' # None /\ ~Busy(late) /\ due
  <2>1. PICK q \in Queries : q = pendingCompletion'
    BY <1>2, <1>3
  <2>2. Send("COMPLETION", q, requests \ late)
    BY <1>3, <2>1 DEF PumpEnd, Send
  <2> QED BY <1>1, <2>2 DEF Sends, Kinds
<1>4. CASE ~(state = "READY" /\ pendingCompletion' # None /\ ~Busy(late) /\ due)
  BY <1>1, <1>4 DEF PumpEnd, Drops
<1> QED BY <1>3, <1>4

LEMMA PipeSteps ==
    ASSUME AskedType, [Next]_vars
    PROVE  Spawn \/ Resets \/ Sends \/ Drops \/ Reads
<1>1. ASSUME NEW q \in Queries, Complete(q) PROVE Spawn \/ Resets \/ Drops
  BY <1>1 DEF Complete, SpawnFails, Fail, Resets, Drops, process, outgoing
<1>2. ASSUME NEW q \in Queries, Lookup(q) PROVE Spawn \/ Resets \/ Sends \/ Drops
  <2>1. CASE Spawn \/ SpawnFails
    BY <2>1 DEF SpawnFails, Fail, Resets
  <2>2. CASE state = "READY" /\ Send("DEFINITION", q, requests)
             /\ UNCHANGED <<state, process>>
    BY <2>2 DEF Sends, Kinds, Connected, process
  <2>3. CASE NotStarted /\ UNCHANGED <<state, process, outgoing>>
    BY <2>3 DEF Drops, process, outgoing
  <2> QED BY <1>2, <2>1, <2>2, <2>3 DEF Lookup
<1>3. Shutdown => Resets
  BY DEF Shutdown, Resets
<1>4. ASSUME NEW m \in toClient, HandleUnknown(m) PROVE Drops
  BY <1>4 DEF HandleUnknown, Drops, outgoing
<1>5. ASSUME NEW m \in toClient, NEW r \in requests,
             HandleError(m, r) \/ HandleCompletion(m, r) \/ HandleDefinition(m, r)
      PROVE  Drops
  BY <1>5 DEF HandleError, HandleCompletion, HandleDefinition, Handles, Drops
<1>6. ASSUME NEW m \in toClient, NEW r \in requests, HandleInitialized(m, r)
      PROVE  Sends \/ Drops
  <2>1. /\ state \in Connected /\ state' \in Connected
        /\ UNCHANGED serverDocs /\ toClient' \subseteq toClient
    BY <1>6 DEF HandleInitialized, Handles, InPump, Connected
  <2>2. CASE pendingDefinition # None
    <3>1. PICK q \in Queries : q = pendingDefinition
      BY <2>2 DEF AskedType
    <3>2. Send("DEFINITION", q, requests \ {r})
      BY <1>6, <2>2, <3>1 DEF HandleInitialized
    <3> QED BY <2>1, <3>2 DEF Sends, Kinds
  <2>3. CASE pendingDefinition = None
    BY <1>6, <2>1, <2>3 DEF HandleInitialized, Drops
  <2> QED BY <2>2, <2>3
<1>7. ParseFails \/ ServerGone \/ InitTimesOut \/ Incompatible => Resets
  BY DEF ParseFails, ServerGone, InitTimesOut, Incompatible, PumpFails, Fail, Resets
<1>8. ServerExits \/ UNCHANGED vars => Drops
  BY DEF ServerExits, Drops, vars, outgoing, process
<1> QED BY <1>1, <1>2, <1>3, <1>4, <1>5, <1>6, <1>7, <1>8, PumpEndPipe DEF Next, Reads

\* What the server is told, as the pipe stands: the text it has for d once it
\* has read the first n messages, from what it knows now.
Tells(m, d) == m.kind \in {"open", "change"} /\ m.query.doc = d

Knows(pipe, known, d, n, t) ==
    \/ known[d] = t /\ \A i \in 1..n : ~Tells(pipe[i], d)
    \/ \E i \in 1..n : /\ Tells(pipe[i], d) /\ pipe[i].query.text = t
                       /\ \A j \in (i + 1)..n : ~Tells(pipe[j], d)

\* The server will read each request after the text it was asked for, a document
\* changes only after it was opened, and in the end the server knows the texts
\* the client takes it to know; except of the documents of which something it
\* was to be told is gone.
InOrder(pipe, known, sent, gone) ==
    /\ \A d \in Docs \ gone : Knows(pipe, known, d, Len(pipe), sent[d])
    /\ \A n \in 1..Len(pipe) :
          /\ pipe[n].kind \in Kinds /\ pipe[n].query.doc \notin gone =>
                Knows(pipe, known, pipe[n].query.doc, n - 1, pipe[n].query.text)
          /\ pipe[n].kind = "change" /\ pipe[n].query.doc \notin gone =>
                \E t \in Texts : Knows(pipe, known, pipe[n].query.doc, n - 1, t)

\* A text that is lost is gone for its document only.
LEMMA OrderLost ==
    ASSUME NEW pipe, NEW known, NEW sent, NEW now, NEW gone, NEW doc,
           InOrder(pipe, known, sent, gone),
           \A d \in Docs : d # doc => now[d] = sent[d]
    PROVE  InOrder(pipe, known, now, gone \cup {doc})
BY DEF InOrder

\* Later messages do not matter to what is known before them.
LEMMA KnowsAppend ==
    ASSUME NEW pipe \in Seq(Message), NEW m \in Message, NEW known, NEW d, NEW t,
           NEW n \in 0..Len(pipe), Knows(pipe, known, d, n, t)
    PROVE  Knows(Append(pipe, m), known, d, n, t)
<1>1. \A i \in 1..n : Append(pipe, m)[i] = pipe[i]
  OBVIOUS
<1>2. \A i \in 1..n : \A j \in (i + 1)..n : j \in 1..n
  OBVIOUS
<1> QED BY <1>1, <1>2 DEF Knows

\* A message about another document, or a request, changes nothing for d.
LEMMA KnowsSkip ==
    ASSUME NEW pipe \in Seq(Message), NEW m \in Message, NEW known, NEW d, NEW t,
           Knows(pipe, known, d, Len(pipe), t), ~Tells(m, d)
    PROVE  Knows(Append(pipe, m), known, d, Len(pipe) + 1, t)
<1> DEFINE longer == Append(pipe, m)
<1> DEFINE n == Len(pipe)
<1>1. n \in Nat /\ longer[n + 1] = m /\ \A i \in 1..n : longer[i] = pipe[i]
  OBVIOUS
<1>2. \A i \in 1..(n + 1) : i \in 1..n \/ i = n + 1
  BY <1>1
<1>3. \A i \in 1..n : \A j \in (i + 1)..(n + 1) : (j \in (i + 1)..n /\ j \in 1..n) \/ j = n + 1
  BY <1>1
<1>4. CASE known[d] = t /\ \A i \in 1..n : ~Tells(pipe[i], d)
  BY <1>1, <1>2, <1>4 DEF Knows
<1>5. ASSUME NEW i \in 1..n, Tells(pipe[i], d), pipe[i].query.text = t,
             \A j \in (i + 1)..n : ~Tells(pipe[j], d)
      PROVE  Knows(longer, known, d, n + 1, t)
  <2>1. \A j \in (i + 1)..(n + 1) : ~Tells(longer[j], d)
    BY <1>1, <1>3, <1>5
  <2>2. i \in 1..(n + 1) /\ longer[i] = pipe[i]
    BY <1>1
  <2> QED BY <1>5, <2>1, <2>2 DEF Knows
<1> QED BY <1>4, <1>5 DEF Knows

\* A message about d is the last word on it.
LEMMA KnowsTold ==
    ASSUME NEW pipe \in Seq(Message), NEW m \in Message, NEW known, NEW d, Tells(m, d)
    PROVE  Knows(Append(pipe, m), known, d, Len(pipe) + 1, m.query.text)
<1>1. /\ Len(pipe) + 1 \in 1..(Len(pipe) + 1)
      /\ Append(pipe, m)[Len(pipe) + 1] = m
      /\ ((Len(pipe) + 1) + 1)..(Len(pipe) + 1) = {}
  OBVIOUS
<1> QED BY <1>1 DEF Knows

\* What is sent keeps the order: a request for the text the server is taken to
\* know, or the new text of a document, which is opened the first time.
LEMMA OrderAppend ==
    ASSUME NEW pipe \in Seq(Message), NEW m \in Message, NEW known, NEW sent, NEW now, NEW gone,
           InOrder(pipe, known, sent, gone),
           \/ /\ m.kind \in Kinds \cup {"INITIALIZE"} /\ now = sent
              /\ m.kind \in Kinds =>
                    m.query \in Queries /\ (m.query.doc \in gone \/ sent[m.query.doc] = m.query.text)
           \/ /\ m.kind \in {"open", "change"} /\ m.query \in Queries
              /\ m.kind = "change" => sent[m.query.doc] \in Texts
              /\ \A d \in Docs : now[d] = IF d = m.query.doc THEN m.query.text ELSE sent[d]
    PROVE  InOrder(Append(pipe, m), known, now, gone)
<1> DEFINE longer == Append(pipe, m)
<1>1. /\ Len(pipe) \in Nat /\ Len(longer) = Len(pipe) + 1 /\ longer[Len(pipe) + 1] = m
      /\ \A i \in 1..Len(pipe) : longer[i] = pipe[i] /\ i - 1 \in 0..Len(pipe)
  OBVIOUS
<1>2. ASSUME NEW d \in Docs \ gone PROVE Knows(longer, known, d, Len(longer), now[d])
  <2>1. Knows(pipe, known, d, Len(pipe), sent[d])
    BY DEF InOrder
  <2>2. CASE Tells(m, d)
    <3>1. now[d] = m.query.text
      BY <2>2 DEF Tells, Kinds
    <3> QED BY <1>1, <2>2, <3>1, KnowsTold
  <2>3. CASE ~Tells(m, d)
    <3>1. now[d] = sent[d]
      BY <2>3 DEF Tells
    <3> QED BY <1>1, <2>1, <2>3, <3>1, KnowsSkip
  <2> QED BY <2>2, <2>3
<1>3. ASSUME NEW n \in 1..Len(pipe)
      PROVE  /\ longer[n].kind \in Kinds /\ longer[n].query.doc \notin gone =>
                   Knows(longer, known, longer[n].query.doc, n - 1, longer[n].query.text)
             /\ longer[n].kind = "change" /\ longer[n].query.doc \notin gone =>
                   \E t \in Texts : Knows(longer, known, longer[n].query.doc, n - 1, t)
  BY <1>1, KnowsAppend DEF InOrder
<1>4. /\ m.kind \in Kinds /\ m.query.doc \notin gone =>
            Knows(longer, known, m.query.doc, Len(pipe), m.query.text)
      /\ m.kind = "change" /\ m.query.doc \notin gone =>
            \E t \in Texts : Knows(longer, known, m.query.doc, Len(pipe), t)
  <2>1. \A d \in Docs \ gone : Knows(longer, known, d, Len(pipe), sent[d])
    BY <1>1, KnowsAppend DEF InOrder
  <2>2. m.query \in Queries => m.query.doc \in Docs
    BY DEF Queries
  <2> QED BY <2>1, <2>2 DEF Kinds
<1>5. \A n \in 1..Len(longer) : n \in 1..Len(pipe) \/ n = Len(pipe) + 1
  BY <1>1
<1>6. (Len(pipe) + 1) - 1 = Len(pipe)
  BY <1>1
<1> QED BY <1>1, <1>2, <1>3, <1>4, <1>5, <1>6 DEF InOrder

\* What the server knows once it has read the next message, seen from behind it.
LEMMA KnowsTail ==
    ASSUME NEW pipe \in Seq(Message), pipe # <<>>, NEW known, NEW now, NEW d, NEW t,
           NEW n \in 1..Len(pipe), Knows(pipe, known, d, n, t),
           now[d] = IF Tells(pipe[1], d) THEN pipe[1].query.text ELSE known[d]
    PROVE  Knows(Tail(pipe), now, d, n - 1, t)
<1> DEFINE rest == Tail(pipe)
<1>1. /\ Len(pipe) \in Nat /\ Len(rest) = Len(pipe) - 1
      /\ \A i \in 1..Len(rest) : rest[i] = pipe[i + 1]
  OBVIOUS
<1>2. \A i \in 1..(n - 1) : i + 1 \in 2..n /\ i + 1 \in 1..n /\ rest[i] = pipe[i + 1]
  BY <1>1
<1>3. CASE known[d] = t /\ \A i \in 1..n : ~Tells(pipe[i], d)
  <2>1. 1 \in 1..n
    OBVIOUS
  <2> QED BY <1>2, <1>3, <2>1 DEF Knows
<1>4. ASSUME NEW i \in 1..n, Tells(pipe[i], d), pipe[i].query.text = t,
             \A j \in (i + 1)..n : ~Tells(pipe[j], d)
      PROVE  Knows(rest, now, d, n - 1, t)
  <2>1. CASE i = 1
    BY <1>2, <1>4, <2>1 DEF Knows
  <2>2. CASE i # 1
    <3>1. i - 1 \in 1..(n - 1) /\ rest[i - 1] = pipe[i]
      <4>1. i - 1 \in 1..(n - 1) /\ (i - 1) + 1 = i
        BY <2>2
      <4> QED BY <1>2, <4>1
    <3>2. \A j \in ((i - 1) + 1)..(n - 1) : j \in 1..(n - 1) /\ j + 1 \in (i + 1)..n
      BY <2>2
    <3>3. \A j \in ((i - 1) + 1)..(n - 1) : ~Tells(rest[j], d)
      BY <1>2, <1>4, <3>2
    <3> QED BY <1>4, <3>1, <3>3 DEF Knows
  <2> QED BY <2>1, <2>2
<1> QED BY <1>3, <1>4 DEF Knows

\* Reading keeps the order.
LEMMA OrderTail ==
    ASSUME NEW pipe \in Seq(Message), pipe # <<>>, NEW known, NEW now, NEW sent, NEW gone,
           InOrder(pipe, known, sent, gone),
           \A d \in Docs \ gone :
               now[d] = IF Tells(pipe[1], d) THEN pipe[1].query.text ELSE known[d]
    PROVE  InOrder(Tail(pipe), now, sent, gone)
<1> DEFINE rest == Tail(pipe)
<1>1. /\ Len(pipe) \in Nat /\ Len(pipe) \in 1..Len(pipe) /\ Len(rest) = Len(pipe) - 1
      /\ \A n \in 1..Len(rest) : rest[n] = pipe[n + 1]
  OBVIOUS
<1>2. \A d \in Docs \ gone : Knows(rest, now, d, Len(rest), sent[d])
  BY <1>1, KnowsTail DEF InOrder
<1>3. ASSUME NEW n \in 1..Len(rest)
      PROVE  /\ rest[n].kind \in Kinds /\ rest[n].query.doc \notin gone =>
                   Knows(rest, now, rest[n].query.doc, n - 1, rest[n].query.text)
             /\ rest[n].kind = "change" /\ rest[n].query.doc \notin gone =>
                   \E t \in Texts : Knows(rest, now, rest[n].query.doc, n - 1, t)
  <2>1. n \in 1..Len(pipe) /\ n + 1 \in 1..Len(pipe) /\ (n + 1) - 1 = n /\ rest[n] = pipe[n + 1]
    BY <1>1
  <2>2. rest[n] \in Message
    BY <2>1
  <2>3. rest[n].kind \in Kinds \cup {"change"} => rest[n].query.doc \in Docs
    BY <2>2 DEF Message, Request, Queries, Kinds
  <2>4. /\ rest[n].kind \in Kinds /\ rest[n].query.doc \notin gone =>
              Knows(pipe, known, rest[n].query.doc, n, rest[n].query.text)
        /\ rest[n].kind = "change" /\ rest[n].query.doc \notin gone =>
              \E t \in Texts : Knows(pipe, known, rest[n].query.doc, n, t)
    BY <2>1 DEF InOrder
  <2> QED BY <2>1, <2>3, <2>4, KnowsTail
<1> QED BY <1>2, <1>3 DEF InOrder

\* An answer is kept with the query of a known request.
LEMMA AskedStep == AskedType /\ PipeType /\ [Next]_vars => AskedType'
<1> SUFFICES ASSUME AskedType, PipeType, [Next]_vars PROVE AskedType'
  OBVIOUS
<1> USE DEF AskedType
<1>1. ASSUME NEW q \in Queries, Complete(q) PROVE AskedType'
  <2>1. queries' \in 0..MaxQueries /\ UNCHANGED <<cachedCompletion, cachedDefinition>>
    BY <1>1, ConstantsAssumption DEF Complete, Ask, cached
  <2>2. pumping' \in {"no", "message", "signal"}
    BY <1>1 DEF Complete
  <2>3. /\ pendingCompletion' \in {q, None}
        /\ pendingDefinition' \in {pendingDefinition, None}
    BY <1>1 DEF Complete, SpawnFails, Fail, Disconnect
  <2> QED BY <2>1, <2>2, <2>3
<1>2. ASSUME NEW q \in Queries, Lookup(q) PROVE AskedType'
  <2>1. queries' \in 0..MaxQueries /\ UNCHANGED <<cachedCompletion, cachedDefinition>>
    BY <1>2, ConstantsAssumption DEF Lookup, Ask, cached
  <2>2. UNCHANGED pumping
    BY <1>2 DEF Lookup
  <2>3. /\ pendingCompletion' \in {pendingCompletion, None}
        /\ pendingDefinition' \in {q, None}
    BY <1>2 DEF Lookup, SpawnFails, Fail, Disconnect
  <2> QED BY <2>1, <2>2, <2>3
<1>3. Shutdown => AskedType'
  BY DEF Shutdown, Disconnect, cached
<1>4. ASSUME NEW m \in toClient, HandleUnknown(m) PROVE AskedType'
  BY <1>4 DEF HandleUnknown, pending, cached
<1>5. ASSUME NEW m \in toClient, NEW r \in requests,
             \/ HandleError(m, r) \/ HandleInitialized(m, r)
             \/ HandleCompletion(m, r) \/ HandleDefinition(m, r)
      PROVE  AskedType'
  <2>1. UNCHANGED queries
    BY <1>5 DEF HandleError, HandleInitialized, HandleCompletion, HandleDefinition, Handles
  <2>2. CASE HandleError(m, r) \/ HandleInitialized(m, r)
    BY <2>1, <2>2 DEF HandleError, HandleInitialized, GiveUp, pending, cached
  <2>3. m.text \in Texts \cup {None} /\ (r.kind \in Kinds => r.query \in Queries)
    BY DEF PipeType, Response, Request, Kinds
  <2>4. r.kind \in Kinds => AnswerTo(r, m) \in Answer
    BY <2>3 DEF Answer, AnswerTo
  <2>5. CASE HandleCompletion(m, r)
    BY <2>1, <2>4, <2>5 DEF HandleCompletion, Kinds
  <2>6. CASE HandleDefinition(m, r)
    BY <2>1, <2>4, <2>6 DEF HandleDefinition, Kinds
  <2> QED BY <1>5, <2>2, <2>5, <2>6
<1>6. ParseFails \/ ServerGone \/ InitTimesOut \/ Incompatible => AskedType'
  BY DEF ParseFails, ServerGone, InitTimesOut, Incompatible, PumpFails, Fail, Disconnect, cached
<1>7. ASSUME NEW late \in Late, NEW due \in BOOLEAN, PumpEnd(late, due) PROVE AskedType'
  BY <1>7 DEF PumpEnd, GiveUp, cached
<1>8. ServerSynchronizes \/ ServerAnswers \/ ServerInitializes => AskedType'
  BY DEF ServerSynchronizes, ServerAnswers, ServerInitializes, ServerReads, pending, cached
<1>9. ServerExits \/ UNCHANGED vars => AskedType'
  BY DEF ServerExits, vars, pending, cached
<1> QED BY <1>1, <1>2, <1>3, <1>4, <1>5, <1>6, <1>7, <1>8, <1>9 DEF Next

\* What is sent is a message, after the message that tells the text if need be,
\* which may be lost.
LEMMA SendPipe ==
    ASSUME PipeType, NEW kind \in Kinds, NEW q \in Queries, NEW others \in SUBSET requests,
           Send(kind, q, others)
    PROVE  \E asked \in Request :
               /\ asked = [id |-> nextId, kind |-> kind, query |-> q]
               /\ requests' = others \cup {asked}
               /\ \/ /\ documents[q.doc] = q.text /\ lost' = lost
                     /\ toServer' = Append(toServer, asked)
                  \/ lost' = lost \cup {q.doc} /\ toServer' = Append(toServer, asked)
                  \/ /\ lost' = lost
                     /\ \E m \in Message :
                           /\ m.kind = IF documents[q.doc] = None THEN "open" ELSE "change"
                           /\ m.id = 0 /\ m.query = q
                           /\ toServer' = Append(Append(toServer, m), asked)
<1> DEFINE asked == [id |-> nextId, kind |-> kind, query |-> q]
<1>1. asked \in Request /\ asked \in Message
  BY DEF Request, Message, PipeType
<1>2. /\ \/ toServer' = (toServer \o Synchronize(q)) \o <<asked>> /\ lost' = lost
         \/ toServer' = Append(toServer, asked) /\ lost' = lost \cup {q.doc}
      /\ requests' = others \cup {asked}
  BY DEF Send, Write
<1>3. toServer \in Seq(Message)
  BY DEF PipeType
<1>4. CASE toServer' = Append(toServer, asked) /\ lost' = lost \cup {q.doc}
  BY <1>1, <1>2, <1>4
<1>5. CASE /\ toServer' = (toServer \o Synchronize(q)) \o <<asked>> /\ lost' = lost
           /\ documents[q.doc] = q.text
  <2>1. Synchronize(q) = <<>>
    BY <1>5, ConstantsAssumption DEF Synchronize, Queries
  <2>2. toServer' = Append(toServer, asked)
    BY <1>1, <1>3, <1>5, <2>1
  <2> QED BY <1>1, <1>2, <1>5, <2>2
<1>6. CASE /\ toServer' = (toServer \o Synchronize(q)) \o <<asked>> /\ lost' = lost
           /\ documents[q.doc] # q.text
  <2> DEFINE m == [kind |-> IF documents[q.doc] = None THEN "open" ELSE "change",
                   id |-> 0, query |-> q]
  <2>1. m \in Message
    BY DEF Message
  <2>2. Synchronize(q) = <<m>>
    BY <1>6 DEF Synchronize
  <2>3. toServer' = Append(Append(toServer, m), asked)
    BY <1>1, <1>3, <1>6, <2>1, <2>2
  <2> QED BY <1>1, <1>2, <1>6, <2>1, <2>3
<1> QED BY <1>2, <1>4, <1>5, <1>6

\* The server reads the next message.
LEMMA ReadPipe ==
    ASSUME PipeType, Reads
    PROVE  /\ toServer # <<>> /\ toServer' = Tail(toServer) /\ toServer[1] \in Message
           /\ UNCHANGED <<state, requests, nextId, documents, lost>>
           /\ toServer[1].kind \in Kinds => toServer[1].query \in Queries
           /\ \/ toServer[1].kind \notin {"open", "change"} /\ UNCHANGED serverDocs
              \/ /\ toServer[1].kind \in {"open", "change"} /\ UNCHANGED toClient
                 /\ toServer[1].query \in Queries
                 /\ serverDocs' = IF \/ toServer[1].kind = "open"
                                     \/ serverDocs[toServer[1].query.doc] # None
                                  THEN [serverDocs EXCEPT ![toServer[1].query.doc] =
                                                                toServer[1].query.text]
                                  ELSE serverDocs
<1>1. ServerReads
  BY DEF Reads, ServerSynchronizes, ServerAnswers, ServerInitializes
<1>2. /\ toServer # <<>> /\ toServer' = Tail(toServer)
      /\ UNCHANGED <<state, requests, nextId, documents, lost>>
  BY <1>1 DEF ServerReads
<1>3. toServer[1] \in Message /\ Head(toServer) = toServer[1]
  BY <1>2 DEF PipeType
<1>4. toServer[1].kind \in Kinds \cup {"open", "change"} => toServer[1].query \in Queries
  BY <1>3 DEF Message, Request, Kinds
<1>5. CASE ServerSynchronizes
  BY <1>2, <1>3, <1>4, <1>5 DEF ServerSynchronizes
<1>6. CASE ServerAnswers \/ ServerInitializes
  BY <1>2, <1>3, <1>4, <1>6 DEF ServerAnswers, ServerInitializes, Kinds
<1> QED BY <1>5, <1>6 DEF Reads

LEMMA PipeStep == AskedType /\ PipeType /\ [Next]_vars => PipeType'
<1> SUFFICES ASSUME AskedType, PipeType, [Next]_vars PROVE PipeType'
  OBVIOUS
<1>1. CASE Spawn
  <2> DEFINE first == [id |-> nextId, kind |-> "INITIALIZE", query |-> None]
  <2>1. first \in Request /\ first \in Message
    BY DEF PipeType, Request, Message
  <2>2. toServer' = <<first>> /\ requests' = {first} /\ nextId' = nextId + 1
        /\ UNCHANGED <<documents, lost, serverDocs, toClient>>
    BY <1>1 DEF Spawn
  <2>3. toServer' \in Seq(Message)
    BY <2>1, <2>2
  <2> QED BY <2>1, <2>2, <2>3 DEF PipeType
<1>2. CASE Resets
  <2>1. NoDocuments \in [Docs -> Texts \cup {None}]
    BY DEF NoDocuments
  <2>2. /\ requests' = {} /\ toServer' = <<>> /\ toClient' = {} /\ nextId' = nextId
        /\ documents' = NoDocuments /\ serverDocs' = NoDocuments /\ lost' = {}
    BY <1>2 DEF Resets, Disconnect
  <2>3. toServer' \in Seq(Message)
    BY <2>2
  <2> QED BY <2>1, <2>2, <2>3 DEF PipeType
<1>3. CASE Sends
  <2>1. PICK kind \in Kinds, q \in Queries, others \in SUBSET requests : Send(kind, q, others)
    BY <1>3 DEF Sends
  <2>2. PICK asked \in Request :
             /\ requests' = others \cup {asked}
             /\ \/ toServer' = Append(toServer, asked)
                \/ \E m \in Message : toServer' = Append(Append(toServer, m), asked)
             /\ lost' \in {lost, lost \cup {q.doc}}
    BY <2>1, SendPipe
  <2>3. toServer' \in Seq(Message)
    <3>1. asked \in Message /\ toServer \in Seq(Message)
      BY DEF Message, PipeType
    <3> QED BY <2>2, <3>1
  <2>4. documents' \in [Docs -> Texts \cup {None}] /\ nextId' = nextId + 1
    BY <2>1 DEF Send, PipeType, Queries
  <2>5. /\ requests' \subseteq Request /\ serverDocs' = serverDocs /\ toClient' \subseteq toClient
        /\ lost' \subseteq Docs
    BY <1>3, <2>2 DEF Sends, PipeType, Queries
  <2> QED BY <2>3, <2>4, <2>5 DEF PipeType
<1>4. CASE Drops
  BY <1>4 DEF Drops, PipeType
<1>5. CASE Reads
  <2>1. toServer' \in Seq(Message)
    <3>1. toServer \in Seq(Message) /\ toServer # <<>> /\ toServer' = Tail(toServer)
      BY <1>5, ReadPipe DEF PipeType
    <3> QED BY <3>1
  <2>2. serverDocs' \in [Docs -> Texts \cup {None}]
    BY <1>5, ReadPipe DEF PipeType, Queries
  <2>3. toClient' \subseteq Response
    <3>1. CASE ServerSynchronizes
      BY <3>1 DEF ServerSynchronizes, PipeType
    <3>2. toServer[1] \in Message /\ Head(toServer) = toServer[1]
      BY <1>5, ReadPipe
    <3>3. toServer[1].id \in Nat
      BY <3>2 DEF Message, Request
    <3>4. CASE ServerAnswers
      <4>1. serverDocs[toServer[1].query.doc] \in Texts \cup {None}
        BY <1>5, <3>2, <3>4, ReadPipe DEF ServerAnswers, PipeType, Queries, Kinds
      <4> QED BY <3>2, <3>3, <3>4, <4>1 DEF ServerAnswers, Reply, Response, PipeType
    <3>5. CASE ServerInitializes
      BY <3>2, <3>3, <3>5 DEF ServerInitializes, Reply, Response, PipeType
    <3> QED BY <1>5, <3>1, <3>4, <3>5 DEF Reads
  <2> QED BY <1>5, <2>1, <2>2, <2>3, ReadPipe DEF PipeType
<1> QED BY <1>1, <1>2, <1>3, <1>4, <1>5, PipeSteps

LEMMA TypesInit == Init => AskedType /\ PipeType
<1> SUFFICES ASSUME Init PROVE AskedType /\ PipeType
  OBVIOUS
<1>1. 0 \in 0..MaxQueries
  BY ConstantsAssumption
<1>2. NoDocuments \in [Docs -> Texts \cup {None}]
  BY DEF NoDocuments
<1>3. <<>> \in Seq(Message)
  OBVIOUS
<1> QED BY <1>1, <1>2, <1>3 DEF Init, AskedType, PipeType

-----------------------------------------------------------------------------
(* The answers                                                             *)

\* Ids are below the next one, and a message with the id of a known request is
\* that request.
Identified(pipe, next, rs) ==
    /\ \A n \in 1..Len(pipe) : pipe[n].id < next
    /\ \A n \in 1..Len(pipe), r \in rs :
          pipe[n].kind \notin {"open", "change"} /\ pipe[n].id = r.id => pipe[n] = r

\* What crosses the pipes: the server reads in order, and an answer to a known
\* request has its text, unless something the server was to be told is lost.
CrossingInv ==
    /\ InOrder(toServer, serverDocs, documents, lost)
    /\ state \notin Connected => toServer = <<>> /\ toClient = {} /\ requests = {}
    /\ \A r \in requests : r.id < nextId
    /\ \A m \in toClient : m.id < nextId
    /\ Identified(toServer, nextId, requests)
    /\ \A m \in toClient, r \in requests :
          m.id = r.id /\ m.outcome = "result" /\ r.kind \in Kinds /\ r.query.doc \notin lost
             => m.text = r.query.text

\* One more message, which asks nothing or asks what the new request asks.
LEMMA AppendIds ==
    ASSUME NEW pipe \in Seq(Message), NEW m \in Message, NEW next \in Nat, NEW rs,
           Identified(pipe, next, rs), m.id < next + 1,
           \A r \in rs : m.kind \notin {"open", "change"} /\ m.id = r.id => m = r
    PROVE  Identified(Append(pipe, m), next + 1, rs)
<1>1. \A n \in 1..Len(pipe) : pipe[n].id \in Nat
  BY DEF Message, Request
<1>2. \A n \in 1..Len(Append(pipe, m)) :
          \/ n \in 1..Len(pipe) /\ Append(pipe, m)[n] = pipe[n]
          \/ Append(pipe, m)[n] = m
  OBVIOUS
<1>3. \A n \in 1..Len(pipe) : pipe[n].id < next + 1
  BY <1>1 DEF Identified
<1> QED BY <1>2, <1>3 DEF Identified

\* A query is sent behind the text it is about, under an id not used before.
LEMMA CrossingSends == CrossingInv /\ PipeType /\ Sends => CrossingInv'
<1> SUFFICES ASSUME CrossingInv, PipeType, Sends PROVE CrossingInv'
  OBVIOUS
<1>1. PICK kind \in Kinds, q \in Queries, others \in SUBSET requests : Send(kind, q, others)
  BY DEF Sends
<1>2. PICK asked \in Request :
           /\ asked = [id |-> nextId, kind |-> kind, query |-> q]
           /\ requests' = others \cup {asked}
           /\ \/ /\ documents[q.doc] = q.text /\ lost' = lost
                 /\ toServer' = Append(toServer, asked)
              \/ lost' = lost \cup {q.doc} /\ toServer' = Append(toServer, asked)
              \/ /\ lost' = lost
                 /\ \E m \in Message :
                       /\ m.kind = IF documents[q.doc] = None THEN "open" ELSE "change"
                       /\ m.id = 0 /\ m.query = q
                       /\ toServer' = Append(Append(toServer, m), asked)
  BY <1>1, SendPipe
<1>3. /\ documents' = [documents EXCEPT ![q.doc] = q.text] /\ nextId' = nextId + 1
      /\ serverDocs' = serverDocs /\ toClient' \subseteq toClient /\ state' \in Connected
  BY <1>1 DEF Send, Sends
<1>4. /\ q.doc \in Docs /\ q.text \in Texts /\ documents[q.doc] \in Texts \cup {None}
      /\ nextId \in Nat \ {0} /\ toServer \in Seq(Message) /\ asked \in Message
      /\ documents \in [Docs -> Texts \cup {None}] /\ requests \subseteq Request
      /\ toClient \subseteq Response
  BY DEF PipeType, Queries, Message
<1>5. /\ \A r \in requests' : r = asked \/ r \in requests
      /\ \A r \in requests : r.id < nextId /\ r.id \in Nat
      /\ \A m \in toClient : m.id < nextId /\ m.id \in Nat
      /\ asked.id = nextId
  <2>1. \A r \in requests : r.id \in Nat
    BY <1>4 DEF Request
  <2>2. \A m \in toClient : m.id \in Nat
    BY <1>4 DEF Response
  <2> QED BY <1>2, <2>1, <2>2 DEF CrossingInv
<1>6. Identified(toServer, nextId, requests')
  <2>1. \A n \in 1..Len(toServer) : toServer[n].id < nextId
    BY DEF CrossingInv, Identified
  <2>2. \A n \in 1..Len(toServer) : toServer[n].id \in Nat
    BY <1>4 DEF Message, Request
  <2>3. \A n \in 1..Len(toServer) : toServer[n].id # asked.id
    BY <1>4, <1>5, <2>1, <2>2
  <2> QED BY <1>5, <2>1, <2>3 DEF CrossingInv, Identified
<1>7. \A r \in requests' : asked.id = r.id => asked = r
  BY <1>4, <1>5
<1>8. /\ InOrder(toServer', serverDocs, documents', lost')
      /\ Identified(toServer', nextId + 1, requests')
  <2>1. ASSUME toServer' = Append(toServer, asked),
               InOrder(toServer, serverDocs, documents', lost'),
               q.doc \in lost' \/ documents'[q.doc] = q.text
        PROVE  /\ InOrder(toServer', serverDocs, documents', lost')
               /\ Identified(toServer', nextId + 1, requests')
    <3>1. PICK sent, gone : sent = documents' /\ gone = lost'
      OBVIOUS
    <3>2. InOrder(toServer, serverDocs, sent, gone) /\ (q.doc \in gone \/ sent[q.doc] = q.text)
      BY <2>1, <3>1
    <3>3. asked.kind \in Kinds /\ asked.query = q
      BY <1>2
    <3>4. InOrder(Append(toServer, asked), serverDocs, sent, gone)
      BY <1>4, <3>2, <3>3, OrderAppend
    <3>5. asked.id < nextId + 1
      BY <1>4, <1>5
    <3> QED BY <1>4, <1>6, <1>7, <2>1, <3>1, <3>4, <3>5, AppendIds
  <2>2. ASSUME NEW m \in Message,
               m.kind = IF documents[q.doc] = None THEN "open" ELSE "change",
               m.id = 0, m.query = q, toServer' = Append(Append(toServer, m), asked),
               lost' = lost
        PROVE  /\ InOrder(toServer', serverDocs, documents', lost')
               /\ Identified(toServer', nextId + 1, requests')
    <3> DEFINE told == Append(toServer, m)
    <3>1. told \in Seq(Message) /\ m.kind \in {"open", "change"}
      BY <1>4, <2>2
    <3>2. InOrder(told, serverDocs, documents', lost)
      <4>1. \A d \in Docs : documents'[d] = IF d = m.query.doc THEN m.query.text ELSE documents[d]
        BY <1>3, <1>4, <2>2
      <4>2. m.kind = "change" => documents[m.query.doc] \in Texts
        BY <1>4, <2>2
      <4>3. InOrder(toServer, serverDocs, documents, lost)
        BY DEF CrossingInv
      <4> HIDE DEF told
      <4> QED BY <1>4, <2>2, <3>1, <4>1, <4>2, <4>3, OrderAppend DEF told
    <3>3. InOrder(toServer', serverDocs, documents', lost')
      <4>1. documents'[q.doc] = q.text
        BY <1>3, <1>4
      <4>2. asked.kind \in Kinds /\ asked.query = q
        BY <1>2
      <4> HIDE DEF told
      <4> QED BY <1>4, <2>2, <3>1, <3>2, <4>1, <4>2, OrderAppend DEF told
    <3>4. Identified(told, nextId, requests')
      <4>1. \A n \in 1..Len(told) :
               (n \in 1..Len(toServer) /\ told[n] = toServer[n]) \/ told[n] = m
        BY <1>4
      <4>2. m.id < nextId /\ m.kind \in {"open", "change"}
        BY <1>4, <2>2, <3>1
      <4> HIDE DEF told
      <4> QED BY <1>6, <4>1, <4>2 DEF Identified
    <3>5. asked.id < nextId + 1
      BY <1>4, <1>5
    <3> HIDE DEF told
    <3>6. Identified(Append(told, asked), nextId + 1, requests')
      BY <1>4, <1>7, <3>1, <3>4, <3>5, AppendIds
    <3> QED BY <2>2, <3>3, <3>6 DEF told
  <2>3. InOrder(toServer, serverDocs, documents, lost)
    BY DEF CrossingInv
  <2>4. CASE documents[q.doc] = q.text /\ lost' = lost /\ toServer' = Append(toServer, asked)
    <3>1. documents' = documents
      BY <1>3, <1>4, <2>4
    <3> QED BY <2>1, <2>3, <2>4, <3>1
  <2>5. CASE lost' = lost \cup {q.doc} /\ toServer' = Append(toServer, asked)
    <3>1. \A d \in Docs : d # q.doc => documents'[d] = documents[d]
      BY <1>3, <1>4
    <3>2. InOrder(toServer, serverDocs, documents', lost \cup {q.doc})
      BY <2>3, <3>1, OrderLost
    <3> QED BY <2>1, <2>5, <3>2
  <2> QED BY <1>2, <2>2, <2>4, <2>5
<1>9. \A m \in toClient', r \in requests' :
          m.id = r.id /\ m.outcome = "result" /\ r.kind \in Kinds /\ r.query.doc \notin lost'
             => m.text = r.query.text
  <2>1. \A m \in toClient' : m \in toClient /\ m.id # asked.id
    BY <1>3, <1>4, <1>5
  <2>2. lost \subseteq lost'
    BY <1>2
  <2> QED BY <1>5, <2>1, <2>2 DEF CrossingInv
<1>10. /\ \A r \in requests' : r.id < nextId + 1
       /\ \A m \in toClient' : m.id < nextId + 1
  BY <1>3, <1>4, <1>5
<1> QED BY <1>3, <1>8, <1>9, <1>10 DEF CrossingInv

\* With nothing in the pipe, the server knows what it was told.
LEMMA OrderEmpty ==
    ASSUME NEW known, NEW sent, NEW gone, \A d \in Docs : sent[d] = known[d]
    PROVE  InOrder(<<>>, known, sent, gone)
<1>1. Len(<<>>) = 0 /\ 1..0 = {}
  OBVIOUS
<1>2. \A d \in Docs : Knows(<<>>, known, d, 0, sent[d])
  BY <1>1 DEF Knows
<1> QED BY <1>1, <1>2 DEF InOrder

\* What is known before any message is read.
LEMMA KnowsFirst ==
    ASSUME NEW pipe, NEW known, NEW d, NEW t, Knows(pipe, known, d, 0, t)
    PROVE  known[d] = t
BY DEF Knows

\* Reading a message that is not skipped: a document that changes is open.
LEMMA ReadTells ==
    ASSUME CrossingInv, PipeType, Reads, NEW d \in Docs \ lost
    PROVE  serverDocs'[d] = IF Tells(toServer[1], d) THEN toServer[1].query.text
                                                      ELSE serverDocs[d]
<1>1. toServer # <<>> /\ toServer[1] \in Message /\ 1 \in 1..Len(toServer) /\ 1 - 1 = 0
  <2>1. toServer # <<>> /\ toServer \in Seq(Message) /\ toServer[1] \in Message
    BY ReadPipe DEF PipeType
  <2> QED BY <2>1
<1>2. CASE toServer[1].kind \notin {"open", "change"}
  BY <1>2, ReadPipe DEF Tells
<1>3. CASE toServer[1].kind \in {"open", "change"}
  <2>1. toServer[1].query.doc \in Docs
    BY <1>3, ReadPipe DEF Queries
  <2>2. toServer[1].kind = "change" /\ toServer[1].query.doc = d =>
            serverDocs[toServer[1].query.doc] # None
    <3> SUFFICES ASSUME toServer[1].kind = "change", toServer[1].query.doc = d
                 PROVE  serverDocs[toServer[1].query.doc] \in Texts
      BY ConstantsAssumption
    <3>1. PICK t \in Texts : Knows(toServer, serverDocs, toServer[1].query.doc, 0, t)
      BY <1>1 DEF CrossingInv, InOrder
    <3> QED BY <3>1, KnowsFirst
  <2>3. \/ serverDocs' = [serverDocs EXCEPT ![toServer[1].query.doc] = toServer[1].query.text]
        \/ toServer[1].query.doc # d /\ serverDocs' = serverDocs
    BY <1>3, <2>2, ReadPipe
  <2>4. serverDocs \in [Docs -> Texts \cup {None}]
    BY DEF PipeType
  <2> QED BY <1>3, <2>1, <2>3, <2>4 DEF Tells
<1> QED BY <1>2, <1>3

\* The server answers from what it knows, which is what was asked about.
LEMMA ReadAnswers ==
    ASSUME CrossingInv, PipeType, Reads, NEW m \in toClient', m \notin toClient
    PROVE  /\ m.id < nextId
           /\ \A r \in requests :
                 m.id = r.id /\ m.outcome = "result" /\ r.kind \in Kinds /\ r.query.doc \notin lost
                    => m.text = r.query.text
<1>1. toServer # <<>> /\ 1 \in 1..Len(toServer) /\ 1 - 1 = 0 /\ Head(toServer) = toServer[1]
  <2>1. toServer # <<>> /\ toServer \in Seq(Message)
    BY ReadPipe DEF PipeType
  <2> QED BY <2>1
<1>2. m.id = toServer[1].id
  BY <1>1 DEF Reads, ServerSynchronizes, ServerAnswers, ServerInitializes, Reply
<1>3. m.id < nextId
  BY <1>1, <1>2 DEF CrossingInv, Identified
<1>4. toServer[1].kind \in Kinds \cup {"INITIALIZE"}
  BY <1>1 DEF Reads, ServerSynchronizes, ServerAnswers, ServerInitializes
<1>5. ASSUME NEW r \in requests, m.id = r.id, m.outcome = "result", r.kind \in Kinds,
             r.query.doc \notin lost
      PROVE  m.text = r.query.text
  <2>1. toServer[1] = r
    BY <1>1, <1>2, <1>4, <1>5 DEF CrossingInv, Identified, Kinds
  <2>2. m.text = serverDocs[toServer[1].query.doc]
    BY <1>1, <1>5, <2>1 DEF Reads, ServerSynchronizes, ServerAnswers, ServerInitializes,
                            Reply, Kinds
  <2>3. Knows(toServer, serverDocs, toServer[1].query.doc, 0, toServer[1].query.text)
    BY <1>1, <1>5, <2>1 DEF CrossingInv, InOrder
  <2>4. serverDocs[toServer[1].query.doc] = toServer[1].query.text
    BY <2>3, KnowsFirst
  <2> QED BY <2>1, <2>2, <2>4
<1> QED BY <1>3, <1>5

LEMMA CrossingReads == CrossingInv /\ PipeType /\ Reads => CrossingInv'
<1> SUFFICES ASSUME CrossingInv, PipeType, Reads PROVE CrossingInv'
  OBVIOUS
<1>1. /\ toServer # <<>> /\ toServer' = Tail(toServer)
      /\ UNCHANGED <<state, requests, nextId, documents, lost>>
      /\ toServer \in Seq(Message)
  BY ReadPipe DEF PipeType
<1>2. InOrder(toServer', serverDocs', documents', lost')
  <2>1. \A d \in Docs \ lost : serverDocs'[d] = IF Tells(toServer[1], d) THEN toServer[1].query.text
                                                                   ELSE serverDocs[d]
    BY ReadTells
  <2>2. InOrder(toServer, serverDocs, documents, lost)
    BY DEF CrossingInv
  <2> QED BY <1>1, <2>1, <2>2, OrderTail
<1>3. Identified(toServer', nextId', requests')
  <2>1. \A n \in 1..Len(toServer') : n + 1 \in 1..Len(toServer) /\ toServer'[n] = toServer[n + 1]
    BY <1>1
  <2> QED BY <1>1, <2>1 DEF CrossingInv, Identified
<1>4. /\ \A m \in toClient' : m.id < nextId
      /\ \A m \in toClient', r \in requests :
            m.id = r.id /\ m.outcome = "result" /\ r.kind \in Kinds /\ r.query.doc \notin lost
               => m.text = r.query.text
  BY ReadAnswers DEF CrossingInv
<1>5. state' \in Connected
  BY <1>1 DEF CrossingInv
<1> QED BY <1>1, <1>2, <1>3, <1>4, <1>5 DEF CrossingInv

\* A server that starts is asked for initialize first; nothing was left behind.
LEMMA CrossingSpawn == CrossingInv /\ PipeType /\ Spawn => CrossingInv'
<1> SUFFICES ASSUME CrossingInv, PipeType, Spawn PROVE CrossingInv'
  OBVIOUS
<1> DEFINE first == [id |-> nextId, kind |-> "INITIALIZE", query |-> None]
<1>1. first \in Message /\ nextId \in Nat
  BY DEF PipeType, Message, Request
<1>2. toServer = <<>> /\ toClient = {}
  BY DEF Spawn, MayStart, CrossingInv, Connected
<1>3. /\ state' \in Connected /\ requests' = {first} /\ toServer' = <<first>>
      /\ nextId' = nextId + 1 /\ UNCHANGED <<documents, lost, serverDocs, toClient>>
  BY DEF Spawn, Connected
<1>4. first.id = nextId /\ first.kind = "INITIALIZE" /\ <<first>> = Append(<<>>, first)
      /\ <<>> \in Seq(Message)
  OBVIOUS
<1> HIDE DEF first
<1>5. InOrder(toServer', serverDocs', documents', lost')
  <2>1. InOrder(<<>>, serverDocs, documents, lost)
    BY <1>2 DEF CrossingInv
  <2>2. first.kind \in Kinds \cup {"INITIALIZE"} /\ first.kind \notin Kinds
    BY <1>4 DEF Kinds
  <2>3. InOrder(Append(<<>>, first), serverDocs, documents, lost)
    BY <1>1, <1>4, <2>1, <2>2, OrderAppend
  <2> QED BY <1>3, <1>4, <2>3
<1>6. Identified(toServer', nextId', requests')
  <2>1. nextId < nextId + 1 /\ Len(<<first>>) = 1 /\ \A n \in 1..1 : <<first>>[n] = first
    BY <1>1
  <2> QED BY <1>3, <1>4, <2>1 DEF Identified
<1>7. \A r \in requests' : r.id < nextId' /\ r.kind \notin Kinds
  BY <1>1, <1>3, <1>4 DEF Kinds
<1>8. toClient' = {}
  BY <1>2, <1>3
<1> QED BY <1>3, <1>5, <1>6, <1>7, <1>8 DEF CrossingInv

LEMMA CrossingStep == CrossingInv /\ AskedType /\ PipeType /\ [Next]_vars => CrossingInv'
<1> SUFFICES ASSUME CrossingInv, AskedType, PipeType, [Next]_vars PROVE CrossingInv'
  OBVIOUS
<1>1. CASE Resets
  <2>1. /\ toServer' = <<>> /\ toClient' = {} /\ requests' = {}
        /\ documents' = NoDocuments /\ serverDocs' = NoDocuments
    BY <1>1 DEF Resets, Disconnect
  <2>2. InOrder(toServer', serverDocs', documents', lost')
    BY <2>1, OrderEmpty
  <2>3. Identified(toServer', nextId', requests')
    <3>1. 1..Len(<<>>) = {}
      OBVIOUS
    <3> QED BY <2>1, <3>1 DEF Identified
  <2> QED BY <2>1, <2>2, <2>3 DEF CrossingInv
<1>2. CASE Drops
  <2>1. Identified(toServer', nextId', requests')
    BY <1>2 DEF Drops, CrossingInv, Identified
  <2>2. state' \notin Connected => toServer' = <<>> /\ toClient' = {} /\ requests' = {}
    BY <1>2 DEF Drops, CrossingInv
  <2> QED BY <1>2, <2>1, <2>2 DEF Drops, CrossingInv
<1> QED BY <1>1, <1>2, CrossingSpawn, CrossingSends, CrossingReads, PipeSteps

LEMMA CrossingInit == Init => CrossingInv
<1> SUFFICES ASSUME Init PROVE CrossingInv
  OBVIOUS
<1>1. 1..Len(<<>>) = {}
  OBVIOUS
<1>2. InOrder(toServer, serverDocs, documents, lost)
  BY OrderEmpty DEF Init
<1> QED BY <1>1, <1>2 DEF Init, CrossingInv, Identified

\* An answer is kept with the query whose request it answers.
LEMMA AnswersStep == AnswersMatchText /\ CrossingInv /\ [Next]_vars => AnswersMatchText'
<1> SUFFICES ASSUME AnswersMatchText, CrossingInv, [Next]_vars PROVE AnswersMatchText'
  OBVIOUS
<1>1. CASE UNCHANGED <<cachedCompletion, cachedDefinition>>
  BY <1>1 DEF AnswersMatchText
<1>2. ASSUME NEW m \in toClient, NEW r \in requests,
             HandleCompletion(m, r) \/ HandleDefinition(m, r)
      PROVE  AnswersMatchText'
  <2>1. r.query.doc \notin lost => m.text = r.query.text
    BY <1>2 DEF HandleCompletion, HandleDefinition, Handles, CrossingInv, Kinds
  <2>2. \A c \in {cachedCompletion', cachedDefinition'} :
           \/ c \in {cachedCompletion, cachedDefinition}
           \/ c = AnswerTo(r, m)
    BY <1>2 DEF HandleCompletion, HandleDefinition
  <2>3. AnswerTo(r, m).told => AnswerTo(r, m).text = AnswerTo(r, m).query.text
    BY <2>1 DEF AnswerTo
  <2> QED BY <2>2, <2>3 DEF AnswersMatchText
<1>3. \/ UNCHANGED <<cachedCompletion, cachedDefinition>>
      \/ \E m \in toClient, r \in requests : HandleCompletion(m, r) \/ HandleDefinition(m, r)
  <2>1. ASSUME NEW q \in Queries, Complete(q) \/ Lookup(q)
        PROVE  UNCHANGED <<cachedCompletion, cachedDefinition>>
    BY <2>1 DEF Complete, Lookup, Ask, cached
  <2>2. ASSUME NEW m \in toClient, HandleUnknown(m)
        PROVE  UNCHANGED <<cachedCompletion, cachedDefinition>>
    BY <2>2 DEF HandleUnknown, cached
  <2>3. ASSUME NEW m \in toClient, NEW r \in requests,
               HandleError(m, r) \/ HandleInitialized(m, r)
        PROVE  UNCHANGED <<cachedCompletion, cachedDefinition>>
    BY <2>3 DEF HandleError, HandleInitialized, cached
  <2>4. ASSUME NEW late \in Late, NEW due \in BOOLEAN, PumpEnd(late, due)
        PROVE  UNCHANGED <<cachedCompletion, cachedDefinition>>
    BY <2>4 DEF PumpEnd, cached
  <2>5. Shutdown \/ ParseFails \/ ServerGone \/ InitTimesOut \/ Incompatible =>
            UNCHANGED <<cachedCompletion, cachedDefinition>>
    BY DEF Shutdown, ParseFails, ServerGone, InitTimesOut, Incompatible, PumpFails, cached
  <2>6. ServerSynchronizes \/ ServerAnswers \/ ServerInitializes \/ ServerExits \/ UNCHANGED vars =>
            UNCHANGED <<cachedCompletion, cachedDefinition>>
    BY DEF ServerSynchronizes, ServerAnswers, ServerInitializes, ServerReads, ServerExits,
           vars, cached
  <2> QED BY <2>1, <2>2, <2>3, <2>4, <2>5, <2>6 DEF Next
<1> QED BY <1>1, <1>2, <1>3

\* The variables have their types, and ids are not used twice.
THEOREM TypesTheorem == Spec => []TypeOK
<1>1. /\ ConnectionInv /\ RequestInv /\ AskedType /\ PipeType /\ CrossingInv
      => TypeOK
  <2> SUFFICES ASSUME ConnectionInv, RequestInv, AskedType, PipeType, CrossingInv PROVE TypeOK
    OBVIOUS
  <2>1. restarts \in Nat /\ attempts \in Nat
    BY DEF ConnectionInv
  <2>2. processes \in Int
    BY DEF ConnectionInv, ServerCounted
  <2>3. state \in Connected \cup {"STOPPED", "FAILED"} /\ pid \in BOOLEAN /\ running \in BOOLEAN
        /\ shutdown \in BOOLEAN /\ inFlight \in BOOLEAN
    BY DEF ConnectionInv, RequestInv
  <2>4. \A r \in requests : r.id < nextId
    BY DEF CrossingInv
  <2>5. nextId \in Nat
    BY DEF PipeType
  <2> QED BY <2>1, <2>2, <2>3, <2>4, <2>5 DEF TypeOK, AskedType, PipeType
<1> QED
  BY <1>1, ConnectionInit, ConnectionStep, RequestInit, RequestStep, TypesInit, AskedStep,
     PipeStep, CrossingInit, CrossingStep, PTL DEF Spec

\* An answer that is kept for a query was computed from the text of the query,
\* whatever else was sent, dropped or answered in between, and whatever requests
\* were lost; unless the pipe lost an opening or a change of its document.
THEOREM AnswersTheorem == Spec => []AnswersMatchText
<1>1. Init => AnswersMatchText
  BY DEF Init, AnswersMatchText
<1> QED
  BY <1>1, TypesInit, AskedStep, PipeStep, CrossingInit, CrossingStep, AnswersStep, PTL DEF Spec

-----------------------------------------------------------------------------
(* The bytes of messages                                                   *)

\* A message has a size.
LEMMA SizeIsNat ==
    ASSUME NEW m \in Messages
    PROVE  Size(m) \in Nat /\ HeaderSize(m) \in Nat /\ HeaderSize(m) > 0 /\ Size(m) >= HeaderSize(m)
<1>1. m.header \in Nat /\ m.length \in Nat
  BY FramingConstants DEF Messages
<1> QED BY <1>1 DEF Size, HeaderSize, Terminator

\* What FoldLeft adds up.
AddSize == [p \in Nat \X Messages |-> p[1] + Size(p[2])]

\* Bytes is the fold of that step.
LEMMA BytesAre ==
    ASSUME NEW s \in Seq(Messages)
    PROVE  \E h \in [SUBSET (1..Len(s)) -> Nat] :
              Folds(h, AddSize, 0, s, Len(s)) /\ Bytes(s) = h[1..Len(s)]
<1> DEFINE n == Len(s)
<1>1. n \in Nat /\ s \in [1..n -> Messages] /\ DOMAIN s = 1..n
  BY LenProperties
<1> HIDE DEF n
<1>2. PICK h \in [SUBSET (1..n) -> Nat] : Folds(h, AddSize, 0, s, n)
  <2>1. AddSize \in [Nat \X Messages -> Nat]
    BY SizeIsNat DEF AddSize
  <2> QED BY <1>1, <2>1, FoldExists
<1>3. h[{}] = 0
  BY <1>2 DEF Folds
<1>4. \A S \in SUBSET (1..n) : S # {} => h[S] = h[S \ {Max(S)}] + Size(s[Max(S)])
  <2> SUFFICES ASSUME NEW S \in SUBSET (1..n), S # {}
               PROVE  h[S] = h[S \ {Max(S)}] + Size(s[Max(S)])
    OBVIOUS
  <2>1. Max(S) \in 1..n
    BY <1>1, MaxOf
  <2>2. s[Max(S)] \in Messages /\ h[S \ {Max(S)}] \in Nat
    BY <1>1, <2>1
  <2> QED BY <1>2, <2>2 DEF Folds, AddSize
<1> DEFINE Step(f) == [S \in SUBSET (1..n) |->
                         IF S = {} THEN 0
                         ELSE LET x == Max(S) IN f[S \ {x}] + Size(s[x])]
           iter == CHOOSE f : f = Step(f)
<1>5. Bytes(s) = iter[1..n]
  BY <1>1, Zenon DEF Bytes, FoldLeft, MapThenFoldSet
<1>6. iter = Step(iter)
  <2>1. h = Step(h)
    BY <1>3, <1>4
  <2> HIDE DEF Step
  <2> QED BY <2>1
<1> HIDE DEF iter
<1>7. SUBSET (1..n) \subseteq {S \in SUBSET (1..n) : iter[S] = h[S]}
  <2> DEFINE G == {S \in SUBSET (1..n) : iter[S] = h[S]}
  <2>1. {} \in G
    BY <1>3, <1>6
  <2>2. ASSUME NEW S \in SUBSET (1..n), S # {}, S \ {Max(S)} \in G PROVE S \in G
    BY <1>4, <1>6, <2>2
  <2> HIDE DEF G
  <2>3. SUBSET (1..n) \subseteq G
    BY <1>1, <2>1, <2>2, MaxInduction
  <2> QED BY <2>3 DEF G
<1>8. 1..n \in SUBSET (1..n)
  OBVIOUS
<1>9. Bytes(s) = h[1..n]
  BY <1>5, <1>7, <1>8
<1> QED BY <1>2, <1>9 DEF n

\* Sums of bytes are numbers, none for no message, and one message more adds
\* its size.
LEMMA BytesNat ==
    ASSUME NEW s \in Seq(Messages)
    PROVE  Bytes(s) \in Nat
<1>1. PICK h \in [SUBSET (1..Len(s)) -> Nat] : Bytes(s) = h[1..Len(s)]
  BY BytesAre
<1>2. 1..Len(s) \in SUBSET (1..Len(s))
  OBVIOUS
<1>3. h[1..Len(s)] \in Nat
  BY <1>2, Zenon
<1> QED BY <1>1, <1>3

LEMMA BytesEmpty == Bytes(<<>>) = 0
<1>1. <<>> \in Seq(Messages) /\ Len(<<>>) = 0 /\ 1..0 = {}
  OBVIOUS
<1>2. PICK h : Folds(h, AddSize, 0, <<>>, Len(<<>>)) /\ Bytes(<<>>) = h[1..Len(<<>>)]
  BY <1>1, BytesAre
<1> QED BY <1>1, <1>2 DEF Folds

LEMMA BytesAppend ==
    ASSUME NEW s \in Seq(Messages), NEW m \in Messages
    PROVE  Bytes(Append(s, m)) = Bytes(s) + Size(m)
<1> DEFINE n == Len(s)
           t == Append(s, m)
<1>1. /\ n \in Nat /\ t \in Seq(Messages) /\ Len(t) = n + 1
      /\ (\A x \in 1..n : s[x] = t[x]) /\ t[n + 1] = m
  BY AppendProperties, LenProperties
<1>2. PICK h : Folds(h, AddSize, 0, s, n) /\ Bytes(s) = h[1..n]
  BY BytesAre
<1>3. PICK j : Folds(j, AddSize, 0, t, n + 1) /\ Bytes(t) = j[1..(n + 1)]
  <2> HIDE DEF n, t
  <2> QED BY <1>1, BytesAre
<1> HIDE DEF n, t
<1>4. j[1..(n + 1)] = AddSize[<<h[1..n], t[n + 1]>>]
  <2>1. n \in Nat /\ \A x \in 1..n : s[x] = t[x]
    BY <1>1
  <2>2. Folds(h, AddSize, 0, s, n) /\ Folds(j, AddSize, 0, t, n + 1)
    BY <1>2, <1>3
  <2> HIDE DEF AddSize
  <2> QED BY <2>1, <2>2, FoldsAppend
<1>5. Bytes(s) \in Nat
  BY BytesNat
<1>6. Bytes(t) = AddSize[<<Bytes(s), m>>]
  BY <1>1, <1>2, <1>3, <1>4
<1>7. Bytes(t) = Bytes(s) + Size(m)
  BY <1>5, <1>6 DEF AddSize
<1> QED BY <1>7 DEF t

\* The bytes of a stream are those of its parts.
LEMMA BytesConcat ==
    ASSUME NEW s \in Seq(Messages), NEW t \in Seq(Messages)
    PROVE  Bytes(s \o t) = Bytes(s) + Bytes(t)
<1> DEFINE G == {u \in Seq(Messages) : Bytes(s \o u) = Bytes(s) + Bytes(u)}
<1>1. <<>> \in G
  <2>1. s \o <<>> = s /\ <<>> \in Seq(Messages)
    BY ConcatEmptySeq
  <2> QED BY <2>1, BytesEmpty, BytesNat
<1>2. ASSUME NEW u \in Seq(Messages), NEW e \in Messages, u \in G PROVE Append(u, e) \in G
  <2>1. s \o Append(u, e) = Append(s \o u, e)
    OBVIOUS
  <2>2. s \o u \in Seq(Messages) /\ Append(u, e) \in Seq(Messages)
    BY ConcatProperties, AppendProperties
  <2>3. /\ Bytes(Append(s \o u, e)) = Bytes(s \o u) + Size(e)
        /\ Bytes(Append(u, e)) = Bytes(u) + Size(e)
    BY <2>2, BytesAppend
  <2>4. Bytes(s) \in Nat /\ Bytes(u) \in Nat /\ Size(e) \in Nat
    BY BytesNat, SizeIsNat
  <2>5. Bytes(s \o u) = Bytes(s) + Bytes(u)
    BY <1>2
  <2>6. Bytes(s \o Append(u, e)) = Bytes(s) + Bytes(Append(u, e))
    BY <2>1, <2>3, <2>4, <2>5
  <2> QED BY <2>2, <2>6
<1> HIDE DEF G
<1>3. Seq(Messages) \subseteq G
  BY <1>1, <1>2, SeqInduction
<1> QED BY <1>3 DEF G

LEMMA BytesSplit ==
    ASSUME NEW s \in Seq(Messages), NEW k \in 0..Len(s)
    PROVE  /\ SubSeq(s, 1, k) \in Seq(Messages) /\ SubSeq(s, k + 1, Len(s)) \in Seq(Messages)
           /\ Bytes(s) = Bytes(SubSeq(s, 1, k)) + Bytes(SubSeq(s, k + 1, Len(s)))
<1>1. SubSeq(s, 1, k) \o SubSeq(s, k + 1, Len(s)) = SubSeq(s, 1, Len(s))
  <2>1. 1 \in 1..Len(s) + 1 /\ k \in 1 - 1..Len(s) /\ Len(s) \in k..Len(s)
    BY LenProperties
  <2> QED BY <2>1, ConcatAdjacentSubSeq
<1>2. SubSeq(s, 1, Len(s)) = s
  BY SubSeqFull
<1>3. SubSeq(s, 1, k) \in Seq(Messages) /\ SubSeq(s, k + 1, Len(s)) \in Seq(Messages)
  OBVIOUS
<1> QED BY <1>1, <1>2, <1>3, BytesConcat

-----------------------------------------------------------------------------
(* The loop over a stream                                                *)

LEMMA LimitsAreNat ==
    /\ HeaderLimit \in Nat /\ MessageLimit \in Nat
    /\ InputLimit = HeaderLimit + 4 + MessageLimit
  BY FramingConstants DEF InputLimit, Terminator

\* The buffer holds any acceptable message.
LEMMA AcceptableFits ==
    ASSUME NEW m \in Messages, Acceptable(m)
    PROVE  Size(m) <= InputLimit
<1>1. m.header \in Nat /\ m.length \in Nat
  BY FramingConstants DEF Messages
<1> QED BY <1>1, LimitsAreNat DEF Acceptable, LengthAccepted, Size, HeaderSize, Terminator

\* What each end of a turn says of the first message and of its bytes.
LEMMA TurnIs ==
    ASSUME NEW s \in Seq(Messages), NEW b \in Int
    PROVE  /\ Turn(s, b) \in {"wait", "header", "length", "message"}
           /\ Turn(s, b) # "wait" => s # <<>>
           /\ Turn(s, b) = "header" => Head(s).header + Terminator > HeaderLimit + 1
           /\ Turn(s, b) = "length" => ~LengthAccepted(Head(s))
           /\ Turn(s, b) = "message" => Acceptable(Head(s)) /\ b >= Size(Head(s))
           /\ Turn(s, b) = "wait" /\ s # <<>> => b <= InputLimit
           /\ Turn(s, b) # "message" /\ s # <<>> /\ Acceptable(Head(s)) => b < Size(Head(s))
<1>1. CASE s = <<>>
  BY <1>1 DEF Turn
<1>2. CASE s # <<>>
  <2> DEFINE m == Head(s)
  <2>1. m \in Messages
    BY <1>2, HeadTailProperties
  <2>2. /\ m.header \in Nat /\ m.length \in Nat
        /\ HeaderSize(m) = m.header + 4 /\ Size(m) = m.header + 4 + m.length
    <3>1. m.header \in Nat /\ m.length \in Nat
      BY <2>1, FramingConstants DEF Messages
    <3> HIDE DEF m
    <3> QED BY <3>1 DEF Size, HeaderSize, Terminator
  <2>3. Turn(s, b) = IF b < HeaderSize(m) THEN IF b > HeaderLimit THEN "header" ELSE "wait"
                     ELSE IF m.header > HeaderLimit THEN "header"
                     ELSE IF ~LengthAccepted(m) THEN "length"
                     ELSE IF b < Size(m) THEN "wait" ELSE "message"
    <3>1. /\ (m.header > HeaderLimit) = ~(m.header <= HeaderLimit)
      BY <2>2, LimitsAreNat
    <3> QED BY <1>2, <3>1, Zenon DEF Turn
  <2>4. Acceptable(m) <=> m.header <= HeaderLimit /\ LengthAccepted(m)
    BY DEF Acceptable
  <2>5. Acceptable(m) => Size(m) <= InputLimit
    BY <2>1, AcceptableFits
  <2> HIDE DEF m
  <2>6. /\ Turn(s, b) \in {"wait", "header", "length", "message"}
        /\ Turn(s, b) = "header" => m.header + 4 > HeaderLimit + 1
        /\ Turn(s, b) = "length" => ~LengthAccepted(m)
        /\ Turn(s, b) = "message" => Acceptable(m) /\ b >= Size(m)
        /\ Turn(s, b) = "wait" => b <= InputLimit
        /\ Turn(s, b) # "message" /\ Acceptable(m) => b < Size(m)
    BY <2>2, <2>3, <2>4, <2>5, LimitsAreNat
  <2> QED BY <1>2, <2>6 DEF m, Terminator
<1> QED BY <1>1, <1>2

\* The bytes in the buffer are of messages that were sent; nothing else is
\* needed for the judgements to be right.
FramingInv == FramingTypeOK /\ FramesJudged

\* A message that is sent is the first only of an empty buffer.
LEMMA SendsStep ==
    ASSUME FramingInv, NEW m \in Messages, ServerSends(m)
    PROVE  FramingInv'
<1>1. /\ stream \in Seq(Messages) /\ Len(stream) < MaxWaiting /\ verdict = "reading"
      /\ input \in 0..Bytes(stream)
  BY DEF FramingInv, FramingTypeOK, ServerSends
<1>2. /\ stream' \in Seq(Messages) /\ Len(stream') = Len(stream) + 1 /\ stream' # <<>>
      /\ Head(stream') = IF stream = <<>> THEN m ELSE Head(stream)
      /\ stream' = Append(stream, m)
  BY <1>1, AppendProperties, HeadTailAppend DEF ServerSends
<1>3. Bytes(stream') = Bytes(stream) + Size(m) /\ Bytes(stream) \in Nat /\ Size(m) \in Nat /\ Size(m) > 0
  BY <1>1, <1>2, BytesAppend, BytesNat, SizeIsNat
<1>4. Len(stream') <= MaxWaiting
  BY <1>1, <1>2, FramingConstants, LenProperties
<1>5. FramingTypeOK'
  BY <1>1, <1>2, <1>3, <1>4 DEF FramingInv, FramingTypeOK, ServerSends
<1>6. stream = <<>> => input < Size(m)
  BY <1>1, <1>3, BytesEmpty
<1>7. FramesJudged'
  <2>1. UNCHANGED <<input, verdict, starved, sound>> /\ verdict' = "reading"
    BY <1>1 DEF ServerSends
  <2>2. sound /\ (~starved /\ stream # <<>> /\ Acceptable(Head(stream)) => input < Size(Head(stream)))
    BY DEF FramingInv, FramesJudged
  <2>3. ~starved /\ Acceptable(Head(stream')) => input < Size(Head(stream'))
    BY <1>2, <1>6, <2>2
  <2> QED BY <2>1, <2>2, <2>3 DEF FramesJudged
<1> QED BY <1>5, <1>7 DEF FramingInv

\* A pump takes whole messages: the bytes it leaves are of the messages it
\* leaves, and the next turn of its loop judges the first of these.
LEMMA PumpStep ==
    ASSUME FramingInv, NEW bytes \in 0..ReadLimit, NEW n \in 0..PumpLimit,
           n <= Len(stream), PumpReads(bytes, n)
    PROVE  FramingInv'
<1> DEFINE have(k) == input + bytes - Bytes(SubSeq(stream, 1, k))
           rest(k) == SubSeq(stream, k + 1, Len(stream))
<1>1. /\ stream \in Seq(Messages) /\ Len(stream) \in Nat /\ Len(stream) <= MaxWaiting
      /\ input \in 0..Bytes(stream) /\ bytes \in Nat /\ Bytes(stream) \in Nat
      /\ n \in 0..Len(stream) /\ sound
  BY FramingConstants, BytesNat, LenProperties DEF FramingInv, FramingTypeOK, FramesJudged
<1>2. /\ stream' = rest(n) /\ input' = have(n)
      /\ input + bytes <= Bytes(stream)
      /\ \A k \in 0..n - 1 : Turn(rest(k), have(k)) = "message"
      /\ sound' = (sound /\ \A k \in 1..n : Acceptable(stream[k]))
      /\ starved' \in BOOLEAN
      /\ ~starved' => Turn(rest(n), have(n)) # "message"
      /\ verdict' = IF ~starved' /\ Turn(rest(n), have(n)) \in {"header", "length"}
                    THEN Turn(rest(n), have(n))
                    ELSE IF have(n) > InputLimit THEN "backlog" ELSE "reading"
  <2>1. input + bytes <= Bytes(stream)
    <3>1. bytes <= Bytes(stream) - input
      BY DEF PumpReads
    <3> QED BY <1>1, <3>1
  <2> QED BY <2>1, Zenon DEF PumpReads
<1>3. ASSUME NEW k \in 0..Len(stream)
      PROVE  /\ SubSeq(stream, 1, k) \in Seq(Messages) /\ rest(k) \in Seq(Messages)
             /\ Bytes(SubSeq(stream, 1, k)) \in Nat /\ Bytes(rest(k)) \in Nat
             /\ have(k) \in Int /\ have(k) <= Bytes(rest(k))
             /\ Len(rest(k)) = Len(stream) - k
  <2>1. /\ SubSeq(stream, 1, k) \in Seq(Messages) /\ rest(k) \in Seq(Messages)
        /\ Bytes(stream) = Bytes(SubSeq(stream, 1, k)) + Bytes(rest(k))
    BY <1>1, BytesSplit
  <2>2. Bytes(SubSeq(stream, 1, k)) \in Nat /\ Bytes(rest(k)) \in Nat
    BY <2>1, BytesNat
  <2>3. Len(rest(k)) = Len(stream) - k
    BY <1>1
  <2>4. have(k) \in Int /\ have(k) <= Bytes(rest(k))
    <3> DEFINE a == Bytes(SubSeq(stream, 1, k))
               b == Bytes(rest(k))
               c == Bytes(stream)
    <3>1. a \in Nat /\ b \in Nat /\ c = a + b /\ input + bytes <= c /\ input \in Nat /\ bytes \in Nat
      BY <1>1, <1>2, <2>1, <2>2
    <3>2. have(k) = input + bytes - a
      OBVIOUS
    <3> HIDE DEF a, b, c, have
    <3>3. have(k) \in Int /\ have(k) <= b
      BY <3>1, <3>2
    <3> QED BY <3>3 DEF b
  <2> QED BY <2>1, <2>2, <2>3, <2>4
<1>4. ASSUME NEW k \in 0..n - 1
      PROVE  Acceptable(stream[k + 1]) /\ have(k) >= Size(stream[k + 1])
  <2>1. k \in 0..Len(stream) /\ k + 1 \in 1..Len(stream) /\ Len(stream) \in k + 1..Len(stream)
    BY <1>1
  <2>2. Head(rest(k)) = stream[k + 1]
    BY <1>1, <2>1, HeadTailOfSubSeq
  <2>3. Turn(rest(k), have(k)) = "message"
    BY <1>2
  <2>4. rest(k) \in Seq(Messages) /\ have(k) \in Int
    BY <1>3, <2>1
  <2> HIDE DEF have, rest
  <2> QED BY <2>2, <2>3, <2>4, TurnIs
<1>5. have(n) >= 0
  <2>1. CASE n = 0
    <3>1. SubSeq(stream, 1, 0) = <<>>
      BY SubSeqEmpty
    <3>2. Bytes(SubSeq(stream, 1, n)) = 0
      BY <2>1, <3>1, BytesEmpty
    <3>3. have(n) = input + bytes
      BY <1>1, <3>2
    <3> QED BY <1>1, <3>3
  <2>2. CASE n # 0
    <3>1. n \in 1..Len(stream) /\ n - 1 \in 0..n - 1 /\ n - 1 \in 0..Len(stream) /\ (n - 1) + 1 = n
      BY <1>1, <2>2
    <3>2. stream[n] \in Messages
      BY <1>1, <3>1
    <3>3. SubSeq(stream, 1, n) = Append(SubSeq(stream, 1, n - 1), stream[n])
      BY <1>1, <3>1
    <3>4. SubSeq(stream, 1, n - 1) \in Seq(Messages) /\ Bytes(SubSeq(stream, 1, n - 1)) \in Nat
      BY <1>3, <3>1
    <3>5. Bytes(SubSeq(stream, 1, n)) = Bytes(SubSeq(stream, 1, n - 1)) + Size(stream[n])
      BY <3>2, <3>3, <3>4, BytesAppend
    <3>6. have(n - 1) >= Size(stream[n])
      BY <1>4, <3>1
    <3>7. input \in Nat /\ bytes \in Nat /\ Size(stream[n]) \in Nat
      BY <1>1, <3>2, SizeIsNat
    <3> QED BY <3>4, <3>5, <3>6, <3>7
  <2> QED BY <2>1, <2>2
<1>6. /\ stream' \in Seq(Messages) /\ input' \in 0..Bytes(stream')
      /\ Len(stream') <= MaxWaiting /\ input' \in Nat /\ input' = have(n) /\ stream' = rest(n)
  <2>1. /\ rest(n) \in Seq(Messages) /\ have(n) \in Int /\ have(n) <= Bytes(rest(n))
        /\ Len(rest(n)) = Len(stream) - n /\ Bytes(rest(n)) \in Nat
    BY <1>1, <1>3
  <2>2. Len(rest(n)) <= MaxWaiting
    <3> HIDE DEF rest, have
    <3> QED BY <1>1, <2>1, FramingConstants
  <2>3. have(n) \in 0..Bytes(rest(n)) /\ have(n) \in Nat
    <3> HIDE DEF rest, have
    <3> QED BY <1>5, <2>1
  <2> QED BY <1>2, <2>1, <2>2, <2>3
<1>7. sound'
  <2>1. \A k \in 1..n : k - 1 \in 0..n - 1 /\ (k - 1) + 1 = k
    OBVIOUS
  <2>2. \A k \in 1..n : Acceptable(stream[k])
    BY <1>4, <2>1
  <2> QED BY <1>1, <1>2, <2>2
<1> DEFINE stops == Turn(stream', input')
<1>8. /\ stops \in {"wait", "header", "length", "message"}
      /\ stops # "wait" => stream' # <<>>
      /\ stops = "header" => Head(stream').header + Terminator > HeaderLimit + 1
      /\ stops = "length" => ~LengthAccepted(Head(stream'))
      /\ stops = "wait" /\ stream' # <<>> => input' <= InputLimit
      /\ stops # "message" /\ stream' # <<>> /\ Acceptable(Head(stream')) => input' < Size(Head(stream'))
  <2>1. stream' \in Seq(Messages) /\ input' \in Int
    BY <1>6
  <2> HIDE DEF have, rest
  <2> QED BY <2>1, TurnIs
<1>9. /\ ~starved' => stops # "message"
      /\ verdict' = IF ~starved' /\ stops \in {"header", "length"} THEN stops
                    ELSE IF input' > InputLimit THEN "backlog" ELSE "reading"
  <2> HIDE DEF have, rest
  <2> QED BY <1>2, <1>6
<1>10. stream' = <<>> => input' = 0
  <2> HIDE DEF have, rest, stops
  <2>1. stream' = <<>> => Bytes(stream') = 0
    BY BytesEmpty
  <2> QED BY <1>6, <2>1
<1>11. stream' # <<>> => Head(stream') \in Messages
  BY <1>6, HeadTailProperties
<1>12. input' \in Nat /\ InputLimit \in Nat
  BY <1>6, LimitsAreNat
<1> HIDE DEF have, rest, stops
<1>13. verdict' \in {"reading", "header", "length", "backlog"}
  BY <1>9, <1>12
<1>14. verdict' \in {"header", "length"} => verdict' = stops
  BY <1>9, <1>12
<1>15. ASSUME verdict' = "backlog"
       PROVE  starved' /\ (Acceptable(Head(stream')) => input' >= Size(Head(stream')))
  <2>1. input' > InputLimit /\ ~(~starved' /\ stops \in {"header", "length"})
    BY <1>9, <1>12, <1>15
  <2>2. stream' # <<>>
    BY <1>10, <1>12, <2>1
  <2>3. starved'
    BY <1>8, <1>9, <1>12, <2>1, <2>2
  <2>4. ASSUME Acceptable(Head(stream')) PROVE input' >= Size(Head(stream'))
    BY <1>11, <1>12, <2>1, <2>2, <2>4, AcceptableFits, SizeIsNat
  <2> QED BY <2>3, <2>4
<1>16. FramesJudged'
  BY <1>7, <1>8, <1>9, <1>14, <1>15 DEF FramesJudged
<1>17. FramingTypeOK'
  BY <1>2, <1>6, <1>7, <1>13 DEF FramingTypeOK
<1> QED BY <1>16, <1>17 DEF FramingInv

LEMMA FramingInvHolds == FramingSpec => []FramingInv
<1>1. FramingInit => FramingInv
  <2> SUFFICES ASSUME FramingInit PROVE FramingInv
    OBVIOUS
  <2>1. stream \in Seq(Messages) /\ Len(stream) <= MaxWaiting /\ input \in 0..Bytes(stream)
    BY FramingConstants, BytesEmpty DEF FramingInit
  <2> QED BY <2>1 DEF FramingInit, FramingInv, FramingTypeOK, FramesJudged
<1>2. FramingInv /\ [FramingNext]_framingVars => FramingInv'
  <2> SUFFICES ASSUME FramingInv, [FramingNext]_framingVars PROVE FramingInv'
    OBVIOUS
  <2>1. CASE FramingNext
    BY <2>1, SendsStep, PumpStep DEF FramingNext
  <2>2. CASE UNCHANGED framingVars
    BY <2>2 DEF framingVars, FramingInv, FramingTypeOK, FramesJudged
  <2> QED BY <2>1, <2>2
<1> QED BY <1>1, <1>2, PTL DEF FramingSpec

\* However the bytes of however many messages of any size are cut, and wherever
\* a pump stops: acceptable messages are handled, others end the connection,
\* and a pump with time left leaves no message behind.
THEOREM FramesTheorem == FramingSpec => []FramesJudged
<1>1. FramingInv => FramesJudged
  BY DEF FramingInv
<1> QED BY <1>1, FramingInvHolds, PTL

-----------------------------------------------------------------------------
(* Both parts                                                              *)

\* A behaviour that lsp_client checks is a behaviour of the client and one of
\* its framing, fairness included: every theorem above holds of it.
THEOREM PartsTheorem == ClientSpec => Spec /\ FramingSpec
<1>1. ClientInit => Init /\ FramingInit
  BY DEF ClientInit
<1>2. [ClientNext]_<<part, vars, framingVars>> => [Next]_vars /\ [FramingNext]_framingVars
  BY DEF ClientNext
<1> QED BY <1>1, <1>2, PTL DEF ClientSpec, Spec, FramingSpec

\* The variables of both parts keep their types: the bytes in the input buffer
\* never exceed those of the messages that were sent and not handled.
THEOREM BothTypesTheorem == ClientSpec => []TypesOK
<1>1. FramingInv => FramingTypeOK
  BY DEF FramingInv
<1> QED BY <1>1, FramingInvHolds, TypesTheorem, PartsTheorem, PTL DEF TypesOK

=============================================================================
