------------------------------ MODULE HttpServer ------------------------------
(***************************************************************************)
(* InMemoryFileServer (http_server.py): the files a test adds and removes, *)
(* the requests being served, each in a daemon thread, and stop.           *)
(***************************************************************************)
EXTENDS Naturals, Sequences

CONSTANTS
    Requests, Names,
    Chunks,             \* slow chunks of a file
    MaxVersions         \* bound: contents a name is given

VARIABLES
    files, versions,    \* by name: its contents, 0 for none; contents made so far
    route, name, data, sent, outcome,   \* by request: what it asks for, gets, wrote, and its end
    stopping,           \* the event
    server,             \* serve_forever: not started, serving, ended
    caller              \* the test's thread: out of the server's methods, or in stop's shutdown

vars == <<files, versions, route, name, data, sent, outcome, stopping, server, caller>>
requests == <<route, name, data, sent, outcome>>

Absent == 0

Init ==
    /\ files = [n \in Names |-> Absent] /\ versions = 0
    /\ route = [r \in Requests |-> "none"] /\ name \in [Requests -> Names]
    /\ data = [r \in Requests |-> Absent]
    /\ sent = [r \in Requests |-> <<>>] /\ outcome = [r \in Requests |-> "none"]
    /\ stopping = FALSE /\ server = "new" /\ caller = "out"

-----------------------------------------------------------------------------
(* The test's thread. *)

AddFile ==
    /\ caller = "out" /\ versions < MaxVersions /\ versions' = versions + 1
    /\ \E n \in Names : files' = [files EXCEPT ![n] = versions']
    /\ UNCHANGED <<requests, stopping, server, caller>>
RemoveFile ==
    /\ caller = "out"
    /\ \E n \in Names : files[n] # Absent /\ files' = [files EXCEPT ![n] = Absent]
    /\ UNCHANGED <<versions, requests, stopping, server, caller>>

Start ==
    /\ caller = "out" /\ server = "new" /\ server' = "serving"
    /\ UNCHANGED <<files, versions, requests, stopping, caller>>

\* The event first, so that slow downloads end; then shutdown waits for serve_forever, and the
\* threads of requests are left to themselves.  Before start there is no serve_forever to end the wait.
Stop ==
    /\ caller = "out"
    /\ stopping' = TRUE /\ caller' = "shutdown"
    /\ UNCHANGED <<files, versions, requests, server>>
LoopEnds ==
    /\ caller = "shutdown" /\ server = "serving" /\ server' = "ended"
    /\ UNCHANGED <<files, versions, requests, stopping, caller>>
StopReturns ==
    /\ caller = "shutdown" /\ server = "ended" /\ caller' = "out"
    /\ UNCHANGED <<files, versions, requests, stopping, server>>

-----------------------------------------------------------------------------
(* _serve, in the request's own thread. *)

Finish(r, o) == outcome' = [outcome EXCEPT ![r] = o]

\* The contents are looked up once.
Request ==
    /\ server = "serving"
    /\ \E r \in Requests, p \in {"files", "slow", "HEAD"} :
          /\ route[r] = "none"
          /\ route' = [route EXCEPT ![r] = p] /\ data' = [data EXCEPT ![r] = files[name[r]]]
          /\ IF files[name[r]] = Absent THEN Finish(r, "404")
             ELSE IF p = "HEAD" THEN Finish(r, "headers") ELSE UNCHANGED outcome
    /\ UNCHANGED <<files, versions, name, sent, stopping, server, caller>>

Serving(r) == route[r] # "none" /\ outcome[r] = "none"

WriteWhole ==
    /\ \E r \in Requests :
          /\ Serving(r) /\ route[r] = "files"
          /\ sent' = [sent EXCEPT ![r] = [i \in 1..Chunks |-> data[r]]] /\ Finish(r, "whole")
    /\ UNCHANGED <<files, versions, route, name, data, stopping, server, caller>>

\* Looked up at every chunk.
ChunkNow(r) == files[name[r]]
Chunk(r) == data[r]

WriteChunk ==
    /\ \E r \in Requests :
          /\ Serving(r) /\ route[r] = "slow"
          /\ \/ Len(sent[r]) = Chunks /\ Finish(r, "whole") /\ UNCHANGED sent
             \/ Len(sent[r]) < Chunks /\ stopping /\ Finish(r, "cut") /\ UNCHANGED sent
             \/ /\ Len(sent[r]) < Chunks /\ ~stopping
                /\ sent' = [sent EXCEPT ![r] = Append(@, Chunk(r))] /\ UNCHANGED outcome
    /\ UNCHANGED <<files, versions, route, name, data, stopping, server, caller>>

ClientCloses ==
    /\ \E r \in Requests : Serving(r) /\ Finish(r, "closed")
    /\ UNCHANGED <<files, versions, route, name, data, sent, stopping, server, caller>>

Next ==
    \/ AddFile \/ RemoveFile \/ Start \/ Stop \/ LoopEnds \/ StopReturns
    \/ Request \/ WriteWhole \/ WriteChunk \/ ClientCloses
Spec == Init /\ [][Next]_vars

-----------------------------------------------------------------------------
TypeOK ==
    /\ server \in {"new", "serving", "ended"} /\ caller \in {"out", "shutdown"}
    /\ \A r \in Requests : Len(sent[r]) <= Chunks /\ data[r] <= versions

\* A download that ends as far as the client can tell has all of one version of its file, however
\* the test changed or removed it meanwhile: the length in the headers was that version's.  One is
\* cut short only by a stop.
DownloadsWhole ==
    \A r \in Requests :
        /\ outcome[r] = "whole" => sent[r] = [i \in 1..Chunks |-> data[r]] /\ data[r] # Absent
        /\ outcome[r] = "cut" => stopping /\ route[r] = "slow"
=============================================================================
