-------------------------- MODULE MCSession_proofs --------------------------
(***************************************************************************)
(* Theorems about the parts of a test session, each for every value of its *)
(* parameters.  The parts share no variable: a step of the session is a    *)
(* step of each part or leaves it alone, so an invariant of one is one of  *)
(* the session.                                                            *)
(***************************************************************************)
EXTENDS MCSession, FiniteSetTheorems, SequenceTheorems, TLAPS

-----------------------------------------------------------------------------
(* HttpServer: what a request has sent is a prefix of the version it       *)
(* looked up, whatever the test does to the files meanwhile.               *)

HttpTypes ==
    /\ files \in [FileNames -> Nat] /\ versions \in Nat
    /\ route \in [Downloads -> {"none", "files", "slow", "HEAD"}] /\ name \in [Downloads -> FileNames]
    /\ data \in [Downloads -> Nat] /\ written \in [Downloads -> Seq(Nat)]
    /\ ended \in [Downloads -> {"none", "404", "headers", "whole", "cut", "closed"}]
    /\ serverStopping \in BOOLEAN
    /\ httpServer \in {"new", "serving", "ended"} /\ httpCaller \in {"out", "shutdown"}

VersionsMade ==
    /\ \A n \in FileNames : files[n] <= versions
    /\ \A r \in Downloads : data[r] <= versions

\* A request that is being served found its file, and has sent chunks of it only.
Sends(r) ==
    /\ Len(written[r]) <= Chunks /\ \A i \in 1..Len(written[r]) : written[r][i] = data[r]
    /\ route[r] = "none" => written[r] = <<>> /\ ended[r] = "none"
    /\ route[r] # "none" /\ ended[r] = "none" => data[r] # Http!Absent
    /\ ended[r] = "whole" => Len(written[r]) = Chunks /\ data[r] # Http!Absent
    /\ ended[r] = "cut" => serverStopping /\ route[r] = "slow"

HttpIInv == HttpTypes /\ VersionsMade /\ \A r \in Downloads : Sends(r)

LEMMA HttpInit == Http!Init => HttpIInv
<1> SUFFICES ASSUME Http!Init PROVE HttpIInv
  OBVIOUS
<1>1. <<>> \in Seq(Nat) /\ Len(<<>>) = 0
  OBVIOUS
<1>2. HttpTypes
  BY <1>1 DEF Http!Init, HttpTypes, Http!Absent
<1>3. VersionsMade /\ \A r \in Downloads : Sends(r)
  BY <1>1, SessionAssumption DEF Http!Init, VersionsMade, Sends, Http!Absent
<1> QED
  BY <1>2, <1>3 DEF HttpIInv

\* The test's thread changes no request.
LEMMA HttpTestPreserves ==
    HttpIInv /\ (Http!AddFile \/ Http!RemoveFile \/ Http!Start \/ Http!Stop \/ Http!LoopEnds \/ Http!StopReturns) => HttpIInv'
<1> SUFFICES ASSUME HttpIInv, Http!AddFile \/ Http!RemoveFile \/ Http!Start \/ Http!Stop \/ Http!LoopEnds \/ Http!StopReturns
             PROVE  HttpIInv'
  OBVIOUS
<1>1. UNCHANGED Http!requests /\ (serverStopping => serverStopping')
  BY DEF Http!AddFile, Http!RemoveFile, Http!Start, Http!Stop, Http!LoopEnds, Http!StopReturns
<1>2. /\ files' \in [FileNames -> Nat] /\ versions' \in Nat
      /\ versions <= versions' /\ \A n \in FileNames : files'[n] <= versions'
  <2>1. CASE Http!AddFile
    BY <2>1 DEF Http!AddFile, HttpIInv, HttpTypes, VersionsMade
  <2>2. CASE Http!RemoveFile
    BY <2>2 DEF Http!RemoveFile, HttpIInv, HttpTypes, VersionsMade, Http!Absent
  <2>3. CASE UNCHANGED <<files, versions>>
    BY <2>3 DEF HttpIInv, HttpTypes, VersionsMade
  <2> QED
    BY <2>1, <2>2, <2>3 DEF Http!Start, Http!Stop, Http!LoopEnds, Http!StopReturns
<1>3. serverStopping' \in BOOLEAN /\ httpServer' \in {"new", "serving", "ended"} /\ httpCaller' \in {"out", "shutdown"}
  BY DEF Http!AddFile, Http!RemoveFile, Http!Start, Http!Stop, Http!LoopEnds, Http!StopReturns, HttpIInv, HttpTypes
<1>4. HttpTypes'
  BY <1>1, <1>2, <1>3 DEF HttpIInv, HttpTypes, Http!requests
<1>5. VersionsMade'
  BY <1>1, <1>2 DEF HttpIInv, HttpTypes, VersionsMade, Http!requests
<1>6. \A r \in Downloads : Sends(r)'
  BY <1>1 DEF HttpIInv, Sends, Http!requests
<1> QED
  BY <1>4, <1>5, <1>6 DEF HttpIInv

LEMMA HttpServingPreserves ==
    ASSUME HttpIInv, Http!Request \/ Http!WriteWhole \/ Http!WriteChunk \/ Http!ClientCloses
    PROVE  HttpIInv'
<1>t. HttpTypes /\ VersionsMade /\ \A r \in Downloads : Sends(r)
  BY DEF HttpIInv
<1>1. CASE Http!Request
  <2>1. PICK r \in Downloads, p \in {"files", "slow", "HEAD"} :
             /\ route[r] = "none"
             /\ route' = [route EXCEPT ![r] = p] /\ data' = [data EXCEPT ![r] = files[name[r]]]
             /\ IF files[name[r]] = Http!Absent THEN Http!Finish(r, "404")
                ELSE IF p = "HEAD" THEN Http!Finish(r, "headers") ELSE UNCHANGED ended
    BY <1>1 DEF Http!Request
  <2>2. UNCHANGED <<files, versions, name, written, serverStopping, httpServer, httpCaller>>
    BY <1>1 DEF Http!Request
  <2>3. HttpTypes' /\ VersionsMade'
    BY <1>t, <2>1, <2>2 DEF HttpTypes, VersionsMade, Http!Finish
  <2>4. \A q \in Downloads : Sends(q)'
    BY <1>t, <2>1, <2>2 DEF HttpTypes, Sends, Http!Finish
  <2> QED
    BY <2>3, <2>4 DEF HttpIInv
<1>2. CASE Http!WriteWhole
  <2>1. PICK r \in Downloads :
             /\ Http!Serving(r) /\ route[r] = "files"
             /\ written' = [written EXCEPT ![r] = [i \in 1..Chunks |-> data[r]]] /\ Http!Finish(r, "whole")
    BY <1>2 DEF Http!WriteWhole
  <2>2. UNCHANGED <<files, versions, route, name, data, serverStopping, httpServer, httpCaller>>
    BY <1>2 DEF Http!WriteWhole
  <2>3. [i \in 1..Chunks |-> data[r]] \in Seq(Nat) /\ Len([i \in 1..Chunks |-> data[r]]) = Chunks
    BY <1>t, SessionAssumption DEF HttpTypes
  <2>4. HttpTypes' /\ VersionsMade'
    BY <1>t, <2>1, <2>2, <2>3 DEF HttpTypes, VersionsMade, Http!Finish
  <2>5. \A q \in Downloads : Sends(q)'
    BY <1>t, <2>1, <2>2, <2>3, SessionAssumption DEF HttpTypes, Sends, Http!Finish, Http!Serving
  <2> QED
    BY <2>4, <2>5 DEF HttpIInv
<1>3. CASE Http!WriteChunk
  <2>1. PICK r \in Downloads :
             /\ Http!Serving(r) /\ route[r] = "slow"
             /\ \/ Len(written[r]) = Chunks /\ Http!Finish(r, "whole") /\ UNCHANGED written
                \/ Len(written[r]) < Chunks /\ serverStopping /\ Http!Finish(r, "cut") /\ UNCHANGED written
                \/ /\ Len(written[r]) < Chunks /\ ~serverStopping
                   /\ written' = [written EXCEPT ![r] = Append(@, Http!Chunk(r))] /\ UNCHANGED ended
    BY <1>3 DEF Http!WriteChunk
  <2>2. UNCHANGED <<files, versions, route, name, data, serverStopping, httpServer, httpCaller>>
    BY <1>3 DEF Http!WriteChunk
  <2> DEFINE more == Append(written[r], data[r])
  <2>3. written[r] \in Seq(Nat) /\ data[r] \in Nat /\ Sends(r) /\ data[r] # Http!Absent
    BY <1>t, <2>1 DEF HttpTypes, Sends, Http!Serving
  <2>4. more \in Seq(Nat) /\ Len(more) = Len(written[r]) + 1 /\ \A i \in 1..Len(more) : more[i] = data[r]
    BY <2>3 DEF Sends
  <2> HIDE DEF more
  <2>5. CASE Len(written[r]) = Chunks /\ Http!Finish(r, "whole") /\ UNCHANGED written
    <3>1. HttpTypes' /\ VersionsMade'
      BY <1>t, <2>2, <2>5 DEF HttpTypes, VersionsMade, Http!Finish
    <3>2. \A q \in Downloads : Sends(q)'
      BY <1>t, <2>1, <2>2, <2>3, <2>5 DEF HttpTypes, Sends, Http!Finish, Http!Serving
    <3> QED
      BY <3>1, <3>2 DEF HttpIInv
  <2>6. CASE serverStopping /\ Http!Finish(r, "cut") /\ UNCHANGED written
    <3>1. HttpTypes' /\ VersionsMade'
      BY <1>t, <2>2, <2>6 DEF HttpTypes, VersionsMade, Http!Finish
    <3>2. \A q \in Downloads : Sends(q)'
      BY <1>t, <2>1, <2>2, <2>3, <2>6 DEF HttpTypes, Sends, Http!Finish, Http!Serving
    <3> QED
      BY <3>1, <3>2 DEF HttpIInv
  <2>7. CASE Len(written[r]) < Chunks /\ written' = [written EXCEPT ![r] = more] /\ UNCHANGED ended
    <3>1. HttpTypes' /\ VersionsMade'
      BY <1>t, <2>2, <2>4, <2>7 DEF HttpTypes, VersionsMade
    <3>2. Sends(r)'
      BY <1>t, <2>1, <2>2, <2>3, <2>4, <2>7, SessionAssumption DEF HttpTypes, Sends, Http!Serving
    <3>3. \A q \in Downloads \ {r} : Sends(q)'
      BY <1>t, <2>2, <2>7 DEF HttpTypes, Sends
    <3> QED
      BY <3>1, <3>2, <3>3 DEF HttpIInv
  <2>8. [written EXCEPT ![r] = Append(@, Http!Chunk(r))] = [written EXCEPT ![r] = more]
    BY <1>t DEF HttpTypes, Http!Chunk, more
  <2> QED
    BY <2>1, <2>5, <2>6, <2>7, <2>8
<1>4. CASE Http!ClientCloses
  <2>1. PICK r \in Downloads : Http!Serving(r) /\ Http!Finish(r, "closed")
    BY <1>4 DEF Http!ClientCloses
  <2>2. UNCHANGED <<files, versions, route, name, data, written, serverStopping, httpServer, httpCaller>>
    BY <1>4 DEF Http!ClientCloses
  <2>3. HttpTypes' /\ VersionsMade'
    BY <1>t, <2>1, <2>2 DEF HttpTypes, VersionsMade, Http!Finish
  <2>4. \A q \in Downloads : Sends(q)'
    BY <1>t, <2>1, <2>2 DEF HttpTypes, Sends, Http!Finish, Http!Serving
  <2> QED
    BY <2>3, <2>4 DEF HttpIInv
<1> QED
  BY <1>1, <1>2, <1>3, <1>4

LEMMA HttpStep == HttpIInv /\ [Http!Next]_httpVars => HttpIInv'
<1>1. ASSUME HttpIInv, UNCHANGED httpVars
      PROVE  HttpIInv'
  BY <1>1 DEF httpVars, HttpIInv, HttpTypes, VersionsMade, Sends
<1> QED
  BY <1>1, HttpTestPreserves, HttpServingPreserves DEF Http!Next

LEMMA HttpImplies == HttpIInv => Http!TypeOK /\ Http!DownloadsWhole
<1> SUFFICES ASSUME HttpIInv PROVE Http!TypeOK /\ Http!DownloadsWhole
  OBVIOUS
<1>1. Http!TypeOK
  BY DEF HttpIInv, HttpTypes, VersionsMade, Sends, Http!TypeOK
<1>2. ASSUME NEW r \in Downloads
      PROVE  /\ ended[r] = "whole" => written[r] = [i \in 1..Chunks |-> data[r]] /\ data[r] # Http!Absent
             /\ ended[r] = "cut" => serverStopping /\ route[r] = "slow"
  <2>1. written[r] \in Seq(Nat) /\ Sends(r)
    BY DEF HttpIInv, HttpTypes
  <2> QED
    BY <2>1 DEF Sends
<1> QED
  BY <1>1, <1>2 DEF Http!DownloadsWhole

-----------------------------------------------------------------------------
(* LoadUsers, for any finite set of users.  Names come from the            *)
(* counter the users share; the rest of a user's state is its own, so one  *)
(* lemma about the user that takes the step covers the others.             *)

LoadTypes ==
    /\ userPc \in [Users -> {"new", "connecting", "metering", "raised", "tasks", "cleanup", "stopped"}]
    /\ userId \in [Users -> Nat] /\ userCounter \in Nat
    /\ hasOtelp \in [Users -> BOOLEAN] /\ exporting \in [Users -> {"none", "live", "down"}]
    /\ ready \in [Users -> BOOLEAN]
    /\ sentBy \in [Users -> Nat] /\ lost \in [Users -> Nat]

\* The counter is ahead of every name it gave, and gave none twice.
NamesGiven ==
    /\ \A u \in Users : userId[u] <= userCounter
    /\ \A u, v \in Users : u # v /\ userId[u] # 0 => userId[u] # userId[v]

\* What a user has at each place of its life; a task never runs on a provider that is down.
Life(u) ==
    /\ userPc[u] \in {"new", "connecting"} => exporting[u] = "none"
    /\ userPc[u] \in {"metering", "tasks"} => exporting[u] = "live"
    /\ userPc[u] \in {"connecting", "metering", "tasks"} => hasOtelp[u]
    /\ userPc[u] = "stopped" => exporting[u] # "live"
    /\ lost[u] = 0

LoadIInv == LoadTypes /\ NamesGiven /\ \A u \in Users : Life(u)

LEMMA LoadInit == Load!Init => LoadIInv
BY DEF Load!Init, LoadIInv, LoadTypes, NamesGiven, Life

\* A step is one user's; its names and its life are kept, and the others' with them.
LEMMA LoadUserPreserves ==
    ASSUME LoadIInv, NEW u \in Users,
           Load!OnStart(u) \/ Load!Connected(u) \/ Load!CreateCounter(u) \/ Load!RecordMetrics(u) \/ Load!Stopped(u) \/ Load!OnStop(u)
    PROVE  LoadIInv'
<1>t. LoadTypes /\ NamesGiven /\ \A v \in Users : Life(v)
  BY DEF LoadIInv
<1>1. CASE Load!OnStart(u)
  <2>1. LoadTypes'
    BY <1>1, <1>t DEF Load!OnStart, Load!To, LoadTypes
  <2>2. NamesGiven'
    BY <1>1, <1>t DEF Load!OnStart, LoadTypes, NamesGiven
  <2>3. \A v \in Users : Life(v)'
    BY <1>1, <1>t DEF Load!OnStart, Load!To, LoadTypes, Life
  <2> QED
    BY <2>1, <2>2, <2>3 DEF LoadIInv
<1>2. CASE Load!Connected(u)
  <2>1. LoadTypes'
    BY <1>2, <1>t DEF Load!Connected, Load!To, LoadTypes
  <2>2. NamesGiven'
    BY <1>2, <1>t DEF Load!Connected, NamesGiven
  <2>3. \A v \in Users : Life(v)'
    BY <1>2, <1>t DEF Load!Connected, Load!To, LoadTypes, Life
  <2> QED
    BY <2>1, <2>2, <2>3 DEF LoadIInv
<1>3. CASE Load!CreateCounter(u)
  <2>1. LoadTypes'
    BY <1>3, <1>t DEF Load!CreateCounter, Load!To, LoadTypes
  <2>2. NamesGiven'
    BY <1>3, <1>t DEF Load!CreateCounter, NamesGiven
  <2>3. \A v \in Users : Life(v)'
    BY <1>3, <1>t DEF Load!CreateCounter, Load!To, LoadTypes, Life
  <2> QED
    BY <2>1, <2>2, <2>3 DEF LoadIInv
<1>4. CASE Load!RecordMetrics(u)
  <2>1. exporting[u] = "live"
    BY <1>4, <1>t DEF Load!RecordMetrics, Life
  <2>2. LoadTypes' /\ UNCHANGED lost
    BY <1>4, <1>t, <2>1 DEF Load!RecordMetrics, LoadTypes
  <2>3. NamesGiven' /\ \A v \in Users : Life(v)'
    BY <1>4, <1>t, <2>2 DEF Load!RecordMetrics, NamesGiven, Life
  <2> QED
    BY <2>2, <2>3 DEF LoadIInv
<1>5. CASE Load!Stopped(u)
  <2>1. LoadTypes'
    BY <1>5, <1>t DEF Load!Stopped, Load!To, LoadTypes
  <2>2. NamesGiven'
    BY <1>5, <1>t DEF Load!Stopped, NamesGiven
  <2>3. \A v \in Users : Life(v)'
    BY <1>5, <1>t DEF Load!Stopped, Load!To, LoadTypes, Life
  <2> QED
    BY <2>1, <2>2, <2>3 DEF LoadIInv
<1>6. CASE Load!OnStop(u)
  <2>1. LoadTypes'
    BY <1>6, <1>t DEF Load!OnStop, Load!To, LoadTypes
  <2>2. NamesGiven'
    BY <1>6, <1>t DEF Load!OnStop, NamesGiven
  <2>3. \A v \in Users : Life(v)'
    BY <1>6, <1>t DEF Load!OnStop, Load!To, LoadTypes, Life
  <2> QED
    BY <2>1, <2>2, <2>3 DEF LoadIInv
<1> QED
  BY <1>1, <1>2, <1>3, <1>4, <1>5, <1>6

LEMMA LoadStep == LoadIInv /\ [Load!Next]_userVars => LoadIInv'
<1>1. ASSUME LoadIInv, UNCHANGED userVars
      PROVE  LoadIInv'
  BY <1>1 DEF userVars, LoadIInv, LoadTypes, NamesGiven, Life
<1> QED
  BY <1>1, LoadUserPreserves DEF Load!Next

LEMMA LoadImplies == LoadIInv => Load!UsersApart
BY DEF LoadIInv, LoadTypes, NamesGiven, Life, Load!UsersApart

\* The counter counts the users that have a name.
NamedUsers == {u \in Users : userId[u] # 0}
UsersCounted ==
    /\ userCounter = Cardinality(NamedUsers)
    /\ \A u \in Users : userPc[u] = "new" => userId[u] = 0
    /\ \A u \in Users : sentBy[u] + lost[u] <= MaxRecords

LEMMA UsersCountedInit == Load!Init => UsersCounted
<1> SUFFICES ASSUME Load!Init PROVE UsersCounted
  OBVIOUS
<1>1. NamedUsers = {} /\ userCounter = 0
  BY DEF Load!Init, NamedUsers
<1>2. \A u \in Users : userId[u] = 0 /\ sentBy[u] + lost[u] <= MaxRecords
  BY SessionAssumption DEF Load!Init
<1> QED
  BY <1>1, <1>2, FS_EmptySet DEF UsersCounted

LEMMA UsersCountedStep == LoadIInv /\ UsersCounted /\ [Load!Next]_userVars => UsersCounted'
<1> SUFFICES ASSUME LoadIInv, UsersCounted, [Load!Next]_userVars PROVE UsersCounted'
  OBVIOUS
<1>t. LoadTypes /\ \A u \in Users : Life(u)
  BY DEF LoadIInv
<1>1. ASSUME UNCHANGED <<userId, userCounter, sentBy, lost>>,
             \A u \in Users : userPc'[u] = "new" => userPc[u] = "new"
      PROVE  UsersCounted'
  BY <1>1 DEF UsersCounted, NamedUsers
<1>2. ASSUME NEW u \in Users, Load!OnStart(u)
      PROVE  UsersCounted'
  <2>1. userId[u] = 0 /\ userId' = [userId EXCEPT ![u] = userCounter + 1] /\ userCounter' = userCounter + 1
    BY <1>2 DEF Load!OnStart, UsersCounted
  <2>2. userCounter \in Nat
    BY <1>t DEF LoadTypes
  <2>3. NamedUsers' = NamedUsers \union {u} /\ u \notin NamedUsers
    BY <1>t, <2>1, <2>2 DEF NamedUsers, LoadTypes
  <2>4. IsFiniteSet(NamedUsers)
    BY SessionAssumption, FS_Subset DEF NamedUsers
  <2>5. Cardinality(NamedUsers \union {u}) = Cardinality(NamedUsers) + 1
    BY <2>3, <2>4, FS_AddElement
  <2>6. \A v \in Users : userPc'[v] = "new" => userPc[v] = "new" /\ v # u
    BY <1>2, <1>t DEF Load!OnStart, Load!To, LoadTypes
  <2>7. UNCHANGED <<sentBy, lost>>
    BY <1>2 DEF Load!OnStart
  <2>8. \A v \in Users : v # u => userId'[v] = userId[v]
    BY <1>t, <2>1 DEF LoadTypes
  <2> QED
    BY <2>1, <2>3, <2>5, <2>6, <2>7, <2>8 DEF UsersCounted
<1>3. ASSUME NEW u \in Users, Load!RecordMetrics(u)
      PROVE  UsersCounted'
  <2>1. UNCHANGED <<userPc, userId, userCounter>> /\ sentBy[u] + lost[u] < MaxRecords
    BY <1>3 DEF Load!RecordMetrics
  <2>2. \/ UNCHANGED <<sentBy, lost>>
        \/ sentBy' = [sentBy EXCEPT ![u] = @ + 1] /\ UNCHANGED lost
        \/ lost' = [lost EXCEPT ![u] = @ + 1] /\ UNCHANGED sentBy
    BY <1>3 DEF Load!RecordMetrics
  <2>3. ASSUME NEW v \in Users PROVE sentBy'[v] + lost'[v] <= MaxRecords
    <3>1. sentBy \in [Users -> Nat] /\ lost \in [Users -> Nat] /\ MaxRecords \in Nat
      BY <1>t, SessionAssumption DEF LoadTypes
    <3>2. PICK s \in Nat, l \in Nat : s = sentBy[v] /\ l = lost[v]
      BY <3>1
    <3>3. s + l <= MaxRecords /\ (v = u => s + l < MaxRecords)
      BY <2>1, <3>2 DEF UsersCounted
    <3>4. \/ sentBy'[v] = s /\ lost'[v] = l
          \/ v = u /\ ((sentBy'[v] = s + 1 /\ lost'[v] = l) \/ (sentBy'[v] = s /\ lost'[v] = l + 1))
      BY <2>2, <3>1, <3>2
    <3> QED
      BY <3>1, <3>3, <3>4
  <2> QED
    BY <2>1, <2>3 DEF UsersCounted, NamedUsers
<1>4. ASSUME NEW u \in Users, Load!Connected(u) \/ Load!CreateCounter(u) \/ Load!Stopped(u) \/ Load!OnStop(u)
      PROVE  UsersCounted'
  <2>1. UNCHANGED <<userId, userCounter, sentBy, lost>>
    BY <1>4 DEF Load!Connected, Load!CreateCounter, Load!Stopped, Load!OnStop
  <2>2. \E p \in {"metering", "raised", "tasks", "cleanup", "stopped"} : userPc' = [userPc EXCEPT ![u] = p]
    BY <1>4 DEF Load!Connected, Load!CreateCounter, Load!Stopped, Load!OnStop, Load!To
  <2>3. \A v \in Users : userPc'[v] = "new" => userPc[v] = "new"
    BY <1>t, <2>2 DEF LoadTypes
  <2> QED
    BY <1>1, <2>1, <2>3
<1>5. CASE UNCHANGED userVars
  BY <1>1, <1>5 DEF userVars
<1> QED
  BY <1>2, <1>3, <1>4, <1>5 DEF Load!Next

LEMMA UsersCountedImplies == LoadIInv /\ UsersCounted => Load!TypeOK
<1> SUFFICES ASSUME LoadIInv, UsersCounted PROVE Load!TypeOK
  OBVIOUS
<1>1. Load!Cardinality(Users) = Cardinality(Users)
  BY DEF Load!Cardinality, Cardinality, Load!IsFiniteSet, IsFiniteSet
<1>2. Cardinality(NamedUsers) <= Cardinality(Users)
  BY SessionAssumption, FS_Subset DEF NamedUsers
<1>3. PICK c \in Nat : c = userCounter
  BY DEF LoadIInv, LoadTypes
<1>4. \A u \in Users : userId[u] \in 0..c
  BY <1>3 DEF LoadIInv, LoadTypes, NamesGiven
<1>5. userId \in [Users -> 0..userCounter]
  BY <1>3, <1>4 DEF LoadIInv, LoadTypes
<1> QED
  BY <1>1, <1>2, <1>5 DEF UsersCounted, LoadIInv, LoadTypes, Load!TypeOK

-----------------------------------------------------------------------------
(* Otelp: between a cleanup and the next initialize there is no provider   *)
(* and no instrument, so that all of them are of the one provider made     *)
(* after it.                                                               *)

ProviderAlone ==
    /\ live \subseteq {provider}
    /\ connected => provider = meter /\ live = {provider}
    /\ \A i \in instruments : i.of = provider
    /\ given # Telemetry!Nothing => given.of = provider
    /\ fresh => live = {} /\ ~connected /\ instruments = {}

TelemetryIInv ==
    /\ connected \in BOOLEAN /\ clean \in BOOLEAN /\ fresh \in BOOLEAN
    /\ clean => ProviderAlone

LEMMA TelemetryInit == Telemetry!Init => TelemetryIInv
BY DEF Telemetry!Init, TelemetryIInv, ProviderAlone

LEMMA TelemetryStep == TelemetryIInv /\ [Telemetry!Next]_otelpVars => TelemetryIInv'
<1> SUFFICES ASSUME TelemetryIInv, [Telemetry!Next]_otelpVars PROVE TelemetryIInv'
  OBVIOUS
<1>1. CASE Telemetry!Initialize
  <2>1. /\ clean' = (clean /\ fresh) /\ fresh' = FALSE /\ given' = Telemetry!Nothing /\ UNCHANGED instruments
        /\ \/ connected' = FALSE /\ UNCHANGED <<provider, meter, live, made>>
           \/ /\ provider' = made' /\ live' = live \union {made'}
              /\ \/ meter' = made' /\ connected' = TRUE
                 \/ UNCHANGED meter /\ connected' = FALSE
    BY <1>1 DEF Telemetry!Initialize, Telemetry!InitMeterProvider
  <2>2. connected' \in BOOLEAN /\ clean' \in BOOLEAN /\ fresh' \in BOOLEAN
    BY <2>1 DEF TelemetryIInv
  <2>3. ASSUME clean' PROVE ProviderAlone'
    <3>1. live = {} /\ instruments = {}
      BY <2>1, <2>3 DEF TelemetryIInv, ProviderAlone
    <3> QED
      BY <2>1, <3>1 DEF ProviderAlone, Telemetry!Nothing
  <2> QED
    BY <2>2, <2>3 DEF TelemetryIInv
<1>2. CASE Telemetry!Cleanup
  <2>1. ProviderAlone => ProviderAlone'
    BY <1>2 DEF Telemetry!Cleanup, ProviderAlone, Telemetry!Nothing
  <2> QED
    BY <1>2, <2>1 DEF Telemetry!Cleanup, TelemetryIInv
<1>3. ASSUME NEW k, Telemetry!Create(k)
      PROVE  TelemetryIInv'
  <2>1. connected /\ UNCHANGED <<connected, provider, meter, live, made, clean, fresh>>
    BY <1>3 DEF Telemetry!Create, Telemetry!CheckInitialized
  <2>2. \/ given' \in instruments /\ UNCHANGED instruments
        \/ given'.of = meter /\ instruments' = instruments \union {given'}
    BY <1>3 DEF Telemetry!Create
  <2>3. ProviderAlone => ProviderAlone'
    BY <2>1, <2>2 DEF ProviderAlone
  <2> QED
    BY <2>1, <2>3 DEF TelemetryIInv
<1>4. CASE Telemetry!GetInstrument
  <2>1. ProviderAlone => ProviderAlone'
    BY <1>4 DEF Telemetry!GetInstrument, ProviderAlone
  <2> QED
    BY <1>4, <2>1 DEF Telemetry!GetInstrument, TelemetryIInv
<1>5. CASE UNCHANGED otelpVars
  BY <1>5 DEF otelpVars, TelemetryIInv, ProviderAlone
<1> QED
  BY <1>1, <1>2, <1>3, <1>4, <1>5 DEF Telemetry!Next, Telemetry!CreateCounter,
     Telemetry!CreateUpDownCounter, Telemetry!CreateHistogram, Telemetry!CreateObservableGauge,
     Telemetry!CreateObservableCounter, Telemetry!CreateObservableUpDownCounter

LEMMA TelemetryImplies == TelemetryIInv => Telemetry!InstrumentsLive
BY DEF TelemetryIInv, ProviderAlone, Telemetry!InstrumentsLive

\* Providers are numbered as they are made, and no two instruments have one name.
InstrumentNames == {i.name : i \in instruments}
ProviderTypes ==
    /\ made \in Nat /\ provider \in 0..made /\ meter \in 0..made /\ live \subseteq 1..made
    /\ IsFiniteSet(instruments) /\ IsFiniteSet(InstrumentNames)
    /\ Cardinality(InstrumentNames) = Cardinality(instruments)

LEMMA ProviderTypesInit == Telemetry!Init => ProviderTypes
<1> SUFFICES ASSUME Telemetry!Init PROVE ProviderTypes
  OBVIOUS
<1>1. made = 0 /\ provider = 0 /\ meter = 0 /\ live = {} /\ instruments = {} /\ InstrumentNames = {}
  BY DEF Telemetry!Init, InstrumentNames
<1>2. 0 \in 0..0
  OBVIOUS
<1> QED
  BY <1>1, <1>2, FS_EmptySet DEF ProviderTypes

LEMMA ProviderTypesStep == ProviderTypes /\ [Telemetry!Next]_otelpVars => ProviderTypes'
<1> SUFFICES ASSUME ProviderTypes, [Telemetry!Next]_otelpVars PROVE ProviderTypes'
  OBVIOUS
<1>1. PICK m \in Nat : m = made
  BY DEF ProviderTypes
<1>2. provider \in 0..m /\ meter \in 0..m /\ live \subseteq 1..m
  BY <1>1 DEF ProviderTypes
<1>3. CASE Telemetry!Initialize
  <2>1. /\ UNCHANGED instruments
        /\ \/ UNCHANGED <<provider, meter, live, made>>
           \/ /\ made' = m + 1 /\ provider' = m + 1 /\ live' = live \union {m + 1}
              /\ meter' = m + 1 \/ meter' = meter
    BY <1>1, <1>3 DEF Telemetry!Initialize, Telemetry!InitMeterProvider
  <2>2. /\ 0..m \subseteq 0..(m + 1) /\ m + 1 \in 0..(m + 1)
        /\ 1..m \subseteq 1..(m + 1) /\ m + 1 \in 1..(m + 1) /\ m + 1 \in Nat
    OBVIOUS
  <2>3. InstrumentNames' = InstrumentNames
    BY <2>1 DEF InstrumentNames
  <2>4. made' \in Nat /\ provider' \in 0..made' /\ meter' \in 0..made' /\ live' \subseteq 1..made'
    <3>1. CASE UNCHANGED <<provider, meter, live, made>>
      BY <3>1 DEF ProviderTypes
    <3>2. CASE /\ made' = m + 1 /\ provider' = m + 1 /\ live' = live \union {m + 1}
               /\ meter' = m + 1 \/ meter' = meter
      BY <1>2, <2>2, <3>2
    <3> QED
      BY <2>1, <3>1, <3>2
  <2> QED
    BY <2>1, <2>3, <2>4 DEF ProviderTypes
<1>4. CASE Telemetry!Cleanup
  <2>1. InstrumentNames' = {} /\ instruments' = {}
    BY <1>4 DEF Telemetry!Cleanup, InstrumentNames
  <2> QED
    BY <1>4, <2>1, FS_EmptySet DEF Telemetry!Cleanup, ProviderTypes
<1>5. ASSUME NEW k, Telemetry!Create(k)
      PROVE  ProviderTypes'
  <2>1. UNCHANGED <<provider, meter, live, made>>
    BY <1>5 DEF Telemetry!Create
  <2>2. CASE UNCHANGED instruments
    BY <2>1, <2>2 DEF ProviderTypes, InstrumentNames
  <2>3. CASE ~UNCHANGED instruments
    <3>1. PICK n \in MetricNames : /\ \A i \in instruments : i.name # n
                                  /\ instruments' = instruments \union {[name |-> n, kind |-> k, of |-> meter]}
      BY <1>5, <2>3 DEF Telemetry!Create
    <3> DEFINE new == [name |-> n, kind |-> k, of |-> meter]
    <3>2. new.name = n /\ new \notin instruments /\ n \notin InstrumentNames
      BY <3>1 DEF InstrumentNames
    <3>3. InstrumentNames' = InstrumentNames \union {n}
      BY <3>1, <3>2 DEF InstrumentNames
    <3>4. /\ IsFiniteSet(instruments \union {new}) /\ IsFiniteSet(InstrumentNames \union {n})
          /\ Cardinality(instruments \union {new}) = Cardinality(instruments) + 1
          /\ Cardinality(InstrumentNames \union {n}) = Cardinality(InstrumentNames) + 1
      BY <3>2, FS_AddElement DEF ProviderTypes
    <3> QED
      BY <2>1, <3>1, <3>3, <3>4 DEF ProviderTypes
  <2> QED
    BY <2>2, <2>3
<1>6. CASE Telemetry!GetInstrument \/ UNCHANGED otelpVars
  BY <1>6 DEF Telemetry!GetInstrument, otelpVars, ProviderTypes, InstrumentNames
<1> QED
  BY <1>3, <1>4, <1>5, <1>6 DEF Telemetry!Next, Telemetry!CreateCounter,
     Telemetry!CreateUpDownCounter, Telemetry!CreateHistogram, Telemetry!CreateObservableGauge,
     Telemetry!CreateObservableCounter, Telemetry!CreateObservableUpDownCounter

LEMMA ProviderTypesImply == ProviderTypes => Telemetry!TypeOK
<1>1. \A S : Telemetry!Cardinality(S) = Cardinality(S)
  BY DEF Telemetry!Cardinality, Cardinality, Telemetry!IsFiniteSet, IsFiniteSet
<1> QED
  BY <1>1 DEF ProviderTypes, InstrumentNames, Telemetry!TypeOK

-----------------------------------------------------------------------------
(* PowerSampler: by its event, the thread has one sample at most to finish *)
(* when stop joins it, and the join outlasts the two readings of one, if   *)
(* the server's can be killed.  What stop answers is kept as it is until   *)
(* the next stop, so its accounts hold from its own step on.               *)

Reading == {"loop", "gpu", "server", "wait"}

PowerTypes ==
    /\ serverPower \in BOOLEAN /\ killable \in BOOLEAN /\ samplerStopping \in BOOLEAN
    /\ thread \in {"none", "ended"} \union Reading /\ samplerCaller \in {"out", "started", "join"}
    /\ busy \in Nat /\ joined \in Nat /\ samples \in Nat /\ gpu \in Nat /\ wall \in Nat
    /\ outlasted \in BOOLEAN

\* A reading is counted or its error noted, once it is over.
Accounted ==
    /\ gpu + (IF thread = "gpu" THEN 1 ELSE 0) < samples => "gpu" \in powerErrors
    /\ serverPower /\ wall + (IF thread \in {"gpu", "server"} THEN 1 ELSE 0) < samples => "server" \in powerErrors

\* The join has not waited longer than the readings have taken since.
JoinLasts ==
    samplerCaller = "join" =>
        /\ samplerStopping
        /\ thread = "gpu" => joined <= busy
        /\ killable /\ thread = "server" => joined <= GpuTimeout + busy
        /\ killable /\ thread \in Reading => joined <= GpuTimeout + ServerTimeout

\* Out of stop, the thread reads on only where the last answer was given before its end.
Settled ==
    samplerCaller = "out" =>
        /\ Power!SummarySettled
        /\ outlasted => thread # "gpu" /\ samplerStopping
        /\ thread \in Reading => outlasted

PowerIInv ==
    /\ PowerTypes /\ Accounted /\ JoinLasts /\ Settled
    /\ thread = "gpu" => busy <= GpuTimeout
    /\ killable /\ thread = "server" => busy <= ServerTimeout

LEMMA PowerInit == Power!Init => PowerIInv
<1> SUFFICES ASSUME Power!Init PROVE PowerIInv
  OBVIOUS
<1>1. PowerTypes
  BY DEF Power!Init, PowerTypes
<1>2. thread = "none" /\ samplerCaller = "out" /\ samples = 0 /\ gpu = 0 /\ wall = 0 /\ outlasted = FALSE
  BY DEF Power!Init
<1>3. Accounted /\ JoinLasts
  BY <1>2 DEF Accounted, JoinLasts
<1>4. summary = Power!Figures /\ summary.samples = 0 /\ summary.gpu = 0 /\ summary.wall = 0
  BY <1>2 DEF Power!Init, Power!Figures
<1>5. Settled
  BY <1>2, <1>4 DEF Settled, Reading, Power!SummarySettled
<1> QED
  BY <1>1, <1>2, <1>3, <1>5 DEF PowerIInv

\* What neither ends nor begins a stop, nor changes the figures that a complete answer is compared with.
LEMMA SettledStays ==
    ASSUME Settled, samplerCaller' = samplerCaller, UNCHANGED Power!setting, UNCHANGED Power!answer,
           samplerCaller = "out" =>
               \/ UNCHANGED <<Power!lists, thread, samplerStopping>>
               \/ thread \in Reading /\ thread' # "gpu" /\ samplerStopping'
    PROVE  Settled'
<1>1. samplerCaller = "out" => Power!SummarySettled'
  <2> SUFFICES ASSUME samplerCaller = "out" PROVE Power!SummarySettled'
    OBVIOUS
  <2>1. UNCHANGED <<serverPower, killable, summary, outlasted>>
    BY DEF Power!setting, Power!answer
  <2>2. Power!SummarySettled /\ (thread \in Reading => outlasted)
    BY DEF Settled
  <2>3. CASE UNCHANGED Power!lists
    BY <2>1, <2>2, <2>3 DEF Power!lists, Power!Figures, Power!SummarySettled
  <2>4. CASE thread \in Reading
    BY <2>1, <2>2, <2>4 DEF Power!SummarySettled
  <2> QED
    BY <2>3, <2>4
<1> QED
  BY <1>1 DEF Settled, Power!answer

LEMMA PowerStep == PowerIInv /\ [Power!Next]_powerVars => PowerIInv'
<1> SUFFICES ASSUME PowerIInv, [Power!Next]_powerVars PROVE PowerIInv'
  OBVIOUS
<1>a. {GpuTimeout, ServerTimeout, JoinTimeout} \subseteq Nat /\ GpuTimeout + ServerTimeout < JoinTimeout
  BY SessionAssumption
<1>t. PowerTypes /\ Accounted /\ JoinLasts /\ Settled
  BY DEF PowerIInv
<1>b. thread = "gpu" => busy <= GpuTimeout
  BY DEF PowerIInv
<1>c. killable /\ thread = "server" => busy <= ServerTimeout
  BY DEF PowerIInv
<1>1. CASE Power!Start
  <2>1. PowerTypes'
    BY <1>1, <1>t DEF Power!Start, Power!setting, Power!answer, Power!lists, PowerTypes, Reading
  <2>2. Accounted' /\ JoinLasts' /\ Settled'
    BY <1>1, <1>t DEF Power!Start, Power!setting, Power!lists, PowerTypes, Accounted, JoinLasts, Settled
  <2> QED
    BY <1>1, <2>1, <2>2 DEF Power!Start, PowerIInv
<1>2. CASE Power!Stop
  <2>1. PowerTypes'
    BY <1>2, <1>t DEF Power!Stop, Power!setting, Power!answer, Power!lists, PowerTypes
  <2>2. Accounted' /\ Settled'
    BY <1>2, <1>t DEF Power!Stop, Power!setting, Power!lists, Accounted, Settled
  <2>3. JoinLasts'
    BY <1>2, <1>t, <1>a DEF Power!Stop, Power!setting, Power!lists, PowerTypes, JoinLasts
  <2> QED
    BY <1>2, <1>b, <1>c, <2>1, <2>2, <2>3 DEF Power!Stop, Power!setting, PowerIInv
<1>3. CASE Power!StopReturns
  <2>1. PowerTypes' /\ Accounted' /\ JoinLasts'
    BY <1>3, <1>t DEF Power!StopReturns, Power!setting, Power!lists, PowerTypes, Accounted, JoinLasts
  <2>2. /\ outlasted' = (thread \in Reading) /\ UNCHANGED <<serverPower, killable, thread, samplerStopping>>
        /\ thread # "gpu" /\ samplerStopping /\ (thread \in Reading => ~killable)
    BY <1>3, <1>t, <1>a, <1>b DEF Power!StopReturns, Power!setting, Power!JoinFor, PowerTypes, JoinLasts, Reading
  <2>3. summary' = Power!Figures' /\ summary' = Power!Figures
    BY <1>3 DEF Power!StopReturns, Power!Figures, Power!lists
  <2>4. /\ summary'.samples = samples /\ summary'.gpu = gpu /\ summary'.wall = wall
        /\ summary'.errors = powerErrors
    BY <2>3 DEF Power!Figures
  <2>5. gpu < samples => "gpu" \in powerErrors
    BY <2>2, <1>t DEF Accounted, PowerTypes
  <2>6. serverPower /\ wall + (IF thread \in Reading THEN 1 ELSE 0) < samples => "server" \in powerErrors
    BY <2>2, <1>t DEF Accounted, PowerTypes, Reading
  <2>7. Power!SummarySettled'
    BY <2>2, <2>3, <2>4, <2>5, <2>6 DEF Power!SummarySettled
  <2>8. Settled'
    BY <2>2, <2>7 DEF Settled
  <2> QED
    BY <1>3, <1>b, <1>c, <2>1, <2>2, <2>8 DEF Power!StopReturns, PowerIInv
<1>u. samplerCaller = "out" /\ thread \in Reading => samplerStopping /\ thread # "gpu"
  BY <1>t DEF Settled
<1>4. CASE Power!Loop
  <2>1. PowerTypes'
    BY <1>4, <1>t DEF Power!Loop, Power!setting, Power!answer, PowerTypes, Reading
  <2>2. Accounted'
    BY <1>4, <1>t DEF Power!Loop, Power!setting, PowerTypes, Accounted
  <2>3. JoinLasts'
    BY <1>4, <1>t, <1>a DEF Power!Loop, Power!setting, PowerTypes, JoinLasts, Reading
  <2>4. Settled'
    BY <1>4, <1>t, <1>u, SettledStays DEF Power!Loop, Reading
  <2> QED
    BY <1>4, <1>a, <2>1, <2>2, <2>3, <2>4 DEF Power!Loop, PowerIInv
<1>5. CASE Power!ReadGpu
  <2>1. PowerTypes'
    BY <1>5, <1>t DEF Power!ReadGpu, Power!setting, Power!answer, PowerTypes, Reading
  <2>2. Accounted'
    BY <1>5, <1>t DEF Power!ReadGpu, Power!setting, PowerTypes, Accounted
  <2>3. JoinLasts'
    BY <1>5, <1>t, <1>a, <1>b DEF Power!ReadGpu, Power!setting, PowerTypes, JoinLasts, Reading
  <2>4. Settled'
    BY <1>5, <1>t, <1>u, SettledStays DEF Power!ReadGpu, Reading
  <2> QED
    BY <1>5, <1>a, <2>1, <2>2, <2>3, <2>4 DEF Power!ReadGpu, PowerIInv
<1>6. CASE Power!ReadServer
  <2>1. PowerTypes'
    BY <1>6, <1>t DEF Power!ReadServer, Power!setting, Power!answer, PowerTypes, Reading
  <2>2. Accounted'
    BY <1>6, <1>t DEF Power!ReadServer, Power!setting, PowerTypes, Accounted
  <2>3. JoinLasts'
    BY <1>6, <1>t, <1>a, <1>c DEF Power!ReadServer, Power!setting, PowerTypes, JoinLasts, Reading
  <2>4. Settled'
    BY <1>6, <1>t, <1>u, SettledStays DEF Power!ReadServer, Reading
  <2> QED
    BY <1>6, <2>1, <2>2, <2>3, <2>4 DEF Power!ReadServer, PowerIInv
<1>7. CASE Power!Wake
  <2>1. PowerTypes' /\ Accounted' /\ JoinLasts'
    BY <1>7, <1>t DEF Power!Wake, Power!setting, Power!answer, Power!lists, PowerTypes, Accounted, JoinLasts, Reading
  <2>2. Settled'
    BY <1>7, <1>t, <1>u, SettledStays DEF Power!Wake, Reading
  <2> QED
    BY <1>7, <2>1, <2>2 DEF Power!Wake, PowerIInv
<1>8. CASE Power!Tick
  <2>1. PowerTypes' /\ Accounted'
    BY <1>8, <1>t DEF Power!Tick, Power!setting, Power!answer, Power!lists, PowerTypes, Accounted
  <2>2. ASSUME thread = "gpu", busy < GpuTimeout, busy' = busy + 1 PROVE JoinLasts'
    BY <1>8, <1>t, <1>a, <2>2 DEF Power!Tick, Power!setting, PowerTypes, JoinLasts, Reading
  <2>3. ASSUME thread = "server", busy < ServerTimeout, killable, busy' = busy + 1 PROVE JoinLasts'
    BY <1>8, <1>t, <1>a, <2>3 DEF Power!Tick, Power!setting, PowerTypes, JoinLasts, Reading
  <2>4. ASSUME thread = "server", ~killable PROVE JoinLasts'
    BY <1>8, <1>t, <2>4 DEF Power!Tick, Power!setting, PowerTypes, JoinLasts, Reading
  <2>5. \/ thread = "gpu" /\ busy < GpuTimeout /\ busy' = busy + 1
        \/ thread = "server" /\ busy < ServerTimeout /\ killable /\ busy' = busy + 1
        \/ thread = "server" /\ ~killable
    BY <1>8, <1>t, <1>a DEF Power!Tick, Power!Overdue, PowerTypes
  <2>6. JoinLasts'
    BY <2>2, <2>3, <2>4, <2>5
  <2>7. Settled'
    BY <1>8, <1>t, SettledStays DEF Power!Tick
  <2>8. (thread' = "gpu" => busy' <= GpuTimeout) /\ (killable' /\ thread' = "server" => busy' <= ServerTimeout)
    BY <1>8, <1>t, <1>a, <2>5 DEF Power!Tick, Power!setting, PowerTypes
  <2> QED
    BY <2>1, <2>6, <2>7, <2>8 DEF PowerIInv
<1>9. CASE UNCHANGED powerVars
  <2>1. Settled'
    BY <1>9, <1>t, SettledStays DEF powerVars, Power!setting, Power!answer, Power!lists
  <2> QED
    BY <1>9, <1>t, <1>b, <1>c, <2>1 DEF powerVars, PowerIInv, PowerTypes, Accounted, JoinLasts
<1> QED
  BY <1>1, <1>2, <1>3, <1>4, <1>5, <1>6, <1>7, <1>8, <1>9 DEF Power!Next

LEMMA PowerImplies == PowerIInv => Power!SummarySettled
BY DEF PowerIInv, Settled, Power!SummarySettled

\* A sample has one reading of a kind, and the one under way is not counted yet.
SamplesTaken ==
    /\ samples <= MaxSamples
    /\ gpu + (IF thread = "gpu" THEN 1 ELSE 0) <= samples
    /\ wall + (IF thread \in {"gpu", "server"} THEN 1 ELSE 0) <= samples

LEMMA SamplesTakenInit == Power!Init => SamplesTaken
BY SessionAssumption DEF Power!Init, SamplesTaken

LEMMA SamplesTakenStep == PowerIInv /\ SamplesTaken /\ [Power!Next]_powerVars => SamplesTaken'
<1> SUFFICES ASSUME PowerIInv, SamplesTaken, [Power!Next]_powerVars PROVE SamplesTaken'
  OBVIOUS
<1>1. PICK s \in Nat, g \in Nat, w \in Nat : s = samples /\ g = gpu /\ w = wall
  BY DEF PowerIInv, PowerTypes
<1>2. MaxSamples \in Nat
  BY SessionAssumption
<1>3. CASE Power!Loop
  BY <1>1, <1>2, <1>3 DEF Power!Loop, SamplesTaken
<1>4. CASE Power!ReadGpu
  BY <1>1, <1>2, <1>4 DEF Power!ReadGpu, SamplesTaken
<1>5. CASE Power!ReadServer
  BY <1>1, <1>2, <1>5 DEF Power!ReadServer, SamplesTaken
<1>6. CASE Power!Start \/ Power!Wake
  BY <1>1, <1>2, <1>6 DEF Power!Start, Power!Wake, Power!lists, SamplesTaken
<1>7. CASE Power!Stop \/ Power!StopReturns \/ Power!Tick \/ UNCHANGED powerVars
  BY <1>7 DEF Power!Stop, Power!StopReturns, Power!Tick, Power!lists, powerVars, SamplesTaken
<1> QED
  BY <1>3, <1>4, <1>5, <1>6, <1>7 DEF Power!Next

LEMMA PowerTypesImply == PowerIInv /\ SamplesTaken => Power!TypeOK
<1> SUFFICES ASSUME PowerIInv, SamplesTaken PROVE Power!TypeOK
  OBVIOUS
<1>1. PICK s \in Nat, g \in Nat, w \in Nat : s = samples /\ g = gpu /\ w = wall
  BY DEF PowerIInv, PowerTypes
<1>2. gpu <= samples /\ wall <= samples
  BY <1>1 DEF SamplesTaken
<1> QED
  BY <1>2 DEF SamplesTaken, PowerIInv, PowerTypes, Reading, Power!TypeOK

-----------------------------------------------------------------------------
(* AgentxInstall: the marker is away from the first step to the last, and  *)
(* each step leaves what the steps before it made.                         *)

Checkouts == [git : BOOLEAN, ref : Refs \union {"none"}, sparse : BOOLEAN]
Venvs == [dir : BOOLEAN, aiperf : BOOLEAN, built : Refs \union {"none"}]

InstallTypes ==
    /\ wanted \in Refs /\ marker \in Refs \union {"none", "torn"}
    /\ harness \in Checkouts /\ inferencex \in Checkouts /\ venv \in Venvs

\* How far install has come.
Progress ==
    /\ installPc \in {"clone", "sparse", "checkout", "rmtree", "venv", "pip", "marker"} => harness.ref = wanted
    /\ installPc \in {"rmtree", "venv", "pip", "marker"} => inferencex.ref = wanted
    /\ installPc = "marker" => venv.built = wanted
    /\ installPc \notin {"out", "unlink"} => marker = "none"

\* A marker tells the truth, whoever wanted what it names.
MarkerTrue ==
    marker \in Refs => harness.ref = marker /\ inferencex.ref = marker /\ venv.built = marker

InstallIInv == InstallTypes /\ Progress /\ MarkerTrue

LEMMA InstallInit == Agentx!Init => InstallIInv
<1> SUFFICES ASSUME Agentx!Init PROVE InstallIInv
  OBVIOUS
<1>1. InstallTypes
  BY DEF Agentx!Init, Agentx!NoRef, Agentx!NoCheckout, Agentx!NoVenv, InstallTypes, Checkouts, Venvs
<1>2. marker \notin Refs /\ installPc = "out"
  BY SessionAssumption DEF Agentx!Init, Agentx!NoRef
<1> QED
  BY <1>1, <1>2 DEF InstallIInv, Progress, MarkerTrue

\* Fields of a checkout or a venv that a step sets.
LEMMA FieldsSet ==
    /\ \A c \in Checkouts :
          /\ [c EXCEPT !.git = TRUE] \in Checkouts /\ [c EXCEPT !.git = TRUE].ref = c.ref
          /\ [c EXCEPT !.sparse = TRUE] \in Checkouts /\ [c EXCEPT !.sparse = TRUE].ref = c.ref
    /\ \A v \in Venvs : [v EXCEPT !.aiperf = TRUE] \in Venvs /\ [v EXCEPT !.aiperf = TRUE].built = v.built
    /\ Agentx!NoCheckout \in Checkouts /\ Agentx!NoVenv \in Venvs
    /\ [Agentx!NoCheckout EXCEPT !.git = TRUE] \in Checkouts
    /\ [Agentx!NoVenv EXCEPT !.dir = TRUE] \in Venvs
BY DEF Checkouts, Venvs, Agentx!NoCheckout, Agentx!NoVenv, Agentx!NoRef

LEMMA InstallStep == InstallIInv /\ [Agentx!Next]_installVars => InstallIInv'
<1> SUFFICES ASSUME InstallIInv, [Agentx!Next]_installVars PROVE InstallIInv'
  OBVIOUS
<1>t. InstallTypes /\ Progress /\ MarkerTrue
  BY DEF InstallIInv
<1>n. "none" \notin Refs /\ "torn" \notin Refs
  BY SessionAssumption
<1>1. CASE Agentx!Install \/ Agentx!Unlink
  BY <1>1, <1>t, <1>n DEF Agentx!Install, Agentx!Unlink, Agentx!Raise, Agentx!Goto, Agentx!disk, Agentx!NoRef,
     InstallIInv, InstallTypes, Progress, MarkerTrue
<1>2. CASE Agentx!HarnessCheckout
  <2>1. UNCHANGED <<wanted, marker, inferencex, venv>> /\ installPc = "harness"
        /\ harness' \in Checkouts /\ installPc' \in {"clone", "out"} /\ (installPc' = "clone" => harness'.ref = wanted)
    <3>1. \/ harness' = [harness EXCEPT !.git = TRUE, !.ref = wanted] /\ installPc' = "clone"
          \/ harness' = [harness EXCEPT !.git = TRUE] /\ installPc' = "out"
          \/ UNCHANGED harness /\ installPc' = "out"
      BY <1>2 DEF Agentx!HarnessCheckout, Agentx!Raise, Agentx!Goto
    <3>2. harness \in Checkouts /\ wanted \in Refs
      BY <1>t DEF InstallTypes
    <3> QED
      BY <1>2, <3>1, <3>2 DEF Agentx!HarnessCheckout, Checkouts
  <2> QED
    BY <1>t, <1>n, <2>1 DEF InstallIInv, InstallTypes, Progress, MarkerTrue
<1>3. CASE Agentx!Clone \/ Agentx!LimitSparse
  <2>1. UNCHANGED <<wanted, marker, harness, venv>> /\ installPc \in {"clone", "sparse"}
        /\ inferencex' \in Checkouts /\ installPc' \in {"sparse", "checkout", "out"}
    BY <1>3, <1>t, FieldsSet DEF Agentx!Clone, Agentx!LimitSparse, Agentx!Raise, Agentx!Goto, InstallTypes
  <2> QED
    BY <1>t, <1>n, <2>1 DEF InstallIInv, InstallTypes, Progress, MarkerTrue
<1>4. CASE Agentx!Checkout
  <2>1. UNCHANGED <<wanted, marker, harness, venv>> /\ installPc = "checkout"
        /\ inferencex' \in Checkouts /\ installPc' \in {"rmtree", "out"} /\ (installPc' = "rmtree" => inferencex'.ref = wanted)
    <3>1. \/ inferencex' = [inferencex EXCEPT !.ref = wanted] /\ installPc' = "rmtree"
          \/ UNCHANGED inferencex /\ installPc' = "out"
      BY <1>4 DEF Agentx!Checkout, Agentx!Raise, Agentx!Goto
    <3>2. inferencex \in Checkouts /\ wanted \in Refs
      BY <1>t DEF InstallTypes
    <3> QED
      BY <1>4, <3>1, <3>2 DEF Agentx!Checkout, Checkouts
  <2> QED
    BY <1>t, <1>n, <2>1 DEF InstallIInv, InstallTypes, Progress, MarkerTrue
<1>5. CASE Agentx!RemoveVenv \/ Agentx!CreateVenv
  <2>1. UNCHANGED <<wanted, marker, harness, inferencex>> /\ installPc \in {"rmtree", "venv"}
        /\ venv' \in Venvs /\ installPc' \in {"venv", "pip", "out"}
    BY <1>5, <1>t, FieldsSet DEF Agentx!RemoveVenv, Agentx!CreateVenv, Agentx!Raise, Agentx!Goto, InstallTypes
  <2> QED
    BY <1>t, <1>n, <2>1 DEF InstallIInv, InstallTypes, Progress, MarkerTrue
<1>6. CASE Agentx!PipInstall
  <2>1. UNCHANGED <<wanted, marker, harness, inferencex>> /\ installPc = "pip" /\ harness.ref = wanted
    BY <1>6, <1>t DEF Agentx!PipInstall, Progress
  <2>2. venv' \in Venvs /\ installPc' \in {"marker", "out"} /\ (installPc' = "marker" => venv'.built = wanted)
    <3>1. \/ venv' = [venv EXCEPT !.aiperf = TRUE, !.built = harness.ref] /\ installPc' = "marker"
          \/ venv' = [venv EXCEPT !.aiperf = TRUE] /\ installPc' = "out"
          \/ UNCHANGED venv /\ installPc' = "out"
      BY <1>6 DEF Agentx!PipInstall, Agentx!Raise, Agentx!Goto
    <3>2. venv \in Venvs /\ wanted \in Refs
      BY <1>t DEF InstallTypes
    <3> QED
      BY <2>1, <3>1, <3>2 DEF Venvs
  <2> QED
    BY <1>t, <1>n, <2>1, <2>2 DEF InstallIInv, InstallTypes, Progress, MarkerTrue
<1>7. CASE Agentx!WriteMarker
  BY <1>7, <1>t, <1>n DEF Agentx!WriteMarker, InstallIInv, InstallTypes, Progress, MarkerTrue
<1>8. CASE Agentx!NewProcess
  <2>1. /\ wanted' \in Refs /\ installPc' = "out" /\ UNCHANGED harness
        /\ marker' = marker \/ marker' = "torn"
        /\ inferencex' = inferencex \/ (installPc = "clone" /\ inferencex' = [inferencex EXCEPT !.git = TRUE])
        /\ venv' = venv \/ (installPc = "pip" /\ venv' = [venv EXCEPT !.aiperf = TRUE])
    BY <1>8 DEF Agentx!NewProcess
  <2>2. InstallTypes'
    BY <1>t, <2>1, FieldsSet DEF InstallTypes
  <2>3. inferencex'.ref = inferencex.ref /\ venv'.built = venv.built
    BY <1>t, <2>1, FieldsSet DEF InstallTypes
  <2> QED
    BY <1>t, <1>n, <2>1, <2>2, <2>3 DEF InstallIInv, Progress, MarkerTrue
<1>9. CASE UNCHANGED installVars
  BY <1>9 DEF installVars, InstallIInv, InstallTypes, Progress, MarkerTrue
<1> QED
  BY <1>1, <1>2, <1>3, <1>4, <1>5, <1>6, <1>7, <1>8, <1>9 DEF Agentx!Next

LEMMA InstallImplies == InstallIInv => Agentx!InstalledIsWhole
BY DEF InstallIInv, InstallTypes, MarkerTrue, Agentx!InstalledIsWhole, Agentx!IsInstalled

\* The types of an install are its invariant's.
LEMMA InstallTypesImply == InstallIInv => Agentx!TypeOK
BY DEF InstallIInv, InstallTypes, Checkouts, Agentx!TypeOK, Agentx!NoRef

-----------------------------------------------------------------------------
(* BenchmarkRuns: what is there to be parsed is a command's that succeeded *)
(* or was rescued, and a stop that ended the command is still to be seen   *)
(* when it is judged.                                                      *)

RunTypes ==
    /\ kind \in {"agentx", "inferencex", "nccl"} /\ runPc \in {"idle", "command", "check", "parse"}
    /\ run \in Nat /\ export.of \in 0..run /\ scores \in 0..run /\ plots \in 0..run
    /\ stream.stdout \in {0, run} /\ stream.stderr \in {0, run}
    /\ success \in BOOLEAN

RunIInv ==
    /\ RunTypes
    /\ runPc \in {"check", "parse"} => (stopped => cancelled)
    /\ runPc = "parse" /\ ~success => kind = "agentx" /\ ~stopped
    /\ runOutcome.status = "completed" => runPc = "idle"
    /\ Benchmarks!ResultsAreOwn

LEMMA RunInit == Benchmarks!Init => RunIInv
<1> SUFFICES ASSUME Benchmarks!Init PROVE RunIInv
  OBVIOUS
<1>1. RunTypes
  <2>1. /\ run = 0 /\ scores = 0 /\ plots = 0 /\ success = FALSE /\ runPc = "idle"
        /\ export.of = 0 /\ stream.stdout = 0 /\ stream.stderr = 0
        /\ kind \in {"agentx", "inferencex", "nccl"}
    BY DEF Benchmarks!Init, Benchmarks!Silent
  <2>2. 0 \in 0..run /\ run \in Nat
    BY <2>1
  <2>3. success \in BOOLEAN
    BY <2>1, Zenon
  <2> QED
    BY <2>1, <2>2, <2>3, Zenon DEF RunTypes
<1>2. runOutcome.status # "completed" /\ runPc = "idle"
  BY DEF Benchmarks!Init, Benchmarks!None
<1> QED
  BY <1>1, <1>2 DEF RunIInv, Benchmarks!ResultsAreOwn

LEMMA RunEnded ==
    /\ Benchmarks!None.status # "completed"
    /\ \A s : Benchmarks!Ended(s).status = s /\ Benchmarks!Ended(s).scored = 0 /\ Benchmarks!Ended(s).plotted = 0
    /\ \A s, n : LET o == [Benchmarks!Ended(s) EXCEPT !.of = n]
                 IN  o.status = s /\ o.of = n /\ o.scored = 0 /\ o.plotted = 0
BY DEF Benchmarks!None, Benchmarks!Ended

LEMMA RunStep == RunIInv /\ [Benchmarks!Next]_runVars => RunIInv'
<1> SUFFICES ASSUME RunIInv, [Benchmarks!Next]_runVars PROVE RunIInv'
  OBVIOUS
<1>t. RunTypes
  BY DEF RunIInv
<1>1. CASE Benchmarks!Start
  <2>1. RunTypes'
    BY <1>1, <1>t DEF Benchmarks!Start, Benchmarks!directory, Benchmarks!Silent, RunTypes
  <2>2. runOutcome'.status # "completed" /\ runPc' = "command"
    BY <1>1, RunEnded DEF Benchmarks!Start
  <2> QED
    BY <2>1, <2>2 DEF RunIInv, Benchmarks!ResultsAreOwn
<1>2. CASE Benchmarks!Stop
  BY <1>2 DEF Benchmarks!Stop, Benchmarks!directory, RunIInv, RunTypes, Benchmarks!ResultsAreOwn
<1>3. CASE Benchmarks!Command
  <2>1. /\ runPc = "command" /\ runPc' = "check" /\ stopped' = cancelled /\ success' \in BOOLEAN
        /\ UNCHANGED <<kind, run, scores, plots, cancelled, runOutcome>>
    BY <1>3 DEF Benchmarks!Command
  <2>2. export' = export \/ export'.of = run
    <3>1. Benchmarks!Writes => UNCHANGED export \/ \E t \in BOOLEAN : export' = [of |-> run, torn |-> t]
      BY <1>t DEF Benchmarks!Writes, RunTypes
    <3> QED
      BY <1>3, <3>1 DEF Benchmarks!Command
  <2>3. stream'.stdout \in {0, run} /\ stream'.stderr \in {0, run}
    <3>1. stream.stdout \in {0, run} /\ stream.stderr \in {0, run}
      BY <1>t DEF RunTypes
    <3>2. CASE UNCHANGED stream
      BY <3>1, <3>2
    <3>3. CASE stream' \in [stdout : {0, run}, stderr : {0, run}]
      BY <3>3
    <3>4. CASE stream' = Benchmarks!Silent \/ stream' = [Benchmarks!Silent EXCEPT !.stdout = run]
      BY <3>4 DEF Benchmarks!Silent
    <3> QED
      BY <1>3, <1>t, <3>2, <3>3, <3>4 DEF Benchmarks!Command, Benchmarks!Writes, RunTypes
  <2>4. RunTypes'
    BY <1>t, <2>1, <2>2, <2>3 DEF RunTypes
  <2>5. runOutcome'.status # "completed"
    BY <2>1 DEF RunIInv
  <2> QED
    BY <2>1, <2>4, <2>5 DEF RunIInv, Benchmarks!ResultsAreOwn
<1>4. CASE Benchmarks!Check
  <2>1. runPc = "check" /\ UNCHANGED <<kind, run, export, stream, success, cancelled, stopped, commandResult, scores, plots>>
    BY <1>4 DEF Benchmarks!Check, Benchmarks!Settle
  <2>2. RunTypes'
    BY <1>4, <1>t, <2>1 DEF RunTypes, Benchmarks!Check, Benchmarks!Settle
  <2>3. CASE success \/ (Benchmarks!Rescued /\ ~Benchmarks!Stopped)
    <3>1. runPc' = "parse" /\ UNCHANGED runOutcome
      BY <1>4, <2>3 DEF Benchmarks!Check
    <3>2. ~success => kind = "agentx" /\ ~stopped
      BY <2>1, <2>3 DEF RunIInv, Benchmarks!Rescued, Benchmarks!Stopped
    <3> QED
      BY <2>1, <2>2, <3>1, <3>2 DEF RunIInv, Benchmarks!ResultsAreOwn
  <2>4. CASE ~(success \/ (Benchmarks!Rescued /\ ~Benchmarks!Stopped))
    <3>1. runPc' = "idle" /\ runOutcome'.status # "completed"
      BY <1>4, <2>4, RunEnded DEF Benchmarks!Check, Benchmarks!Settle
    <3> QED
      BY <2>2, <3>1 DEF RunIInv, Benchmarks!ResultsAreOwn
  <2> QED
    BY <2>3, <2>4
<1>p. runPc = "parse" => (~success => kind = "agentx" /\ ~stopped)
  BY DEF RunIInv
<1>5. CASE Benchmarks!ParseAgentx
  <2>1. runPc = "parse" /\ runPc' = "idle" /\ kind = "agentx"
        /\ UNCHANGED <<kind, run, export, stream, success, cancelled, stopped, commandResult>>
        /\ scores' \in {scores, run} /\ plots' \in {plots, run}
    BY <1>5 DEF Benchmarks!ParseAgentx, Benchmarks!Settle
  <2>2. RunTypes'
    BY <1>t, <2>1 DEF RunTypes
  <2>3. CASE ~Benchmarks!Exported \/ export.torn
    <3>1. runOutcome'.status # "completed"
      BY <1>5, <2>3, RunEnded DEF Benchmarks!ParseAgentx, Benchmarks!Settle
    <3> QED
      BY <2>1, <2>2, <3>1 DEF RunIInv, Benchmarks!ResultsAreOwn
  <2>4. CASE ~(~Benchmarks!Exported \/ export.torn)
    <3>1. /\ runOutcome'.of = export.of /\ runOutcome'.scored \in {0, scores'} /\ runOutcome'.plotted = plots'
          /\ runOutcome'.exitError = ~success /\ export.of # 0
      BY <1>5, <2>4 DEF Benchmarks!ParseAgentx, Benchmarks!Exported
    <3>2. run = 1 => {runOutcome'.of, runOutcome'.scored, runOutcome'.plotted} \subseteq {0, run}
      BY <1>t, <2>1, <3>1 DEF RunTypes
    <3>3. Benchmarks!ResultsAreOwn'
      BY <1>p, <2>1, <3>1, <3>2 DEF Benchmarks!ResultsAreOwn
    <3> QED
      BY <2>1, <2>2, <3>3 DEF RunIInv
  <2> QED
    BY <2>3, <2>4
<1>6. CASE Benchmarks!ParseInferencex
  <2>1. runPc = "parse" /\ runPc' = "idle" /\ kind = "inferencex"
        /\ UNCHANGED <<kind, run, export, stream, success, cancelled, stopped, commandResult, scores, plots>>
    BY <1>6 DEF Benchmarks!ParseInferencex, Benchmarks!Settle
  <2>2. RunTypes'
    BY <1>t, <2>1 DEF RunTypes
  <2>3. \/ runOutcome'.status # "completed"
        \/ /\ stream.stdout # 0 /\ runOutcome'.of = stream.stdout
           /\ runOutcome'.scored = 0 /\ runOutcome'.plotted = 0
    <3>1. CASE stream.stdout = 0
      BY <1>6, <3>1, RunEnded DEF Benchmarks!ParseInferencex, Benchmarks!Settle
    <3>2. CASE stream.stdout # 0
      <4>1. runOutcome' = [Benchmarks!Ended("completed") EXCEPT !.of = stream.stdout]
        BY <1>6, <3>2 DEF Benchmarks!ParseInferencex, Benchmarks!Settle
      <4> QED
        BY <3>2, <4>1, RunEnded
    <3> QED
      BY <3>1, <3>2
  <2>4. Benchmarks!ResultsAreOwn'
    BY <1>t, <1>p, <2>1, <2>3 DEF Benchmarks!ResultsAreOwn, RunTypes
  <2> QED
    BY <2>1, <2>2, <2>4 DEF RunIInv
<1>7. CASE Benchmarks!ParseNccl
  <2>1. runPc = "parse" /\ runPc' = "idle" /\ kind = "nccl"
        /\ UNCHANGED <<kind, run, export, stream, success, cancelled, stopped, commandResult, scores, plots>>
    BY <1>7 DEF Benchmarks!ParseNccl, Benchmarks!Settle
  <2>2. RunTypes'
    BY <1>t, <2>1 DEF RunTypes
  <2>3. runOutcome'.of \in {stream.stdout, stream.stderr} /\ runOutcome'.scored = 0 /\ runOutcome'.plotted = 0
    BY <1>7, RunEnded DEF Benchmarks!ParseNccl, Benchmarks!Settle
  <2>4. Benchmarks!ResultsAreOwn'
    BY <1>t, <1>p, <2>1, <2>3 DEF Benchmarks!ResultsAreOwn, RunTypes
  <2> QED
    BY <2>1, <2>2, <2>4 DEF RunIInv
<1>8. CASE UNCHANGED runVars
  BY <1>8 DEF runVars, RunIInv, RunTypes, Benchmarks!ResultsAreOwn
<1> QED
  BY <1>1, <1>2, <1>3, <1>4, <1>5, <1>6, <1>7, <1>8 DEF Benchmarks!Next

\* The streams are a record, with what RunTypes says of its fields.
StreamTypes == stream \in [stdout : Nat, stderr : Nat]

LEMMA StreamTypesInit == Benchmarks!Init => StreamTypes
BY DEF Benchmarks!Init, Benchmarks!Silent, StreamTypes

LEMMA StreamTypesStep == RunIInv /\ StreamTypes /\ [Benchmarks!Next]_runVars => StreamTypes'
<1> SUFFICES ASSUME RunIInv, StreamTypes, [Benchmarks!Next]_runVars PROVE StreamTypes'
  OBVIOUS
<1>1. run \in Nat /\ Benchmarks!Silent \in [stdout : Nat, stderr : Nat]
  BY DEF RunIInv, RunTypes, Benchmarks!Silent
<1>2. [Benchmarks!Silent EXCEPT !.stdout = run] \in [stdout : Nat, stderr : Nat]
  BY <1>1
<1>3. CASE Benchmarks!Command
  <2>1. kind \in {"agentx", "inferencex", "nccl"}
    BY DEF RunIInv, RunTypes
  <2>2. CASE stream' = stream
    BY <2>2 DEF StreamTypes
  <2>3. CASE stream' \in [stdout : {0, run}, stderr : {0, run}]
    BY <1>1, <2>3 DEF StreamTypes
  <2>4. CASE stream' \in {Benchmarks!Silent, [Benchmarks!Silent EXCEPT !.stdout = run]}
    BY <1>1, <1>2, <2>4 DEF StreamTypes
  <2> QED
    BY <1>3, <2>1, <2>2, <2>3, <2>4 DEF Benchmarks!Command, Benchmarks!Writes
<1>4. CASE ~Benchmarks!Command
  <2>1. stream' = stream \/ stream' = Benchmarks!Silent
    BY <1>4 DEF Benchmarks!Next, Benchmarks!Start, Benchmarks!Stop, Benchmarks!Check, Benchmarks!ParseAgentx,
       Benchmarks!ParseInferencex, Benchmarks!ParseNccl, runVars
  <2> QED
    BY <1>1, <2>1 DEF StreamTypes
<1> QED
  BY <1>3, <1>4

LEMMA RunTypesImply == RunIInv /\ StreamTypes => Benchmarks!TypeOK
<1> SUFFICES ASSUME RunIInv, StreamTypes PROVE Benchmarks!TypeOK
  OBVIOUS
<1>1. /\ run \in Nat /\ export.of \in 0..run /\ scores \in 0..run /\ plots \in 0..run
      /\ stream.stdout \in {0, run} /\ stream.stderr \in {0, run}
  BY DEF RunIInv, RunTypes
<1>2. stream \in [stdout : 0..run, stderr : 0..run]
  BY <1>1 DEF StreamTypes
<1> QED
  BY <1>1, <1>2 DEF Benchmarks!TypeOK

-----------------------------------------------------------------------------
(* EnvironmentCheck: a directory's entries are looked up once, so that     *)
(* what a target adds is what applies of its own entries.                  *)

Entries == [name : VariableNames, required : BOOLEAN, usedBy : SUBSET Fixtures]

EnvTypes ==
    /\ fromFile \in Files /\ declared \in [Directories -> SUBSET Entries]
    /\ \A t \in targets : t.entries \subseteq Entries

\* A directory that was used has the entries it had at first, of which the scoped ones are kept.
DirectoriesKnown ==
    /\ \A t, u \in targets : t.directory = u.directory => t.entries = u.entries
    /\ \A t \in targets : t.directory \in DOMAIN scoped
    /\ \A d \in DOMAIN scoped : \E t \in targets : t.directory = d
    /\ \A t \in targets : scoped[t.directory] = {e \in t.entries : e.usedBy # {}}

\* The entries that apply, and what they make of a variable.
Applying == {e \in Env!AllEntries : Env!Applies(e)}
Named(listing, n) == {e \in listing : e.name = n}
SelectedBy ==
    \A n \in VariableNames :
        /\ selected[n] = "no" <=> Named(Applying, n) = {}
        /\ selected[n] = "required" <=> \E e \in Named(Applying, n) : e.required
        /\ selected[n] \in {"no", "optional", "required"}

EnvIInv == EnvTypes /\ DirectoriesKnown /\ SelectedBy

LEMMA EnvInit == Env!Init => EnvIInv
<1> SUFFICES ASSUME Env!Init PROVE EnvIInv
  OBVIOUS
<1>1. targets = {} /\ DOMAIN scoped = {}
  BY DEF Env!Init
<1>2. Applying = {}
  BY <1>1 DEF Applying, Env!AllEntries
<1>3. SelectedBy
  BY <1>2 DEF Env!Init, SelectedBy, Named
<1>4. EnvTypes
  BY <1>1 DEF Env!Init, EnvTypes
<1> QED
  BY <1>1, <1>3, <1>4 DEF EnvIInv, DirectoriesKnown

\* An entry applies when a target that has it is of its kind.
LEMMA ApplyingIs ==
    ASSUME NEW e
    PROVE  e \in Applying <=> \E t \in targets : e \in t.entries /\ (e.usedBy = {} \/ e.usedBy \intersect t.names # {})
BY DEF Applying, Env!AllEntries, Env!Applies

LEMMA UseAdds ==
    ASSUME EnvIInv, Env!Use
    PROVE  /\ EnvTypes' /\ DirectoriesKnown'
           /\ \E added : selected' = Env!Select(added) /\ Applying' = Applying \union added
<1>t. EnvTypes /\ DirectoriesKnown
  BY DEF EnvIInv
<1>1. PICK d \in Directories, names \in SUBSET Fixtures :
          LET first == d \notin DOMAIN scoped
              listing == Env!EntriesOf(d)
              its == IF first THEN {e \in listing : e.usedBy # {}} ELSE scoped[d]
              plain == IF first THEN listing \ its ELSE {}
          IN  /\ scoped' = [w \in DOMAIN scoped \union {d} |-> IF w = d THEN its ELSE scoped[w]]
              /\ selected' = Env!Select(plain \union {e \in its : e.usedBy \intersect names # {}})
              /\ targets' = targets \union
                    {[names |-> names,
                      entries |-> IF first THEN listing ELSE (CHOOSE t \in targets : t.directory = d).entries,
                      directory |-> d]}
  BY DEF Env!Use
<1> DEFINE first == d \notin DOMAIN scoped
<1> DEFINE old == (CHOOSE t \in targets : t.directory = d).entries
<1> DEFINE listing == IF first THEN Env!EntriesOf(d) ELSE old
<1> DEFINE its == {e \in listing : e.usedBy # {}}
<1> DEFINE plain == IF first THEN listing \ its ELSE {}
<1> DEFINE added == plain \union {e \in its : e.usedBy \intersect names # {}}
<1> DEFINE target == [names |-> names, entries |-> listing, directory |-> d]
<1>2. ~first => /\ \E t \in targets : t.directory = d /\ t.entries = old
                /\ \A t \in targets : t.directory = d => t.entries = old
                /\ scoped[d] = {e \in old : e.usedBy # {}}
  BY <1>t DEF DirectoriesKnown
<1>3. /\ scoped' = [w \in DOMAIN scoped \union {d} |-> IF w = d THEN its ELSE scoped[w]]
      /\ selected' = Env!Select(added)
      /\ targets' = targets \union {target}
  BY <1>1, <1>2
<1>4. Env!EntriesOf(d) \subseteq Entries
  <2>1. fromFile \in [Directories -> SUBSET Entries] /\ Parents[d] \subseteq Directories
    BY <1>t, SessionAssumption DEF EnvTypes, Entries
  <2>2. declared[d] \subseteq Entries
    BY <1>t DEF EnvTypes
  <2>3. \A w \in {d} \union Parents[d] : fromFile[w] \subseteq Entries
    BY <2>1
  <2>4. UNION {fromFile[w] : w \in {d} \union Parents[d]} \subseteq Entries
    BY <2>3, Zenon
  <2>5. Env!EntriesOf(d) = (UNION {fromFile[w] : w \in {d} \union Parents[d]}) \union declared[d]
    BY DEF Env!EntriesOf
  <2>6. \A S, T : S \subseteq Entries /\ T \subseteq Entries => S \union T \subseteq Entries
    OBVIOUS
  <2> QED
    BY <2>2, <2>4, <2>5, <2>6
<1>5. listing \subseteq Entries
  BY <1>t, <1>2, <1>4 DEF EnvTypes
<1>6. EnvTypes'
  BY <1>t, <1>3, <1>5 DEF EnvTypes, Env!Use
<1>7. target.names = names /\ target.entries = listing /\ target.directory = d
  OBVIOUS
<1> HIDE DEF target, listing, its, plain, old
<1>8. first => \A t \in targets : t.directory # d
  BY <1>t DEF DirectoriesKnown
<1>9. ~first => listing = old
  BY DEF listing
<1>10. DirectoriesKnown'
  <2>1. \A t, u \in targets' : t.directory = u.directory => t.entries = u.entries
    BY <1>t, <1>2, <1>3, <1>7, <1>8, <1>9 DEF DirectoriesKnown
  <2>2. \A t \in targets' : t.directory \in DOMAIN scoped'
    BY <1>t, <1>3, <1>7 DEF DirectoriesKnown
  <2>3. \A w \in DOMAIN scoped' : \E t \in targets' : t.directory = w
    BY <1>t, <1>3, <1>7 DEF DirectoriesKnown
  <2>4. \A t \in targets' : scoped'[t.directory] = {e \in t.entries : e.usedBy # {}}
    <3>1. ASSUME NEW t \in targets
          PROVE  scoped'[t.directory] = {e \in t.entries : e.usedBy # {}}
      <4>1. t.directory \in DOMAIN scoped /\ scoped[t.directory] = {e \in t.entries : e.usedBy # {}}
        BY <1>t DEF DirectoriesKnown
      <4>2. t.directory = d => t.entries = listing
        BY <1>2, <1>8, <1>9
      <4> QED
        BY <1>3, <4>1, <4>2 DEF its
    <3>2. scoped'[target.directory] = {e \in target.entries : e.usedBy # {}}
      BY <1>3, <1>7 DEF its
    <3> QED
      BY <1>3, <3>1, <3>2
  <2> QED
    BY <2>1, <2>2, <2>3, <2>4 DEF DirectoriesKnown
<1>11. \A e : e \in Applying' <=> e \in Applying \/ (e \in listing /\ (e.usedBy = {} \/ e.usedBy \intersect names # {}))
  BY <1>3, <1>7 DEF Applying, Env!AllEntries, Env!Applies
<1>12. \A e \in listing : e.usedBy = {} /\ ~first => e \in Applying
  BY <1>2, <1>9, ApplyingIs
<1>13. \A e : e \in added <=> e \in listing /\ ((first /\ e.usedBy = {}) \/ (e.usedBy # {} /\ e.usedBy \intersect names # {}))
  BY DEF plain, its
<1>14. \A e : e \in Applying' <=> e \in Applying \/ e \in added
  BY <1>11, <1>12, <1>13
<1>15. Applying' = Applying \union added
  BY <1>14
<1> QED
  BY <1>3, <1>6, <1>10, <1>15

LEMMA EnvStep == EnvIInv /\ [Env!Next]_environmentVars => EnvIInv'
<1> SUFFICES ASSUME EnvIInv, [Env!Next]_environmentVars PROVE EnvIInv'
  OBVIOUS
<1>t. EnvTypes /\ DirectoriesKnown /\ SelectedBy
  BY DEF EnvIInv
<1>1. CASE Env!Use
  <2>1. EnvTypes' /\ DirectoriesKnown'
    BY <1>1, UseAdds
  <2>2. PICK added : selected' = Env!Select(added) /\ Applying' = Applying \union added
    BY <1>1, UseAdds
  <2>3. ASSUME NEW n \in VariableNames
        PROVE  /\ selected'[n] = "no" <=> Named(Applying', n) = {}
               /\ selected'[n] = "required" <=> \E e \in Named(Applying', n) : e.required
               /\ selected'[n] \in {"no", "optional", "required"}
    <3> DEFINE its == Named(added, n)
    <3>1. Named(Applying', n) = Named(Applying, n) \union its
      BY <2>2 DEF Named
    <3>2. selected'[n] = CASE its = {} \/ selected[n] = "required" -> selected[n]
                           [] \E e \in its : e.required -> "required"
                           [] OTHER -> "optional"
      BY <2>2 DEF Env!Select, Named
    <3>3. /\ selected[n] = "no" <=> Named(Applying, n) = {}
          /\ selected[n] = "required" <=> \E e \in Named(Applying, n) : e.required
          /\ selected[n] \in {"no", "optional", "required"}
      BY <1>t DEF SelectedBy
    <3> HIDE DEF its
    <3>4. CASE its = {} \/ selected[n] = "required"
      BY <3>1, <3>2, <3>3, <3>4
    <3>5. CASE its # {} /\ selected[n] # "required" /\ \E e \in its : e.required
      BY <3>1, <3>2, <3>3, <3>5
    <3>6. CASE its # {} /\ selected[n] # "required" /\ ~\E e \in its : e.required
      BY <3>1, <3>2, <3>3, <3>6
    <3> QED
      BY <3>4, <3>5, <3>6
  <2>4. SelectedBy'
    BY <2>3 DEF SelectedBy, Named
  <2> QED
    BY <2>1, <2>4 DEF EnvIInv
<1>2. CASE Env!Declare
  <2>1. UNCHANGED <<fromFile, scoped, selected, targets>> /\ declared' \in [Directories -> SUBSET Entries]
    BY <1>2, <1>t, SessionAssumption DEF Env!Declare, EnvTypes, Entries
  <2>2. Applying' = Applying
    BY <2>1 DEF Applying, Env!AllEntries, Env!Applies
  <2> QED
    BY <1>t, <2>1, <2>2 DEF EnvIInv, EnvTypes, DirectoriesKnown, SelectedBy
<1>3. CASE Env!SetVariable \/ UNCHANGED environmentVars
  <2>1. UNCHANGED <<fromFile, declared, scoped, selected, targets>>
    BY <1>3 DEF Env!SetVariable, environmentVars
  <2>2. Applying' = Applying
    BY <2>1 DEF Applying, Env!AllEntries, Env!Applies
  <2> QED
    BY <1>t, <2>1, <2>2 DEF EnvIInv, EnvTypes, DirectoriesKnown, SelectedBy
<1> QED
  BY <1>1, <1>2, <1>3 DEF Env!Next

LEMMA EnvImplies == EnvIInv => Env!RequiredWins
<1> SUFFICES ASSUME EnvIInv PROVE Env!RequiredWins
  OBVIOUS
<1>1. ASSUME NEW n \in VariableNames
      PROVE  LET its == {e \in Env!AllEntries : e.name = n /\ Env!Applies(e)}
             IN  selected[n] = CASE its = {} -> "no"
                                 [] \E e \in its : e.required -> "required"
                                 [] OTHER -> "optional"
  <2>1. {e \in Env!AllEntries : e.name = n /\ Env!Applies(e)} = Named(Applying, n)
    BY DEF Applying, Named
  <2>2. /\ selected[n] = "no" <=> Named(Applying, n) = {}
        /\ selected[n] = "required" <=> \E e \in Named(Applying, n) : e.required
        /\ selected[n] \in {"no", "optional", "required"}
    BY DEF EnvIInv, SelectedBy
  <2> QED
    BY <2>1, <2>2
<1>2. \A e \in Applying : e.name \in VariableNames
  BY DEF EnvIInv, EnvTypes, Applying, Env!AllEntries, Entries
<1>3. Env!Enforce <=> \E e \in Applying : e.required /\ e.name \notin environment
  <2>1. Env!Enforce <=> \E n \in VariableNames : selected[n] = "required" /\ n \notin environment
    BY DEF Env!Enforce, Env!Missing
  <2>2. \A n \in VariableNames : selected[n] = "required" <=> \E e \in Applying : e.name = n /\ e.required
    BY DEF EnvIInv, SelectedBy, Named
  <2> QED
    BY <1>2, <2>1, <2>2
<1> QED
  BY <1>1, <1>3 DEF Env!RequiredWins, Applying

EnvironmentTypes ==
    /\ environment \subseteq VariableNames
    /\ selected = [n \in VariableNames |-> selected[n]]

LEMMA EnvironmentTypesInit == Env!Init => EnvironmentTypes
BY DEF Env!Init, EnvironmentTypes

LEMMA EnvironmentTypesStep == EnvIInv /\ EnvironmentTypes /\ [Env!Next]_environmentVars => EnvironmentTypes'
<1> SUFFICES ASSUME EnvIInv, EnvironmentTypes, [Env!Next]_environmentVars PROVE EnvironmentTypes'
  OBVIOUS
<1>1. CASE Env!Declare
  BY <1>1 DEF Env!Declare, EnvironmentTypes
<1>2. CASE Env!Use
  <2>1. PICK added : selected' = Env!Select(added)
    BY <1>2, UseAdds
  <2>2. DOMAIN Env!Select(added) = VariableNames /\ Env!Select(added) = [n \in VariableNames |-> Env!Select(added)[n]]
    BY DEF Env!Select
  <2> QED
    BY <1>2, <2>1, <2>2 DEF Env!Use, EnvironmentTypes
<1>3. CASE Env!SetVariable
  BY <1>3 DEF Env!SetVariable, EnvironmentTypes
<1>4. CASE UNCHANGED environmentVars
  BY <1>4 DEF environmentVars, EnvironmentTypes
<1> QED
  BY <1>1, <1>2, <1>3, <1>4 DEF Env!Next

LEMMA EnvironmentTypesImply == EnvIInv /\ EnvironmentTypes => Env!TypeOK
<1> SUFFICES ASSUME EnvIInv, EnvironmentTypes PROVE Env!TypeOK
  OBVIOUS
<1>1. \A n \in VariableNames : selected[n] \in {"no", "optional", "required"}
  BY DEF EnvIInv, SelectedBy
<1>2. selected \in [VariableNames -> {"no", "optional", "required"}]
  BY <1>1 DEF EnvironmentTypes
<1>3. DOMAIN scoped = {t.directory : t \in targets}
  BY ZenonT(40) DEF EnvIInv, DirectoriesKnown
<1> QED
  BY <1>2, <1>3 DEF EnvironmentTypes, Env!TypeOK

-----------------------------------------------------------------------------
(* Division and remainder, which take the SMT solver by steps. *)

LEMMA DivMod ==
    ASSUME NEW n \in Nat, NEW d \in Nat \ {0}
    PROVE  n = d * (n \div d) + (n % d) /\ n \div d \in Nat /\ n % d \in 0..(d - 1)
OBVIOUS

LEMMA RemainderUnique ==
    ASSUME NEW d \in Nat \ {0}, NEW p \in Int, NEW q \in Int, NEW r \in 0..(d - 1), NEW s \in 0..(d - 1),
           d * p + r = d * q + s
    PROVE  r = s
<1>1. d * (p - q) = s - r
  OBVIOUS
<1>2. p - q >= 1 => d * (p - q) >= d
  OBVIOUS
<1>3. p - q <= -1 => d * (p - q) <= -d
  OBVIOUS
<1> QED
  BY <1>1, <1>2, <1>3

LEMMA RemainderNext ==
    ASSUME NEW n \in Nat, NEW d \in Nat \ {0}
    PROVE  (n + 1) % d = IF (n % d) + 1 = d THEN 0 ELSE (n % d) + 1
<1> DEFINE p == n \div d
           q == (n + 1) \div d
           r == n % d
           s == (n + 1) % d
<1>1. n = d * p + r /\ p \in Nat /\ r \in 0..(d - 1)
  BY DivMod
<1>2. n + 1 = d * q + s /\ q \in Nat /\ s \in 0..(d - 1)
  <2>1. n + 1 \in Nat
    OBVIOUS
  <2> HIDE DEF q, s
  <2> QED
    BY <2>1, DivMod DEF q, s
<1> HIDE DEF p, q, r, s
<1>3. CASE r + 1 = d
  <2>1. d * (p + 1) + 0 = d * q + s
    BY <1>1, <1>2, <1>3
  <2>2. 0 \in 0..(d - 1) /\ p + 1 \in Int /\ q \in Int
    BY <1>1, <1>2
  <2>3. 0 = s
    BY <1>2, <2>1, <2>2, RemainderUnique
  <2> QED
    BY <1>3, <2>3 DEF r, s
<1>4. CASE r + 1 # d
  <2>1. d * p + (r + 1) = d * q + s
    BY <1>1, <1>2
  <2>2. r + 1 \in 0..(d - 1) /\ p \in Int /\ q \in Int
    BY <1>1, <1>2, <1>4
  <2>3. r + 1 = s
    BY <1>2, <2>1, <2>2, RemainderUnique
  <2> QED
    BY <1>4, <2>3 DEF r, s
<1> QED
  BY <1>3, <1>4

\* Blocks of t numbers each: block a ends before block b > a starts, and every number below n * t is in
\* one of the first n.
LEMMA BlocksApart ==
    ASSUME NEW a \in Nat, NEW b \in Nat, NEW t \in Nat, a < b
    PROVE  a * t + t <= b * t /\ a * t \in Nat /\ b * t \in Nat
<1>1. (a + 1) * t <= b * t
  OBVIOUS
<1> QED
  BY <1>1

LEMMA BlocksCover ==
    ASSUME NEW n \in Nat, NEW t \in Nat \ {0}, NEW g \in Nat, g < n * t
    PROVE  g \div t \in 0..(n - 1) /\ (g \div t) * t <= g /\ g < (g \div t) * t + t
OBVIOUS

-----------------------------------------------------------------------------
(* DisaggProxy: the first decodes % DecodeWorkers workers are one          *)
(* completion ahead of the others.                                         *)

ProxyIInv ==
    /\ decodes \in Nat /\ proxySent \in [1..DecodeWorkers -> Nat]
    /\ \E q \in Nat : \A w \in 1..DecodeWorkers :
          proxySent[w] = IF w <= decodes % DecodeWorkers THEN q + 1 ELSE q

LEMMA ProxyInit == Proxy!Init => ProxyIInv
<1> SUFFICES ASSUME Proxy!Init PROVE ProxyIInv
  OBVIOUS
<1>1. decodes = 0 /\ proxySent = [w \in 1..DecodeWorkers |-> 0]
  BY DEF Proxy!Init
<1>2. 0 % DecodeWorkers = 0
  BY SessionAssumption
<1>3. \A w \in 1..DecodeWorkers : proxySent[w] = IF w <= decodes % DecodeWorkers THEN 0 + 1 ELSE 0
  BY <1>1, <1>2
<1> QED
  BY <1>1, <1>3 DEF ProxyIInv

LEMMA ProxyStep == ProxyIInv /\ [Proxy!Next]_proxyVars => ProxyIInv'
<1> SUFFICES ASSUME ProxyIInv, [Proxy!Next]_proxyVars PROVE ProxyIInv'
  OBVIOUS
<1>1. CASE UNCHANGED <<decodes, proxySent>>
  BY <1>1 DEF ProxyIInv
<1>2. CASE Proxy!Decode
  <2> DEFINE D == DecodeWorkers
             r == decodes % D
  <2>d. D \in Nat \ {0}
    BY SessionAssumption
  <2>1. decodes \in Nat /\ proxySent \in [1..D -> Nat]
    BY DEF ProxyIInv
  <2>2. PICK q \in Nat : \A w \in 1..D : proxySent[w] = IF w <= r THEN q + 1 ELSE q
    BY DEF ProxyIInv
  <2>3. decodes' = decodes + 1 /\ proxySent' = [proxySent EXCEPT ![r + 1] = @ + 1]
    BY <1>2 DEF Proxy!Decode, Proxy!Cycle
  <2>4. r \in 0..(D - 1) /\ decodes' % D = IF r + 1 = D THEN 0 ELSE r + 1
    BY <2>1, <2>3, <2>d, DivMod, RemainderNext
  <2> HIDE DEF D, r
  <2>5. r + 1 \in 1..D /\ proxySent' \in [1..D -> Nat]
    BY <2>1, <2>3, <2>4, <2>d
  <2>6. \A w \in 1..D : proxySent'[w] = IF w <= r + 1 THEN q + 1 ELSE q
    BY <2>1, <2>2, <2>3, <2>4, <2>5, <2>d
  <2>7. CASE r + 1 = D
    <3>1. \A w \in 1..D : proxySent'[w] = IF w <= decodes' % D THEN (q + 1) + 1 ELSE q + 1
      BY <2>4, <2>6, <2>7, <2>d
    <3>2. q + 1 \in Nat /\ decodes' \in Nat
      BY <2>1, <2>3
    <3> QED
      BY <2>5, <3>1, <3>2, Zenon DEF ProxyIInv, D
  <2>8. CASE r + 1 # D
    <3>1. \A w \in 1..D : proxySent'[w] = IF w <= decodes' % D THEN q + 1 ELSE q
      BY <2>4, <2>6, <2>8, <2>d
    <3>2. decodes' \in Nat
      BY <2>1, <2>3
    <3> QED
      BY <2>5, <3>1, <3>2, Zenon DEF ProxyIInv, D
  <2> QED
    BY <2>7, <2>8
<1> QED
  BY <1>1, <1>2 DEF Proxy!Next, Proxy!Prefill, Proxy!PrefillFails, Proxy!DecodeEnds, proxyVars

LEMMA ProxyImplies == ProxyIInv => Proxy!WorkersTakenInTurn
<1> SUFFICES ASSUME ProxyIInv, NEW v \in 1..DecodeWorkers, NEW w \in 1..DecodeWorkers
             PROVE  proxySent[v] <= proxySent[w] + 1
  BY DEF Proxy!WorkersTakenInTurn
<1>1. PICK q \in Nat : \A x \in 1..DecodeWorkers :
          proxySent[x] = IF x <= decodes % DecodeWorkers THEN q + 1 ELSE q
  BY DEF ProxyIInv
<1>2. proxySent[v] \in {q, q + 1} /\ proxySent[w] \in {q, q + 1}
  BY <1>1
<1> QED
  BY <1>2

\* A request is with a worker of either pool, or with none yet.
ProxyTypes ==
    /\ proxyPc \in [ProxyRequests -> {"new", "prefill", "decode", "done", "failed"}]
    /\ worker \in [ProxyRequests -> 0..(PrefillWorkers + DecodeWorkers)]
    /\ prefills \in Nat

LEMMA CycleIs ==
    ASSUME NEW n \in Nat, NEW m \in Nat \ {0}
    PROVE  Proxy!Cycle(n, m) \in 1..m
<1>1. n % m \in 0..(m - 1)
  BY DivMod
<1> QED
  BY <1>1 DEF Proxy!Cycle

LEMMA ProxyTypesInit == Proxy!Init => ProxyTypes
<1> SUFFICES ASSUME Proxy!Init PROVE ProxyTypes
  OBVIOUS
<1>1. 0 \in 0..(PrefillWorkers + DecodeWorkers)
  BY SessionAssumption
<1> QED
  BY <1>1 DEF Proxy!Init, ProxyTypes

LEMMA ProxyTypesStep == ProxyIInv /\ ProxyTypes /\ [Proxy!Next]_proxyVars => ProxyTypes'
<1> SUFFICES ASSUME ProxyIInv, ProxyTypes, [Proxy!Next]_proxyVars PROVE ProxyTypes'
  OBVIOUS
<1>1. PICK p \in Nat \ {0}, d \in Nat \ {0} : p = PrefillWorkers /\ d = DecodeWorkers
  BY SessionAssumption
<1>2. 1..p \subseteq 0..(p + d) /\ 1..d \subseteq 0..(p + d)
  OBVIOUS
<1>3. CASE Proxy!Prefill
  <2>1. Proxy!Cycle(prefills, p) \in 0..(p + d)
    BY <1>2, CycleIs DEF ProxyTypes
  <2> QED
    BY <1>1, <1>3, <2>1 DEF Proxy!Prefill, ProxyTypes
<1>4. CASE Proxy!PrefillFails
  BY <1>4 DEF Proxy!PrefillFails, ProxyTypes
<1>5. CASE Proxy!Decode
  <2>1. Proxy!Cycle(decodes, d) \in 0..(p + d)
    BY <1>2, CycleIs DEF ProxyIInv
  <2> QED
    BY <1>1, <1>5, <2>1 DEF Proxy!Decode, ProxyTypes
<1>6. CASE Proxy!DecodeEnds
  BY <1>6 DEF Proxy!DecodeEnds, ProxyTypes
<1>7. CASE UNCHANGED proxyVars
  BY <1>7 DEF proxyVars, ProxyTypes
<1> QED
  BY <1>3, <1>4, <1>5, <1>6, <1>7 DEF Proxy!Next

LEMMA ProxyTypesImply == ProxyTypes => Proxy!TypeOK
BY DEF ProxyTypes, Proxy!TypeOK

-----------------------------------------------------------------------------
(* VllmDeployment: what a deployment of workers is. *)

WorkersOf ==
    \/ workers = AggregatedWorkers(2)
    \/ \E p \in Pools : workers = DisaggregatedWorkers(p.prefill, p.decode)

WorkersApart ==
    /\ \A i, j \in DOMAIN workers :
          i # j => /\ workers[i].port # workers[j].port /\ workers[i].side # workers[j].side
                   /\ workers[i].gpus \intersect workers[j].gpus = {}
    /\ NeededGpus = 0..(Cardinality(NeededGpus) - 1)

LEMMA NeededAre ==
    ASSUME NEW n \in Nat, NeededGpus = 0..(n - 1)
    PROVE  NeededGpus = 0..(Cardinality(NeededGpus) - 1)
<1>1. Cardinality(0..(n - 1)) = n
  BY FS_Interval
<1> QED
  BY <1>1

\* Of P workers on s GPUs each and then others on t GPUs each, the first GPU of worker i, and how many.
First(P, s, t, i) == IF i <= P THEN (i - 1) * s ELSE P * s + (i - P - 1) * t
Size(P, s, t, i) == IF i <= P THEN s ELSE t

LEMMA BlocksTile ==
    ASSUME NEW P \in Nat \ {0}, NEW D \in Nat \ {0}, NEW s \in Nat \ {0}, NEW t \in Nat \ {0}
    PROVE  /\ P * s + D * t \in Nat
           /\ \A i \in 1..(P + D) :
                 /\ First(P, s, t, i) \in Nat /\ Size(P, s, t, i) \in Nat
                 /\ First(P, s, t, i) + Size(P, s, t, i) <= P * s + D * t
           /\ \A i, j \in 1..(P + D) : i < j => First(P, s, t, i) + Size(P, s, t, i) <= First(P, s, t, j)
           /\ \A g \in 0..((P * s + D * t) - 1) : \E i \in 1..(P + D) :
                 First(P, s, t, i) <= g /\ g < First(P, s, t, i) + Size(P, s, t, i)
<1>1. P * s \in Nat /\ D * t \in Nat
  OBVIOUS
<1>2. ASSUME NEW i \in 1..(P + D), i <= P
      PROVE  First(P, s, t, i) = (i - 1) * s /\ Size(P, s, t, i) = s /\ (i - 1) * s \in Nat /\ (i - 1) * s + s <= P * s
  <2>1. i - 1 \in Nat /\ i - 1 < P
    BY <1>2
  <2>2. (i - 1) * s + s <= P * s /\ (i - 1) * s \in Nat
    BY <2>1, BlocksApart
  <2> QED
    BY <1>2, <2>2 DEF First, Size
<1>3. ASSUME NEW i \in 1..(P + D), ~(i <= P)
      PROVE  /\ First(P, s, t, i) = P * s + (i - P - 1) * t /\ Size(P, s, t, i) = t
             /\ (i - P - 1) * t \in Nat /\ (i - P - 1) * t + t <= D * t
  <2>1. i - P - 1 \in Nat /\ i - P - 1 < D
    BY <1>3
  <2>2. (i - P - 1) * t + t <= D * t /\ (i - P - 1) * t \in Nat
    BY <2>1, BlocksApart
  <2> QED
    BY <1>3, <2>2 DEF First, Size
<1>4. ASSUME NEW i \in 1..(P + D)
      PROVE  /\ First(P, s, t, i) \in Nat /\ Size(P, s, t, i) \in Nat
             /\ First(P, s, t, i) + Size(P, s, t, i) <= P * s + D * t
  <2>1. CASE i <= P
    <3> DEFINE x == (i - 1) * s
               y == P * s
               z == D * t
    <3>1. /\ First(P, s, t, i) = x /\ Size(P, s, t, i) = s /\ x \in Nat /\ x + s <= y
          /\ y \in Nat /\ z \in Nat
      BY <1>1, <1>2, <2>1
    <3> HIDE DEF x, y, z
    <3>2. x + s <= y + z
      BY <3>1
    <3> QED
      BY <3>1, <3>2 DEF y, z
  <2>2. CASE ~(i <= P)
    <3> DEFINE x == (i - P - 1) * t
               y == P * s
               z == D * t
    <3>1. /\ First(P, s, t, i) = y + x /\ Size(P, s, t, i) = t /\ x \in Nat /\ x + t <= z
          /\ y \in Nat /\ z \in Nat
      BY <1>1, <1>3, <2>2
    <3> HIDE DEF x, y, z
    <3>2. y + x + t <= y + z /\ y + x \in Nat
      BY <3>1
    <3> QED
      BY <3>1, <3>2 DEF y, z
  <2> QED
    BY <2>1, <2>2
<1>5. ASSUME NEW i \in 1..(P + D), NEW j \in 1..(P + D), i < j
      PROVE  First(P, s, t, i) + Size(P, s, t, i) <= First(P, s, t, j)
  <2>1. CASE j <= P
    <3>1. i - 1 \in Nat /\ j - 1 \in Nat /\ i - 1 < j - 1 /\ i <= P
      BY <1>5, <2>1
    <3>2. (i - 1) * s + s <= (j - 1) * s
      BY <3>1, BlocksApart
    <3> QED
      BY <1>2, <2>1, <3>1, <3>2
  <2>2. CASE i <= P /\ ~(j <= P)
    <3> DEFINE x == (i - 1) * s
               y == P * s
               z == (j - P - 1) * t
    <3>1. /\ First(P, s, t, i) = x /\ Size(P, s, t, i) = s /\ x \in Nat /\ x + s <= y
          /\ First(P, s, t, j) = y + z /\ y \in Nat /\ z \in Nat
      BY <1>1, <1>2, <1>3, <2>2
    <3> HIDE DEF x, y, z
    <3>2. x + s <= y + z
      BY <3>1
    <3> QED
      BY <3>1, <3>2
  <2>3. CASE ~(i <= P)
    <3> DEFINE x == (i - P - 1) * t
               y == P * s
               z == (j - P - 1) * t
    <3>1. i - P - 1 \in Nat /\ j - P - 1 \in Nat /\ i - P - 1 < j - P - 1 /\ ~(j <= P)
      BY <1>5, <2>3
    <3>2. x + t <= z /\ x \in Nat /\ z \in Nat
      BY <3>1, BlocksApart
    <3>3. First(P, s, t, i) = y + x /\ Size(P, s, t, i) = t /\ First(P, s, t, j) = y + z /\ y \in Nat
      BY <1>1, <1>3, <2>3, <3>1
    <3> HIDE DEF x, y, z
    <3>4. y + x + t <= y + z
      BY <3>2, <3>3
    <3> QED
      BY <3>3, <3>4
  <2> QED
    BY <1>5, <2>1, <2>2, <2>3
<1>6. ASSUME NEW g \in 0..((P * s + D * t) - 1)
      PROVE  \E i \in 1..(P + D) : First(P, s, t, i) <= g /\ g < First(P, s, t, i) + Size(P, s, t, i)
  <2>1. CASE g < P * s
    <3> DEFINE b == g \div s
    <3>1. g \in Nat
      BY <1>1
    <3>2. b \in 0..(P - 1) /\ b * s <= g /\ g < b * s + s
      BY <2>1, <3>1, BlocksCover
    <3> HIDE DEF b
    <3>3. b + 1 \in 1..(P + D) /\ b + 1 <= P /\ (b + 1) - 1 = b
      BY <3>2
    <3>4. First(P, s, t, b + 1) = b * s /\ Size(P, s, t, b + 1) = s
      BY <3>3 DEF First, Size
    <3> QED
      BY <3>2, <3>3, <3>4
  <2>2. CASE ~(g < P * s)
    <3> DEFINE y == P * s
               z == D * t
               h == g - y
               b == h \div t
    <3>1. y \in Nat /\ z \in Nat /\ g \in 0..(y + z - 1) /\ ~(g < y)
      BY <1>1, <2>2
    <3>2. h \in Nat /\ g = y + h /\ h < z
      <4> HIDE DEF y, z
      <4> QED
        BY <3>1
    <3> HIDE DEF h, y
    <3>3. b \in 0..(D - 1) /\ b * t <= h /\ h < b * t + t
      BY <3>2, BlocksCover
    <3> HIDE DEF b
    <3>4. P + b + 1 \in 1..(P + D) /\ ~(P + b + 1 <= P) /\ (P + b + 1) - P - 1 = b
      BY <3>3
    <3>5. First(P, s, t, P + b + 1) = y + b * t /\ Size(P, s, t, P + b + 1) = t
      BY <3>4 DEF First, Size, y
    <3> DEFINE w == b * t
    <3>6. w \in Nat
      BY <3>3
    <3> HIDE DEF w, z
    <3>7. y + w <= g /\ g < y + w + t
      BY <3>1, <3>2, <3>3, <3>6 DEF w
    <3> QED
      BY <3>4, <3>5, <3>7 DEF w
  <2> QED
    BY <2>1, <2>2
<1>7. P * s + D * t \in Nat
  BY <1>1
<1> QED
  BY <1>4, <1>5, <1>6, <1>7

\* The workers of two pools, each on its block of GPUs.
LEMMA DisaggregatedAre ==
    ASSUME NEW p \in Pools
    PROVE  LET P == p.prefill.workers
               D == p.decode.workers
               s == p.prefill.tensorParallel
               t == p.decode.tensorParallel
               ws == DisaggregatedWorkers(p.prefill, p.decode)
           IN  /\ P \in Nat \ {0} /\ D \in Nat \ {0} /\ s \in Nat \ {0} /\ t \in Nat \ {0}
               /\ Len(ws) = P + D /\ DOMAIN ws = 1..(P + D)
               /\ \A i \in 1..(P + D) :
                     /\ ws[i].side = i - 1
                     /\ ws[i].port = IF i <= P THEN BasePorts.prefill + i - 1 ELSE BasePorts.decode + (i - P) - 1
                     /\ ws[i].gpus = First(P, s, t, i)..(First(P, s, t, i) + Size(P, s, t, i) - 1)
<1> DEFINE P == p.prefill.workers
           D == p.decode.workers
           s == p.prefill.tensorParallel
           t == p.decode.tensorParallel
           ws == DisaggregatedWorkers(p.prefill, p.decode)
<1>1. P \in Nat \ {0} /\ D \in Nat \ {0} /\ s \in Nat \ {0} /\ t \in Nat \ {0}
  BY PoolsAssumption
<1>2. ws = [i \in 1..(P + D) |->
              IF i <= P
              THEN Worker("prefill", BasePorts.prefill + i - 1, Block((i - 1) * s, s), i - 1)
              ELSE LET j == i - P
                       taken == P * s
                   IN  Worker("decode", BasePorts.decode + j - 1, Block(taken + (j - 1) * t, t), i - 1)]
  BY DEF DisaggregatedWorkers
<1> HIDE DEF P, D, s, t, ws
<1>3. Len(ws) = P + D /\ DOMAIN ws = 1..(P + D)
  <2>1. DOMAIN ws = 1..(P + D) /\ P + D \in Nat
    BY <1>1, <1>2
  <2>2. ws \in Seq({ws[i] : i \in 1..(P + D)})
    BY <1>2, <2>1
  <2> QED
    BY <2>1, <2>2
<1>4. ASSUME NEW i \in 1..(P + D)
      PROVE  /\ ws[i].side = i - 1
             /\ ws[i].port = IF i <= P THEN BasePorts.prefill + i - 1 ELSE BasePorts.decode + (i - P) - 1
             /\ ws[i].gpus = First(P, s, t, i)..(First(P, s, t, i) + Size(P, s, t, i) - 1)
  <2>1. CASE i <= P
    <3>1. ws[i] = Worker("prefill", BasePorts.prefill + i - 1, Block((i - 1) * s, s), i - 1)
      BY <1>2, <2>1
    <3> QED
      BY <3>1, <2>1 DEF Worker, Block, First, Size
  <2>2. CASE ~(i <= P)
    <3>1. ws[i] = Worker("decode", BasePorts.decode + (i - P) - 1, Block(P * s + (i - P - 1) * t, t), i - 1)
      BY <1>2, <2>2
    <3> QED
      BY <3>1, <2>2 DEF Worker, Block, First, Size
  <2> QED
    BY <2>1, <2>2
<1> QED
  BY <1>1, <1>3, <1>4 DEF P, D, s, t, ws

LEMMA DeploymentApart ==
    ASSUME WorkersOf
    PROVE  WorkersApart
<1>1. CASE workers = AggregatedWorkers(2)
  <2>1. workers = <<Worker("server", 8000, Block(0, 2), 0)>>
    BY <1>1 DEF AggregatedWorkers
  <2>2. DOMAIN workers = {1} /\ workers[1].gpus = 0..1
    BY <2>1 DEF Worker, Block
  <2>3. NeededGpus = 0..(2 - 1)
    <3>1. NeededGpus = UNION {w.gpus : w \in {workers[1]}}
      BY <2>2 DEF NeededGpus, ToSet
    <3> QED
      BY <3>1, <2>2
  <2>4. NeededGpus = 0..(Cardinality(NeededGpus) - 1)
    BY <2>3, NeededAre
  <2> QED
    BY <2>2, <2>4 DEF WorkersApart
<1>2. ASSUME NEW p \in Pools, workers = DisaggregatedWorkers(p.prefill, p.decode)
      PROVE  WorkersApart
  <2> DEFINE P == p.prefill.workers
             D == p.decode.workers
             s == p.prefill.tensorParallel
             t == p.decode.tensorParallel
             T == P * s + D * t
             F(i) == First(P, s, t, i)
             S(i) == Size(P, s, t, i)
  <2>1. P \in Nat \ {0} /\ D \in Nat \ {0} /\ s \in Nat \ {0} /\ t \in Nat \ {0}
    BY <1>2, DisaggregatedAre
  <2>2. /\ DOMAIN workers = 1..(P + D)
        /\ \A i \in 1..(P + D) :
              /\ workers[i].side = i - 1
              /\ workers[i].port = IF i <= P THEN BasePorts.prefill + i - 1 ELSE BasePorts.decode + (i - P) - 1
              /\ workers[i].gpus = F(i)..(F(i) + S(i) - 1)
    BY <1>2, DisaggregatedAre
  <2>3. /\ T \in Nat
        /\ \A i \in 1..(P + D) : F(i) \in Nat /\ S(i) \in Nat /\ F(i) + S(i) <= T
        /\ \A i, j \in 1..(P + D) : i < j => F(i) + S(i) <= F(j)
        /\ \A g \in 0..(T - 1) : \E i \in 1..(P + D) : F(i) <= g /\ g < F(i) + S(i)
    <3> HIDE DEF P, D, s, t, T, F, S
    <3>1. /\ P * s + D * t \in Nat
          /\ \A i \in 1..(P + D) :
                /\ First(P, s, t, i) \in Nat /\ Size(P, s, t, i) \in Nat
                /\ First(P, s, t, i) + Size(P, s, t, i) <= P * s + D * t
          /\ \A i, j \in 1..(P + D) : i < j => First(P, s, t, i) + Size(P, s, t, i) <= First(P, s, t, j)
          /\ \A g \in 0..((P * s + D * t) - 1) : \E i \in 1..(P + D) :
                First(P, s, t, i) <= g /\ g < First(P, s, t, i) + Size(P, s, t, i)
      BY <2>1, BlocksTile
    <3>2. T \in Nat
      BY <3>1 DEF T
    <3>3. \A i \in 1..(P + D) : F(i) \in Nat /\ S(i) \in Nat /\ F(i) + S(i) <= T
      BY <3>1 DEF T, F, S
    <3>4. \A i, j \in 1..(P + D) : i < j => F(i) + S(i) <= F(j)
      BY <3>1 DEF F, S
    <3>5. ASSUME NEW g \in 0..(T - 1)
          PROVE  \E i \in 1..(P + D) : F(i) <= g /\ g < F(i) + S(i)
      <4>1. g \in 0..((P * s + D * t) - 1)
        BY DEF T
      <4>2. PICK i \in 1..(P + D) : First(P, s, t, i) <= g /\ g < First(P, s, t, i) + Size(P, s, t, i)
        BY <3>1, <4>1
      <4> QED
        BY <4>2 DEF F, S
    <3> QED
      BY <3>2, <3>3, <3>4, <3>5
  <2>4. BasePorts.prefill \in Nat /\ BasePorts.decode \in Nat /\ BasePorts.prefill + P <= BasePorts.decode
    BY PoolsAssumption
  <2> HIDE DEF P, D, s, t, T, F, S
  <2>5. ASSUME NEW i \in 1..(P + D), NEW j \in 1..(P + D), i < j
        PROVE  /\ workers[i].port # workers[j].port /\ workers[i].side # workers[j].side
               /\ workers[i].gpus \intersect workers[j].gpus = {}
    <3>1. /\ workers[i].side = i - 1 /\ workers[j].side = j - 1
          /\ workers[i].port = IF i <= P THEN BasePorts.prefill + i - 1 ELSE BasePorts.decode + (i - P) - 1
          /\ workers[j].port = IF j <= P THEN BasePorts.prefill + j - 1 ELSE BasePorts.decode + (j - P) - 1
          /\ workers[i].gpus = F(i)..(F(i) + S(i) - 1)
          /\ workers[j].gpus = F(j)..(F(j) + S(j) - 1)
      BY <2>2
    <3>2. workers[i].port # workers[j].port
      BY <2>1, <2>4, <2>5, <3>1
    <3>3. workers[i].side # workers[j].side
      BY <2>5, <3>1
    <3>4. F(i) \in Nat /\ S(i) \in Nat /\ F(j) \in Nat /\ S(j) \in Nat /\ F(i) + S(i) <= F(j)
      BY <2>3, <2>5
    <3>5. workers[i].gpus \intersect workers[j].gpus = {}
      BY <3>1, <3>4
    <3> QED
      BY <3>2, <3>3, <3>5
  <2>6. ASSUME NEW i \in DOMAIN workers, NEW j \in DOMAIN workers, i # j
        PROVE  /\ workers[i].port # workers[j].port /\ workers[i].side # workers[j].side
               /\ workers[i].gpus \intersect workers[j].gpus = {}
    <3>1. i \in 1..(P + D) /\ j \in 1..(P + D)
      BY <2>2, <2>6
    <3>2. i < j \/ j < i
      BY <2>6, <3>1
    <3> QED
      BY <2>5, <3>1, <3>2
  <2>7. ASSUME NEW g
        PROVE  g \in NeededGpus <=> g \in 0..(T - 1)
    <3>1. g \in NeededGpus <=> \E i \in 1..(P + D) : g \in workers[i].gpus
      <4>1. DOMAIN workers = 1..(P + D)
        BY <2>2
      <4> QED
        BY <4>1, Zenon DEF NeededGpus, ToSet
    <3>2. ASSUME NEW i \in 1..(P + D)
          PROVE  g \in workers[i].gpus <=> g \in F(i)..(F(i) + S(i) - 1)
      BY <2>2
    <3>3. ASSUME NEW i \in 1..(P + D), g \in F(i)..(F(i) + S(i) - 1)
          PROVE  g \in 0..(T - 1)
      BY <2>3, <3>3
    <3>4. ASSUME g \in 0..(T - 1)
          PROVE  \E i \in 1..(P + D) : g \in F(i)..(F(i) + S(i) - 1)
      BY <2>3, <3>4
    <3> QED
      BY <3>1, <3>2, <3>3, <3>4
  <2>8. NeededGpus = 0..(T - 1)
    BY <2>7
  <2>9. NeededGpus = 0..(Cardinality(NeededGpus) - 1)
    BY <2>3, <2>8, NeededAre
  <2> QED
    BY <2>6, <2>9 DEF WorkersApart
<1> QED
  BY <1>1, <1>2 DEF WorkersOf

LEMMA SomeWorkers ==
    ASSUME WorkersOf
    PROVE  Len(workers) \in Nat \ {0}
<1>1. CASE workers = AggregatedWorkers(2)
  BY <1>1 DEF AggregatedWorkers
<1>2. ASSUME NEW p \in Pools, workers = DisaggregatedWorkers(p.prefill, p.decode)
      PROVE  Len(workers) \in Nat \ {0}
  <2> DEFINE P == p.prefill.workers
             D == p.decode.workers
  <2>1. P \in Nat \ {0} /\ D \in Nat \ {0} /\ Len(workers) = P + D
    BY <1>2, DisaggregatedAre
  <2> HIDE DEF P, D
  <2> QED
    BY <2>1
<1> QED
  BY <1>1, <1>2 DEF WorkersOf

-----------------------------------------------------------------------------
(* VllmDeployment: its calls. *)

VllmTypes ==
    /\ WorkersOf
    /\ containers \in Seq(Nat) /\ workerContainers \in Seq(Nat) /\ slots \in Seq(Nat)
    /\ at \in Nat /\ starts \in Nat
    /\ running \union exited \union late \subseteq DOMAIN slots
    /\ running \intersect exited = {} /\ running \intersect late = {} /\ exited \intersect late = {}
    /\ serving \subseteq running /\ serving \subseteq everServed

\* A removal goes through the list in order: what may be there is further down, or known to be left.
Left == {containers[i] : i \in (IF pc = "removing" THEN at ELSE 1)..Len(containers)}
ListAccounts ==
    /\ pc = "removing" => at >= 1
    /\ Exists \union late \subseteq Left \union unremoved

\* How far the first start has come: its containers are 1, 2, ..., of the workers in order and then the
\* proxy, and those before the one it is at have answered.
FirstStart ==
    LET N == Len(workers)
    IN  /\ Len(containers) = Len(slots) /\ \A i \in 1..Len(slots) : containers[i] = i
        /\ \A i \in 1..Len(slots) : slots[i] = IF i <= N THEN i ELSE 0
        /\ Len(workerContainers) <= N
        /\ pc = "run" => at \in 1..(N + 1) /\ Len(slots) = at - 1 /\ Len(workerContainers) = at - 1
        /\ pc \in {"poll", "inspect", "confirm"} =>
              /\ at \in 1..(N + 1) /\ Len(slots) = (IF at <= N THEN N ELSE N + 1)
              /\ 1..(at - 1) \subseteq everServed
        /\ pc = "proxy" => at = N /\ Len(slots) = N /\ 1..N \subseteq everServed
        /\ pc = "up" => 1..Len(slots) \subseteq everServed
Starting ==
    /\ starts = 0 => pc = "idle" /\ slots = <<>> /\ containers = <<>> /\ workerContainers = <<>>
    /\ starts = 1 /\ pc \in {"run", "poll", "inspect", "confirm", "proxy", "up"} => FirstStart

VllmIInv == VllmTypes /\ ListAccounts /\ Starting

LEMMA VllmInit == Init => VllmIInv
<1> SUFFICES ASSUME Init PROVE VllmIInv
  OBVIOUS
<1>1. VllmTypes
  BY DEF Init, VllmTypes, WorkersOf
<1>2. ListAccounts /\ Starting
  BY DEF Init, ListAccounts, Starting, Exists
<1> QED
  BY <1>1, <1>2 DEF VllmIInv

\* What running a container does, as it comes up or not.
LEMMA RunContainerEffect ==
    ASSUME VllmTypes, NEW slot \in Nat, NEW then, RunContainer(slot, then)
    PROVE  LET c == Len(slots) + 1
           IN  /\ slots' \in Seq(Nat) /\ Len(slots') = c /\ DOMAIN slots' = 1..c /\ DOMAIN slots = 1..Len(slots)
               /\ \A i \in 1..Len(slots) : slots'[i] = slots[i]
               /\ slots'[c] = slot
               /\ containers' \in Seq(Nat) /\ Len(containers') = Len(containers) + 1
               /\ \A i \in 1..Len(containers) : containers'[i] = containers[i]
               /\ containers'[Len(containers) + 1] = c
               /\ UNCHANGED <<serving, everServed>>
               /\ \/ running' = running \union {c} /\ UNCHANGED <<exited, late>>
                  \/ exited' = exited \union {c} /\ UNCHANGED <<running, late>>
                  \/ late' = late \union {c} /\ UNCHANGED <<running, exited>>
                  \/ UNCHANGED <<running, exited, late>>
               /\ \/ pc' = then /\ at' = at + 1
                  \/ pc' \in {"removing", "failed"} /\ at' = 1
<1>1. slots \in Seq(Nat) /\ containers \in Seq(Nat)
  BY DEF VllmTypes
<1>2. slots' = Append(slots, slot) /\ containers' = Append(containers, Len(slots) + 1)
  BY DEF RunContainer
<1> QED
  BY <1>1, <1>2 DEF RunContainer, Raise

LEMMA RunContainerTypes ==
    ASSUME VllmTypes, NEW slot \in Nat, NEW then, RunContainer(slot, then)
    PROVE  /\ containers' \in Seq(Nat) /\ slots' \in Seq(Nat) /\ at' \in Nat
           /\ running' \union exited' \union late' \subseteq DOMAIN slots'
           /\ running' \intersect exited' = {} /\ running' \intersect late' = {} /\ exited' \intersect late' = {}
           /\ serving' \subseteq running' /\ serving' \subseteq everServed'
<1> DEFINE c == Len(slots) + 1
<1>1. c \in DOMAIN slots' /\ DOMAIN slots \subseteq DOMAIN slots' /\ c \notin DOMAIN slots
  <2>1. DOMAIN slots' = 1..c /\ DOMAIN slots = 1..Len(slots) /\ Len(slots) \in Nat
    BY RunContainerEffect DEF VllmTypes
  <2> QED
    BY <2>1
<1>2. /\ \/ running' = running \union {c} /\ UNCHANGED <<exited, late>>
         \/ exited' = exited \union {c} /\ UNCHANGED <<running, late>>
         \/ late' = late \union {c} /\ UNCHANGED <<running, exited>>
         \/ UNCHANGED <<running, exited, late>>
      /\ UNCHANGED <<serving, everServed>>
  BY RunContainerEffect
<1>3. containers' \in Seq(Nat) /\ slots' \in Seq(Nat) /\ at' \in Nat
  BY RunContainerEffect DEF VllmTypes
<1> HIDE DEF c
<1>4. /\ running \union exited \union late \subseteq DOMAIN slots
      /\ running \intersect exited = {} /\ running \intersect late = {} /\ exited \intersect late = {}
      /\ serving \subseteq running /\ serving \subseteq everServed
  BY DEF VllmTypes
<1>5. running' \union exited' \union late' \subseteq DOMAIN slots'
  BY <1>1, <1>2, <1>4
<1>6. running' \intersect exited' = {} /\ running' \intersect late' = {} /\ exited' \intersect late' = {}
  BY <1>1, <1>2, <1>4
<1>7. serving' \subseteq running' /\ serving' \subseteq everServed'
  BY <1>2, <1>4
<1> QED
  BY <1>3, <1>5, <1>6, <1>7

LEMMA VllmTypeStep == VllmTypes /\ Next => VllmTypes'
<1> SUFFICES ASSUME VllmTypes, Next PROVE VllmTypes'
  OBVIOUS
<1>w. WorkersOf'
  BY DEF Next, Start, RunWorker, RunContainer, AwaitWorkers, PollServes, PollRunning, Confirm, RunProxy, Stop, RemoveContainer,
         Stopped, StartsLate, Listens, Exits, VllmTypes, WorkersOf
<1>n. Len(workers) \in Nat \ {0}
  BY SomeWorkers DEF VllmTypes
<1>1. CASE Start
  BY <1>1, <1>w DEF Start, VllmTypes, docker
<1>2. CASE RunWorker
  <2>1. RunContainer(at, "run") /\ workerContainers' = Append(workerContainers, Len(slots) + 1) /\ starts' = starts
    BY <1>2 DEF RunWorker
  <2>2. at \in Nat
    BY DEF VllmTypes
  <2>3. workerContainers' \in Seq(Nat)
    BY <2>1 DEF VllmTypes
  <2> QED
    BY <1>w, <2>1, <2>2, <2>3, RunContainerTypes DEF VllmTypes
<1>3. CASE AwaitWorkers
  BY <1>3, <1>w DEF AwaitWorkers, VllmTypes, docker
<1>4. CASE PollServes
  BY <1>4, <1>w DEF PollServes, VllmTypes, docker
<1>5. CASE PollRunning
  BY <1>5, <1>w DEF PollRunning, VllmTypes, docker
<1>6. CASE Confirm
  <2>1. at' \in Nat
    BY <1>6, <1>n DEF Confirm, Served, Raise, VllmTypes
  <2> QED
    BY <1>6, <1>w, <2>1 DEF Confirm, VllmTypes, docker
<1>7. CASE RunProxy
  <2>1. CASE RunContainer(0, "poll")
    <3>1. starts' = starts /\ workerContainers' = workerContainers
      BY <1>7 DEF RunProxy
    <3> QED
      BY <1>w, <2>1, <3>1, RunContainerTypes DEF VllmTypes
  <2>2. CASE Raise /\ UNCHANGED <<containers, docker>>
    BY <1>7, <1>w, <2>2 DEF RunProxy, Raise, VllmTypes, docker
  <2> QED
    BY <1>7, <2>1, <2>2 DEF RunProxy
<1>8. CASE Stop
  BY <1>8, <1>w DEF Stop, VllmTypes, docker
<1>9. CASE RemoveContainer
  BY <1>9, <1>w DEF RemoveContainer, VllmTypes
<1>10. CASE Stopped
  BY <1>10, <1>w DEF Stopped, VllmTypes, docker
<1>11. CASE StartsLate
  BY <1>11, <1>w DEF StartsLate, VllmTypes
<1>12. CASE Listens
  BY <1>12, <1>w DEF Listens, VllmTypes
<1>13. CASE Exits
  BY <1>13, <1>w DEF Exits, VllmTypes
<1> QED
  BY <1>1, <1>2, <1>3, <1>4, <1>5, <1>6, <1>7, <1>8, <1>9, <1>10, <1>11, <1>12, <1>13 DEF Next

LEMMA AccountsStep == VllmTypes /\ ListAccounts /\ Next => ListAccounts'
<1> SUFFICES ASSUME VllmTypes, ListAccounts, Next PROVE ListAccounts'
  OBVIOUS
<1>t. containers \in Seq(Nat) /\ at \in Nat
  BY DEF VllmTypes
\* A call that leaves docker and the list alone, and begins a removal at its first container.
<1>0. ASSUME UNCHANGED <<containers, docker, unremoved>>, pc # "removing", pc' = "removing" => at' = 1
      PROVE  ListAccounts'
  BY <1>0 DEF ListAccounts, Left, Exists, docker
\* A container is added at the end.
<1>a. ASSUME NEW slot \in Nat, NEW then, then # "removing", RunContainer(slot, then), UNCHANGED unremoved, pc # "removing"
      PROVE  ListAccounts'
  <2> DEFINE c == Len(slots) + 1
             n == Len(containers)
  <2>1. /\ Len(containers') = n + 1 /\ n \in Nat
        /\ \A i \in 1..n : containers'[i] = containers[i]
        /\ containers'[n + 1] = c
        /\ Exists' \union late' \subseteq Exists \union late \union {c}
        /\ pc' = "removing" => at' = 1
    <3>1. /\ Len(containers') = n + 1
          /\ \A i \in 1..n : containers'[i] = containers[i]
          /\ containers'[n + 1] = c
          /\ \/ pc' = then /\ at' = at + 1
             \/ pc' \in {"removing", "failed"} /\ at' = 1
      BY <1>a, RunContainerEffect
    <3>2. \/ running' = running \union {c} /\ UNCHANGED <<exited, late>>
          \/ exited' = exited \union {c} /\ UNCHANGED <<running, late>>
          \/ late' = late \union {c} /\ UNCHANGED <<running, exited>>
          \/ UNCHANGED <<running, exited, late>>
      BY <1>a, RunContainerEffect
    <3> HIDE DEF c
    <3>3. Exists' \union late' \subseteq Exists \union late \union {c}
      BY <3>2 DEF Exists
    <3> QED
      BY <1>a, <1>t, <3>1, <3>3
  <2> HIDE DEF n, c
  <2>2. Left \union {c} \subseteq Left'
    <3>1. Left = {containers[i] : i \in 1..n} /\ Left' = {containers'[i] : i \in 1..(n + 1)}
      BY <1>a, <2>1 DEF Left, n
    <3>2. \A i \in 1..n : i \in 1..(n + 1) /\ containers[i] = containers'[i]
      BY <2>1
    <3>3. n + 1 \in 1..(n + 1)
      BY <2>1
    <3> QED
      BY <2>1, <3>1, <3>2, <3>3
  <2> QED
    BY <1>a, <2>1, <2>2 DEF ListAccounts
<1>1. CASE Start
  BY <1>0, <1>1 DEF Start
<1>2. CASE RunWorker
  BY <1>a, <1>2, <1>t DEF RunWorker
<1>3. CASE AwaitWorkers
  BY <1>0, <1>3 DEF AwaitWorkers
<1>4. CASE PollServes
  BY <1>0, <1>4 DEF PollServes
<1>5. CASE PollRunning
  BY <1>0, <1>5 DEF PollRunning
<1>6. CASE Confirm
  <2>1. pc' = "removing" => at' = 1
    BY <1>6 DEF Confirm, Served, Raise
  <2> QED
    BY <1>0, <1>6, <2>1 DEF Confirm
<1>7. CASE RunProxy
  <2>1. CASE RunContainer(0, "poll")
    BY <1>a, <1>7, <2>1 DEF RunProxy
  <2>2. CASE Raise /\ UNCHANGED <<containers, docker>>
    BY <1>0, <1>7, <2>2 DEF RunProxy, Raise
  <2> QED
    BY <1>7, <2>1, <2>2 DEF RunProxy
<1>8. CASE Stop
  BY <1>0, <1>8 DEF Stop
<1>9. CASE RemoveContainer
  <2> DEFINE c == containers[at]
  <2>1. /\ pc = "removing" /\ pc' = "removing" /\ containers' = containers /\ late' = late
        /\ at \in 1..Len(containers) /\ at' = at + 1
    BY <1>9, <1>t DEF RemoveContainer, ListAccounts
  <2>2. Left \subseteq Left' \union {c}
    <3>1. Left = {containers[i] : i \in at..Len(containers)} /\ Left' = {containers[i] : i \in (at + 1)..Len(containers)}
      BY <2>1 DEF Left
    <3>2. \A i \in at..Len(containers) : i = at \/ i \in (at + 1)..Len(containers)
      BY <1>t, <2>1
    <3> QED
      BY <3>1, <3>2
  <2>3. Exists \union late \subseteq Left \union unremoved /\ unremoved \subseteq unremoved'
    BY <1>9 DEF ListAccounts, RemoveContainer
  <2>4. Exists' \union late' \subseteq Exists \union late /\ (c \in Exists' \union late' => c \in unremoved')
    BY <1>9 DEF RemoveContainer, Exists
  <2>5. Exists' \union late' \subseteq Left' \union unremoved'
    BY <2>2, <2>3, <2>4
  <2> QED
    BY <1>t, <2>1, <2>5 DEF ListAccounts
<1>10. CASE Stopped
  <2>1. Left = {} /\ pc' = "idle" /\ UNCHANGED <<running, exited, late, unremoved>>
    BY <1>10, <1>t DEF Stopped, Left, docker
  <2> QED
    BY <2>1 DEF ListAccounts, Exists
<1>11. CASE StartsLate
  <2>1. Exists' \union late' = Exists \union late
    BY <1>11 DEF StartsLate, Exists
  <2> QED
    BY <1>11, <2>1 DEF StartsLate, ListAccounts, Left
<1>12. CASE Listens
  BY <1>12 DEF Listens, ListAccounts, Left, Exists
<1>13. CASE Exits
  <2>1. Exists' \union late' = Exists \union late
    BY <1>13 DEF Exits, Exists
  <2> QED
    BY <1>13, <2>1 DEF Exits, ListAccounts, Left
<1> QED
  BY <1>1, <1>2, <1>3, <1>4, <1>5, <1>6, <1>7, <1>8, <1>9, <1>10, <1>11, <1>12, <1>13 DEF Next

LEMMA StartingStep == VllmTypes /\ Starting /\ Next => Starting'
<1> SUFFICES ASSUME VllmTypes, Starting, Next PROVE Starting'
  OBVIOUS
<1> DEFINE N == Len(workers)
           Calls == {"run", "poll", "inspect", "confirm", "proxy", "up"}
<1>n. N \in Nat \ {0} /\ workers' = workers
  <2>1. workers' = workers
    BY DEF Next, Start, RunWorker, AwaitWorkers, PollServes, PollRunning, Confirm, RunProxy, Stop, RemoveContainer,
           Stopped, StartsLate, Listens, Exits
  <2> QED
    BY <2>1, SomeWorkers DEF VllmTypes
<1>t. at \in Nat /\ starts \in Nat /\ slots \in Seq(Nat) /\ containers \in Seq(Nat) /\ workerContainers \in Seq(Nat)
  BY DEF VllmTypes
<1>f. ASSUME starts = 1, pc \in Calls
      PROVE  /\ Len(containers) = Len(slots) /\ \A i \in 1..Len(slots) : containers[i] = i
             /\ \A i \in 1..Len(slots) : slots[i] = IF i <= N THEN i ELSE 0
             /\ Len(workerContainers) <= N
             /\ pc = "run" => at \in 1..(N + 1) /\ Len(slots) = at - 1 /\ Len(workerContainers) = at - 1
             /\ pc \in {"poll", "inspect", "confirm"} =>
                   /\ at \in 1..(N + 1) /\ Len(slots) = (IF at <= N THEN N ELSE N + 1)
                   /\ 1..(at - 1) \subseteq everServed
             /\ pc = "proxy" => at = N /\ Len(slots) = N /\ 1..N \subseteq everServed
             /\ pc = "up" => 1..Len(slots) \subseteq everServed
  BY <1>f DEF Starting, FirstStart
<1>z. starts = 0 => pc = "idle" /\ slots = <<>> /\ containers = <<>> /\ workerContainers = <<>>
  BY DEF Starting
<1> HIDE DEF N
\* A step that changes neither the call nor what it has named.
<1>0. ASSUME UNCHANGED <<containers, workerContainers, pc, at, starts, slots>>, everServed \subseteq everServed'
      PROVE  Starting'
  <2>1. starts = 1 /\ pc \in Calls => FirstStart'
    BY <1>0, <1>f, <1>n DEF FirstStart, N
  <2> QED
    BY <1>0, <1>z, <2>1 DEF Starting
\* A call that is over, or is no first start.
<1>e. ASSUME starts' # 0, pc' \in Calls => starts' # 1
      PROVE  Starting'
  BY <1>e DEF Starting
\* RunContainer, at the container that is next.
<1>a. ASSUME NEW slot \in Nat, NEW then, RunContainer(slot, then), starts' = starts, starts = 1, pc \in Calls,
             Len(slots) <= N, slot = (IF Len(slots) + 1 <= N THEN Len(slots) + 1 ELSE 0)
      PROVE  /\ Len(slots') = Len(slots) + 1 /\ Len(containers') = Len(slots')
             /\ \A i \in 1..Len(slots') : containers'[i] = i
             /\ \A i \in 1..Len(slots') : slots'[i] = IF i <= N THEN i ELSE 0
             /\ everServed' = everServed
             /\ \/ pc' = then /\ at' = at + 1
                \/ pc' \in {"removing", "failed"}
  <2>1. /\ Len(slots') = Len(slots) + 1
        /\ \A i \in 1..Len(slots) : slots'[i] = slots[i]
        /\ slots'[Len(slots) + 1] = slot
    BY <1>a, RunContainerEffect
  <2>2. /\ Len(containers') = Len(containers) + 1
        /\ \A i \in 1..Len(containers) : containers'[i] = containers[i]
        /\ containers'[Len(containers) + 1] = Len(slots) + 1
    BY <1>a, RunContainerEffect
  <2>3. /\ everServed' = everServed
        /\ \/ pc' = then /\ at' = at + 1
           \/ pc' \in {"removing", "failed"}
    BY <1>a, RunContainerEffect
  <2> DEFINE m == Len(slots)
  <2>m. /\ m \in Nat /\ Len(containers) = m
        /\ \A i \in 1..m : containers[i] = i /\ slots[i] = IF i <= N THEN i ELSE 0
    BY <1>a, <1>f, <1>t
  <2>s. \A i \in 1..(m + 1) : i \in 1..m \/ i = m + 1
    BY <2>m
  <2>4. ASSUME NEW i \in 1..(m + 1)
        PROVE  containers'[i] = i
    BY <2>2, <2>m, <2>s
  <2>5. ASSUME NEW i \in 1..(m + 1)
        PROVE  slots'[i] = IF i <= N THEN i ELSE 0
    BY <1>a, <2>1, <2>m, <2>s
  <2> QED
    BY <1>a, <1>f, <2>1, <2>2, <2>3, <2>4, <2>5
<1>1. CASE Start
  <2>1. starts' = starts + 1 /\ pc' = "run" /\ at' = 1 /\ UNCHANGED <<containers, workerContainers, slots, everServed>>
    BY <1>1 DEF Start, docker
  <2>2. CASE starts = 0
    <3>1. FirstStart'
      BY <1>n, <1>z, <2>1, <2>2 DEF FirstStart, N
    <3> QED
      BY <2>1, <2>2, <3>1 DEF Starting
  <2>3. CASE starts # 0
    BY <1>e, <1>t, <2>1, <2>3
  <2> QED
    BY <2>2, <2>3
<1>2. CASE RunWorker
  <2>1. /\ pc = "run" /\ at <= N /\ RunContainer(at, "run") /\ starts' = starts
        /\ workerContainers' = Append(workerContainers, Len(slots) + 1)
    BY <1>2 DEF RunWorker, N
  <2>2. CASE starts # 1
    BY <1>e, <1>z, <2>1, <2>2
  <2>3. CASE starts = 1
    <3>1. at \in 1..N /\ Len(slots) = at - 1 /\ Len(workerContainers) = at - 1
      BY <1>f, <1>n, <2>1, <2>3
    <3>2. /\ Len(slots') = at /\ Len(containers') = Len(slots')
          /\ \A i \in 1..Len(slots') : containers'[i] = i
          /\ \A i \in 1..Len(slots') : slots'[i] = IF i <= N THEN i ELSE 0
          /\ everServed' = everServed
          /\ \/ pc' = "run" /\ at' = at + 1
             \/ pc' \in {"removing", "failed"}
      BY <1>a, <1>n, <1>t, <2>1, <2>3, <3>1
    <3>3. Len(workerContainers') = at
      BY <1>t, <2>1, <3>1
    <3>4. pc' = "run" => FirstStart'
      BY <1>n, <3>1, <3>2, <3>3 DEF FirstStart, N
    <3> QED
      BY <2>1, <2>3, <3>2, <3>4 DEF Starting
  <2> QED
    BY <2>2, <2>3
<1>3. CASE AwaitWorkers
  <2>1. pc = "run" /\ at > N /\ pc' = "poll" /\ at' = 1 /\ UNCHANGED <<containers, workerContainers, starts, slots, everServed>>
    BY <1>3 DEF AwaitWorkers, docker, N
  <2>2. CASE starts # 1
    BY <1>e, <1>z, <2>1, <2>2
  <2>3. CASE starts = 1
    <3>1. Len(slots) = N /\ Len(workerContainers) = N
      BY <1>f, <1>n, <1>t, <2>1, <2>3
    <3>2. FirstStart'
      BY <1>f, <1>n, <2>1, <2>3, <3>1 DEF FirstStart, N
    <3> QED
      BY <2>1, <2>3, <3>2 DEF Starting
  <2> QED
    BY <2>2, <2>3
\* A look at the servers or at docker, between the looks of a wait.
<1>p. ASSUME pc \in {"poll", "inspect"}, pc' \in {"poll", "inspect", "confirm"},
             UNCHANGED <<containers, workerContainers, at, starts, slots, everServed>>
      PROVE  Starting'
  <2>1. starts = 1 => FirstStart'
    BY <1>f, <1>n, <1>p DEF FirstStart, N
  <2> QED
    BY <1>p, <1>z, <2>1 DEF Starting
<1>4. CASE PollServes
  <2>1. pc = "poll" /\ pc' \in {"inspect", "confirm"}
    BY <1>4 DEF PollServes
  <2> QED
    BY <1>4, <1>p, <2>1 DEF PollServes, docker
<1>5. CASE PollRunning
  BY <1>5, <1>p DEF PollRunning, docker
<1>6. CASE Confirm
  <2>1. pc = "confirm" /\ UNCHANGED <<workers, containers, workerContainers, starts, slots, serving, everServed>>
    BY <1>6 DEF Confirm, docker
  <2>2. CASE starts # 1
    BY <1>e, <1>z, <2>1, <2>2
  <2>3. CASE starts = 1 /\ pc' \notin Calls
    BY <1>e, <1>z, <2>1, <2>3
  <2>4. CASE starts = 1 /\ pc' \in Calls
    <3>1. /\ at \in 1..(N + 1) /\ Len(slots) = (IF at <= N THEN N ELSE N + 1)
          /\ 1..(at - 1) \subseteq everServed /\ Len(workerContainers) <= N
          /\ \A i \in 1..Len(slots) : slots[i] = IF i <= N THEN i ELSE 0
      BY <1>f, <2>1, <2>4
    <3>2. (\E c \in serving : slots[c] = Slot) /\ Served
      BY <1>6, <2>4 DEF Confirm, Serves, Raise
    <3>3. PICK c \in serving : slots[c] = Slot
      BY <3>2
    <3>4. c \in 1..Len(slots) /\ c \in everServed
      BY <1>t, <3>3 DEF VllmTypes
    <3>5. Slot = IF at <= N THEN at ELSE 0
      BY DEF Slot, N
    <3>6. c = at
      BY <1>n, <3>1, <3>3, <3>4, <3>5
    <3>7. 1..at \subseteq everServed
      <4>1. \A i \in 1..at : i = at \/ i \in 1..(at - 1)
        BY <3>1
      <4> QED
        BY <3>1, <3>4, <3>6, <4>1
    <3>8. \/ at < N /\ pc' = "poll" /\ at' = at + 1
          \/ at = N /\ pc' = "proxy" /\ at' = at
          \/ at >= N /\ pc' = "up"
      BY <1>n, <2>4, <3>1, <3>2 DEF Served, Raise, N
    <3>9. CASE at < N /\ pc' = "poll" /\ at' = at + 1
      <4>1. FirstStart'
        BY <1>f, <1>n, <2>1, <2>4, <3>1, <3>7, <3>9 DEF FirstStart, N
      <4> QED
        BY <2>1, <2>4, <4>1 DEF Starting
    <3>10. CASE at = N /\ pc' = "proxy" /\ at' = at
      <4>1. FirstStart'
        BY <1>f, <1>n, <2>1, <2>4, <3>1, <3>7, <3>10 DEF FirstStart, N
      <4> QED
        BY <2>1, <2>4, <4>1 DEF Starting
    <3>11. CASE at >= N /\ pc' = "up"
      <4>1. Len(slots) = at
        BY <1>n, <3>1, <3>11
      <4>2. FirstStart'
        BY <1>f, <1>n, <2>1, <2>4, <3>7, <3>11, <4>1 DEF FirstStart, N
      <4> QED
        BY <2>1, <2>4, <4>2 DEF Starting
    <3> QED
      BY <3>8, <3>9, <3>10, <3>11
  <2> QED
    BY <2>2, <2>3, <2>4
<1>7. CASE RunProxy
  <2>1. pc = "proxy" /\ UNCHANGED <<workerContainers, starts>>
    BY <1>7 DEF RunProxy
  <2>2. CASE starts # 1
    BY <1>e, <1>z, <2>1, <2>2
  <2>3. CASE starts = 1 /\ RunContainer(0, "poll")
    <3>1. at = N /\ Len(slots) = N /\ 1..N \subseteq everServed /\ Len(workerContainers) <= N
      BY <1>f, <2>1, <2>3
    <3>2. /\ Len(slots') = N + 1 /\ Len(containers') = Len(slots')
          /\ \A i \in 1..Len(slots') : containers'[i] = i
          /\ \A i \in 1..Len(slots') : slots'[i] = IF i <= N THEN i ELSE 0
          /\ everServed' = everServed
          /\ \/ pc' = "poll" /\ at' = N + 1
             \/ pc' \in {"removing", "failed"}
      BY <1>a, <1>n, <2>1, <2>3, <3>1
    <3>3. pc' = "poll" => FirstStart'
      BY <1>n, <2>1, <3>1, <3>2 DEF FirstStart, N
    <3> QED
      BY <2>1, <2>3, <3>2, <3>3 DEF Starting
  <2>4. CASE starts = 1 /\ Raise
    BY <1>e, <2>1, <2>4 DEF Raise
  <2> QED
    BY <1>7, <2>2, <2>3, <2>4 DEF RunProxy
<1>8. CASE Stop
  BY <1>8, <1>e, <1>z DEF Stop
<1>9. CASE RemoveContainer
  BY <1>9, <1>e, <1>z DEF RemoveContainer
<1>10. CASE Stopped
  BY <1>10, <1>e, <1>z DEF Stopped
<1>11. CASE StartsLate
  BY <1>0, <1>11 DEF StartsLate
<1>12. CASE Listens
  BY <1>0, <1>12 DEF Listens
<1>13. CASE Exits
  BY <1>0, <1>13 DEF Exits
<1> QED
  BY <1>1, <1>2, <1>3, <1>4, <1>5, <1>6, <1>7, <1>8, <1>9, <1>10, <1>11, <1>12, <1>13 DEF Next

LEMMA VllmStep == VllmIInv /\ [Next]_vars => VllmIInv'
<1>1. VllmIInv /\ Next => VllmIInv'
  BY VllmTypeStep, AccountsStep, StartingStep DEF VllmIInv
<1>2. VllmIInv /\ UNCHANGED vars => VllmIInv'
  BY DEF VllmIInv, VllmTypes, WorkersOf, ListAccounts, Left, Exists, Starting, FirstStart, vars, docker
<1> QED
  BY <1>1, <1>2

LEMMA VllmImplies == VllmIInv => ContainersAccounted /\ ServedByItsOwn
<1> SUFFICES ASSUME VllmIInv PROVE ContainersAccounted /\ ServedByItsOwn
  OBVIOUS
<1>1. Exists \union late \subseteq ToSet(containers) \union unremoved
  <2>1. Left \subseteq ToSet(containers)
    <3>1. \A i \in (IF pc = "removing" THEN at ELSE 1)..Len(containers) : i \in DOMAIN containers
      BY DEF VllmIInv, VllmTypes, ListAccounts
    <3> QED
      BY <3>1 DEF Left, ToSet
  <2> QED
    BY <2>1 DEF VllmIInv, ListAccounts
<1>2. WorkersApart
  BY DeploymentApart DEF VllmIInv, VllmTypes
<1>3. ASSUME pc = "up", starts = 1 PROVE ToSet(containers) \subseteq everServed
  <2>1. /\ Len(containers) = Len(slots) /\ \A i \in 1..Len(slots) : containers[i] = i
        /\ 1..Len(slots) \subseteq everServed
    BY <1>3 DEF VllmIInv, Starting, FirstStart
  <2>2. DOMAIN containers = 1..Len(slots)
    BY <2>1 DEF VllmIInv, VllmTypes
  <2> QED
    BY <2>1, <2>2 DEF ToSet
<1> QED
  BY <1>1, <1>2, <1>3 DEF ContainersAccounted, WorkersApart, ServedByItsOwn

\* What a list names has a slot.
ListsNamed ==
    /\ \A i \in 1..Len(containers) : containers[i] \in 1..Len(slots)
    /\ \A i \in 1..Len(workerContainers) : workerContainers[i] \in 1..Len(slots)

LEMMA ListsNamedInit == Init => ListsNamed
<1>1. Len(<<>>) = 0 /\ 1..0 = {}
  OBVIOUS
<1> QED
  BY <1>1 DEF Init, ListsNamed

LEMMA ListsNamedStep == VllmTypes /\ ListsNamed /\ [Next]_vars => ListsNamed'
<1> SUFFICES ASSUME VllmTypes, ListsNamed, [Next]_vars PROVE ListsNamed'
  OBVIOUS
<1>t. containers \in Seq(Nat) /\ workerContainers \in Seq(Nat) /\ slots \in Seq(Nat) /\ at \in Nat
  BY DEF VllmTypes
<1>1. ASSUME UNCHANGED <<containers, workerContainers, slots>> PROVE ListsNamed'
  BY <1>1 DEF ListsNamed
<1>2. ASSUME NEW slot \in Nat, NEW then, RunContainer(slot, then),
             UNCHANGED workerContainers \/ workerContainers' = Append(workerContainers, Len(slots) + 1)
      PROVE  ListsNamed'
  <2>1. PICK c \in Nat : c = Len(slots) + 1
    BY <1>t
  <2>2. Len(slots') = c /\ containers' = Append(containers, c)
    BY <1>2, <2>1, RunContainerEffect DEF RunContainer
  <2>3. \A i \in 1..Len(slots) : i \in 1..c
    BY <1>t, <2>1
  <2>4. c \in 1..c
    BY <1>t, <2>1
  <2>5. \A i \in 1..Len(containers') : containers'[i] \in 1..c
    BY <1>t, <2>2, <2>3, <2>4 DEF ListsNamed
  <2>6. \A i \in 1..Len(workerContainers') : workerContainers'[i] \in 1..c
    <3>1. CASE UNCHANGED workerContainers
      BY <2>3, <3>1 DEF ListsNamed
    <3>2. CASE workerContainers' = Append(workerContainers, c)
      BY SMTT(20), <1>t, <2>3, <2>4, <3>2 DEF ListsNamed
    <3> QED
      BY <1>2, <2>1, <3>1, <3>2
  <2> QED
    BY <2>2, <2>5, <2>6 DEF ListsNamed
<1>3. CASE RunWorker
  BY <1>2, <1>3, <1>t DEF RunWorker
<1>4. CASE RunProxy
  <2>1. CASE RunContainer(0, "poll")
    BY <1>2, <1>4, <2>1 DEF RunProxy
  <2>2. CASE UNCHANGED <<containers, docker>>
    BY <1>1, <1>4, <2>2 DEF RunProxy, docker
  <2> QED
    BY <1>4, <2>1, <2>2 DEF RunProxy
<1>5. CASE Stopped
  <2>1. containers' = <<>> /\ workerContainers' = <<>> /\ Len(<<>>) = 0 /\ 1..0 = {}
    BY <1>5 DEF Stopped
  <2> QED
    BY <2>1 DEF ListsNamed
<1>6. CASE Start \/ AwaitWorkers \/ PollServes \/ PollRunning \/ Confirm \/ Stop
  BY <1>1, <1>6 DEF Start, AwaitWorkers, PollServes, PollRunning, Confirm, Stop, docker
<1>7. CASE RemoveContainer \/ StartsLate \/ Listens \/ Exits \/ UNCHANGED vars
  BY <1>1, <1>7 DEF RemoveContainer, StartsLate, Listens, Exits, vars, docker
<1> QED
  BY <1>3, <1>4, <1>5, <1>6, <1>7 DEF Next

LEMMA ListsNamedImply == VllmTypes /\ ListsNamed => TypeOK
<1> SUFFICES ASSUME VllmTypes, ListsNamed PROVE TypeOK
  OBVIOUS
<1>1. DOMAIN slots = 1..Len(slots)
  BY DEF VllmTypes
<1>2. ASSUME NEW S, NEW listing \in Seq(Nat), \A i \in 1..Len(listing) : listing[i] \in S
      PROVE  listing \in Seq(S)
  <2>1. PICK n \in Nat : n = Len(listing)
    BY <1>2
  <2>2. listing \in [1..n -> S]
    BY <1>2, <2>1
  <2>3. Seq(S) = UNION {[1..m -> S] : m \in Nat}
    BY SeqDef
  <2> QED
    BY <2>2, <2>3
<1>3. containers \in Seq(DOMAIN slots) /\ workerContainers \in Seq(DOMAIN slots)
  BY <1>1, <1>2 DEF VllmTypes, ListsNamed
<1> QED
  BY <1>3 DEF VllmTypes, TypeOK

-----------------------------------------------------------------------------
(* Reporter: the outcomes reported from where a run began to where the     *)
(* next one did are those the run itself told.                             *)

Outcome == [test : Tests, outcome : {"passed", "failed", "skipped", "error"}]
TestRun == [test : Tests, from : Nat, of : [Report!TestPhases -> {"none", "passed", "failed", "skipped"}]]
Item == [by : Tests, opened : BOOLEAN]
ReportTypes ==
    /\ writesFile \in BOOLEAN /\ opened \in BOOLEAN
    /\ outcomes \in Seq(Outcome) /\ phases \in Seq(TestRun)
    /\ sections \in Seq([test : Tests \union {Report!NoTest}, items : Seq(Item)])
    /\ phase \in {"out", "setup", "call", "teardown"} /\ test \in Tests \union {Report!NoTest}
    /\ phase # "out" => Len(phases) > 0 /\ phases[Len(phases)].test = test
    /\ IF writesFile THEN report.outcomes = outcomes /\ report.headerTables = headerTables
       ELSE report.outcomes = <<>> /\ report.headerTables = {}

\* What each phase of the run under way has left.
PhasesSoFar(p) ==
    /\ phase = "setup" => p.of["setup"] = "none"
    /\ phase \in {"setup", "call"} => p.of["call"] = "none"
    /\ phase = "call" => p.of["setup"] = "passed"
    /\ phase # "out" => p.of["teardown"] = "none"
    /\ phase = "teardown" => (p.of["setup"] = "passed" <=> p.of["call"] # "none")
Told(i) ==
    IF i = Len(phases) /\ phase \in {"setup", "call"} THEN <<>>
    ELSE Report!Shown(phases[i]) \o Report!TornDown(phases[i])
OutcomesTold ==
    /\ IF Len(phases) = 0 THEN outcomes = <<>> ELSE phases[1].from = 0 /\ PhasesSoFar(phases[Len(phases)])
    /\ \A i \in DOMAIN phases : phases[i].from <= Len(outcomes) /\ Report!Tells(i, Told(i))

\* A test that has its section and did not run before has the last one.
NoReruns == \A i, j \in DOMAIN phases : phases[i].test = phases[j].test => i = j
LastIsItsOwn == Len(sections) > 0 /\ sections[Len(sections)].test = test
ItemsPlaced ==
    NoReruns =>
        /\ phase # "out" /\ opened /\ writesFile => LastIsItsOwn
        /\ \A k \in DOMAIN sections : sections[k].test # Report!NoTest =>
              \E i \in DOMAIN phases : phases[i].test = sections[k].test /\ (i = Len(phases) => opened)
        /\ \A k \in DOMAIN sections : \A i \in DOMAIN sections[k].items :
              sections[k].items[i].opened => sections[k].items[i].by = sections[k].test
ReportIInv == ReportTypes /\ OutcomesTold /\ ItemsPlaced

LEMMA ReportInit == Report!Init => ReportIInv
<1> SUFFICES ASSUME Report!Init PROVE ReportIInv
  OBVIOUS
<1>1. /\ outcomes = <<>> /\ sections = <<>> /\ phases = <<>> /\ writesFile \in BOOLEAN /\ headerTables = {}
      /\ report.outcomes = <<>> /\ report.headerTables = {} /\ test = Report!NoTest /\ phase = "out" /\ opened = FALSE
  BY DEF Report!Init, Report!Nothing
<1>2. \A S : <<>> \in Seq(S)
  OBVIOUS
<1>3. Len(<<>>) = 0 /\ DOMAIN <<>> = {}
  OBVIOUS
<1>4. ReportTypes
  BY <1>1, <1>2 DEF ReportTypes
<1>5. OutcomesTold
  BY <1>1, <1>3 DEF OutcomesTold
<1>6. ItemsPlaced
  BY <1>1, <1>3 DEF ItemsPlaced
<1> QED
  BY <1>4, <1>5, <1>6 DEF ReportIInv

\* Whatever was flushed last is what there is.
LEMMA FlushWrites ==
    ASSUME ReportTypes, Report!Flush, writesFile' = writesFile
    PROVE  IF writesFile' THEN report'.outcomes = outcomes' /\ report'.headerTables = headerTables'
           ELSE report'.outcomes = <<>> /\ report'.headerTables = {}
BY DEF ReportTypes, Report!Flush

\* The runs and what they told stay.
LEMMA RunsStay ==
    ASSUME ReportIInv, UNCHANGED <<outcomes, phases, phase>>
    PROVE  OutcomesTold'
<1>1. \A i : \A s : Report!Tells(i, s)' = Report!Tells(i, s)
  BY DEF Report!Tells
<1>2. \A i : Told(i)' = Told(i)
  BY DEF Told, Report!Shown, Report!TornDown
<1>3. \A p : PhasesSoFar(p)' = PhasesSoFar(p)
  BY DEF PhasesSoFar
<1>4. OutcomesTold
  BY DEF ReportIInv
<1> QED
  BY <1>1, <1>2, <1>3, <1>4 DEF OutcomesTold

LEMMA StartTestPreserves == ReportIInv /\ Report!StartTest => ReportIInv'
<1> SUFFICES ASSUME ReportIInv, Report!StartTest PROVE ReportIInv'
  OBVIOUS
<1>1. /\ UNCHANGED <<writesFile, outcomes, headerTables, report, test, phase, phases>>
      /\ phase = "setup" /\ opened' = TRUE
      /\ sections' = (IF writesFile THEN Report!Section(test) ELSE sections)
  BY DEF Report!StartTest
<1> DEFINE section == [test |-> test, items |-> <<>>]
<1>2. /\ test \in Tests /\ Len(phases) > 0 /\ phases[Len(phases)].test = test
      /\ DOMAIN phases = 1..Len(phases) /\ Len(phases) \in Nat
  <2>1. Len(phases) > 0 /\ phases[Len(phases)].test = test /\ phases \in Seq(TestRun)
    BY <1>1 DEF ReportIInv, ReportTypes
  <2>2. DOMAIN phases = 1..Len(phases) /\ Len(phases) \in Nat
    BY <2>1
  <2>3. phases[Len(phases)] \in TestRun
    BY <2>1, <2>2
  <2> QED
    BY <2>1, <2>2, <2>3 DEF TestRun
<1>3. section \in [test : Tests \union {Report!NoTest}, items : Seq(Item)]
  BY <1>2
<1>4. CASE sections' = sections
  <2>1. ReportTypes'
    BY <1>1, <1>4 DEF ReportIInv, ReportTypes
  <2>2. ASSUME NoReruns, writesFile PROVE LastIsItsOwn
    <3>1. \E s \in Report!ToSet(sections) : s.test = test
      <4>1. ASSUME ~\E s \in Report!ToSet(sections) : s.test = test PROVE FALSE
        <5>1. sections' = Append(sections, section)
          BY <1>1, <2>2, <4>1 DEF Report!Section
        <5>2. Len(sections') = Len(sections) + 1 /\ Len(sections) \in Nat
          BY <5>1 DEF ReportIInv, ReportTypes
        <5> QED
          BY <1>4, <5>2
      <4> QED
        BY <4>1
    <3>2. PICK k \in DOMAIN sections : sections[k].test = test
      BY <3>1 DEF Report!ToSet
    <3>3. PICK i \in DOMAIN phases : phases[i].test = test /\ (i = Len(phases) => opened)
      BY <1>2, <2>2, <3>2, FiguresAssumption DEF ReportIInv, ItemsPlaced, Report!NoTest
    <3>4. i = Len(phases)
      BY <1>2, <2>2, <3>3 DEF NoReruns
    <3> QED
      BY <1>1, <2>2, <3>3, <3>4 DEF ReportIInv, ItemsPlaced
  <2>3. ItemsPlaced'
    BY <1>1, <1>4, <2>2 DEF ReportIInv, ItemsPlaced, NoReruns, LastIsItsOwn
  <2> QED
    BY <1>1, <2>1, <2>3, RunsStay DEF ReportIInv
<1>5. CASE sections' = Append(sections, section)
  <2>1. /\ sections' \in Seq([test : Tests \union {Report!NoTest}, items : Seq(Item)])
        /\ Len(sections') = Len(sections) + 1 /\ Len(sections) \in Nat
        /\ sections'[Len(sections) + 1] = section /\ \A k \in DOMAIN sections : sections'[k] = sections[k]
        /\ DOMAIN sections' = DOMAIN sections \union {Len(sections) + 1}
    BY <1>3, <1>5 DEF ReportIInv, ReportTypes
  <2>2. ReportTypes'
    BY <1>1, <2>1 DEF ReportIInv, ReportTypes
  <2>3. section.test = test /\ section.items = <<>> /\ DOMAIN <<>> = {}
    OBVIOUS
  <2> HIDE DEF section
  <2>4. LastIsItsOwn'
    BY <1>1, <2>1, <2>3 DEF LastIsItsOwn
  <2>5. ItemsPlaced'
    <3> SUFFICES ASSUME NoReruns'
                 PROVE  /\ \A k \in DOMAIN sections' : sections'[k].test # Report!NoTest =>
                              \E i \in DOMAIN phases' : phases'[i].test = sections'[k].test /\ (i = Len(phases') => opened')
                        /\ \A k \in DOMAIN sections' : \A i \in DOMAIN sections'[k].items :
                              sections'[k].items[i].opened => sections'[k].items[i].by = sections'[k].test
      BY <2>4 DEF ItemsPlaced
    <3>1. NoReruns
      BY <1>1 DEF NoReruns
    <3>2. /\ \A k \in DOMAIN sections : sections[k].test # Report!NoTest =>
                \E i \in DOMAIN phases : phases[i].test = sections[k].test /\ (i = Len(phases) => opened)
          /\ \A k \in DOMAIN sections : \A i \in DOMAIN sections[k].items :
                sections[k].items[i].opened => sections[k].items[i].by = sections[k].test
      BY <3>1 DEF ReportIInv, ItemsPlaced
    <3>3. Len(phases) \in DOMAIN phases
      BY <1>2
    <3>4. ASSUME NEW k \in DOMAIN sections', sections'[k].test # Report!NoTest
          PROVE  \E i \in DOMAIN phases' : phases'[i].test = sections'[k].test /\ (i = Len(phases') => opened')
      BY <1>1, <1>2, <2>1, <2>3, <3>2, <3>3, <3>4
    <3>5. ASSUME NEW k \in DOMAIN sections', NEW i \in DOMAIN sections'[k].items, sections'[k].items[i].opened
          PROVE  sections'[k].items[i].by = sections'[k].test
      BY <2>1, <2>3, <3>2, <3>5
    <3> QED
      BY <3>4, <3>5
  <2> QED
    BY <1>1, <2>2, <2>5, RunsStay DEF ReportIInv
<1> QED
  BY <1>1, <1>4, <1>5 DEF Report!Section

\* Items are under way in a phase of a test that has begun.
LEMMA TestBegun ==
    ASSUME ReportTypes, phase # "out"
    PROVE  /\ test \in Tests /\ Len(phases) \in DOMAIN phases /\ phases[Len(phases)] \in TestRun
           /\ phases[Len(phases)].test = test /\ DOMAIN phases = 1..Len(phases) /\ Len(phases) \in Nat
<1>1. Len(phases) > 0 /\ phases[Len(phases)].test = test /\ phases \in Seq(TestRun)
  BY DEF ReportTypes
<1>2. DOMAIN phases = 1..Len(phases) /\ Len(phases) \in Nat
  BY <1>1
<1>3. phases[Len(phases)] \in TestRun
  BY <1>1, <1>2
<1> QED
  BY <1>1, <1>2, <1>3 DEF TestRun

LEMMA AppendItemPreserves == ReportIInv /\ Report!AppendItem => ReportIInv'
<1> SUFFICES ASSUME ReportIInv, Report!AppendItem PROVE ReportIInv'
  OBVIOUS
<1> DEFINE section == [test : Tests \union {Report!NoTest}, items : Seq(Item)]
           item == [by |-> test, opened |-> opened]
           open == Report!Opened
           last == Len(open)
<1>1. /\ UNCHANGED <<writesFile, outcomes, headerTables, test, phase, opened, phases>>
      /\ phase # "out" /\ Report!Flush
      /\ sections' = (IF writesFile THEN [open EXCEPT ![last].items = Append(@, item)] ELSE sections)
  BY DEF Report!AppendItem, Report!pytest, Report!TestPhases
<1>2. open \in Seq(section) /\ last > 0
  <2>1. <<>> \in Seq(Item)
    OBVIOUS
  <2>2. [test |-> Report!NoTest, items |-> <<>>] \in section
    BY <2>1
  <2>3. CASE sections = <<>>
    <3>1. open = <<[test |-> Report!NoTest, items |-> <<>>]>>
      BY <2>3 DEF Report!Opened
    <3> HIDE DEF section, open
    <3> QED
      BY <2>2, <3>1
  <2>4. CASE sections # <<>>
    <3>1. open = sections /\ sections \in Seq(section)
      BY <2>4 DEF Report!Opened, ReportIInv, ReportTypes
    <3> HIDE DEF section, open
    <3> QED
      BY <2>4, <3>1
  <2> QED
    BY <2>3, <2>4
<1>3. \/ open = sections
      \/ last = 1 /\ open[1].test = Report!NoTest /\ open[1].items = <<>> /\ Len(sections) = 0
  BY DEF Report!Opened
<1>4. item \in Item /\ item.by = test /\ item.opened = opened
  BY <1>1, TestBegun DEF ReportIInv, ReportTypes, Item
<1> HIDE DEF open
<1>5. open[last] \in section /\ DOMAIN open = 1..last /\ last \in Nat /\ last \in DOMAIN open
  <2> HIDE DEF section
  <2> QED
    BY <1>2
<1>6. ASSUME writesFile
      PROVE  /\ sections' \in Seq(section) /\ Len(sections') = last /\ DOMAIN sections' = 1..last
             /\ \A k \in 1..last : sections'[k].test = open[k].test
             /\ \A k \in 1..last : k # last => sections'[k] = open[k]
             /\ sections'[last].items = Append(open[last].items, item)
  <2>1. PICK more : more = Append(open[last].items, item)
    OBVIOUS
  <2>2. more \in Seq(Item)
    BY <1>4, <1>5, <2>1
  <2>3. sections' = [open EXCEPT ![last] = [open[last] EXCEPT !.items = more]]
    BY <1>1, <1>6, <2>1
  <2>4. [open[last] EXCEPT !.items = more] \in section
    BY <1>5, <2>2
  <2>5. [open[last] EXCEPT !.items = more].test = open[last].test /\ [open[last] EXCEPT !.items = more].items = more
    BY <1>5
  <2>6. sections' \in Seq(section) /\ Len(sections') = last
    BY <1>2, <1>5, <2>3, <2>4
  <2> QED
    BY <1>5, <2>1, <2>3, <2>5, <2>6
<1>7. sections' \in Seq(section)
  BY <1>1, <1>6 DEF ReportIInv, ReportTypes
<1>8. ReportTypes'
  BY <1>1, <1>7, FlushWrites DEF ReportIInv, ReportTypes
<1>9. OutcomesTold'
  BY <1>1, RunsStay
<1>10. ASSUME ~writesFile PROVE ItemsPlaced'
  <2>1. sections' = sections
    BY <1>1, <1>10
  <2> QED
    BY <1>1, <1>10, <2>1 DEF ReportIInv, ItemsPlaced, NoReruns, LastIsItsOwn
<1>11. ASSUME writesFile PROVE ItemsPlaced'
  <2> SUFFICES ASSUME NoReruns' PROVE
         /\ phase' # "out" /\ opened' /\ writesFile' => LastIsItsOwn'
         /\ \A k \in DOMAIN sections' : sections'[k].test # Report!NoTest =>
               \E i \in DOMAIN phases' : phases'[i].test = sections'[k].test /\ (i = Len(phases') => opened')
         /\ \A k \in DOMAIN sections' : \A i \in DOMAIN sections'[k].items :
               sections'[k].items[i].opened => sections'[k].items[i].by = sections'[k].test
    BY DEF ItemsPlaced
  <2>1. NoReruns
    BY <1>1 DEF NoReruns
  <2>2. /\ opened => Len(sections) > 0 /\ sections[Len(sections)].test = test
        /\ \A k \in DOMAIN sections : sections[k].test # Report!NoTest =>
              \E i \in DOMAIN phases : phases[i].test = sections[k].test /\ (i = Len(phases) => opened)
        /\ \A k \in DOMAIN sections : \A i \in DOMAIN sections[k].items :
              sections[k].items[i].opened => sections[k].items[i].by = sections[k].test
    BY <1>1, <1>11, <2>1 DEF ReportIInv, ItemsPlaced, LastIsItsOwn
  <2>3. /\ opened => open[last].test = test
        /\ \A k \in 1..last : open[k].test # Report!NoTest =>
              \E i \in DOMAIN phases : phases[i].test = open[k].test /\ (i = Len(phases) => opened)
        /\ \A k \in 1..last : \A i \in DOMAIN open[k].items :
              open[k].items[i].opened => open[k].items[i].by = open[k].test
    <3>1. CASE open = sections
      BY <1>5, <2>2, <3>1
    <3>2. CASE last = 1 /\ open[1].test = Report!NoTest /\ open[1].items = <<>> /\ Len(sections) = 0
      <4>1. DOMAIN open[1].items = {}
        BY <3>2
      <4> QED
        BY <2>2, <3>2, <4>1
    <3> QED
      BY <1>3, <3>1, <3>2
  <2>4. opened' => LastIsItsOwn'
    BY <1>1, <1>5, <1>6, <1>11, <2>3 DEF LastIsItsOwn
  <2>5. ASSUME NEW k \in DOMAIN sections', sections'[k].test # Report!NoTest
        PROVE  \E i \in DOMAIN phases' : phases'[i].test = sections'[k].test /\ (i = Len(phases') => opened')
    BY <1>1, <1>6, <1>11, <2>3, <2>5
  <2>6. ASSUME NEW k \in DOMAIN sections', NEW i \in DOMAIN sections'[k].items, sections'[k].items[i].opened
        PROVE  sections'[k].items[i].by = sections'[k].test
    <3>1. k \in 1..last
      BY <1>6, <1>11
    <3>2. CASE k # last
      BY ZenonT(40), <1>6, <1>11, <2>3, <2>6, <3>1, <3>2
    <3>3. CASE k = last
      <4>1. PICK its : its = open[last].items
        OBVIOUS
      <4>2. its \in Seq(Item)
        BY <1>5, <4>1
      <4>3. sections'[k].items = Append(its, item)
        BY <1>6, <1>11, <3>3, <4>1
      <4>4. \/ i \in DOMAIN its /\ sections'[k].items[i] = its[i]
            \/ sections'[k].items[i] = item
        BY <2>6, <4>2, <4>3
      <4>5. CASE i \in DOMAIN its /\ sections'[k].items[i] = its[i]
        <5>1. its[i].opened => its[i].by = open[k].test
          BY <2>3, <3>1, <3>3, <4>1, <4>5
        <5> QED
          BY <1>6, <1>11, <2>6, <3>1, <4>5, <5>1
      <4>6. CASE sections'[k].items[i] = item
        BY <1>4, <1>6, <1>11, <2>3, <2>6, <3>1, <3>3, <4>6
      <4> QED
        BY <4>4, <4>5, <4>6
    <3> QED
      BY <3>2, <3>3
  <2> QED
    BY <2>4, <2>5, <2>6
<1> QED
  BY <1>8, <1>9, <1>10, <1>11 DEF ReportIInv

LEMMA AddHeaderTablePreserves == ReportIInv /\ Report!AddHeaderTable => ReportIInv'
<1> SUFFICES ASSUME ReportIInv, Report!AddHeaderTable PROVE ReportIInv'
  OBVIOUS
<1>1. UNCHANGED <<writesFile, outcomes, sections, test, phase, opened, phases>> /\ Report!Flush
  BY DEF Report!AddHeaderTable, Report!pytest
<1>2. ReportTypes'
  BY <1>1, FlushWrites DEF ReportIInv, ReportTypes
<1>3. ItemsPlaced'
  BY <1>1 DEF ReportIInv, ItemsPlaced, NoReruns, LastIsItsOwn
<1> QED
  BY <1>1, <1>2, <1>3, RunsStay DEF ReportIInv

LEMMA BeginTestPreserves == ReportIInv /\ Report!BeginTest => ReportIInv'
<1> SUFFICES ASSUME ReportIInv, Report!BeginTest PROVE ReportIInv'
  OBVIOUS
<1>1. PICK t \in Tests : test' = t
  BY DEF Report!BeginTest
<1>2. PICK ran : ran = [test |-> t, from |-> Len(outcomes), of |-> [p \in Report!TestPhases |-> "none"]]
  OBVIOUS
<1>3. PICK n : n = Len(phases)
  OBVIOUS
<1>4. /\ UNCHANGED <<writesFile, outcomes, sections, headerTables, report>>
      /\ phase = "out" /\ phase' = "setup" /\ opened' = FALSE /\ phases' = Append(phases, ran)
  BY <1>1, <1>2 DEF Report!BeginTest
<1>5. Len(outcomes) \in Nat /\ n \in Nat /\ DOMAIN phases = 1..n /\ phases \in Seq(TestRun)
  BY <1>3 DEF ReportIInv, ReportTypes
<1>6. ran \in TestRun /\ ran.test = t /\ ran.from = Len(outcomes) /\ ran.of = [p \in Report!TestPhases |-> "none"]
  BY <1>1, <1>2, <1>5 DEF TestRun
<1>7. /\ phases' \in Seq(TestRun) /\ Len(phases') = n + 1 /\ DOMAIN phases' = 1..(n + 1)
      /\ phases'[n + 1] = ran /\ \A i \in 1..n : phases'[i] = phases[i]
  BY <1>3, <1>4, <1>5, <1>6
<1>8. ReportTypes'
  <2>1. Len(phases') > 0 /\ phases'[Len(phases')].test = test'
    BY <1>1, <1>5, <1>6, <1>7
  <2>2. IF writesFile' THEN report'.outcomes = outcomes' /\ report'.headerTables = headerTables'
        ELSE report'.outcomes = <<>> /\ report'.headerTables = {}
    BY <1>4 DEF ReportIInv, ReportTypes
  <2> QED
    BY <1>1, <1>4, <1>7, <2>1, <2>2 DEF ReportIInv, ReportTypes
<1>9. OutcomesTold'
  <2>1. OutcomesTold
    BY DEF ReportIInv
  <2>2. PhasesSoFar(ran)'
    BY <1>4, <1>6 DEF PhasesSoFar, Report!TestPhases
  <2>3. phases'[1].from = 0
    <3>1. CASE n = 0
      <4>1. Len(outcomes) = 0
        BY <1>3, <2>1, <3>1 DEF OutcomesTold
      <4> QED
        BY <1>6, <1>7, <3>1, <4>1
    <3>2. CASE n # 0
      BY <1>3, <1>5, <1>7, <2>1, <3>2 DEF OutcomesTold
    <3> QED
      BY <3>1, <3>2
  <2>4. ASSUME NEW i \in 1..n PROVE phases'[i].from <= Len(outcomes') /\ Report!Tells(i, Told(i))'
    <3>1. PICK told : told = Report!Shown(phases[i]) \o Report!TornDown(phases[i])
      OBVIOUS
    <3>2. Told(i) = told /\ Told(i)' = told
      BY <1>4, <1>5, <1>7, <3>1 DEF Told, Report!Shown, Report!TornDown
    <3>3. phases[i].from <= Len(outcomes) /\ Report!Tells(i, told)
      BY <1>5, <2>1, <3>2 DEF OutcomesTold
    <3>4. (IF i < Len(phases') THEN phases'[i + 1].from ELSE Len(outcomes')) =
             (IF i < Len(phases) THEN phases[i + 1].from ELSE Len(outcomes))
      <4>1. CASE i = n
        BY <1>3, <1>5, <1>6, <1>7, <4>1
      <4>2. CASE i # n
        BY <1>3, <1>5, <1>7, <4>2
      <4> QED
        BY <4>1, <4>2
    <3>5. Report!Tells(i, told)'
      BY <1>4, <1>7, <3>3, <3>4 DEF Report!Tells
    <3> QED
      BY <1>4, <1>7, <3>2, <3>3, <3>5
  <2>5. phases'[n + 1].from <= Len(outcomes') /\ Report!Tells(n + 1, Told(n + 1))'
    <3>1. Told(n + 1)' = <<>> /\ Len(<<>>) = 0
      BY <1>4, <1>7 DEF Told
    <3>2. Report!Tells(n + 1, <<>>)'
      BY <1>4, <1>5, <1>6, <1>7, <3>1 DEF Report!Tells
    <3> QED
      BY <1>4, <1>5, <1>6, <1>7, <3>1, <3>2
  <2>6. \A i \in DOMAIN phases' : phases'[i].from <= Len(outcomes') /\ Report!Tells(i, Told(i))'
    <3>1. DOMAIN phases' = (1..n) \union {n + 1}
      BY <1>5, <1>7
    <3> QED
      BY <2>4, <2>5, <3>1
  <2> QED
    BY <1>5, <1>7, <2>2, <2>3, <2>6 DEF OutcomesTold
<1>10. ItemsPlaced'
  <2>1. NoReruns' => NoReruns
    <3> SUFFICES ASSUME NoReruns', NEW i \in 1..n, NEW j \in 1..n, phases[i].test = phases[j].test PROVE i = j
      BY <1>5 DEF NoReruns
    <3>1. i \in DOMAIN phases' /\ j \in DOMAIN phases' /\ phases'[i].test = phases'[j].test
      BY <1>5, <1>7
    <3> QED
      BY <3>1 DEF NoReruns
  <2>2. ASSUME NoReruns, NEW k \in DOMAIN sections, sections[k].test # Report!NoTest
        PROVE  \E i \in DOMAIN phases' : phases'[i].test = sections[k].test /\ i # Len(phases')
    <3>1. PICK i \in DOMAIN phases : phases[i].test = sections[k].test
      BY <2>2 DEF ReportIInv, ItemsPlaced
    <3>2. i \in DOMAIN phases' /\ phases'[i].test = sections[k].test /\ i # Len(phases')
      BY <1>5, <1>7, <3>1
    <3> QED
      BY <3>2
  <2> QED
    BY <1>4, <2>1, <2>2 DEF ReportIInv, ItemsPlaced
<1> QED
  BY <1>8, <1>9, <1>10 DEF ReportIInv

LEMMA ShownIs ==
    ASSUME NEW p \in TestRun
    PROVE  /\ Report!Shown(p) = IF p.of["call"] # "none" THEN <<p.of["call"]>>
                                ELSE IF p.of["setup"] = "failed" THEN <<"error">> ELSE <<"skipped">>
           /\ Report!Shown(p) \in Seq({"none", "passed", "failed", "skipped", "error"})
           /\ Report!TornDown(p) = IF p.of["teardown"] = "failed" THEN <<"error">> ELSE <<>>
<1>1. p.of["call"] \in {"none", "passed", "failed", "skipped"}
  BY DEF TestRun, Report!TestPhases
<1>2. Report!Shown(p) = IF p.of["call"] # "none" THEN <<p.of["call"]>>
                        ELSE IF p.of["setup"] = "failed" THEN <<"error">> ELSE <<"skipped">>
  BY DEF Report!Shown
<1> DEFINE Told4 == {"none", "passed", "failed", "skipped", "error"}
<1>3. <<p.of["call"]>> \in Seq(Told4) /\ <<"error">> \in Seq(Told4) /\ <<"skipped">> \in Seq(Told4)
  BY <1>1
<1> QED
  BY <1>2, <1>3 DEF Report!TornDown

\* What a phase's result adds to what the run has told is what is recorded.
LEMMA PhaseTells ==
    ASSUME ReportIInv, Report!EndPhase
    PROVE  \E n, p, ran :
              /\ n = Len(phases) /\ p = phases[n] /\ ran = phases'[n]
              /\ phases' \in Seq(TestRun) /\ Len(phases') = n /\ ran.test = p.test /\ ran.from = p.from
              /\ \A i \in DOMAIN phases : i # n => phases'[i] = phases[i]
              /\ PhasesSoFar(ran)'
              /\ \/ UNCHANGED <<outcomes, report>> /\ Told(n)' = Told(n)
                 \/ \E o \in {"passed", "failed", "skipped", "error"} :
                       Report!RecordOutcome(o) /\ Told(n)' = Append(Told(n), o)
<1>1. PICK n : n = Len(phases)
  OBVIOUS
<1>2. PICK p : p = phases[n]
  OBVIOUS
<1>3. PICK ran : ran = phases'[n]
  OBVIOUS
<1>4. PICK result \in {"passed", "failed", "skipped"} :
          /\ phases' = [phases EXCEPT ![n].of[phase] = result] /\ Report!LogReport(result)
          /\ phase' = CASE phase = "setup" -> IF result = "passed" THEN "call" ELSE "teardown"
                        [] phase = "call" -> "teardown"
                        [] phase = "teardown" -> "out"
  BY <1>1 DEF Report!EndPhase
<1>5. phase # "out"
  BY DEF Report!EndPhase
<1> SUFFICES
        /\ phases' \in Seq(TestRun) /\ Len(phases') = n /\ ran.test = p.test /\ ran.from = p.from
        /\ \A i \in DOMAIN phases : i # n => phases'[i] = phases[i]
        /\ PhasesSoFar(ran)'
        /\ \/ UNCHANGED <<outcomes, report>> /\ Told(n)' = Told(n)
           \/ \E o \in {"passed", "failed", "skipped", "error"} :
                 Report!RecordOutcome(o) /\ Told(n)' = Append(Told(n), o)
  BY <1>1, <1>2, <1>3
<1>6. /\ p \in TestRun /\ n \in DOMAIN phases /\ DOMAIN phases = 1..n /\ n \in Nat /\ phases \in Seq(TestRun)
      /\ phase \in {"setup", "call", "teardown"}
  BY <1>1, <1>2, <1>5, TestBegun DEF ReportIInv, ReportTypes
<1>7. PhasesSoFar(p)
  BY <1>6, <1>1, <1>2 DEF ReportIInv, OutcomesTold
<1>8. p.of \in [Report!TestPhases -> {"none", "passed", "failed", "skipped"}]
  BY <1>6 DEF TestRun
<1>9. PICK of : of = [p.of EXCEPT ![phase] = result]
  OBVIOUS
<1>10. /\ of \in [Report!TestPhases -> {"none", "passed", "failed", "skipped"}]
       /\ \A q \in Report!TestPhases : of[q] = IF q = phase THEN result ELSE p.of[q]
  BY <1>6, <1>8, <1>9 DEF Report!TestPhases
<1>11. phases' = [phases EXCEPT ![n] = [p EXCEPT !.of = of]]
  BY <1>9, <1>2, <1>4
<1>12. /\ ran = [p EXCEPT !.of = of] /\ [p EXCEPT !.of = of] \in TestRun
       /\ [p EXCEPT !.of = of].of = of /\ [p EXCEPT !.of = of].test = p.test /\ [p EXCEPT !.of = of].from = p.from
  BY <1>6, <1>10, <1>11, <1>3 DEF TestRun
<1>13. /\ phases' \in Seq(TestRun) /\ Len(phases') = n /\ ran \in TestRun
       /\ ran.test = p.test /\ ran.from = p.from /\ ran.of = of
       /\ \A i \in DOMAIN phases : i # n => phases'[i] = phases[i]
  <2>1. PICK more \in TestRun : more = [p EXCEPT !.of = of] /\ more.of = of /\ more.test = p.test /\ more.from = p.from
    BY <1>12
  <2>2. phases' = [phases EXCEPT ![n] = more]
    BY <1>11, <2>1
  <2>3. phases' \in Seq(TestRun) /\ Len(phases') = n /\ \A i \in DOMAIN phases : i # n => phases'[i] = phases[i]
    BY <1>6, <2>2
  <2> QED
    BY <1>12, <2>1, <2>3
<1>14. \A q \in {"setup", "call", "teardown"} : ran.of[q] = IF q = phase THEN result ELSE p.of[q]
  BY <1>10, <1>13 DEF Report!TestPhases
<1>15. /\ Told(n) = IF phase \in {"setup", "call"} THEN <<>> ELSE Report!Shown(p) \o Report!TornDown(p)
       /\ Told(n)' = IF phase' \in {"setup", "call"} THEN <<>> ELSE Report!Shown(ran) \o Report!TornDown(ran)
  <2>1. Told(n) = IF phase \in {"setup", "call"} THEN <<>> ELSE Report!Shown(phases[n]) \o Report!TornDown(phases[n])
    BY <1>1 DEF Told
  <2>2. Told(n)' = IF n = Len(phases') /\ phase' \in {"setup", "call"} THEN <<>>
                   ELSE Report!Shown(phases'[n]) \o Report!TornDown(phases'[n])
    BY <1>1 DEF Told
  <2> QED
    BY <1>13, <1>1, <1>2, <1>3, <2>1, <2>2
<1>16. /\ Report!Shown(ran) = IF ran.of["call"] # "none" THEN <<ran.of["call"]>>
                               ELSE IF ran.of["setup"] = "failed" THEN <<"error">> ELSE <<"skipped">>
       /\ Report!TornDown(ran) = IF ran.of["teardown"] = "failed" THEN <<"error">> ELSE <<>>
  BY <1>13, ShownIs
<1>17. /\ Report!Shown(p) = IF p.of["call"] # "none" THEN <<p.of["call"]>>
                             ELSE IF p.of["setup"] = "failed" THEN <<"error">> ELSE <<"skipped">>
       /\ Report!TornDown(p) = IF p.of["teardown"] = "failed" THEN <<"error">> ELSE <<>>
  BY <1>6, ShownIs
<1>18. /\ \A o : Append(<<>>, o) = <<o>> /\ <<o>> \o <<>> = <<o>>
       /\ \A o : <<o>> \o <<"error">> = Append(<<o>>, "error")
  OBVIOUS
<1>19. CASE phase = "setup"
  <2>1. ran.of["setup"] = result /\ ran.of["call"] = "none" /\ ran.of["teardown"] = "none"
    BY <1>7, <1>14, <1>19 DEF PhasesSoFar
  <2>2. phase' = IF result = "passed" THEN "call" ELSE "teardown"
    BY <1>19, <1>4
  <2>3. PhasesSoFar(ran)'
    BY <1>13, <2>1, <2>2 DEF PhasesSoFar
  <2>4. CASE result = "passed"
    <3>1. UNCHANGED <<outcomes, report>>
      BY <1>19, <2>4, <1>4 DEF Report!LogReport
    <3>2. Told(n)' = <<>> /\ Told(n) = <<>>
      BY <1>15, <1>19, <2>2, <2>4
    <3> QED
      BY <1>13, <2>3, <3>1, <3>2
  <2>5. CASE result = "failed"
    <3>1. Report!RecordOutcome("error")
      BY <1>19, <2>5, <1>4 DEF Report!LogReport
    <3>2. Told(n)' = <<"error">> /\ Told(n) = <<>>
      BY <1>13, <1>15, <1>18, <1>19, <2>1, <2>2, <2>5, <1>16
    <3> QED
      BY <1>13, <1>18, <2>3, <3>1, <3>2
  <2>6. CASE result = "skipped"
    <3>1. Report!RecordOutcome("skipped")
      BY <1>19, <2>6, <1>4 DEF Report!LogReport
    <3>2. Told(n)' = <<"skipped">> /\ Told(n) = <<>>
      BY <1>13, <1>15, <1>18, <1>19, <2>1, <2>2, <2>6, <1>16
    <3> QED
      BY <1>13, <1>18, <2>3, <3>1, <3>2
  <2> QED
    BY <2>4, <2>5, <2>6
<1>20. CASE phase = "call"
  <2>1. ran.of["call"] = result /\ ran.of["setup"] = "passed" /\ ran.of["teardown"] = "none"
    BY <1>7, <1>14, <1>20 DEF PhasesSoFar
  <2>2. phase' = "teardown"
    BY <1>20, <1>4
  <2>3. PhasesSoFar(ran)'
    BY <1>13, <2>1, <2>2 DEF PhasesSoFar
  <2>4. Report!RecordOutcome(result)
    BY <1>20, <1>4 DEF Report!LogReport
  <2>5. Told(n)' = <<result>> /\ Told(n) = <<>>
    BY <1>13, <1>15, <1>18, <1>20, <2>1, <2>2, <1>16
  <2> QED
    BY <1>13, <1>18, <2>3, <2>4, <2>5
<1>21. CASE phase = "teardown"
  <2>1. ran.of["call"] = p.of["call"] /\ ran.of["setup"] = p.of["setup"] /\ ran.of["teardown"] = result /\ p.of["teardown"] = "none"
    BY <1>7, <1>14, <1>21 DEF PhasesSoFar
  <2>2. phase' = "out"
    BY <1>21, <1>4
  <2>3. PhasesSoFar(ran)'
    BY <2>2 DEF PhasesSoFar
  <2>4. PICK o : Report!Shown(p) = <<o>> /\ Report!Shown(ran) = <<o>>
    BY <2>1, <1>16, <1>17
  <2>5. Told(n) = <<o>>
    BY <1>15, <1>18, <1>21, <2>1, <2>4, <1>17
  <2>6. CASE result = "failed"
    <3>1. Report!RecordOutcome("error")
      BY <1>21, <2>6, <1>4 DEF Report!LogReport
    <3>2. Told(n)' = Append(Told(n), "error")
      <4>1. Report!TornDown(ran) = <<"error">>
        BY <1>16, <2>1, <2>6
      <4>2. Told(n)' = Report!Shown(ran) \o Report!TornDown(ran)
        BY <1>15, <2>2
      <4> QED
        BY <1>18, <2>4, <2>5, <4>1, <4>2
    <3> QED
      BY <1>13, <2>3, <3>1, <3>2
  <2>7. CASE result # "failed"
    <3>1. UNCHANGED <<outcomes, report>>
      BY <1>21, <2>7, <1>4 DEF Report!LogReport
    <3>2. Told(n)' = Told(n)
      BY <1>13, <1>15, <1>18, <2>1, <2>2, <2>4, <2>5, <2>7, <1>16
    <3> QED
      BY <1>13, <2>3, <3>1, <3>2
  <2> QED
    BY <2>6, <2>7
<1> QED
  BY <1>6, <1>19, <1>20, <1>21

LEMMA EndPhasePreserves == ReportIInv /\ Report!EndPhase => ReportIInv'
<1> SUFFICES ASSUME ReportIInv, Report!EndPhase PROVE ReportIInv'
  OBVIOUS
<1>1. PICK result \in {"passed", "failed", "skipped"} :
          /\ phases' = [phases EXCEPT ![Len(phases)].of[phase] = result]
          /\ UNCHANGED <<writesFile, sections, headerTables>> /\ Report!LogReport(result)
          /\ phase' = CASE phase = "setup" -> IF result = "passed" THEN "call" ELSE "teardown"
                        [] phase = "call" -> "teardown"
                        [] phase = "teardown" -> "out"
    BY DEF Report!EndPhase
<1>2. phase # "out" /\ UNCHANGED <<test, opened>>
  BY DEF Report!EndPhase
<1>6. PICK n, p, ran :
          /\ n = Len(phases) /\ p = phases[n] /\ ran = phases'[n]
          /\ phases' \in Seq(TestRun) /\ Len(phases') = n /\ ran.test = p.test /\ ran.from = p.from
          /\ \A i \in DOMAIN phases : i # n => phases'[i] = phases[i]
          /\ PhasesSoFar(ran)'
          /\ \/ UNCHANGED <<outcomes, report>> /\ Told(n)' = Told(n)
             \/ \E o \in {"passed", "failed", "skipped", "error"} :
                   Report!RecordOutcome(o) /\ Told(n)' = Append(Told(n), o)
  BY PhaseTells
<1>7. /\ p \in TestRun /\ n \in DOMAIN phases /\ DOMAIN phases = 1..n /\ n \in Nat /\ p.test = test /\ test \in Tests
  BY <1>2, <1>6, TestBegun DEF ReportIInv
<1>8. DOMAIN phases' = 1..n /\ \A i \in 1..n : phases'[i].test = phases[i].test /\ phases'[i].from = phases[i].from
  BY <1>6, <1>7
<1>9. phase' \in {"out", "setup", "call", "teardown"}
  BY <1>1, <1>2 DEF ReportIInv, ReportTypes
<1>10. OutcomesTold /\ outcomes \in Seq(Outcome) /\ Len(outcomes) \in Nat
  BY DEF ReportIInv, ReportTypes
<1>11. \/ UNCHANGED <<outcomes, report>> /\ Told(n)' = Told(n)
       \/ \E o \in {"passed", "failed", "skipped", "error"} :
             /\ outcomes' = Append(outcomes, [test |-> test, outcome |-> o]) /\ Report!Flush
             /\ Told(n)' = Append(Told(n), o)
  BY <1>6 DEF Report!RecordOutcome
<1>12. /\ outcomes' \in Seq(Outcome) /\ Len(outcomes') \in Nat /\ Len(outcomes) <= Len(outcomes')
       /\ \A i \in 1..Len(outcomes) : outcomes'[i] = outcomes[i]
  <2>1. ASSUME NEW o \in {"passed", "failed", "skipped", "error"}, outcomes' = Append(outcomes, [test |-> test, outcome |-> o])
        PROVE  /\ outcomes' \in Seq(Outcome) /\ Len(outcomes') = Len(outcomes) + 1
               /\ \A i \in 1..Len(outcomes) : outcomes'[i] = outcomes[i]
    <3>1. [test |-> test, outcome |-> o] \in Outcome
      BY <1>7 DEF Outcome
    <3>2. PICK it \in Outcome : it = [test |-> test, outcome |-> o]
      BY <3>1
    <3> QED
      BY <1>10, <2>1, <3>2
  <2> QED
    BY <1>10, <1>11, <2>1
<1>13. ReportTypes'
  <2>1. IF writesFile' THEN report'.outcomes = outcomes' /\ report'.headerTables = headerTables'
        ELSE report'.outcomes = <<>> /\ report'.headerTables = {}
    <3>1. CASE UNCHANGED <<outcomes, report>>
      BY <1>1, <3>1 DEF ReportIInv, ReportTypes
    <3>2. CASE Report!Flush
      BY <1>1, <3>2, FlushWrites DEF ReportIInv
    <3> QED
      BY <1>11, <3>1, <3>2
  <2>2. Len(phases') > 0 /\ phases'[Len(phases')].test = test'
    BY <1>2, <1>6, <1>7
  <2> QED
    BY <1>1, <1>2, <1>6, <1>9, <1>12, <2>1, <2>2 DEF ReportIInv, ReportTypes
<1>14. OutcomesTold'
  <2>1. phases'[Len(phases')] = ran /\ PhasesSoFar(ran)'
    BY <1>6
  <2>2. phases'[1].from = 0
    BY <1>6, <1>7, <1>8, <1>10 DEF OutcomesTold
  <2>3. ASSUME NEW i \in 1..n, i # n PROVE Report!Tells(i, Told(i))'
    <3>1. PICK told : told = Report!Shown(phases[i]) \o Report!TornDown(phases[i])
      OBVIOUS
    <3>2. Told(i) = told /\ Told(i)' = told
      <4>1. Told(i)' = IF i = Len(phases') /\ phase' \in {"setup", "call"} THEN <<>>
                       ELSE Report!Shown(phases'[i]) \o Report!TornDown(phases'[i])
        BY DEF Told
      <4>2. phases'[i] = phases[i] /\ i # Len(phases') /\ i # Len(phases)
        BY <1>6, <1>7, <2>3
      <4> QED
        BY <3>1, <4>1, <4>2 DEF Told
    <3>3. Report!Tells(i, told)
      BY <1>7, <1>10, <3>2 DEF OutcomesTold
    <3>4. i + 1 \in 1..n /\ i < Len(phases) /\ i < Len(phases')
      BY <1>6, <1>7, <2>3
    <3>5. /\ phases'[i + 1].from = phases[i + 1].from /\ phases[i + 1].from <= Len(outcomes)
          /\ phases[i + 1].from \in Nat /\ phases[i].from \in Nat
      <4>1. phases[i] \in TestRun /\ phases[i + 1] \in TestRun
        BY <1>7, <3>4 DEF ReportIInv, ReportTypes
      <4> QED
        BY <1>7, <1>8, <1>10, <3>4, <4>1 DEF OutcomesTold, TestRun
    <3>6. Report!Tells(i, told)'
      <4>1. /\ Len(told) = phases[i + 1].from - phases[i].from
            /\ \A j \in 1..Len(told) : outcomes[phases[i].from + j] = [test |-> phases[i].test, outcome |-> told[j]]
        BY <3>3, <3>4 DEF Report!Tells
      <4>2. \A j \in 1..Len(told) : phases[i].from + j \in 1..Len(outcomes)
        BY <1>10, <3>5, <4>1
      <4>3. \A j \in 1..Len(told) : outcomes'[phases'[i].from + j] = [test |-> phases'[i].test, outcome |-> told[j]]
        BY <1>8, <1>12, <4>1, <4>2
      <4> QED
        BY <1>8, <3>4, <3>5, <4>1, <4>3 DEF Report!Tells
    <3> QED
      BY <3>2, <3>6
  <2>4. Report!Tells(n, Told(n))'
    <3>1. PICK told : told = Told(n)
      OBVIOUS
    <3>2. /\ Len(told) = Len(outcomes) - p.from /\ p.from \in Nat /\ p.from <= Len(outcomes)
          /\ \A j \in 1..Len(told) : outcomes[p.from + j] = [test |-> p.test, outcome |-> told[j]]
      <4>1. Report!Tells(n, told) /\ p.from <= Len(outcomes)
        BY <1>6, <1>7, <1>10, <3>1 DEF OutcomesTold
      <4> QED
        BY <1>6, <1>7, <4>1 DEF Report!Tells, TestRun
    <3>3. ASSUME NEW after, Told(n)' = after, Len(after) = Len(outcomes') - p.from,
                 \A j \in 1..Len(after) : outcomes'[p.from + j] = [test |-> p.test, outcome |-> after[j]]
          PROVE  Report!Tells(n, Told(n))'
      <4>1. Report!Tells(n, after)'
        BY <1>6, <3>3 DEF Report!Tells
      <4> QED
        BY <3>3, <4>1
    <3>4. CASE UNCHANGED outcomes /\ Told(n)' = Told(n)
      BY <3>1, <3>2, <3>3, <3>4
    <3>5. CASE \E o \in {"passed", "failed", "skipped", "error"} :
                /\ outcomes' = Append(outcomes, [test |-> test, outcome |-> o]) /\ Told(n)' = Append(Told(n), o)
      <4>1. PICK o \in {"passed", "failed", "skipped", "error"} :
                outcomes' = Append(outcomes, [test |-> test, outcome |-> o]) /\ Told(n)' = Append(told, o)
        BY <3>1, <3>5
      <4>2. told \in Seq({"none", "passed", "failed", "skipped", "error"})
        <5>1. told = IF phase \in {"setup", "call"} THEN <<>> ELSE Report!Shown(p) \o Report!TornDown(p)
          BY <1>6, <3>1 DEF Told
        <5>2. Report!TornDown(p) \in {<<"error">>, <<>>}
          BY <1>7, ShownIs
        <5>3. Report!Shown(p) \in Seq({"none", "passed", "failed", "skipped", "error"})
          BY <1>7, ShownIs
        <5>4. \A S : <<>> \in Seq(S) /\ \A s \in S : <<s>> \in Seq(S)
          OBVIOUS
        <5>5. /\ <<>> \in Seq({"none", "passed", "failed", "skipped", "error"})
              /\ Report!TornDown(p) \in Seq({"none", "passed", "failed", "skipped", "error"})
          BY <5>2, <5>4
        <5>6. Report!Shown(p) \o Report!TornDown(p) \in Seq({"none", "passed", "failed", "skipped", "error"})
          BY <5>3, <5>5
        <5> QED
          BY <5>1, <5>5, <5>6
      <4>3. PICK it : it = [test |-> test, outcome |-> o]
        OBVIOUS
      <4>4. it \in Outcome
        BY <1>7, <4>3 DEF Outcome
      <4>5. PICK after : after = Append(told, o)
        OBVIOUS
      <4>6. /\ Len(after) = Len(told) + 1 /\ after[Len(told) + 1] = o /\ Len(told) \in Nat
            /\ \A j \in 1..Len(told) : after[j] = told[j]
        BY <4>2, <4>5
      <4>7. /\ Len(outcomes') = Len(outcomes) + 1 /\ outcomes'[Len(outcomes) + 1] = it
            /\ \A j \in 1..Len(outcomes) : outcomes'[j] = outcomes[j]
        BY <1>10, <4>1, <4>3, <4>4
      <4>8. Len(after) = Len(outcomes') - p.from
        BY <1>10, <3>2, <4>6, <4>7
      <4>9. ASSUME NEW j \in 1..Len(after) PROVE outcomes'[p.from + j] = [test |-> p.test, outcome |-> after[j]]
        <5>1. CASE j \in 1..Len(told)
          <6>1. p.from + j \in 1..Len(outcomes)
            BY <1>10, <3>2, <5>1
          <6> QED
            BY <3>2, <4>6, <4>7, <5>1, <6>1
        <5>2. CASE j = Len(told) + 1
          <6>1. p.from + j = Len(outcomes) + 1
            BY <1>10, <3>2, <5>2
          <6> QED
            BY <1>7, <4>3, <4>6, <4>7, <5>2, <6>1
        <5> QED
          BY <4>6, <5>1, <5>2
      <4> QED
        BY <3>3, <4>1, <4>5, <4>8, <4>9
    <3> QED
      BY <1>11, <3>4, <3>5
  <2>5. \A i \in 1..n : phases'[i].from <= Len(outcomes')
    <3> SUFFICES ASSUME NEW i \in 1..n PROVE phases'[i].from <= Len(outcomes')
      OBVIOUS
    <3>1. phases[i].from <= Len(outcomes) /\ phases[i] \in TestRun
      BY <1>7, <1>10 DEF OutcomesTold, ReportIInv, ReportTypes
    <3>2. phases[i].from \in Nat
      BY <3>1 DEF TestRun
    <3> QED
      BY <1>8, <1>10, <1>12, <3>1, <3>2
  <2> QED
    BY <1>6, <1>7, <1>8, <2>1, <2>2, <2>3, <2>4, <2>5 DEF OutcomesTold
<1>15. ItemsPlaced'
  <2>1. NoReruns' => NoReruns
    BY <1>7, <1>8 DEF NoReruns
  <2> QED
    BY <1>1, <1>2, <1>6, <1>7, <1>8, <2>1 DEF ReportIInv, ItemsPlaced, LastIsItsOwn
<1> QED
  BY <1>13, <1>14, <1>15 DEF ReportIInv

LEMMA ReportStep == ReportIInv /\ [Report!Next]_reportVars => ReportIInv'
<1>1. CASE UNCHANGED reportVars
  <2>1. ReportTypes => ReportTypes'
    BY <1>1 DEF reportVars, ReportTypes
  <2>2. ItemsPlaced => ItemsPlaced'
    BY <1>1 DEF reportVars, ItemsPlaced, NoReruns, LastIsItsOwn
  <2>3. ReportIInv => OutcomesTold'
    BY <1>1, RunsStay DEF reportVars
  <2> QED
    BY <2>1, <2>2, <2>3 DEF ReportIInv
<1> QED
  BY <1>1, StartTestPreserves, AppendItemPreserves, AddHeaderTablePreserves, BeginTestPreserves, EndPhasePreserves
     DEF Report!Next

LEMMA ReportImplies == ReportIInv => Report!TypeOK /\ Report!OutcomesShown /\ Report!ItemsUnderTheirTest
<1> SUFFICES ASSUME ReportIInv PROVE Report!TypeOK /\ Report!OutcomesShown /\ Report!ItemsUnderTheirTest
  OBVIOUS
<1>1. Report!TypeOK
  <2>1. report.headerTables \subseteq headerTables /\ Len(report.outcomes) <= Len(outcomes)
    <3>1. Len(<<>>) = 0 /\ Len(outcomes) \in Nat
      BY DEF ReportIInv, ReportTypes
    <3> QED
      BY <3>1 DEF ReportIInv, ReportTypes
  <2> QED
    BY <2>1 DEF ReportIInv, ReportTypes, Report!TypeOK
<1>2. Report!OutcomesShown
  <2> SUFFICES ASSUME phase = "out"
               PROVE  /\ IF phases = <<>> THEN outcomes = <<>> ELSE phases[1].from = 0
                      /\ \A i \in DOMAIN phases : Report!Tells(i, Report!Shown(phases[i]) \o Report!TornDown(phases[i]))
                      /\ writesFile => report.outcomes = outcomes /\ report.headerTables = headerTables
    BY DEF Report!OutcomesShown
  <2>1. phases = <<>> <=> Len(phases) = 0
    BY DEF ReportIInv, ReportTypes
  <2>2. \A i : Told(i) = Report!Shown(phases[i]) \o Report!TornDown(phases[i])
    BY DEF Told
  <2> QED
    BY <2>1, <2>2 DEF ReportIInv, ReportTypes, OutcomesTold
<1>3. Report!ItemsUnderTheirTest
  <2> SUFFICES ASSUME NoReruns, NEW s \in Report!ToSet(sections), NEW it \in Report!ToSet(s.items), it.opened
               PROVE  it.by = s.test
    BY DEF Report!ItemsUnderTheirTest, NoReruns
  <2>1. PICK k \in DOMAIN sections : s = sections[k]
    BY DEF Report!ToSet
  <2>2. PICK i \in DOMAIN sections[k].items : it = sections[k].items[i]
    BY <2>1 DEF Report!ToSet
  <2> QED
    BY <2>1, <2>2 DEF ReportIInv, ItemsPlaced
<1> QED
  BY <1>1, <1>2, <1>3

-----------------------------------------------------------------------------
(* PanelQueries: the labels of a title are numbered from one, so no        *)
(* panel's outcome overwrites another's while no title is such a label;    *)
(* one that is stays one, so the counts are right until there is one.      *)

PanelAnswer == [title : PanelTitles, response : Panel!Responses(RefIds)]
PanelTypes ==
    /\ panels \in [1..Panels -> Panel!Panel] /\ panelAt \in 1..(Panels + 1)
    /\ seen \in [PanelTitles -> Nat] /\ answers \in Seq(PanelAnswer) /\ Len(answers) < panelAt
    /\ DOMAIN panelErrors \subseteq DOMAIN rows /\ IsFiniteSet(DOMAIN rows)
    /\ \A l \in DOMAIN rows : \E t \in PanelTitles : l \in Panel!Labels(t)

\* The labels and the panels of a title in error, with rows, and of any kind.
LabelsInError(t) == Panel!Labels(t) \intersect DOMAIN panelErrors
LabelsOf(t) == Panel!Labels(t) \intersect DOMAIN rows
LabelsWithRows(t) == {l \in LabelsOf(t) : rows[l] > 0 /\ l \notin DOMAIN panelErrors}
AnswersOf(t) == {i \in DOMAIN answers : answers[i].title = t}
AnswersInError(t) == {i \in AnswersOf(t) : Panel!Failed(answers[i].response)}
AnswersWithRows(t) ==
    {i \in AnswersOf(t) : ~Panel!Failed(answers[i].response)
        /\ "rows" \in Panel!Range(answers[i].response.results)}
PanelCounts ==
    \A t \in PanelTitles :
        /\ Cardinality(LabelsInError(t)) = Cardinality(AnswersInError(t))
        /\ Cardinality(LabelsOf(t)) = Cardinality(AnswersOf(t))
        /\ Cardinality(LabelsWithRows(t)) = Cardinality(AnswersWithRows(t))
PanelIInv == PanelTypes /\ (Panel!Unambiguous => PanelCounts)

LEMMA PanelCardinality == \A S : Panel!Cardinality(S) = Cardinality(S)
BY DEF Panel!Cardinality, Cardinality, Panel!IsFiniteSet, IsFiniteSet

LEMMA PanelInit == Panel!Init => PanelIInv
<1> SUFFICES ASSUME Panel!Init PROVE PanelIInv
  OBVIOUS
<1>1. <<>> \in Seq(PanelAnswer) /\ Len(<<>>) = 0 /\ DOMAIN <<>> = {}
  OBVIOUS
<1>2. IsFiniteSet({})
  BY FS_EmptySet
<1>3. PanelTypes
  BY <1>1, <1>2, FiguresAssumption DEF Panel!Init, PanelTypes
<1>4. \A t \in PanelTitles :
        /\ LabelsInError(t) = {} /\ LabelsOf(t) = {} /\ LabelsWithRows(t) = {}
        /\ AnswersInError(t) = {} /\ AnswersOf(t) = {} /\ AnswersWithRows(t) = {}
  BY <1>1 DEF Panel!Init, LabelsInError, LabelsOf, LabelsWithRows, AnswersInError, AnswersOf, AnswersWithRows
<1> QED
  BY <1>3, <1>4 DEF PanelIInv, PanelCounts

LEMMA BothGrow ==
    ASSUME NEW S, NEW T, IsFiniteSet(S), IsFiniteSet(T), Cardinality(S) = Cardinality(T), NEW x, x \notin S, NEW y, y \notin T
    PROVE  Cardinality(S \union {x}) = Cardinality(T \union {y})
BY FS_AddElement

\* What is read from a response, and kept of it, says the same.
LEMMA ResponseRead ==
    ASSUME NEW response \in Panel!Responses(RefIds)
    PROVE  /\ Panel!Failed(response) <=> Panel!QueryErrors(response) # {}
           /\ ~Panel!Failed(response) =>
                 (Panel!RowTotal(response) > 0 <=> "rows" \in Panel!Range(response.results))
<1>1. PICK asked \in SUBSET RefIds :
          \/ response = [rejected |-> TRUE, results |-> << >>]
          \/ \E f \in [asked -> {"error", "empty", "rows"}] : response = [rejected |-> FALSE, results |-> f]
  BY DEF Panel!Responses
<1>2. CASE response = [rejected |-> TRUE, results |-> << >>]
  BY <1>2 DEF Panel!Failed, Panel!QueryErrors, Panel!RequestError
<1>3. CASE \E f \in [asked -> {"error", "empty", "rows"}] : response = [rejected |-> FALSE, results |-> f]
  <2>1. PICK f \in [asked -> {"error", "empty", "rows"}] : response = [rejected |-> FALSE, results |-> f]
    BY <1>3
  <2>2. response.results = f /\ ~response.rejected
    BY <2>1
  <2> DEFINE full == {r \in asked : f[r] = "rows"}
  <2>3. Panel!RowTotal(response) = Cardinality(full)
    BY <2>2, PanelCardinality DEF Panel!RowTotal, Panel!QueryResults
  <2>4. IsFiniteSet(full)
    BY FS_Subset, FiguresAssumption
  <2>5. Cardinality(full) > 0 <=> full # {}
    BY <2>4, FS_EmptySet, FS_CardinalityType
  <2>6. "rows" \in Panel!Range(response.results) <=> full # {}
    BY <2>2 DEF Panel!Range
  <2>7. Panel!Failed(response) <=> Panel!QueryErrors(response) # {}
    BY <2>2 DEF Panel!Failed, Panel!QueryErrors
  <2> QED
    BY <2>3, <2>5, <2>6, <2>7
<1> QED
  BY <1>1, <1>2, <1>3

\* A panel's label is none of those before, unless it or another panel's has the title of the other.
LEMMA LabelIsNew ==
    ASSUME PanelTypes, NEW title \in PanelTitles, seen' = [seen EXCEPT ![title] = @ + 1], Panel!Unambiguous'
    PROVE  \A t \in PanelTitles : Panel!Label(title, seen[title] + 1) \notin Panel!Labels(t)
<1> SUFFICES ASSUME NEW t \in PanelTitles, NEW k \in 1..seen[t],
                    Panel!Label(title, seen[title] + 1) = Panel!Label(t, k)
             PROVE  FALSE
  BY DEF Panel!Labels
<1> DEFINE n == seen[title] + 1
<1>1. title \in Seq(Nat) /\ t \in Seq(Nat) /\ seen[title] \in Nat /\ seen[t] \in Nat
  BY FiguresAssumption DEF PanelTypes
<1>2. seen'[title] = n /\ (t # title => seen'[t] = seen[t])
  BY DEF PanelTypes
<1>3. n \in Nat \ {0} /\ k \in Nat \ {0} /\ k <= seen[t]
  BY <1>1
<1>4. Panel!Label(title, n) = Panel!Label(t, k)
  OBVIOUS
<1> HIDE DEF n
<1>5. CASE n = 1 /\ k = 1
  BY <1>1, <1>2, <1>3, <1>4, <1>5 DEF Panel!Label, n
<1>6. CASE n # 1 /\ k = 1
  <2>1. t = Append(title, n)
    BY <1>4, <1>6 DEF Panel!Label
  <2>2. t # title
    BY <1>1, <1>3, <2>1
  <2>3. t \in {Panel!Label(title, m) : m \in 1..seen'[title]}
    BY <1>2, <1>3, <1>6, <2>1 DEF Panel!Label
  <2>4. seen'[t] > 0
    BY <1>1, <1>2, <1>3, <2>2
  <2> QED
    BY <2>2, <2>3, <2>4 DEF Panel!Unambiguous, Panel!Labels
<1>7. CASE n = 1 /\ k # 1
  <2>1. title = Append(t, k)
    BY <1>4, <1>7 DEF Panel!Label
  <2>2. t # title
    BY <1>1, <1>3, <2>1
  <2>3. title \in {Panel!Label(t, m) : m \in 1..seen'[t]}
    BY <1>2, <1>7, <2>1, <2>2 DEF Panel!Label
  <2>4. seen'[title] > 0
    BY <1>2, <1>7
  <2> QED
    BY <2>2, <2>3, <2>4 DEF Panel!Unambiguous, Panel!Labels
<1>8. CASE n # 1 /\ k # 1
  <2>1. Append(title, n) = Append(t, k)
    BY <1>4, <1>8 DEF Panel!Label
  <2>2. /\ Len(Append(title, n)) = Len(title) + 1 /\ Append(title, n)[Len(title) + 1] = n
        /\ Len(Append(t, k)) = Len(t) + 1 /\ Append(t, k)[Len(t) + 1] = k
        /\ \A i \in 1..Len(title) : Append(title, n)[i] = title[i]
        /\ \A i \in 1..Len(t) : Append(t, k)[i] = t[i]
        /\ Len(t) \in Nat /\ Len(title) \in Nat
    BY <1>1, <1>3
  <2>3. Len(t) = Len(title) /\ n = k
    BY <2>1, <2>2
  <2>4. t = title
    <3>1. \A i \in 1..Len(t) : t[i] = title[i]
      BY <2>1, <2>2, <2>3
    <3> QED
      BY <1>1, <2>3, <3>1, SeqEqual
  <2> QED
    BY <1>1, <1>3, <2>3, <2>4 DEF n
<1> QED
  BY <1>5, <1>6, <1>7, <1>8

\* Titles are only seen more often.
LEMMA LabelsGrow ==
    ASSUME PanelTypes, NEW title \in PanelTitles, seen' = [seen EXCEPT ![title] = @ + 1]
    PROVE  /\ \A t \in PanelTitles \ {title} : Panel!Labels(t)' = Panel!Labels(t)
           /\ Panel!Labels(title)' = Panel!Labels(title) \union {Panel!Label(title, seen[title] + 1)}
           /\ Panel!Unambiguous' => Panel!Unambiguous
<1>1. \A t \in PanelTitles : seen[t] \in Nat /\ seen'[t] = IF t = title THEN seen[t] + 1 ELSE seen[t]
  BY DEF PanelTypes
<1>2. \A t \in PanelTitles \ {title} : Panel!Labels(t)' = Panel!Labels(t)
  BY <1>1 DEF Panel!Labels
<1>3. Panel!Labels(title)' = Panel!Labels(title) \union {Panel!Label(title, seen[title] + 1)}
  <2>1. PICK k \in Nat : k = seen[title]
    BY <1>1
  <2>2. 1..(k + 1) = (1..k) \union {k + 1}
    BY <2>1
  <2>3. seen'[title] = k + 1
    BY <1>1, <2>1
  <2> QED
    BY <2>1, <2>2, <2>3 DEF Panel!Labels
<1>4. \A t \in PanelTitles : Panel!Labels(t) \subseteq Panel!Labels(t)' /\ (seen[t] > 0 => seen'[t] > 0)
  BY <1>1, <1>2, <1>3
<1>5. Panel!Unambiguous' => Panel!Unambiguous
  BY <1>4 DEF Panel!Unambiguous
<1> QED
  BY <1>2, <1>3, <1>5

LEMMA RunPanelPreserves == PanelIInv /\ Panel!RunPanel => PanelIInv'
<1> SUFFICES ASSUME PanelIInv, Panel!RunPanel PROVE PanelIInv'
  OBVIOUS
<1>a. PICK title : title = panels[panelAt].title
  OBVIOUS
<1>b. PICK label : label = Panel!Label(title, seen[title] + 1)
  OBVIOUS
<1>c. PICK n : n = Len(answers) + 1
  OBVIOUS
<1>1. PICK response \in Panel!Responses(Panel!Queries(panels[panelAt])) :
          /\ seen' = [seen EXCEPT ![title] = @ + 1]
          /\ panelErrors' = (IF Panel!QueryErrors(response) = {} THEN panelErrors
                             ELSE Panel!Kept(panelErrors, label, Panel!QueryErrors(response)))
          /\ rows' = Panel!Kept(rows, label, Panel!RowTotal(response))
          /\ answers' = Append(answers, [title |-> title, response |-> response])
  BY <1>a, <1>b DEF Panel!RunPanel
<1>2. panelAt \in 1..Panels /\ panelAt' = panelAt + 1 /\ panels' = panels
  <2>1. Len(panels) = Panels
    BY FiguresAssumption DEF PanelIInv, PanelTypes
  <2> QED
    BY <2>1 DEF Panel!RunPanel, PanelIInv, PanelTypes
<1>3. /\ title \in PanelTitles /\ seen[title] \in Nat
      /\ Panel!Queries(panels[panelAt]) \subseteq RefIds
  BY <1>a, <1>2 DEF PanelIInv, PanelTypes, Panel!Panel, Panel!Queries
<1>4. response \in Panel!Responses(RefIds)
  BY <1>1, <1>3 DEF Panel!Responses
<1>5. /\ \A t \in PanelTitles \ {title} : Panel!Labels(t)' = Panel!Labels(t)
      /\ Panel!Labels(title)' = Panel!Labels(title) \union {label}
      /\ Panel!Unambiguous' => Panel!Unambiguous
  BY <1>1, <1>3, <1>b, LabelsGrow DEF PanelIInv
<1> DEFINE asked == [title |-> title, response |-> response]
<1>6. asked \in PanelAnswer
  BY <1>3, <1>4 DEF PanelAnswer
<1>7. /\ answers' \in Seq(PanelAnswer) /\ Len(answers') = n
      /\ answers'[n] = asked /\ \A i \in DOMAIN answers : answers'[i] = answers[i]
      /\ DOMAIN answers' = DOMAIN answers \union {n} /\ n \notin DOMAIN answers
  BY <1>1, <1>6, <1>c DEF PanelIInv, PanelTypes
<1>8. /\ DOMAIN rows' = DOMAIN rows \union {label}
      /\ rows'[label] = Panel!RowTotal(response) /\ \A l \in DOMAIN rows \ {label} : rows'[l] = rows[l]
      /\ DOMAIN panelErrors' = DOMAIN panelErrors \union (IF Panel!Failed(response) THEN {label} ELSE {})
  BY <1>1, <1>4, ResponseRead DEF Panel!Kept
<1>9. asked.title = title /\ asked.response = response
  OBVIOUS
<1>10. PanelTypes'
  <2>1. \A l \in DOMAIN rows' : \E t \in PanelTitles : l \in Panel!Labels(t)'
    <3>1. ASSUME NEW l \in DOMAIN rows PROVE \E t \in PanelTitles : l \in Panel!Labels(t)'
      <4>1. PICK t \in PanelTitles : l \in Panel!Labels(t)
        BY DEF PanelIInv, PanelTypes
      <4>2. Panel!Labels(t) \subseteq Panel!Labels(t)'
        BY <1>5
      <4> QED
        BY <4>1, <4>2
    <3> QED
      BY <1>3, <1>5, <1>8, <3>1
  <2>2. IsFiniteSet(DOMAIN rows')
    <3>1. IsFiniteSet(DOMAIN rows)
      BY DEF PanelIInv, PanelTypes
    <3> QED
      BY <1>8, <3>1, FS_AddElement
  <2>3. seen' \in [PanelTitles -> Nat]
    BY <1>1, <1>3 DEF PanelIInv, PanelTypes
  <2>4. panelAt' \in 1..(Panels + 1) /\ Len(answers') < panelAt'
    BY <1>2, <1>7, <1>c, FiguresAssumption DEF PanelIInv, PanelTypes
  <2> QED
    BY <1>2, <1>7, <1>8, <2>1, <2>2, <2>3, <2>4 DEF PanelIInv, PanelTypes
<1> HIDE DEF asked
<1> SUFFICES ASSUME Panel!Unambiguous' PROVE PanelCounts'
  BY <1>10 DEF PanelIInv
<1>n. \A t \in PanelTitles : label \notin Panel!Labels(t)
  BY <1>1, <1>3, <1>b, LabelIsNew DEF PanelIInv
<1>m. label \notin DOMAIN rows /\ label \notin DOMAIN panelErrors
  BY <1>n DEF PanelIInv, PanelTypes
<1>11. \A t \in PanelTitles \ {title} :
          /\ LabelsInError(t)' = LabelsInError(t) /\ LabelsOf(t)' = LabelsOf(t)
          /\ LabelsWithRows(t)' = LabelsWithRows(t)
          /\ AnswersOf(t)' = AnswersOf(t) /\ AnswersInError(t)' = AnswersInError(t)
          /\ AnswersWithRows(t)' = AnswersWithRows(t)
  <2> SUFFICES ASSUME NEW t \in PanelTitles, t # title
               PROVE  /\ LabelsInError(t)' = LabelsInError(t) /\ LabelsOf(t)' = LabelsOf(t)
                      /\ LabelsWithRows(t)' = LabelsWithRows(t)
                      /\ AnswersOf(t)' = AnswersOf(t) /\ AnswersInError(t)' = AnswersInError(t)
                      /\ AnswersWithRows(t)' = AnswersWithRows(t)
    OBVIOUS
  <2>1. Panel!Labels(t)' = Panel!Labels(t) /\ label \notin Panel!Labels(t)
    BY <1>5, <1>n
  <2>2. LabelsInError(t)' = LabelsInError(t) /\ LabelsOf(t)' = LabelsOf(t)
    BY <1>8, <2>1 DEF LabelsInError, LabelsOf
  <2>3. LabelsWithRows(t)' = LabelsWithRows(t)
    BY <1>8, <2>1, <2>2 DEF LabelsOf, LabelsWithRows
  <2>4. AnswersOf(t)' = AnswersOf(t) /\ AnswersInError(t)' = AnswersInError(t)
        /\ AnswersWithRows(t)' = AnswersWithRows(t)
    BY <1>7, <1>9 DEF AnswersOf, AnswersInError, AnswersWithRows
  <2> QED
    BY <2>2, <2>3, <2>4
<1>12. LabelsOf(title)' = LabelsOf(title) \union {label} /\ AnswersOf(title)' = AnswersOf(title) \union {n}
  BY <1>5, <1>m, <1>n, <1>3, <1>7, <1>8, <1>9 DEF LabelsOf, AnswersOf
<1>13. /\ LabelsInError(title)' = LabelsInError(title) \union (IF Panel!Failed(response) THEN {label} ELSE {})
       /\ AnswersInError(title)' = AnswersInError(title) \union (IF Panel!Failed(response) THEN {n} ELSE {})
  BY <1>5, <1>m, <1>n, <1>3, <1>7, <1>8, <1>9 DEF LabelsInError, AnswersOf, AnswersInError
<1>14. LET full == ~Panel!Failed(response) /\ "rows" \in Panel!Range(response.results)
       IN  /\ LabelsWithRows(title)' = LabelsWithRows(title) \union (IF full THEN {label} ELSE {})
           /\ AnswersWithRows(title)' = AnswersWithRows(title) \union (IF full THEN {n} ELSE {})
  <2>1. LabelsWithRows(title)' =
            LabelsWithRows(title) \union (IF ~Panel!Failed(response) /\ rows'[label] > 0 THEN {label} ELSE {})
    BY <1>3, <1>8, <1>12, <1>m DEF LabelsOf, LabelsWithRows
  <2>2. AnswersWithRows(title)' = AnswersWithRows(title) \union
            (IF ~Panel!Failed(response) /\ "rows" \in Panel!Range(response.results) THEN {n} ELSE {})
    BY <1>7, <1>9 DEF AnswersOf, AnswersWithRows
  <2>3. ~Panel!Failed(response) => (rows'[label] > 0 <=> "rows" \in Panel!Range(response.results))
    BY <1>4, <1>8, ResponseRead
  <2> QED
    BY <2>1, <2>2, <2>3
<1>15. /\ label \notin LabelsOf(title) /\ label \notin LabelsInError(title) /\ label \notin LabelsWithRows(title)
       /\ n \notin AnswersOf(title) /\ n \notin AnswersInError(title) /\ n \notin AnswersWithRows(title)
  BY <1>m, <1>7 DEF LabelsOf, LabelsInError, LabelsWithRows, AnswersOf, AnswersInError, AnswersWithRows
<1>16. /\ IsFiniteSet(LabelsOf(title)) /\ IsFiniteSet(LabelsInError(title)) /\ IsFiniteSet(LabelsWithRows(title))
       /\ IsFiniteSet(AnswersOf(title)) /\ IsFiniteSet(AnswersInError(title)) /\ IsFiniteSet(AnswersWithRows(title))
  <2>1. IsFiniteSet(DOMAIN rows)
    BY DEF PanelIInv, PanelTypes
  <2>2. LabelsOf(title) \subseteq DOMAIN rows /\ LabelsInError(title) \subseteq DOMAIN rows
        /\ LabelsWithRows(title) \subseteq DOMAIN rows
    BY DEF PanelIInv, PanelTypes, LabelsOf, LabelsInError, LabelsWithRows
  <2>3. DOMAIN answers = 1..Len(answers) /\ Len(answers) \in Nat
    BY DEF PanelIInv, PanelTypes
  <2>4. IsFiniteSet(DOMAIN answers)
    BY <2>3, FS_Interval
  <2>5. AnswersOf(title) \subseteq DOMAIN answers /\ AnswersInError(title) \subseteq DOMAIN answers
        /\ AnswersWithRows(title) \subseteq DOMAIN answers
    BY DEF AnswersOf, AnswersInError, AnswersWithRows
  <2> QED
    BY <2>1, <2>2, <2>4, <2>5, FS_Subset
<1>18. /\ Cardinality(LabelsInError(title)) = Cardinality(AnswersInError(title))
       /\ Cardinality(LabelsOf(title)) = Cardinality(AnswersOf(title))
       /\ Cardinality(LabelsWithRows(title)) = Cardinality(AnswersWithRows(title))
  BY <1>3, <1>5 DEF PanelIInv, PanelCounts
<1>19. /\ Cardinality(LabelsInError(title)') = Cardinality(AnswersInError(title)')
       /\ Cardinality(LabelsOf(title)') = Cardinality(AnswersOf(title)')
       /\ Cardinality(LabelsWithRows(title)') = Cardinality(AnswersWithRows(title)')
  <2>1. Cardinality(LabelsInError(title)') = Cardinality(AnswersInError(title)')
    <3>1. CASE Panel!Failed(response)
      <4>1. /\ LabelsInError(title)' = LabelsInError(title) \union {label}
            /\ AnswersInError(title)' = AnswersInError(title) \union {n}
        BY <1>13, <3>1
      <4> QED
        BY <1>15, <1>16, <1>18, <4>1, BothGrow
    <3>2. CASE ~Panel!Failed(response)
      BY <1>13, <1>18, <3>2
    <3> QED
      BY <3>1, <3>2
  <2>2. Cardinality(LabelsOf(title)') = Cardinality(AnswersOf(title)')
    BY <1>12, <1>15, <1>16, <1>18, BothGrow
  <2>3. Cardinality(LabelsWithRows(title)') = Cardinality(AnswersWithRows(title)')
    <3> DEFINE full == ~Panel!Failed(response) /\ "rows" \in Panel!Range(response.results)
    <3>1. CASE full
      BY <1>14, <1>15, <1>16, <1>18, <3>1, BothGrow
    <3>2. CASE ~full
      BY <1>14, <1>18, <3>2
    <3> QED
      BY <3>1, <3>2
  <2> QED
    BY <2>1, <2>2, <2>3
<1>21. PanelCounts'
  <2> SUFFICES ASSUME NEW t \in PanelTitles
               PROVE  /\ Cardinality(LabelsInError(t)') = Cardinality(AnswersInError(t)')
                      /\ Cardinality(LabelsOf(t)') = Cardinality(AnswersOf(t)')
                      /\ Cardinality(LabelsWithRows(t)') = Cardinality(AnswersWithRows(t)')
    BY DEF PanelCounts
  <2>1. CASE t = title
    BY <1>19, <2>1
  <2>2. CASE t # title
    BY <1>5, <1>11, <2>2 DEF PanelIInv, PanelCounts
  <2> QED
    BY <2>1, <2>2
<1> QED
  BY <1>21

LEMMA PanelStep == PanelIInv /\ [Panel!Next]_panelVars => PanelIInv'
<1> SUFFICES ASSUME PanelIInv, [Panel!Next]_panelVars PROVE PanelIInv'
  OBVIOUS
<1>1. CASE Panel!RunPanel
  BY <1>1, RunPanelPreserves
<1>2. ASSUME UNCHANGED <<panels, seen, panelErrors, rows, answers>>,
             \/ panelAt' = panelAt
             \/ panelAt' = panelAt + 1 /\ panelAt <= Len(panels)
      PROVE  PanelIInv'
  <2>1. Len(panels) = Panels
    BY FiguresAssumption DEF PanelIInv, PanelTypes
  <2>0. Panel!Unambiguous' = Panel!Unambiguous /\ \A t : Panel!Labels(t)' = Panel!Labels(t)
    BY <1>2 DEF Panel!Unambiguous, Panel!Labels
  <2>2. PanelTypes'
    BY <1>2, <2>0, <2>1, FiguresAssumption DEF PanelIInv, PanelTypes
  <2>3. ASSUME NEW t
        PROVE  /\ LabelsInError(t)' = LabelsInError(t) /\ LabelsOf(t)' = LabelsOf(t)
               /\ LabelsWithRows(t)' = LabelsWithRows(t) /\ AnswersOf(t)' = AnswersOf(t)
               /\ AnswersInError(t)' = AnswersInError(t) /\ AnswersWithRows(t)' = AnswersWithRows(t)
    BY <1>2, <2>0 DEF LabelsInError, LabelsOf, LabelsWithRows, AnswersOf, AnswersInError, AnswersWithRows
  <2>4. PanelCounts => PanelCounts'
    BY <2>3 DEF PanelCounts
  <2> QED
    BY <2>0, <2>2, <2>4 DEF PanelIInv
<1>3. CASE Panel!SkipPanel
  BY <1>2, <1>3 DEF Panel!SkipPanel
<1>4. CASE Panel!RequestRaises
  BY <1>2, <1>4 DEF Panel!RequestRaises
<1>5. CASE UNCHANGED panelVars
  BY <1>5, <1>2, Zenon DEF panelVars
<1> QED
  BY <1>1, <1>3, <1>4, <1>5 DEF Panel!Next

LEMMA PanelImplies == PanelIInv => Panel!TypeOK /\ Panel!PanelFailuresShown
<1> SUFFICES ASSUME PanelIInv PROVE Panel!TypeOK /\ Panel!PanelFailuresShown
  OBVIOUS
<1>1. Panel!TypeOK
  BY FiguresAssumption DEF PanelIInv, PanelTypes, Panel!TypeOK
<1>2. Panel!PanelFailuresShown
  BY PanelCardinality DEF PanelIInv, PanelCounts, Panel!PanelFailuresShown,
     LabelsInError, LabelsOf, LabelsWithRows, AnswersOf, AnswersInError, AnswersWithRows
<1> QED
  BY <1>1, <1>2

-----------------------------------------------------------------------------
(* DashboardPage: what the list of panels says is shown are the entries of *)
(* the page that are panels, and what has been scrolled past is mounted.   *)

PanelAt(i) == i \in DOMAIN entries /\ entries[i].type = "panel"
PageTypes ==
    /\ entries \in Dashboards /\ entryAt \in 1..(Len(entries) + 1)
    /\ pagePc \in {"flatten", "open", "settle", "last", "loaded", "raised"}
    /\ pageTop \in Nat /\ steps \in 0..MaxSteps
    /\ \A t \in mounted : \E i \in DOMAIN entries : PanelAt(i) /\ t = entries[i].title

\* The row that the entry it is at is below, of the entries before.
RowsBefore(i) == {j \in 1..(i - 1) : entries[j].type = "row"}
LastRow(i, j) == j \in RowsBefore(i) /\ \A k \in RowsBefore(i) : k <= j
RowIsLast ==
    IF RowsBefore(entryAt) = {} THEN pageRow = "" /\ ~pageCollapsed
    ELSE \E j \in RowsBefore(entryAt) :
            LastRow(entryAt, j) /\ pageRow = entries[j].title /\ pageCollapsed = entries[j].collapsed
Flattened ==
    /\ pagePc # "flatten" => entryAt = Len(entries) + 1
    /\ \A i \in 1..(entryAt - 1) : PanelAt(i) =>
          \E p \in pagePanels : p.title = entries[i].title /\ ~p.collapsed /\ Page!DrawnUnder(i, p.row)
    /\ \A p \in pagePanels : ~p.collapsed => \E i \in 1..(entryAt - 1) : PanelAt(i) /\ p.title = entries[i].title

\* A view's top is below what has been seen.
Mounted(i) == entries[i].title \in mounted
Scrolled ==
    /\ pagePc \in {"flatten", "open", "raised"} => pageTop = 0 /\ steps = 0
    /\ pagePc = "settle" => pageTop = steps * ScrollStep
    /\ pagePc = "last" => Page!Height - 1 <= pageTop + Viewport
    /\ pagePc \in {"settle", "last"} =>
          \A i \in DOMAIN entries : PanelAt(i) /\ i * PanelHeight <= pageTop => Mounted(i)
    /\ pagePc = "loaded" /\ Page!Height <= Page!Reached =>
          \A i \in DOMAIN entries : PanelAt(i) => Mounted(i)
    /\ pagePc = "raised" => Page!InView = {}
PageIInv == PageTypes /\ RowIsLast /\ Flattened /\ Scrolled

LEMMA DashboardsAre ==
    ASSUME entries \in Dashboards
    PROVE  /\ Len(entries) \in Nat /\ DOMAIN entries = 1..Len(entries)
           /\ \A i \in 1..Len(entries) : entries[i].type \in {"panel", "row"} /\ entries[i].collapsed \in BOOLEAN
           /\ \A i \in 1..Len(entries) : entries[i].type = "row" /\ entries[i].collapsed /\ i < Len(entries) =>
                 entries[i + 1].type = "row"
BY PageAssumption

LEMMA PageNumbers ==
    PanelHeight \in Nat /\ Viewport \in Nat /\ ScrollStep \in Nat /\ MaxSteps \in Nat /\ PanelHeight > 1 /\ ScrollStep <= Viewport
BY PageAssumption

LEMMA PageInit == Page!Init => PageIInv
<1> SUFFICES ASSUME Page!Init PROVE PageIInv
  OBVIOUS
<1>1. Len(entries) \in Nat /\ entries \in Dashboards /\ entryAt = 1
  BY DashboardsAre DEF Page!Init
<1>2. PageTypes
  <2>1. pageTop = 0 /\ steps = 0 /\ mounted = {} /\ pagePc = "flatten"
    BY DEF Page!Init
  <2>2. entryAt \in 1..(Len(entries) + 1) /\ 0 \in 0..MaxSteps
    BY <1>1, PageNumbers
  <2> QED
    BY <1>1, <2>1, <2>2 DEF PageTypes
<1>3. 1..(entryAt - 1) = {}
  BY <1>1
<1>4. RowIsLast /\ Flattened
  BY <1>3 DEF Page!Init, RowIsLast, RowsBefore, Flattened
<1>5. Scrolled
  BY DEF Page!Init, Scrolled
<1> QED
  BY <1>2, <1>4, <1>5 DEF PageIInv

\* A panel is under no collapsed row, and in no step becomes so.
LEMMA PanelUnderOpen ==
    ASSUME PageIInv, entryAt <= Len(entries), entries[entryAt].type # "row"
    PROVE  ~pageCollapsed /\ Page!DrawnUnder(entryAt, pageRow)
<1>1. entryAt \in 1..Len(entries) /\ Len(entries) \in Nat
  BY DashboardsAre DEF PageIInv, PageTypes
<1>2. {j \in 1..entryAt : entries[j].type = "row"} = RowsBefore(entryAt)
  <2>1. 1..entryAt = (1..(entryAt - 1)) \union {entryAt}
    BY <1>1
  <2> QED
    BY <2>1 DEF RowsBefore
<1>3. CASE RowsBefore(entryAt) = {}
  BY <1>2, <1>3 DEF PageIInv, RowIsLast, Page!DrawnUnder
<1>4. CASE RowsBefore(entryAt) # {}
  <2>1. PICK j \in RowsBefore(entryAt) :
            LastRow(entryAt, j) /\ pageRow = entries[j].title /\ pageCollapsed = entries[j].collapsed
    BY <1>4 DEF PageIInv, RowIsLast
  <2>2. j \in 1..(entryAt - 1) /\ entries[j].type = "row" /\ \A k \in RowsBefore(entryAt) : k <= j
    BY <2>1 DEF LastRow, RowsBefore
  <2>3. ASSUME pageCollapsed PROVE FALSE
    <3>1. j \in 1..Len(entries) /\ j < Len(entries)
      BY <1>1, <2>2
    <3>2. entries[j + 1].type = "row"
      BY <2>1, <2>2, <2>3, <3>1, DashboardsAre DEF PageIInv, PageTypes
    <3>3. j + 1 \in 1..(entryAt - 1)
      BY <1>1, <2>2, <3>2
    <3>4. j + 1 \in RowsBefore(entryAt)
      BY <3>2, <3>3 DEF RowsBefore
    <3> QED
      BY <2>2, <3>4
  <2> QED
    BY <1>2, <1>4, <2>1, <2>2, <2>3 DEF Page!DrawnUnder
<1> QED
  BY <1>3, <1>4

LEMMA FlattenPreserves == PageIInv /\ Page!Flatten => PageIInv'
<1> SUFFICES ASSUME PageIInv, Page!Flatten PROVE PageIInv'
  OBVIOUS
<1>1. /\ pagePc = "flatten" /\ entryAt \in 1..Len(entries) /\ Len(entries) \in Nat /\ DOMAIN entries = 1..Len(entries)
      /\ entryAt' = entryAt + 1 /\ UNCHANGED <<entries, pagePc, pageTop, steps, mounted>>
  BY DashboardsAre DEF PageIInv, PageTypes, Page!Flatten
<1>2. PageTypes'
  BY <1>1 DEF PageIInv, PageTypes, PanelAt
<1>3. Scrolled'
  BY <1>1 DEF PageIInv, Scrolled
<1>4. PICK i : i = entryAt
  OBVIOUS
<1>5. 1..(entryAt' - 1) = (1..(i - 1)) \union {i}
  BY <1>1, <1>4
<1>6. /\ \A k \in 1..(i - 1) : PanelAt(k) =>
            \E p \in pagePanels : p.title = entries[k].title /\ ~p.collapsed /\ Page!DrawnUnder(k, p.row)
      /\ \A p \in pagePanels : ~p.collapsed => \E k \in 1..(i - 1) : PanelAt(k) /\ p.title = entries[k].title
  BY <1>4 DEF PageIInv, Flattened
<1>7. \A k : PanelAt(k)' = PanelAt(k) /\ \A title : Page!DrawnUnder(k, title)' = Page!DrawnUnder(k, title)
  BY <1>1 DEF PanelAt, Page!DrawnUnder
<1>8. CASE entries[i].type = "row"
  <2>1. /\ pageRow' = entries[i].title /\ pageCollapsed' = entries[i].collapsed
        /\ pagePanels' = pagePanels \union {Page!Panel(t, entries[i].title, TRUE) : t \in entries[i].panels}
    BY <1>4, <1>8 DEF Page!Flatten
  <2>2. \A t : Page!Panel(t, entries[i].title, TRUE).collapsed = TRUE
    BY DEF Page!Panel
  <2>3. ~PanelAt(i)
    BY <1>8 DEF PanelAt
  <2>4. Flattened'
    BY ZenonT(40), <1>1, <1>5, <1>6, <1>7, <2>1, <2>2, <2>3 DEF Flattened
  <2>5. RowsBefore(i + 1)' = RowsBefore(i) \union {i}
    BY <1>1, <1>4, <1>5, <1>8 DEF RowsBefore
  <2>6. \A k \in RowsBefore(i) : k <= i
    BY <1>1, <1>4 DEF RowsBefore
  <2>7. LastRow(i + 1, i)'
    BY <1>1, <1>4, <2>5, <2>6 DEF LastRow
  <2>8. RowIsLast'
    BY <1>1, <1>4, <2>1, <2>5, <2>7 DEF RowIsLast
  <2> QED
    BY <1>2, <1>3, <2>4, <2>8 DEF PageIInv
<1>9. CASE entries[i].type # "row"
  <2>1. /\ UNCHANGED <<pageRow, pageCollapsed>>
        /\ pagePanels' = pagePanels \union {Page!Panel(entries[i].title, pageRow, pageCollapsed)}
    BY <1>4, <1>9 DEF Page!Flatten
  <2>2. ~pageCollapsed /\ Page!DrawnUnder(i, pageRow)
    BY <1>1, <1>4, <1>9, PanelUnderOpen
  <2> DEFINE panel == Page!Panel(entries[i].title, pageRow, pageCollapsed)
  <2>3. panel.title = entries[i].title /\ ~panel.collapsed /\ panel.row = pageRow
    BY <2>2 DEF Page!Panel
  <2> HIDE DEF panel
  <2>4. PanelAt(i)
    BY <1>1, <1>4, <1>9, DashboardsAre DEF PanelAt, PageIInv, PageTypes
  <2>5. Flattened'
    <3>1. pagePanels' = pagePanels \union {panel} /\ UNCHANGED entries
      BY <1>1, <2>1 DEF panel
    <3>2. pagePc' # "flatten" => entryAt' = Len(entries') + 1
      BY <1>1
    <3>3. \A k \in 1..(entryAt' - 1) : PanelAt(k)' =>
            \E p \in pagePanels' : p.title = entries'[k].title /\ ~p.collapsed /\ Page!DrawnUnder(k, p.row)'
      BY <1>5, <1>6, <1>7, <2>2, <2>3, <3>1
    <3>4. \A p \in pagePanels' : ~p.collapsed => \E k \in 1..(entryAt' - 1) : PanelAt(k)' /\ p.title = entries'[k].title
      BY <1>5, <1>6, <1>7, <2>3, <2>4, <3>1
    <3> QED
      BY <3>2, <3>3, <3>4 DEF Flattened
  <2>6. RowsBefore(i + 1)' = RowsBefore(i)
    BY <1>1, <1>4, <1>5, <1>9 DEF RowsBefore
  <2>7. \A j : LastRow(i + 1, j)' = LastRow(i, j)
    BY <2>6 DEF LastRow
  <2>8. RowIsLast'
    BY <1>1, <1>4, <2>1, <2>6, <2>7 DEF PageIInv, RowIsLast
  <2> QED
    BY <1>2, <1>3, <2>5, <2>8 DEF PageIInv
<1> QED
  BY <1>8, <1>9

\* The list is made and the page's entries stay.
LEMMA ListStays ==
    ASSUME PageIInv, UNCHANGED <<entries, entryAt, pageRow, pageCollapsed, pagePanels>>,
           pagePc' # "flatten" => entryAt = Len(entries) + 1
    PROVE  RowIsLast' /\ Flattened'
<1>1. \A k : /\ PanelAt(k)' = PanelAt(k) /\ RowsBefore(k)' = RowsBefore(k)
             /\ \A j : LastRow(k, j)' = LastRow(k, j) /\ Page!DrawnUnder(k, j)' = Page!DrawnUnder(k, j)
  BY DEF PanelAt, Page!DrawnUnder, RowsBefore, LastRow
<1>2. RowIsLast'
  BY <1>1 DEF PageIInv, RowIsLast
<1>3. Flattened'
  BY <1>1 DEF PageIInv, Flattened
<1> QED
  BY <1>2, <1>3

\* What comes into view is a panel of the page; and what the view passes by with a scroll was in it.
LEMMA SettleMounts ==
    ASSUME PageIInv, Page!Settle
    PROVE  /\ \A t \in mounted' : \E i \in DOMAIN entries : PanelAt(i) /\ t = entries[i].title
           /\ \A i \in DOMAIN entries : PanelAt(i) /\ Mounted(i) => entries[i].title \in mounted'
           /\ \A i \in DOMAIN entries :
                 PanelAt(i) /\ (i - 1) * PanelHeight < pageTop + Viewport /\ i * PanelHeight > pageTop =>
                    entries[i].title \in mounted'
<1>1. mounted' = mounted \union Page!InView
  BY DEF Page!Settle
<1>2. \A t \in Page!InView : \E i \in DOMAIN entries : PanelAt(i) /\ t = entries[i].title
  BY DEF Page!InView, PanelAt
<1>3. \A i \in DOMAIN entries :
          PanelAt(i) /\ (i - 1) * PanelHeight < pageTop + Viewport /\ i * PanelHeight > pageTop =>
             entries[i].title \in Page!InView
  BY DEF Page!InView, PanelAt
<1> QED
  BY <1>1, <1>2, <1>3 DEF PageIInv, PageTypes, Mounted

LEMMA EntryEnds ==
    ASSUME entries \in Dashboards, NEW i \in DOMAIN entries
    PROVE  /\ i \in Nat /\ i * PanelHeight \in Nat /\ (i - 1) * PanelHeight = i * PanelHeight - PanelHeight
           /\ i * PanelHeight <= Page!Height /\ Page!Height \in Nat
<1>1. i \in Nat /\ i <= Len(entries) /\ Len(entries) \in Nat /\ PanelHeight \in Nat
  BY DashboardsAre, PageNumbers
<1>2. PICK h \in Nat, n \in Nat : h = PanelHeight /\ n = Len(entries)
  BY <1>1
<1>3. n * h = i * h + (n - i) * h /\ (n - i) * h >= 0 /\ n * h \in Nat /\ i * h \in Nat /\ (i - 1) * h = i * h - h
  BY SMTT(20), <1>1, <1>2
<1> QED
  BY <1>1, <1>2, <1>3 DEF Page!Height

LEMMA OpenDashboardPreserves == PageIInv /\ Page!OpenDashboard => PageIInv'
<1> SUFFICES ASSUME PageIInv, Page!OpenDashboard PROVE PageIInv'
  OBVIOUS
<1>1. /\ UNCHANGED <<entries, entryAt, pageRow, pageCollapsed, pagePanels, pageTop, steps>>
      /\ pagePc = "open" /\ pagePc' \in {"settle", "raised"} /\ pageTop = 0 /\ steps = 0
      /\ pagePc' = "raised" => Page!InView = {}
      /\ mounted' \subseteq Page!InView
  BY DEF Page!OpenDashboard, Page!flattened, PageIInv, Scrolled
<1>2. RowIsLast' /\ Flattened'
  BY <1>1, ListStays DEF PageIInv, Flattened
<1>3. PageTypes'
  BY <1>1 DEF PageIInv, PageTypes, PanelAt, Page!InView
<1>4. \A i \in DOMAIN entries : ~(i * PanelHeight <= pageTop)
  BY <1>1, DashboardsAre, PageNumbers DEF PageIInv, PageTypes
<1>5. Page!InView' = Page!InView
  BY <1>1 DEF Page!InView
<1>6. 0 = 0 * ScrollStep
  BY PageNumbers
<1>7. Scrolled'
  BY <1>1, <1>4, <1>5, <1>6 DEF Scrolled
<1> QED
  BY <1>2, <1>3, <1>7 DEF PageIInv

LEMMA WaitAndScrollPreserves == PageIInv /\ Page!WaitAndScroll => PageIInv'
<1> SUFFICES ASSUME PageIInv, Page!WaitAndScroll PROVE PageIInv'
  OBVIOUS
<1>1. /\ UNCHANGED <<entries, entryAt, pageRow, pageCollapsed, pagePanels>>
      /\ pagePc = "settle" /\ pagePc' \in {"settle", "last"} /\ steps' = steps + 1 /\ steps < MaxSteps
      /\ pageTop = steps * ScrollStep /\ Page!Settle
      /\ pagePc' = IF pageTop' + Viewport < Page!Height - 1 THEN "settle" ELSE "last"
  BY DEF Page!WaitAndScroll, Page!flattened, PageIInv, Scrolled
<1>2. entries \in Dashboards /\ pageTop \in Nat /\ steps \in Nat /\ steps' \in 0..MaxSteps
  BY <1>1, PageNumbers DEF PageIInv, PageTypes
<1>3. RowIsLast' /\ Flattened'
  BY <1>1, ListStays DEF PageIInv, Flattened
<1>4. PICK h : h = Page!Height
  OBVIOUS
<1>5. h \in Nat
  BY <1>2, <1>4, DashboardsAre, PageNumbers DEF Page!Height
<1>6. /\ pageTop' \in Nat /\ pageTop' <= pageTop + ScrollStep
      /\ pageTop' = pageTop + ScrollStep \/ pageTop' + Viewport >= h
  BY <1>2, <1>4, <1>5, PageNumbers DEF Page!WaitAndScroll, Page!Smaller, Page!Larger
<1>7. (steps + 1) * ScrollStep = steps * ScrollStep + ScrollStep
  BY <1>2, PageNumbers
<1>8. PageTypes'
  BY <1>1, <1>2, <1>6, SettleMounts DEF PageIInv, PageTypes, PanelAt
<1>9. Page!Height' = h
  BY <1>1, <1>4 DEF Page!Height
<1>10. ASSUME NEW i \in DOMAIN entries, PanelAt(i), i * PanelHeight <= pageTop' PROVE entries[i].title \in mounted'
  <2>1. (i - 1) * PanelHeight = i * PanelHeight - PanelHeight /\ i * PanelHeight \in Nat
    BY <1>2, EntryEnds
  <2>2. (i - 1) * PanelHeight < pageTop + Viewport
    BY <1>2, <1>6, <1>10, <2>1, PageNumbers
  <2>3. CASE i * PanelHeight <= pageTop
    BY <1>1, <1>10, <2>3, SettleMounts DEF PageIInv, Scrolled
  <2>4. CASE i * PanelHeight > pageTop
    BY <1>1, <1>10, <2>2, <2>4, SettleMounts
  <2> QED
    BY <1>2, <2>1, <2>3, <2>4
<1>11. Scrolled'
  <2>1. pagePc' = "settle" => pageTop' = steps' * ScrollStep
    <3>1. PICK view \in Nat : view = pageTop'
      BY <1>6
    <3>2. pagePc' = "settle" => view + Viewport < h - 1
      BY <1>1, <1>4, <3>1
    <3>3. view + Viewport < h - 1 => ~(view + Viewport >= h)
      BY <1>5, PageNumbers
    <3> QED
      BY <1>1, <1>6, <1>7, <3>1, <3>2, <3>3
  <2>2. pagePc' = "last" => h - 1 <= pageTop' + Viewport
    <3>1. PICK view \in Nat : view = pageTop'
      BY <1>6
    <3>2. pagePc' = "last" => ~(view + Viewport < h - 1)
      BY <1>1, <1>4, <3>1
    <3>3. ~(view + Viewport < h - 1) => h - 1 <= view + Viewport
      BY <1>5, PageNumbers
    <3> QED
      BY <3>1, <3>2, <3>3
  <2> QED
    BY <1>1, <1>9, <1>10, <2>1, <2>2 DEF Scrolled, PanelAt, Mounted
<1> QED
  BY <1>3, <1>8, <1>11 DEF PageIInv

LEMMA SettleAtEndPreserves == PageIInv /\ Page!SettleAtEnd => PageIInv'
<1> SUFFICES ASSUME PageIInv, Page!SettleAtEnd PROVE PageIInv'
  OBVIOUS
<1>1. /\ UNCHANGED <<entries, entryAt, pageRow, pageCollapsed, pagePanels, steps>>
      /\ pagePc = "last" \/ (pagePc = "settle" /\ steps = MaxSteps)
      /\ pageTop' = 0 /\ pagePc' = "loaded" /\ Page!Settle
  BY DEF Page!SettleAtEnd, Page!flattened
<1>2. entries \in Dashboards /\ pageTop \in Nat
  BY DEF PageIInv, PageTypes
<1>3. RowIsLast' /\ Flattened'
  BY <1>1, ListStays DEF PageIInv, Flattened
<1>4. PageTypes'
  BY <1>1, SettleMounts DEF PageIInv, PageTypes, PanelAt
<1>5. PICK h : h = Page!Height
  OBVIOUS
<1>6. h <= Page!Reached => h - 1 <= pageTop + Viewport
  <2>1. CASE pagePc = "last"
    BY <1>5, <2>1 DEF PageIInv, Scrolled
  <2>2. CASE pagePc = "settle" /\ steps = MaxSteps
    <3>1. pageTop = MaxSteps * ScrollStep
      BY <2>2 DEF PageIInv, Scrolled
    <3>2. h \in Nat
      BY <1>2, <1>5, DashboardsAre, PageNumbers DEF Page!Height
    <3> QED
      BY <1>2, <3>1, <3>2, PageNumbers DEF Page!Reached
  <2> QED
    BY <1>1, <2>1, <2>2
<1>7. ASSUME h <= Page!Reached, NEW i \in DOMAIN entries, PanelAt(i) PROVE entries[i].title \in mounted'
  <2>1. /\ (i - 1) * PanelHeight = i * PanelHeight - PanelHeight /\ i * PanelHeight \in Nat
        /\ i * PanelHeight <= h /\ h \in Nat
    BY <1>2, <1>5, EntryEnds
  <2>2. (i - 1) * PanelHeight < pageTop + Viewport
    BY <1>2, <1>6, <1>7, <2>1, PageNumbers
  <2>3. CASE i * PanelHeight <= pageTop
    BY <1>1, <1>7, <2>3, SettleMounts DEF PageIInv, Scrolled
  <2>4. CASE i * PanelHeight > pageTop
    BY <1>1, <1>7, <2>2, <2>4, SettleMounts
  <2> QED
    BY <1>2, <2>1, <2>3, <2>4
<1>8. Page!Height' = h /\ Page!Reached' = Page!Reached
  BY <1>1, <1>5 DEF Page!Height, Page!Reached
<1>9. Scrolled'
  BY <1>1, <1>7, <1>8 DEF Scrolled, PanelAt, Mounted
<1> QED
  BY <1>3, <1>4, <1>9 DEF PageIInv

LEMMA PageStep == PageIInv /\ [Page!Next]_pageVars => PageIInv'
<1> SUFFICES ASSUME PageIInv, [Page!Next]_pageVars PROVE PageIInv'
  OBVIOUS
<1>1. CASE Page!Flatten
  BY <1>1, FlattenPreserves
<1>2. CASE Page!DashboardPanels
  <2>1. /\ UNCHANGED <<entries, entryAt, pageRow, pageCollapsed, pagePanels, pageTop, steps, mounted>>
        /\ pagePc = "flatten" /\ pagePc' = "open" /\ entryAt > Len(entries)
    BY <1>2 DEF Page!DashboardPanels, Page!flattened
  <2>2. entryAt = Len(entries) + 1
    BY <2>1, DashboardsAre DEF PageIInv, PageTypes
  <2>3. RowIsLast' /\ Flattened'
    BY <2>1, <2>2, ListStays
  <2>4. PageTypes' /\ Scrolled'
    BY <2>1 DEF PageIInv, PageTypes, Scrolled, PanelAt
  <2> QED
    BY <2>3, <2>4 DEF PageIInv
<1>3. CASE Page!OpenDashboard
  BY <1>3, OpenDashboardPreserves
<1>4. CASE Page!WaitAndScroll
  BY <1>4, WaitAndScrollPreserves
<1>5. CASE Page!SettleAtEnd
  BY <1>5, SettleAtEndPreserves
<1>6. CASE UNCHANGED pageVars
  <2>1. UNCHANGED <<entries, entryAt, pageRow, pageCollapsed, pagePanels, pagePc, pageTop, steps, mounted>>
    BY <1>6 DEF pageVars
  <2>2. RowIsLast' /\ Flattened'
    BY <2>1, ListStays DEF PageIInv, Flattened
  <2>3. PageTypes' /\ Scrolled'
    BY ZenonT(40), <2>1 DEF PageIInv, PageTypes, Scrolled, PanelAt, Mounted, Page!InView, Page!Height, Page!Reached
  <2> QED
    BY <2>2, <2>3 DEF PageIInv
<1> QED
  BY <1>1, <1>2, <1>3, <1>4, <1>5, <1>6 DEF Page!Next

LEMMA PageImplies == PageIInv => Page!TypeOK /\ Page!PanelsSeen
<1> SUFFICES ASSUME PageIInv PROVE Page!TypeOK /\ Page!PanelsSeen
  OBVIOUS
<1>1. Page!TypeOK
  BY DEF PageIInv, PageTypes, Page!TypeOK
<1>2. DOMAIN entries = 1..Len(entries) /\ Len(entries) \in Nat
  BY DashboardsAre DEF PageIInv, PageTypes
<1>3. ASSUME pagePc # "flatten"
      PROVE  /\ {p.title : p \in {q \in pagePanels : ~q.collapsed}} = {entries[i].title : i \in {j \in DOMAIN entries : PanelAt(j)}}
             /\ \A i \in DOMAIN entries : entries[i].type = "panel" =>
                    \E p \in pagePanels : p.title = entries[i].title /\ Page!DrawnUnder(i, p.row)
  <2>1. 1..(entryAt - 1) = DOMAIN entries
    BY <1>2, <1>3 DEF PageIInv, Flattened
  <2>2. \A i \in DOMAIN entries : PanelAt(i) =>
          \E p \in pagePanels : p.title = entries[i].title /\ ~p.collapsed /\ Page!DrawnUnder(i, p.row)
    BY <2>1 DEF PageIInv, Flattened
  <2>3. \A p \in pagePanels : ~p.collapsed => \E i \in DOMAIN entries : PanelAt(i) /\ p.title = entries[i].title
    BY <2>1 DEF PageIInv, Flattened
  <2>4. \A i \in DOMAIN entries : PanelAt(i) <=> entries[i].type = "panel"
    BY DEF PanelAt
  <2> QED
    BY <2>2, <2>3, <2>4
<1>4. pagePc = "raised" => Page!InView = {}
  BY DEF PageIInv, Scrolled
<1>5. mounted \subseteq {entries[i].title : i \in {j \in DOMAIN entries : PanelAt(j)}}
  BY DEF PageIInv, PageTypes
<1>6. pagePc = "loaded" /\ Page!Height <= Page!Reached =>
          {entries[i].title : i \in {j \in DOMAIN entries : PanelAt(j)}} \subseteq mounted
  BY DEF PageIInv, Scrolled, Mounted
<1> QED
  BY <1>1, <1>3, <1>4, <1>5, <1>6 DEF Page!PanelsSeen, Page!RenderedPanelTitles

-----------------------------------------------------------------------------
(* ModelFit: sizes add up byte by byte, a head rounded up is never short,  *)
(* and what passed the check was judged by what is downloaded.             *)

Sized(f, S) == IsFiniteSet(S) /\ \A x \in S : f[x] \in Nat

LEMMA SumIs == \A f, S : Fit!Sum(f, S) = Cardinality(Fit!Bytes(f, S))
BY DEF Fit!Sum, Fit!Cardinality, Cardinality, Fit!IsFiniteSet, IsFiniteSet

LEMMA BytesFinite ==
    ASSUME NEW f, NEW S, Sized(f, S)
    PROVE  IsFiniteSet(Fit!Bytes(f, S)) /\ Fit!Sum(f, S) \in Nat
<1> DEFINE of == [x \in S |-> {x} \X (1..f[x])]
           all == {{x} \X (1..f[x]) : x \in S}
<1>1. IsFiniteSet(S)
  BY DEF Sized
<1>2. of \in Surjection(S, all)
  BY DEF Surjection
<1>3. IsFiniteSet(all)
  BY <1>1, <1>2, FS_Surjection
<1>4. ASSUME NEW x \in S PROVE IsFiniteSet({x} \X (1..f[x]))
  <2>1. IsFiniteSet({x})
    BY FS_Singleton
  <2>2. f[x] \in Nat
    BY DEF Sized
  <2>3. IsFiniteSet(1..f[x])
    BY <2>2, FS_Interval
  <2> QED
    BY <2>1, <2>3, FS_Product
<1>5. IsFiniteSet(UNION all)
  BY <1>3, <1>4, FS_UNION
<1>6. IsFiniteSet(Fit!Bytes(f, S))
  BY <1>5 DEF Fit!Bytes
<1> QED
  BY <1>6, SumIs, FS_CardinalityType

LEMMA SumOfPart ==
    ASSUME NEW f, NEW S, NEW T, Sized(f, T), S \subseteq T
    PROVE  Fit!Sum(f, S) <= Fit!Sum(f, T) /\ Fit!Sum(f, S) \in Nat
<1>1. Fit!Bytes(f, S) \subseteq Fit!Bytes(f, T)
  BY DEF Fit!Bytes
<1>2. IsFiniteSet(Fit!Bytes(f, T)) /\ IsFiniteSet(Fit!Bytes(f, S))
  BY <1>1, BytesFinite, FS_Subset
<1> QED
  BY <1>1, <1>2, FS_Subset, SumIs, FS_CardinalityType

LEMMA SumOfBoth ==
    ASSUME NEW f, NEW S, NEW T, Sized(f, S), Sized(f, T), S \intersect T = {}
    PROVE  Fit!Sum(f, S \union T) = Fit!Sum(f, S) + Fit!Sum(f, T)
<1>1. Fit!Bytes(f, S \union T) = Fit!Bytes(f, S) \union Fit!Bytes(f, T)
  BY DEF Fit!Bytes
<1>2. Fit!Bytes(f, S) \intersect Fit!Bytes(f, T) = {}
  BY DEF Fit!Bytes
<1>3. IsFiniteSet(Fit!Bytes(f, S)) /\ IsFiniteSet(Fit!Bytes(f, T))
  BY BytesFinite
<1>4. Cardinality(Fit!Bytes(f, S)) \in Nat /\ Cardinality(Fit!Bytes(f, T)) \in Nat /\ Cardinality({}) = 0
  BY <1>3, FS_CardinalityType, FS_EmptySet
<1>5. Cardinality(Fit!Bytes(f, S) \union Fit!Bytes(f, T)) = Cardinality(Fit!Bytes(f, S)) + Cardinality(Fit!Bytes(f, T))
  <2>1. Cardinality(Fit!Bytes(f, S) \union Fit!Bytes(f, T)) =
          Cardinality(Fit!Bytes(f, S)) + Cardinality(Fit!Bytes(f, T)) - Cardinality(Fit!Bytes(f, S) \intersect Fit!Bytes(f, T))
    BY <1>3, FS_Union
  <2>2. Cardinality(Fit!Bytes(f, S) \intersect Fit!Bytes(f, T)) = 0
    BY <1>2, <1>4
  <2>3. PICK a \in Nat, b \in Nat : a = Cardinality(Fit!Bytes(f, S)) /\ b = Cardinality(Fit!Bytes(f, T))
    BY <1>4
  <2>4. a + b - 0 = a + b
    OBVIOUS
  <2> QED
    BY <2>1, <2>2, <2>3, <2>4
<1> QED
  BY <1>1, <1>5, SumIs

LEMMA SumOfSame ==
    ASSUME NEW f, NEW g, NEW S, \A x \in S : f[x] = g[x]
    PROVE  Fit!Sum(f, S) = Fit!Sum(g, S)
BY SumIs DEF Fit!Bytes

\* The KV heads of a GPU, times the GPUs, are all heads.
LEMMA HeadsCovered ==
    ASSUME NEW heads \in Nat, NEW tp \in Nat \ {0}
    PROVE  Fit!CeilDiv(heads, tp) \in Nat /\ Fit!CeilDiv(heads, tp) * tp >= heads
<1> DEFINE n == heads + tp - 1
<1>1. n \in Nat
  OBVIOUS
<1>2. n = tp * (n \div tp) + (n % tp) /\ n \div tp \in Nat /\ n % tp \in 0..(tp - 1)
  BY <1>1, DivMod
<1>3. Fit!CeilDiv(heads, tp) = n \div tp
  BY DEF Fit!CeilDiv
<1>4. PICK q \in Nat : q = n \div tp
  BY <1>2
<1>5. tp * q >= heads
  <2>1. PICK r \in 0..(tp - 1) : n = tp * q + r
    BY <1>2, <1>4
  <2>2. tp * q \in Nat
    BY <1>4
  <2> QED
    BY <2>1, <2>2
<1>6. q * tp = tp * q
  BY <1>4
<1> QED
  BY <1>3, <1>4, <1>5, <1>6

\* Who follows the advice needs no more of it, but for a second key to take out.
FitTypes ==
    /\ model \in Models /\ reached \in BOOLEAN
    /\ host.free \in Maybe(Nat) /\ host.workers \subseteq [tensorParallel : Nat \ {0}, memory : Nat]
    /\ DOMAIN host = {"free", "workers"}
    /\ profile \in [maxModelLen : Maybe(Nat), overrides : SUBSET Fit!RopeKeys, minContext : Nat]
    /\ DOMAIN cached \subseteq DOMAIN model.files /\ \A f \in DOMAIN cached : cached[f] \in Nat
    /\ fitPc \in {"check", "done"} /\ rounds \in 1..MaxRounds /\ advised \in Nat
RopeAdvice ==
    /\ advised <= 2 /\ (advised = 2 => Fit!RopeProblem = "none")
    /\ advised = 1 /\ Fit!RopeProblem # "none" =>
          Fit!RopeProblem = "remove" /\ "rope_parameters" \notin profile.overrides
    /\ fitPc = "done" /\ fitAnswer = "rope" => Fit!RopeProblem # "none"
Passed ==
    fitPc = "done" /\ fitAnswer = "fits" =>
        /\ ~Fit!DiskShort
        /\ Fit!MaxModelLen # Fit!None => \A w \in host.workers : ~Fit!GpuShort(w)
FitIInv == FitTypes /\ RopeAdvice /\ Passed

LEMMA ModelIs ==
    ASSUME model \in Models
    PROVE  /\ model.kvHeads \in Nat /\ model.layers \in Nat /\ model.native \in Maybe(Nat)
           /\ IsFiniteSet(DOMAIN model.files) /\ \A f \in DOMAIN model.files : model.files[f].size \in Nat
BY FiguresAssumption

LEMMA FitInit ==
    ASSUME driven = "fit" => Fit!Init,
           driven # "fit" => /\ model \in Models /\ host \in Hosts /\ profile \in Profiles
                            /\ cached = << >> /\ reached = TRUE /\ Fit!Begun
    PROVE  FitIInv
<1>1. model \in Models /\ host \in Hosts /\ profile \in Profiles /\ reached \in BOOLEAN /\ Fit!Begun
  BY DEF Fit!Init
<1>2. DOMAIN cached \subseteq DOMAIN model.files /\ \A f \in DOMAIN cached : cached[f] \in Nat
  <2>1. CASE driven = "fit"
    <3>1. PICK present \in SUBSET DOMAIN model.files :
              cached \in {[f \in present |-> 1], [f \in present |-> model.files[f].size]}
      BY <2>1 DEF Fit!Init
    <3> QED
      BY <1>1, <3>1, ModelIs
  <2>2. CASE driven # "fit"
    <3>1. DOMAIN << >> = {}
      OBVIOUS
    <3> QED
      BY <2>2, <3>1
  <2> QED
    BY <2>1, <2>2
<1>3. /\ host \in [free : Maybe(Nat), workers : SUBSET [tensorParallel : Nat \ {0}, memory : Nat]]
      /\ profile \in [maxModelLen : Maybe(Nat \ {0}), overrides : SUBSET Fit!RopeKeys, minContext : Nat]
  BY <1>1, FiguresAssumption DEF Fit!RopeKeys
<1>4. FitTypes
  BY <1>1, <1>2, <1>3, FiguresAssumption DEF FitTypes, Maybe, Fit!Begun
<1>5. RopeAdvice /\ Passed
  BY <1>1 DEF RopeAdvice, Passed, Fit!Begun
<1> QED
  BY <1>4, <1>5 DEF FitIInv

LEMMA SizesAre ==
    ASSUME FitTypes
    PROVE  /\ DOMAIN Fit!Sizes \subseteq DOMAIN model.files /\ IsFiniteSet(DOMAIN Fit!Sizes)
           /\ \A f \in DOMAIN Fit!Sizes : Fit!Sizes[f] \in Nat
           /\ Fit!Downloaded \subseteq DOMAIN Fit!Sizes /\ Fit!Loaded \subseteq DOMAIN Fit!Sizes
           /\ (~reached => Fit!Sizes = [f \in DOMAIN cached |-> cached[f]])
<1>1. DOMAIN Fit!Sizes = (IF reached THEN DOMAIN model.files ELSE DOMAIN cached)
  BY DEF Fit!Sizes, FitTypes
<1>2. \A f \in DOMAIN Fit!Sizes : Fit!Sizes[f] = (IF reached THEN model.files[f].size ELSE cached[f])
  BY <1>1 DEF Fit!Sizes, FitTypes
<1>3. DOMAIN Fit!Sizes \subseteq DOMAIN model.files
  BY <1>1 DEF FitTypes
<1>4. IsFiniteSet(DOMAIN Fit!Sizes)
  BY <1>3, ModelIs, FS_Subset DEF FitTypes
<1>5. \A f \in DOMAIN Fit!Sizes : Fit!Sizes[f] \in Nat
  BY <1>1, <1>2, ModelIs DEF FitTypes
<1>6. Fit!Weights \subseteq DOMAIN Fit!Sizes
  BY DEF Fit!Weights
<1>7. Fit!Downloaded \subseteq DOMAIN Fit!Sizes /\ Fit!Loaded \subseteq DOMAIN Fit!Sizes
  BY <1>6 DEF Fit!Downloaded, Fit!Loaded
<1>8. ~reached => Fit!Sizes = [f \in DOMAIN cached |-> cached[f]]
  BY DEF Fit!Sizes
<1> QED
  BY <1>3, <1>4, <1>5, <1>7, <1>8

LEMMA SumsAreSizes ==
    ASSUME FitTypes
    PROVE  /\ \A S \in SUBSET DOMAIN Fit!Sizes : Sized(Fit!Sizes, S)
           /\ Fit!WeightBytes \in Nat
<1>1. ASSUME NEW S \in SUBSET DOMAIN Fit!Sizes PROVE Sized(Fit!Sizes, S)
  BY SizesAre, FS_Subset DEF Sized
<1>2. Sized(Fit!Sizes, Fit!Loaded)
  BY <1>1, SizesAre
<1> QED
  BY <1>1, <1>2, BytesFinite DEF Fit!WeightBytes

\* What is read from the model, the host, the profile and the cache stays with them.
LEMMA JudgedTheSame ==
    ASSUME UNCHANGED <<model, host, profile, cached, reached>>
    PROVE  /\ Fit!RopeProblem' = Fit!RopeProblem /\ Fit!DiskShort' = Fit!DiskShort
           /\ Fit!MaxModelLen' = Fit!MaxModelLen /\ \A w : Fit!GpuShort(w)' = Fit!GpuShort(w)
<1>1. Fit!Sizes' = Fit!Sizes /\ \A f : Fit!Kind(f)' = Fit!Kind(f)
  BY DEF Fit!Sizes, Fit!Kind
<1>2. Fit!Weights' = Fit!Weights
  BY <1>1 DEF Fit!Weights
<1>3. Fit!Downloaded' = Fit!Downloaded /\ Fit!Loaded' = Fit!Loaded
  BY <1>1, <1>2 DEF Fit!Downloaded, Fit!Loaded
<1>4. Fit!WeightBytes' = Fit!WeightBytes
  BY <1>1, <1>3 DEF Fit!WeightBytes
<1>5. Fit!MissingBytes' = Fit!MissingBytes
  <2>1. Fit!CachedBytes' = Fit!CachedBytes
    BY <1>1, <1>3 DEF Fit!CachedBytes
  <2> QED
    BY <1>1, <1>3, <2>1 DEF Fit!MissingBytes
<1>6. Fit!MaxModelLen' = Fit!MaxModelLen
  BY DEF Fit!MaxModelLen
<1>7. \A tp : Fit!KvBytesPerToken(tp)' = Fit!KvBytesPerToken(tp)
  BY DEF Fit!KvBytesPerToken, Fit!HeadsPerGpu
<1>8. Fit!RopeProblem' = Fit!RopeProblem
  BY DEF Fit!RopeProblem, Fit!Overridden
<1>9. Fit!DiskShort' = Fit!DiskShort
  BY <1>5 DEF Fit!DiskShort
<1>10. \A w : Fit!GpuShort(w)' = Fit!GpuShort(w)
  BY <1>4, <1>6, <1>7 DEF Fit!GpuShort
<1> QED
  BY <1>6, <1>8, <1>9, <1>10

LEMMA CheckPreserves == FitIInv /\ Fit!Check => FitIInv'
<1> SUFFICES ASSUME FitIInv, Fit!Check PROVE FitIInv'
  OBVIOUS
<1>1. /\ UNCHANGED <<model, host, profile, cached, reached, rounds, advised>> /\ fitPc' = "done"
      /\ fitAnswer' = CASE ~reached /\ "config" \notin DOMAIN cached -> "unknown"
                [] reached \/ "config" \in DOMAIN cached ->
                      CASE Fit!RopeProblem # "none" -> "rope"
                        [] Fit!RopeProblem = "none" /\ Fit!DiskShort -> "disk"
                        [] Fit!RopeProblem = "none" /\ ~Fit!DiskShort ->
                              IF Fit!MaxModelLen # Fit!None /\ \E w \in host.workers : Fit!GpuShort(w) THEN "gpu"
                              ELSE "fits"
  BY DEF Fit!Check, Fit!Answer
<1>2. reached \in BOOLEAN
  BY DEF FitIInv, FitTypes
<1>3. fitAnswer' = "rope" => Fit!RopeProblem # "none"
  BY <1>1, <1>2
<1>4. fitAnswer' = "fits" => ~Fit!DiskShort /\ (Fit!MaxModelLen # Fit!None => \A w \in host.workers : ~Fit!GpuShort(w))
  BY <1>1, <1>2
<1>5. FitTypes'
  BY <1>1 DEF FitIInv, FitTypes
<1>6. RopeAdvice'
  BY <1>1, <1>3, JudgedTheSame DEF FitIInv, RopeAdvice
<1>7. Passed'
  BY <1>1, <1>4, JudgedTheSame DEF Passed, Fit!None
<1> QED
  BY <1>5, <1>6, <1>7 DEF FitIInv

LEMMA FollowAdvicePreserves == FitIInv /\ Fit!FollowAdvice => FitIInv'
<1> SUFFICES ASSUME FitIInv, Fit!FollowAdvice PROVE FitIInv'
  OBVIOUS
<1>1. /\ UNCHANGED <<model, host, cached, reached>> /\ fitPc' = "check" /\ rounds < MaxRounds /\ rounds' = rounds + 1
      /\ profile' \in Fit!Advised /\ advised' = advised + 1 /\ Fit!RopeProblem # "none"
  BY DEF Fit!FollowAdvice, Fit!Again, FitIInv, RopeAdvice
<1>2. /\ model.native \in Maybe(Nat) /\ profile.maxModelLen \in Maybe(Nat) /\ profile.overrides \subseteq Fit!RopeKeys
      /\ profile \in [maxModelLen : Maybe(Nat), overrides : SUBSET Fit!RopeKeys, minContext : Nat]
  BY ModelIs DEF FitIInv, FitTypes
<1>3. Passed'
  BY <1>1 DEF Passed
<1>4. advised \in Nat /\ advised <= 1 /\ (advised = 1 => Fit!RopeProblem = "remove" /\ "rope_parameters" \notin profile.overrides)
  BY <1>1 DEF FitIInv, FitTypes, RopeAdvice
<1>5. ASSUME profile' \in [maxModelLen : Maybe(Nat), overrides : SUBSET Fit!RopeKeys, minContext : Nat] PROVE FitTypes'
  <2>1. rounds' \in 1..MaxRounds /\ advised' \in Nat
    <3>1. MaxRounds \in Nat /\ rounds \in 1..MaxRounds /\ advised \in Nat
      BY FiguresAssumption DEF FitIInv, FitTypes
    <3> QED
      BY <1>1, <3>1
  <2>2. /\ model' \in Models /\ reached' \in BOOLEAN
        /\ host'.free \in Maybe(Nat) /\ host'.workers \subseteq [tensorParallel : Nat \ {0}, memory : Nat]
        /\ DOMAIN host' = {"free", "workers"}
        /\ DOMAIN cached' \subseteq DOMAIN model'.files /\ \A f \in DOMAIN cached' : cached'[f] \in Nat
    BY <1>1 DEF FitIInv, FitTypes
  <2> QED
    BY <1>1, <1>5, <2>1, <2>2 DEF FitTypes
<1>6. ASSUME advised' = 1 => \/ Fit!RopeProblem' = "none"
                             \/ Fit!RopeProblem' = "remove" /\ "rope_parameters" \notin profile'.overrides,
             advised' = 2 => Fit!RopeProblem' = "none"
      PROVE  RopeAdvice'
  BY <1>1, <1>4, <1>6 DEF RopeAdvice
<1>7. ASSUME Fit!RopeProblem' = "none" PROVE RopeAdvice'
  BY <1>1, <1>4, <1>7 DEF RopeAdvice
<1>8. CASE Fit!RopeProblem = "remove"
  <2>1. /\ model.native # -1 /\ profile.maxModelLen # -1 /\ Fit!Overridden /\ model.native >= profile.maxModelLen
    BY <1>8 DEF Fit!RopeProblem, Fit!None
  <2>2. profile' = [profile EXCEPT !.overrides = @ \ {Fit!FirstKey}]
    BY <1>1, <1>8 DEF Fit!Advised
  <2>3. /\ profile' \in [maxModelLen : Maybe(Nat), overrides : SUBSET Fit!RopeKeys, minContext : Nat]
        /\ profile'.maxModelLen = profile.maxModelLen /\ profile'.overrides = profile.overrides \ {Fit!FirstKey}
    BY <1>2, <2>2
  <2>4. Fit!RopeProblem' = IF Fit!Overridden' THEN "remove" ELSE "none"
    <3>1. model.native \in Int /\ profile.maxModelLen \in Int
      BY <1>2 DEF Maybe
    <3> QED
      BY <1>1, <2>1, <2>3, <3>1 DEF Fit!RopeProblem, Fit!None
  <2>5. "rope_parameters" \notin profile'.overrides
    BY <2>3 DEF Fit!FirstKey
  <2>6. advised = 1 => ~Fit!Overridden'
    <3>1. advised = 1 => profile.overrides \subseteq {"rope_scaling"}
      BY <1>2, <1>4 DEF Fit!RopeKeys
    <3>2. advised = 1 => profile'.overrides = {}
      BY <1>4, <2>3, <3>1 DEF Fit!FirstKey
    <3> QED
      BY <3>2 DEF Fit!Overridden
  <2>7. RopeAdvice'
    BY <1>1, <1>4, <1>6, <2>4, <2>5, <2>6
  <2> QED
    BY <1>3, <1>5, <2>3, <2>7 DEF FitIInv
<1>9. CASE Fit!RopeProblem # "remove"
  <2>1. Fit!RopeProblem = "stretch" /\ advised = 0
    BY <1>1, <1>4, <1>9 DEF Fit!RopeProblem
  <2>2. /\ model.native # -1 /\ profile.maxModelLen # -1 /\ ~Fit!Overridden /\ model.native < profile.maxModelLen
    BY <2>1 DEF Fit!RopeProblem, Fit!None
  <2>3. \/ profile' = [profile EXCEPT !.overrides = @ \union {"rope_parameters"}]
        \/ profile' = [profile EXCEPT !.maxModelLen = model.native]
    BY <1>1, <2>1 DEF Fit!Advised
  <2>4. model.native \in Int /\ profile.maxModelLen \in Int
    BY <1>2 DEF Maybe
  <2>5. CASE profile' = [profile EXCEPT !.overrides = @ \union {"rope_parameters"}]
    <3>1. /\ profile' \in [maxModelLen : Maybe(Nat), overrides : SUBSET Fit!RopeKeys, minContext : Nat]
          /\ profile'.maxModelLen = profile.maxModelLen /\ profile'.overrides = profile.overrides \union {"rope_parameters"}
      BY <1>2, <2>5 DEF Fit!RopeKeys
    <3>2. Fit!Overridden'
      BY <3>1 DEF Fit!Overridden, Fit!RopeKeys
    <3>3. Fit!RopeProblem' = "none"
      BY <1>1, <2>2, <2>4, <3>1, <3>2 DEF Fit!RopeProblem, Fit!None
    <3>4. RopeAdvice'
      BY <1>7, <3>3
    <3> QED
      BY <1>3, <1>5, <3>1, <3>4 DEF FitIInv
  <2>6. CASE profile' = [profile EXCEPT !.maxModelLen = model.native]
    <3>1. /\ profile' \in [maxModelLen : Maybe(Nat), overrides : SUBSET Fit!RopeKeys, minContext : Nat]
          /\ profile'.maxModelLen = model.native /\ profile'.overrides = profile.overrides
      BY <1>2, <2>6
    <3>2. ~Fit!Overridden'
      BY <2>2, <3>1 DEF Fit!Overridden
    <3>3. Fit!RopeProblem' = "none"
      BY <1>1, <2>2, <2>4, <3>1, <3>2 DEF Fit!RopeProblem, Fit!None
    <3>4. RopeAdvice'
      BY <1>7, <3>3
    <3> QED
      BY <1>3, <1>5, <3>1, <3>4 DEF FitIInv
  <2> QED
    BY <2>3, <2>5, <2>6
<1> QED
  BY <1>8, <1>9

\* A download adds what is missing, or part of it.
LEMMA DownloadFits ==
    ASSUME FitTypes, ~Fit!DiskShort, host.free # Fit!None,
           NEW fetched \in SUBSET {f \in Fit!Downloaded : f \notin DOMAIN cached \/ cached[f] # Fit!Sizes[f]}
    PROVE  Fit!Sum(Fit!Sizes, fetched) \in Nat /\ Fit!Sum(Fit!Sizes, fetched) <= host.free
<1> DEFINE kept == {f \in Fit!Downloaded \intersect DOMAIN cached : cached[f] = Fit!Sizes[f]}
<1>1. fetched \subseteq Fit!Downloaded /\ kept \subseteq Fit!Downloaded /\ fetched \intersect kept = {}
  OBVIOUS
<1>2. /\ Sized(Fit!Sizes, Fit!Downloaded) /\ Sized(Fit!Sizes, fetched) /\ Sized(Fit!Sizes, kept)
      /\ Sized(Fit!Sizes, fetched \union kept)
  <2>1. Fit!Downloaded \subseteq DOMAIN Fit!Sizes
    BY SizesAre
  <2>2. fetched \subseteq DOMAIN Fit!Sizes /\ kept \subseteq DOMAIN Fit!Sizes /\ fetched \union kept \subseteq DOMAIN Fit!Sizes
    BY <1>1, <2>1
  <2> HIDE DEF kept
  <2> QED
    BY <2>1, <2>2, SumsAreSizes
<1>3. Fit!CachedBytes = Fit!Sum(Fit!Sizes, kept)
  <2>1. Fit!CachedBytes = Fit!Sum(cached, kept)
    BY DEF Fit!CachedBytes
  <2>2. \A x \in kept : cached[x] = Fit!Sizes[x]
    OBVIOUS
  <2> QED
    BY <2>1, <2>2, SumOfSame
<1> HIDE DEF kept
<1>4. Fit!Sum(Fit!Sizes, fetched \union kept) = Fit!Sum(Fit!Sizes, fetched) + Fit!Sum(Fit!Sizes, kept)
  BY <1>1, <1>2, SumOfBoth
<1>5. Fit!Sum(Fit!Sizes, fetched \union kept) <= Fit!Sum(Fit!Sizes, Fit!Downloaded)
  BY <1>1, <1>2, SumOfPart
<1>6. /\ Fit!Sum(Fit!Sizes, fetched) \in Nat /\ Fit!Sum(Fit!Sizes, kept) \in Nat
      /\ Fit!Sum(Fit!Sizes, Fit!Downloaded) \in Nat
  BY <1>2, BytesFinite
<1>7. PICK a \in Nat, b \in Nat, c \in Nat :
          a = Fit!Sum(Fit!Sizes, fetched) /\ b = Fit!Sum(Fit!Sizes, kept) /\ c = Fit!Sum(Fit!Sizes, Fit!Downloaded)
  BY <1>6
<1>8. a + b <= c
  BY <1>4, <1>5, <1>7
<1>9. Fit!MissingBytes = IF c - b > 0 THEN c - b ELSE 0
  BY <1>3, <1>7 DEF Fit!MissingBytes
<1>10. a <= Fit!MissingBytes /\ Fit!MissingBytes \in Nat
  BY <1>8, <1>9
<1>11. host.free \in Nat /\ ~(Fit!MissingBytes > host.free)
  BY DEF FitTypes, Maybe, Fit!None, Fit!DiskShort
<1> QED
  BY <1>7, <1>10, <1>11

LEMMA DownloadPreserves == FitIInv /\ Fit!Download => FitIInv'
<1> SUFFICES ASSUME FitIInv, Fit!Download PROVE FitIInv'
  OBVIOUS
<1>1. /\ UNCHANGED <<model, profile, advised>> /\ fitPc' = "check" /\ rounds < MaxRounds /\ rounds' = rounds + 1
      /\ reached' \in BOOLEAN /\ ~Fit!DiskShort
  BY DEF Fit!Download, Fit!Again, FitIInv, Passed
<1>2. PICK fetched \in SUBSET {f \in Fit!Downloaded : f \notin DOMAIN cached \/ cached[f] # Fit!Sizes[f]} :
          /\ cached' = [f \in DOMAIN cached \union fetched |-> IF f \in fetched THEN Fit!Sizes[f] ELSE cached[f]]
          /\ host' = [host EXCEPT !.free = IF @ = Fit!None THEN @ ELSE @ - Fit!Sum(Fit!Sizes, fetched)]
  BY DEF Fit!Download
<1>3. FitTypes
  BY DEF FitIInv
<1>4. /\ DOMAIN cached' \subseteq DOMAIN model.files /\ \A f \in DOMAIN cached' : cached'[f] \in Nat
  <2>1. fetched \subseteq DOMAIN Fit!Sizes /\ DOMAIN cached' = DOMAIN cached \union fetched
    BY <1>2, <1>3, SizesAre
  <2> QED
    BY <1>2, <1>3, <2>1, SizesAre DEF FitTypes
<1>5. DOMAIN host' = DOMAIN host /\ host'.workers = host.workers /\ host'.free \in Maybe(Nat)
  <2>1. PICK sum : sum = Fit!Sum(Fit!Sizes, fetched)
    OBVIOUS
  <2>2. host' = [host EXCEPT !.free = IF @ = Fit!None THEN @ ELSE @ - sum]
    BY <1>2, <2>1
  <2>3. DOMAIN host' = DOMAIN host /\ host'.workers = host.workers
        /\ host'.free = IF host.free = Fit!None THEN host.free ELSE host.free - sum
    BY <1>3, <2>2 DEF FitTypes
  <2>4. host.free # Fit!None => host.free \in Nat /\ sum \in Nat /\ sum <= host.free
    BY <1>1, <1>3, <2>1, DownloadFits DEF FitTypes, Maybe, Fit!None
  <2>5. host.free # Fit!None => host.free - sum \in Nat
    BY <2>4
  <2> QED
    BY <1>3, <2>3, <2>5 DEF FitTypes, Maybe
<1>6. rounds' \in 1..MaxRounds
  <2>1. MaxRounds \in Nat /\ rounds \in 1..MaxRounds
    BY <1>3, FiguresAssumption DEF FitTypes
  <2> QED
    BY <1>1, <2>1
<1>7. FitTypes'
  BY <1>1, <1>3, <1>4, <1>5, <1>6 DEF FitTypes
<1>8. Fit!RopeProblem' = Fit!RopeProblem
  BY <1>1 DEF Fit!RopeProblem, Fit!Overridden
<1>9. RopeAdvice' /\ Passed'
  BY <1>1, <1>8 DEF FitIInv, RopeAdvice, Passed
<1> QED
  BY <1>7, <1>9 DEF FitIInv

LEMMA FitStep == FitIInv /\ [Fit!Next]_fitVars => FitIInv'
<1>1. ASSUME FitIInv, UNCHANGED fitVars PROVE FitIInv'
  <2>1. UNCHANGED <<model, host, profile, cached, reached, fitPc, fitAnswer, rounds, advised>>
    BY <1>1 DEF fitVars
  <2>2. FitTypes'
    BY <1>1, <2>1 DEF FitIInv, FitTypes
  <2>3. RopeAdvice'
    BY <1>1, <2>1, JudgedTheSame DEF FitIInv, RopeAdvice
  <2>4. Passed'
    BY <1>1, <2>1, JudgedTheSame DEF FitIInv, Passed, Fit!None
  <2> QED
    BY <2>2, <2>3, <2>4 DEF FitIInv
<1> QED
  BY <1>1, CheckPreserves, FollowAdvicePreserves, DownloadPreserves DEF Fit!Next

\* What passes has room for the heads that each GPU holds, and so for all.
LEMMA FitImplies == FitIInv => Fit!TypeOK /\ Fit!ModelFits /\ Fit!AdviceHelps
<1> SUFFICES ASSUME FitIInv PROVE Fit!TypeOK /\ Fit!ModelFits /\ Fit!AdviceHelps
  OBVIOUS
<1>1. Fit!TypeOK
  BY DEF FitIInv, FitTypes, Fit!TypeOK
<1>2. Fit!AdviceHelps
  BY DEF FitIInv, FitTypes, RopeAdvice, Fit!AdviceHelps
<1>3. host.free >= 0 \/ host.free = Fit!None
  BY DEF FitIInv, FitTypes, Maybe, Fit!None
<1>4. ASSUME fitPc = "done", fitAnswer = "fits", Fit!MaxModelLen # Fit!None, NEW w \in host.workers
      PROVE  w.memory * w.tensorParallel >= w.tensorParallel * Fit!Overhead + Fit!WeightBytes
                + Fit!MaxModelLen * 2 * model.layers * model.kvHeads
  <2>1. ~Fit!GpuShort(w)
    BY <1>4 DEF FitIInv, Passed
  <2>2. PICK tp \in Nat \ {0}, memory \in Nat : tp = w.tensorParallel /\ memory = w.memory
    BY DEF FitIInv, FitTypes
  <2>3. PICK weights \in Nat : weights = Fit!WeightBytes
    BY SumsAreSizes DEF FitIInv
  <2>4. Fit!MaxModelLen \in Nat
    BY <1>4, ModelIs DEF FitIInv, FitTypes, Maybe, Fit!None, Fit!MaxModelLen
  <2>5. PICK len \in Nat, layers \in Nat, heads \in Nat :
            len = Fit!MaxModelLen /\ layers = model.layers /\ heads = model.kvHeads
    BY <2>4, ModelIs DEF FitIInv, FitTypes
  <2>6. PICK perGpu \in Nat : perGpu = Fit!HeadsPerGpu(tp) /\ perGpu * tp >= heads
    BY <2>5, HeadsCovered DEF Fit!HeadsPerGpu
  <2>7. len * (2 * layers * perGpu) * tp <= (memory - 1) * tp - weights
    BY <2>1, <2>2, <2>3, <2>5, <2>6 DEF Fit!GpuShort, Fit!Overhead, Fit!KvBytesPerToken
  <2>8. PICK each \in Nat : each = len * 2 * layers
    BY <2>5
  <2>9. PICK held \in Nat : held = perGpu * tp
    BY <2>2, <2>6
  <2>10. len * (2 * layers * perGpu) * tp = each * held
    BY <2>2, <2>5, <2>6, <2>8, <2>9
  <2>11. held >= heads
    BY <2>6, <2>9
  <2>12. each * held >= each * heads
    BY <2>5, <2>8, <2>9, <2>11
  <2>13. (memory - 1) * tp = memory * tp - tp
    <3>1. \A a, b \in Int : (a - 1) * b = a * b - b
      OBVIOUS
    <3>2. memory \in Int /\ tp \in Int
      BY <2>2
    <3> QED
      BY <3>1, <3>2
  <2>14. memory * tp >= tp * 1 + weights + each * heads
    BY <2>2, <2>3, <2>5, <2>7, <2>8, <2>9, <2>10, <2>12, <2>13
  <2> QED
    BY <2>2, <2>3, <2>5, <2>8, <2>14 DEF Fit!Overhead
<1> QED
  BY <1>1, <1>2, <1>3, <1>4 DEF Fit!ModelFits

-----------------------------------------------------------------------------
(* Economics: a fetch renames no chip, and the inputs of a run are those of *)
(* the table as it is.                                                     *)

Gpu == [aliases : SUBSET STRING, tdp : Nat, owning : Maybe(Nat), rental : Maybe(Nat), watts : Nat, estimated : BOOLEAN]
Chip == [label : STRING, tdp : Nat, watts : Nat, estimated : BOOLEAN, owning : Maybe(Nat), rental : Maybe(Nat)]
Estimated(c) == c.estimated => c.watts = Prices!Estimate(c.tdp, Prices!HostWatts, Prices!Pue)
TableHolds ==
    /\ \A k \in DOMAIN table : table[k] \in Gpu /\ Estimated(table[k])
    /\ Prices!NamesUnique(table)
    /\ \A k \in DOMAIN todo : todo[k] \in Chip /\ Estimated(todo[k])
InputsOfTable ==
    inputs # Prices!Nothing =>
        /\ DOMAIN todo = {}
        /\ request \in PriceRequests /\ ~Prices!Raises(request.overrides)
        /\ inputs.gpu \in DOMAIN table \union {Prices!NoChip}
        /\ inputs.power = Prices!ResolvedPower(inputs.gpu, request.overrides)
        /\ inputs.cost = Prices!ResolvedCost(inputs.gpu, request.overrides)
PricesIInv == TableHolds /\ InputsOfTable

LEMMA PricesInit == Prices!Init => PricesIInv
<1> SUFFICES ASSUME Prices!Init PROVE PricesIInv
  OBVIOUS
<1>1. PICK t \in Tables : Prices!NamesUnique(t) /\ table = [k \in DOMAIN t |-> Prices!GpuEntry(t[k])]
  BY DEF Prices!Init, Prices!LoadGpuEconomics
<1>2. todo = << >> /\ inputs = Prices!Nothing /\ DOMAIN << >> = {}
  BY DEF Prices!Init
<1>3. ASSUME NEW k \in DOMAIN t PROVE Prices!GpuEntry(t[k]) \in Gpu /\ Estimated(Prices!GpuEntry(t[k]))
  <2>1. PICK entry : entry = t[k]
    OBVIOUS
  <2>2. entry \in [aliases : SUBSET STRING, tdp : Nat, watts : Maybe(Nat), owning : Maybe(Nat), rental : Maybe(Nat)]
    BY <2>1, FiguresAssumption
  <2>3. Prices!Estimate(entry.tdp, Prices!HostWatts, Prices!Pue) \in Nat
    BY <2>2 DEF Prices!Estimate, Prices!HostWatts, Prices!Pue
  <2>4. entry.watts # Prices!None => entry.watts \in Nat
    BY <2>2 DEF Maybe, Prices!None
  <2>5. Prices!GpuEntry(entry) \in Gpu /\ Estimated(Prices!GpuEntry(entry))
    BY <2>2, <2>3, <2>4 DEF Prices!GpuEntry, Gpu, Estimated
  <2> QED
    BY <2>1, <2>5
<1>4. DOMAIN table = DOMAIN t /\ \A k \in DOMAIN t : table[k] = Prices!GpuEntry(t[k])
  BY <1>1
<1>5. \A k \in DOMAIN t : Prices!NamesOf(k, table[k]) = Prices!NamesOf(k, t[k])
  BY <1>4 DEF Prices!NamesOf, Prices!GpuEntry
<1>6. Prices!NamesUnique(table)
  BY <1>1, <1>4, <1>5 DEF Prices!NamesUnique
<1>7. TableHolds
  BY <1>2, <1>3, <1>4, <1>6 DEF TableHolds
<1>8. InputsOfTable
  BY <1>2 DEF InputsOfTable
<1> QED
  BY <1>7, <1>8 DEF PricesIInv

LEMMA FetchPreserves == PricesIInv /\ Prices!Fetch => PricesIInv'
<1> SUFFICES ASSUME PricesIInv, Prices!Fetch PROVE PricesIInv'
  OBVIOUS
<1>1. todo' \in Fetches /\ inputs' = Prices!Nothing /\ UNCHANGED table
  BY DEF Prices!Fetch
<1>2. \A k \in DOMAIN todo' : todo'[k] \in Chip /\ Estimated(todo'[k])
  BY <1>1, FiguresAssumption DEF Chip, Estimated, Prices!Estimate, Prices!HostWatts, Prices!Pue
<1>3. TableHolds'
  BY <1>1, <1>2 DEF PricesIInv, TableHolds
<1>4. InputsOfTable'
  BY <1>1 DEF InputsOfTable, Prices!Nothing
<1> QED
  BY <1>3, <1>4 DEF PricesIInv

LEMMA ApplyChipPreserves == PricesIInv /\ Prices!ApplyChip => PricesIInv'
<1> SUFFICES ASSUME PricesIInv, Prices!ApplyChip PROVE PricesIInv'
  OBVIOUS
<1>1. PICK key \in DOMAIN todo :
        /\ todo' = Prices!Restrict(todo, DOMAIN todo \ {key})
        /\ \/ Prices!Found(key) /\ Prices!UpdateChip(Prices!LookupGpu(key), todo[key])
           \/ ~Prices!Found(key) /\ Prices!Found(todo[key].label)
                /\ Prices!UpdateChip(Prices!LookupGpu(todo[key].label), todo[key])
           \/ ~Prices!Found(key) /\ ~Prices!Found(todo[key].label) /\ Prices!AddChip(key, todo[key])
  BY DEF Prices!ApplyChip
<1>2. UNCHANGED <<updates, request, inputs>>
  BY DEF Prices!ApplyChip
<1>3. PICK chip : chip = todo[key]
  OBVIOUS
<1>4. chip \in Chip /\ Estimated(chip)
  BY <1>1, <1>3 DEF PricesIInv, TableHolds
<1>5. inputs = Prices!Nothing
  BY <1>1 DEF PricesIInv, InputsOfTable
<1>6. InputsOfTable'
  BY <1>2, <1>5 DEF InputsOfTable, Prices!Nothing
<1>7. \A k \in DOMAIN todo' : todo'[k] \in Chip /\ Estimated(todo'[k])
  BY <1>1 DEF Prices!Restrict, PricesIInv, TableHolds
<1>8. \A n : Prices!Found(n) => Prices!LookupGpu(n) \in DOMAIN table
  BY DEF Prices!Found, Prices!LookupGpu, Prices!Named
<1>9. CASE \E ours \in DOMAIN table : Prices!UpdateChip(ours, chip)
  <2>1. PICK ours \in DOMAIN table : Prices!UpdateChip(ours, chip)
    BY <1>9
  <2>2. PICK power : power = Prices!Power(table[ours], chip)
    OBVIOUS
  <2>3. PICK new : new = [aliases |-> table[ours].aliases, tdp |-> chip.tdp, owning |-> chip.owning, rental |-> chip.rental,
                          watts |-> power.watts, estimated |-> power.estimated]
    OBVIOUS
  <2>4. table' = [table EXCEPT ![ours] = new]
    BY <2>1, <2>2, <2>3 DEF Prices!UpdateChip
  <2>5. table[ours] \in Gpu
    BY DEF PricesIInv, TableHolds
  <2>6. /\ power.watts \in Nat /\ power.estimated \in BOOLEAN
        /\ power.estimated => power.watts = Prices!Estimate(chip.tdp, Prices!HostWatts, Prices!Pue)
    <3>1. Prices!Estimate(chip.tdp, Prices!HostWatts, Prices!Pue) \in Nat
      BY <1>4 DEF Chip, Prices!Estimate, Prices!HostWatts, Prices!Pue
    <3>2. CASE ~chip.estimated
      BY <1>4, <2>2, <3>2 DEF Prices!Power, Chip
    <3>3. CASE chip.estimated /\ table[ours].estimated
      BY <2>2, <3>1, <3>3 DEF Prices!Power
    <3>4. CASE chip.estimated /\ ~table[ours].estimated
      BY <2>2, <2>5, <3>4 DEF Prices!Power, Gpu
    <3> QED
      BY <3>2, <3>3, <3>4
  <2>7. new \in Gpu /\ Estimated(new) /\ new.aliases = table[ours].aliases
    BY <1>4, <2>3, <2>5, <2>6 DEF Chip, Gpu, Estimated
  <2>8. DOMAIN table' = DOMAIN table /\ \A k \in DOMAIN table : table'[k] = IF k = ours THEN new ELSE table[k]
    BY <2>4
  <2>9. \A k \in DOMAIN table : Prices!NamesOf(k, table'[k]) = Prices!NamesOf(k, table[k])
    BY <2>7, <2>8 DEF Prices!NamesOf
  <2>10. Prices!NamesUnique(table')
    BY <2>8, <2>9 DEF PricesIInv, TableHolds, Prices!NamesUnique
  <2>11. TableHolds'
    BY <1>7, <2>7, <2>8, <2>10 DEF PricesIInv, TableHolds
  <2> QED
    BY <1>6, <2>11 DEF PricesIInv
<1>10. CASE ~Prices!Found(key) /\ ~Prices!Found(chip.label) /\ Prices!AddChip(key, chip)
  <2>1. PICK new : new = [aliases |-> {chip.label} \ {key}, tdp |-> chip.tdp, owning |-> chip.owning,
                          rental |-> chip.rental, watts |-> chip.watts, estimated |-> chip.estimated]
    OBVIOUS
  <2>2. table' = [k \in DOMAIN table \union {key} |-> IF k # key THEN table[k] ELSE new]
    BY <1>10, <2>1 DEF Prices!AddChip
  <2>3. new \in Gpu /\ Estimated(new) /\ new.aliases = {chip.label} \ {key}
    BY <1>4, <2>1 DEF Chip, Gpu, Estimated
  <2>4. /\ DOMAIN table' = DOMAIN table \union {key} /\ table'[key] = new
        /\ \A k \in DOMAIN table : k # key => table'[k] = table[k]
    BY <2>2
  <2>5. /\ key \notin DOMAIN table
        /\ \A k \in DOMAIN table : key \notin Prices!NamesOf(k, table[k]) /\ chip.label \notin Prices!NamesOf(k, table[k])
    BY <1>10 DEF Prices!Found, Prices!Named, Prices!NamesOf
  <2>6. Prices!NamesOf(key, new) \subseteq {key, chip.label}
    BY <2>3 DEF Prices!NamesOf
  <2>7. Prices!NamesUnique(table')
    BY <2>4, <2>5, <2>6 DEF PricesIInv, TableHolds, Prices!NamesUnique
  <2>8. TableHolds'
    BY <1>7, <2>3, <2>4, <2>5, <2>7 DEF PricesIInv, TableHolds
  <2> QED
    BY <1>6, <2>8 DEF PricesIInv
<1> QED
  BY <1>1, <1>3, <1>8, <1>9, <1>10

\* What is resolved for a run: numbers where they are known, and the table's where they say so.
LEMMA ResolvedAs ==
    ASSUME TableHolds, NEW key \in DOMAIN table \union {Prices!NoChip}, NEW r \in PriceRequests,
           ~Prices!Raises(r.overrides)
    PROVE  LET c == Prices!ResolvedCost(key, r.overrides)
               w == Prices!ResolvedPower(key, r.overrides)
           IN  /\ c.cost \in Maybe(Nat) /\ c.basis \in {"owning", "rental"}
               /\ w.watts \in Maybe(Nat)
               /\ key # Prices!NoChip =>
                     /\ c.from = "table" => c.cost = table[key][c.basis]
                     /\ c.from = "none" => table[key].owning = -1 /\ table[key].rental = -1
                     /\ w.watts \in Nat
<1>1. PICK o : o = r.overrides
  OBVIOUS
<1>2. /\ Prices!Has(o, "basis") => o.basis \in {"owning", "rental"}
      /\ Prices!Has(o, "all_in") => o.all_in \in Nat
      /\ Prices!Has(o, "server") => o.server \in Nat
      /\ Prices!Has(o, "gpus") => o.gpus \in Nat
      /\ Prices!Has(o, "host") => o.host \in Nat
      /\ Prices!Has(o, "pue") => o.pue \in Nat
      /\ Prices!Has(o, "cost") => o.cost \in Nat
  BY <1>1, FiguresAssumption DEF Prices!Has
<1>3. ASSUME key # Prices!NoChip
      PROVE  /\ table[key].owning \in Maybe(Nat) /\ table[key].rental \in Maybe(Nat)
             /\ table[key].tdp \in Nat /\ table[key].watts \in Nat /\ table[key].estimated \in BOOLEAN
  BY <1>3 DEF TableHolds, Gpu
<1>4. PICK c : c = Prices!ResolvedCost(key, o)
  OBVIOUS
<1>5. PICK w : w = Prices!ResolvedPower(key, o)
  OBVIOUS
<1>6. PICK basis : basis = IF Prices!Has(o, "basis") THEN o.basis ELSE "owning"
  OBVIOUS
<1>7. basis \in {"owning", "rental"} /\ Prices!Other(basis) \in {"owning", "rental"} /\ basis # Prices!Other(basis)
  BY <1>2, <1>6 DEF Prices!Other
<1>8. PICK rate : rate = IF key = Prices!NoChip THEN Prices!None ELSE table[key][basis]
  OBVIOUS
<1>9. rate \in Maybe(Nat)
  BY <1>3, <1>7, <1>8 DEF Maybe, Prices!None
<1>10. c = CASE Prices!Has(o, "cost") -> [cost |-> o.cost, basis |-> basis, from |-> "override"]
             [] ~Prices!Has(o, "cost") /\ key # Prices!NoChip /\ rate = Prices!None /\ table[key][Prices!Other(basis)] # Prices!None ->
                   [cost |-> table[key][Prices!Other(basis)], basis |-> Prices!Other(basis), from |-> "table"]
             [] OTHER -> [cost |-> rate, basis |-> basis, from |-> IF rate = Prices!None THEN "none" ELSE "table"]
  BY <1>4, <1>6, <1>8 DEF Prices!ResolvedCost
<1>11. /\ c.cost \in Maybe(Nat) /\ c.basis \in {"owning", "rental"}
       /\ key # Prices!NoChip =>
             /\ c.from = "table" => c.cost = table[key][c.basis]
             /\ c.from = "none" => table[key].owning = -1 /\ table[key].rental = -1
  <2>1. CASE Prices!Has(o, "cost")
    BY <1>2, <1>7, <1>10, <2>1 DEF Maybe
  <2>2. CASE ~Prices!Has(o, "cost") /\ key # Prices!NoChip /\ rate = Prices!None
               /\ table[key][Prices!Other(basis)] # Prices!None
    <3>1. c = [cost |-> table[key][Prices!Other(basis)], basis |-> Prices!Other(basis), from |-> "table"]
      BY <1>10, <2>2
    <3>2. table[key][Prices!Other(basis)] \in Maybe(Nat)
      BY <1>3, <1>7, <2>2
    <3> QED
      BY <1>7, <3>1, <3>2
  <2>3. CASE ~Prices!Has(o, "cost") /\ ~(key # Prices!NoChip /\ rate = Prices!None
               /\ table[key][Prices!Other(basis)] # Prices!None)
    <3>1. c = [cost |-> rate, basis |-> basis, from |-> IF rate = Prices!None THEN "none" ELSE "table"]
      BY <1>10, <2>3
    <3>2. c.cost = rate /\ c.basis = basis /\ c.from = IF rate = Prices!None THEN "none" ELSE "table"
      BY <3>1
    <3>3. ASSUME key # Prices!NoChip, c.from = "none" PROVE table[key].owning = -1 /\ table[key].rental = -1
      <4>1. rate = Prices!None /\ table[key][Prices!Other(basis)] = Prices!None /\ table[key][basis] = Prices!None
        BY <1>8, <2>3, <3>2, <3>3
      <4> QED
        BY <1>7, <4>1 DEF Prices!None
    <3>4. ASSUME key # Prices!NoChip PROVE c.cost = table[key][c.basis]
      BY <1>8, <3>2, <3>4
    <3> QED
      BY <1>7, <1>9, <3>2, <3>3, <3>4
  <2> QED
    BY <2>1, <2>2, <2>3
<1>12. w.watts \in Maybe(Nat) /\ (key # Prices!NoChip => w.watts \in Nat)
  <2>1. CASE Prices!Has(o, "all_in")
    BY <1>2, <1>5, <2>1 DEF Prices!ResolvedPower, Maybe
  <2>2. CASE ~Prices!Has(o, "all_in") /\ Prices!Has(o, "server")
    <3>1. o.server \in Nat /\ o.gpus \in Nat \ {0}
      BY <1>1, <1>2, <2>2 DEF Prices!Raises
    <3>2. PICK n : n = o.server * (IF Prices!Has(o, "pue") THEN o.pue ELSE Prices!Pue)
      OBVIOUS
    <3>3. n \in Nat
      BY <1>2, <3>1, <3>2 DEF Prices!Pue
    <3>4. w.watts = n \div o.gpus
      BY <1>5, <2>2, <3>2 DEF Prices!ResolvedPower
    <3>5. n \div o.gpus \in Nat
      BY <3>1, <3>3, DivMod
    <3> QED
      BY <3>4, <3>5 DEF Maybe
  <2>3. CASE ~Prices!Has(o, "all_in") /\ ~Prices!Has(o, "server") /\ key # Prices!NoChip
    <3>1. PICK h : h = IF Prices!Has(o, "host") THEN o.host ELSE Prices!HostWatts
      OBVIOUS
    <3>2. PICK p : p = IF Prices!Has(o, "pue") THEN o.pue ELSE Prices!Pue
      OBVIOUS
    <3>3. h \in Nat /\ p \in Nat
      BY <1>2, <3>1, <3>2 DEF Prices!HostWatts, Prices!Pue
    <3>4. Prices!Estimate(table[key].tdp, h, p) \in Nat
      BY <1>3, <2>3, <3>3 DEF Prices!Estimate
    <3>5. w.watts = Prices!Estimate(table[key].tdp, h, p) \/ w.watts = table[key].watts
      BY <1>5, <2>3, <3>1, <3>2 DEF Prices!ResolvedPower
    <3> QED
      BY <1>3, <2>3, <3>4, <3>5 DEF Maybe
  <2>4. CASE ~Prices!Has(o, "all_in") /\ ~Prices!Has(o, "server") /\ key = Prices!NoChip
    BY <1>5, <2>4 DEF Prices!ResolvedPower, Prices!None, Maybe
  <2> QED
    BY <2>1, <2>2, <2>3, <2>4
<1> QED
  BY <1>1, <1>4, <1>5, <1>11, <1>12

LEMMA ResolvePreserves == PricesIInv /\ Prices!ResolveEconomics => PricesIInv'
<1> SUFFICES ASSUME PricesIInv, Prices!ResolveEconomics PROVE PricesIInv'
  OBVIOUS
<1>1. UNCHANGED <<table, todo>> /\ DOMAIN todo = {}
  BY DEF Prices!ResolveEconomics
<1>2. TableHolds'
  BY <1>1 DEF PricesIInv, TableHolds, Prices!NamesUnique, Prices!NamesOf
<1>3. PICK r \in PriceRequests :
        LET key == IF Prices!Found(r.gpu) THEN Prices!LookupGpu(r.gpu) ELSE Prices!NoChip
        IN  /\ request' = r
            /\ inputs' = IF Prices!Raises(r.overrides) THEN Prices!Nothing
                         ELSE [gpu |-> key, power |-> Prices!ResolvedPower(key, r.overrides),
                               cost |-> Prices!ResolvedCost(key, r.overrides), price |-> r.price]
  BY DEF Prices!ResolveEconomics
<1>4. PICK key : key = IF Prices!Found(r.gpu) THEN Prices!LookupGpu(r.gpu) ELSE Prices!NoChip
  OBVIOUS
<1>5. key \in DOMAIN table \union {Prices!NoChip}
  BY <1>4 DEF Prices!Found, Prices!LookupGpu, Prices!Named
<1>6. PICK o : o = r.overrides
  OBVIOUS
<1>7. request' = r /\ inputs' = IF Prices!Raises(o) THEN Prices!Nothing
                               ELSE [gpu |-> key, power |-> Prices!ResolvedPower(key, o),
                                     cost |-> Prices!ResolvedCost(key, o), price |-> r.price]
  BY <1>3, <1>4, <1>6
<1>8. PICK now : now = inputs'
  OBVIOUS
<1>9. CASE Prices!Raises(o)
  BY <1>7, <1>9, <1>2 DEF InputsOfTable, PricesIInv, Prices!Nothing
<1>10. CASE ~Prices!Raises(o)
  <2>1. /\ inputs'.gpu = key /\ inputs'.power = Prices!ResolvedPower(key, o)
        /\ inputs'.cost = Prices!ResolvedCost(key, o)
    BY <1>7, <1>10
  <2>2. (Prices!ResolvedPower(key, o) = Prices!ResolvedPower(inputs.gpu, request.overrides)')
        /\ (Prices!ResolvedCost(key, o) = Prices!ResolvedCost(inputs.gpu, request.overrides)')
    BY <1>1, <1>6, <1>7, <2>1 DEF Prices!ResolvedPower, Prices!ResolvedCost, Prices!Has, Prices!Other, Prices!Estimate
  <2>3. ~(Prices!Raises(request.overrides)')
    BY <1>6, <1>7, <1>10 DEF Prices!Raises, Prices!Has
  <2>4. InputsOfTable'
    BY <1>1, <1>5, <1>7, <2>1, <2>2, <2>3 DEF InputsOfTable, Prices!NoChip
  <2> QED
    BY <1>2, <2>4 DEF PricesIInv
<1> QED
  BY <1>9, <1>10

LEMMA PricesStep == PricesIInv /\ [Prices!Next]_economicsVars => PricesIInv'
<1>1. CASE Prices!Next
  BY <1>1, FetchPreserves, ApplyChipPreserves, ResolvePreserves DEF Prices!Next
<1>2. CASE UNCHANGED economicsVars
  BY <1>2 DEF PricesIInv, TableHolds, InputsOfTable, economicsVars, Prices!NamesUnique, Prices!NamesOf,
     Prices!ResolvedPower, Prices!ResolvedCost, Prices!Has, Prices!Other, Prices!Estimate, Prices!Raises
<1> QED
  BY <1>1, <1>2

\* A ratio is of what is known by what is above zero.
LEMMA RatioIs ==
    ASSUME NEW n \in Maybe(Nat), NEW d \in Maybe(Nat)
    PROVE  /\ Prices!Ratio(n, d) = Prices!Nothing <=> n = -1 \/ d <= 0
           /\ Prices!Ratio(n, d) # Prices!Nothing => Prices!Ratio(n, d) = <<n, d>>
<1>1. <<n, d>> # << >>
  OBVIOUS
<1> QED
  BY <1>1 DEF Prices!Ratio, Prices!Nothing, Prices!None, Maybe

LEMMA PricesImplies == PricesIInv => Prices!TypeOK /\ Prices!EconomicsAgree /\ Prices!RatesAsSaid
<1> SUFFICES ASSUME PricesIInv PROVE Prices!TypeOK /\ Prices!EconomicsAgree /\ Prices!RatesAsSaid
  OBVIOUS
<1>1. TableHolds /\ InputsOfTable
  BY DEF PricesIInv
<1>2. ASSUME inputs # Prices!Nothing
      PROVE  /\ inputs.gpu \in DOMAIN table \union {Prices!NoChip}
             /\ inputs.cost.cost \in Maybe(Nat) /\ inputs.cost.basis \in {"owning", "rental"}
             /\ inputs.power.watts \in Maybe(Nat)
             /\ inputs.gpu # Prices!NoChip =>
                   /\ inputs.cost.from = "table" => inputs.cost.cost = table[inputs.gpu][inputs.cost.basis]
                   /\ inputs.cost.from = "none" => table[inputs.gpu].owning = -1 /\ table[inputs.gpu].rental = -1
                   /\ inputs.power.watts \in Nat
  <2>1. PICK key \in DOMAIN table \union {Prices!NoChip} : key = inputs.gpu
    BY <1>1, <1>2 DEF InputsOfTable
  <2>2. PICK r \in PriceRequests : r = request
    BY <1>1, <1>2 DEF InputsOfTable
  <2>3. /\ ~Prices!Raises(r.overrides) /\ inputs.power = Prices!ResolvedPower(key, r.overrides)
        /\ inputs.cost = Prices!ResolvedCost(key, r.overrides)
    BY <1>1, <1>2, <2>1, <2>2 DEF InputsOfTable
  <2>4. PICK c, w : c = inputs.cost /\ w = inputs.power
    OBVIOUS
  <2>5. /\ c.cost \in Maybe(Nat) /\ c.basis \in {"owning", "rental"} /\ w.watts \in Maybe(Nat)
        /\ key # Prices!NoChip =>
              /\ c.from = "table" => c.cost = table[key][c.basis]
              /\ c.from = "none" => table[key].owning = -1 /\ table[key].rental = -1
              /\ w.watts \in Nat
    BY <1>1, <2>3, <2>4, ResolvedAs
  <2> QED
    BY <2>1, <2>4, <2>5
<1>3. Prices!TypeOK
  BY <1>1, <1>2 DEF TableHolds, Gpu, Prices!TypeOK
<1>4. Prices!RatesAsSaid
  BY <1>2 DEF Prices!RatesAsSaid, Prices!None
<1>5. ASSUME inputs # Prices!Nothing, NEW tps \in Throughputs
      PROVE  /\ Prices!Reciprocal(Prices!TokensPerDollar(tps), Prices!DollarsPerMillion(tps), Prices!Million)
             /\ Prices!Reciprocal(Prices!TokensPerSecondPerMw(tps), Prices!JoulesPerToken(tps), Prices!Million)
             /\ tps > 0 /\ inputs.cost.cost # 0 =>
                   (Prices!TokensPerDollar(tps) = Prices!Nothing <=> Prices!DollarsPerMillion(tps) = Prices!Nothing)
  <2>1. PICK c \in Maybe(Nat) : c = inputs.cost.cost
    BY <1>2, <1>5
  <2>2. PICK w \in Maybe(Nat) : w = inputs.power.watts
    BY <1>2, <1>5
  <2>3. tps \in Maybe(Nat)
    BY FiguresAssumption
  <2>4. PICK hour \in Maybe(Nat) : hour = Prices!Times(tps, Prices!Hour)
                                   /\ (tps = -1 => hour = -1) /\ (tps # -1 => hour = tps * 6)
    BY <2>3 DEF Prices!Times, Prices!Hour, Prices!None, Maybe
  <2>5. PICK many \in Maybe(Nat) : many = Prices!Times(tps, Prices!Million)
                                   /\ (tps = -1 => many = -1) /\ (tps # -1 => many = tps * 10)
    BY <2>3 DEF Prices!Times, Prices!Million, Prices!None, Maybe
  <2>6. PICK dear \in Maybe(Nat) : dear = Prices!Times(c, Prices!Million)
                                   /\ (c = -1 => dear = -1) /\ (c # -1 => dear = c * 10)
    BY <2>1 DEF Prices!Times, Prices!Million, Prices!None, Maybe
  <2>7. /\ Prices!TokensPerDollar(tps) = Prices!Ratio(hour, c) /\ Prices!DollarsPerMillion(tps) = Prices!Ratio(dear, hour)
        /\ Prices!TokensPerSecondPerMw(tps) = Prices!Ratio(many, w) /\ Prices!JoulesPerToken(tps) = Prices!Ratio(w, tps)
    BY <2>1, <2>2, <2>4, <2>5, <2>6
    DEF Prices!TokensPerDollar, Prices!DollarsPerMillion, Prices!TokensPerSecondPerMw, Prices!JoulesPerToken
  <2>8. ASSUME Prices!Ratio(hour, c) # Prices!Nothing, Prices!Ratio(dear, hour) # Prices!Nothing
        PROVE  Prices!Ratio(hour, c)[1] * Prices!Ratio(dear, hour)[1]
                 = 10 * Prices!Ratio(hour, c)[2] * Prices!Ratio(dear, hour)[2]
    <3>1. Prices!Ratio(hour, c) = <<hour, c>> /\ Prices!Ratio(dear, hour) = <<dear, hour>> /\ c > 0 /\ c \in Nat
      BY <2>8, RatioIs DEF Maybe
    <3>2. dear = c * 10 /\ hour \in Nat
      BY <2>6, <2>8, <3>1, RatioIs DEF Maybe
    <3>3. hour * (c * 10) = 10 * c * hour
      BY <3>1, <3>2
    <3> QED
      BY <3>1, <3>2, <3>3
  <2>9. ASSUME Prices!Ratio(many, w) # Prices!Nothing, Prices!Ratio(w, tps) # Prices!Nothing
        PROVE  Prices!Ratio(many, w)[1] * Prices!Ratio(w, tps)[1]
                 = 10 * Prices!Ratio(many, w)[2] * Prices!Ratio(w, tps)[2]
    <3>1. Prices!Ratio(many, w) = <<many, w>> /\ Prices!Ratio(w, tps) = <<w, tps>>
      BY <2>3, <2>9, RatioIs
    <3>2. w \in Nat /\ tps \in Nat /\ tps > 0
      BY <2>3, <2>9, RatioIs DEF Maybe
    <3>3. many = tps * 10
      BY <2>5, <3>2
    <3>4. (tps * 10) * w = 10 * w * tps
      BY <3>2
    <3> QED
      BY <3>1, <3>3, <3>4
  <2>10. ASSUME tps > 0, c # 0
         PROVE  Prices!Ratio(hour, c) = Prices!Nothing <=> Prices!Ratio(dear, hour) = Prices!Nothing
    <3>1. hour > 0 /\ hour # -1
      BY <2>3, <2>4, <2>10 DEF Maybe
    <3>2. c <= 0 <=> c = -1
      BY <2>10 DEF Maybe
    <3>3. dear = -1 <=> c = -1
      BY <2>6 DEF Maybe
    <3>4. Prices!Ratio(hour, c) = Prices!Nothing <=> hour = -1 \/ c <= 0
      BY RatioIs
    <3>5. Prices!Ratio(dear, hour) = Prices!Nothing <=> dear = -1 \/ hour <= 0
      BY RatioIs
    <3>6. hour \in Nat
      BY <3>1 DEF Maybe
    <3>7. ~(hour <= 0)
      BY <3>1, <3>6
    <3> QED
      BY <3>1, <3>2, <3>3, <3>4, <3>5, <3>7
  <2> QED
    BY <2>1, <2>7, <2>8, <2>9, <2>10 DEF Prices!Reciprocal, Prices!Million
<1>6. Prices!EconomicsAgree
  BY <1>1, <1>5 DEF TableHolds, Estimated, Prices!EconomicsAgree
<1> QED
  BY <1>3, <1>4, <1>6

-----------------------------------------------------------------------------
(* The session. *)

\* A step of the session is a step of each part, or leaves the part alone.
LEMMA PartSteps ==
    ASSUME [MCNext]_sessionVars
    PROVE  /\ [Next]_vars /\ [Proxy!Next]_proxyVars
           /\ [Http!Next]_httpVars /\ [Agentx!Next]_installVars /\ [Benchmarks!Next]_runVars
           /\ [Telemetry!Next]_otelpVars /\ [Env!Next]_environmentVars /\ [Power!Next]_powerVars
           /\ [Load!Next]_userVars
           /\ [Report!Next]_reportVars /\ [Panel!Next]_panelVars /\ [Prices!Next]_economicsVars
           /\ [Fit!Next]_fitVars /\ [Page!Next]_pageVars
BY DEF MCNext, sessionVars

\* Every container a deployment started is in its list for a stop to remove, whichever step of start
\* failed; no two of its workers share a port, a side channel or a GPU, and the GPUs it needs are the
\* first ones; a first start that returned has seen every container of its own answer; and no decode
\* worker is ever two completions ahead of another: for pools of any sizes and any requests.
THEOREM VllmServesAlways == MCSpec => []VllmServes
<1> DEFINE Inv == VllmIInv /\ ProxyIInv
<1>1. MCInit => Inv
  BY VllmInit, ProxyInit DEF MCInit
<1>2. Inv /\ [MCNext]_sessionVars => Inv'
  BY VllmStep, ProxyStep, PartSteps
<1>3. Inv => VllmServes
  BY VllmImplies, ProxyImplies DEF VllmServes
<1> QED
  BY <1>1, <1>2, <1>3, PTL DEF MCSpec

\* A download that ends as a success is one version of its file, all of it, and only a stop cuts one
\* short: for a file of any number of chunks and any edits of it meanwhile.
THEOREM DownloadsWholeAlways == MCSpec => []DownloadsWhole
<1>1. MCInit => HttpIInv
  BY HttpInit DEF MCInit
<1>2. HttpIInv /\ [MCNext]_sessionVars => HttpIInv'
  BY HttpStep, PartSteps
<1>3. HttpIInv => DownloadsWhole
  BY HttpImplies DEF DownloadsWhole
<1> QED
  BY <1>1, <1>2, <1>3, PTL DEF MCSpec

\* An install that takes its marker for whole has the checkouts and the venv the marker names, whichever
\* step of an earlier install failed and whatever pin it was for; a completed run reports the scores and
\* plots of its own command: for any pins, and any number of processes and runs.
THEOREM BenchmarksHoldAlways == MCSpec => []BenchmarksHold
<1> DEFINE Inv == InstallIInv /\ RunIInv
<1>1. MCInit => Inv
  BY InstallInit, RunInit DEF MCInit
<1>2. Inv /\ [MCNext]_sessionVars => Inv'
  BY InstallStep, RunStep, PartSteps
<1>3. Inv => BenchmarksHold
  BY InstallImplies DEF RunIInv, BenchmarksHold
<1> QED
  BY <1>1, <1>2, <1>3, PTL DEF MCSpec

\* An instrument handed out is of the provider that exports; users stopped anywhere never share a
\* name, record nothing that no exporter sends, and export nothing afterwards; and a power summary is of
\* all that was sampled: for any users, metric names and numbers of providers and samples.
THEOREM TelemetryHoldsAlways == MCSpec => []TelemetryHolds
<1> DEFINE Inv == TelemetryIInv /\ LoadIInv /\ PowerIInv
<1>1. MCInit => Inv
  BY TelemetryInit, LoadInit, PowerInit DEF MCInit
<1>2. Inv /\ [MCNext]_sessionVars => Inv'
  BY TelemetryStep, LoadStep, PowerStep, PartSteps
<1>3. Inv => TelemetryHolds
  BY TelemetryImplies, LoadImplies, PowerImplies DEF TelemetryHolds
<1> QED
  BY <1>1, <1>2, <1>3, PTL DEF MCSpec

\* A variable is required exactly when some target in use has it so, and the check fails exactly when a
\* required one is missing: for any tree of directories, declarations in any order and any targets.
THEOREM RequiredWinsAlways == MCSpec => []RequiredWins
<1>1. MCInit => EnvIInv
  BY EnvInit DEF MCInit
<1>2. EnvIInv /\ [MCNext]_sessionVars => EnvIInv'
  BY EnvStep, PartSteps
<1>3. EnvIInv => RequiredWins
  BY EnvImplies DEF RequiredWins
<1> QED
  BY <1>1, <1>2, <1>3, PTL DEF MCSpec

\* What a check of a model starts with, whether the behaviour drives it or not.
LEMMA FitBegins == MCInit => FitIInv
<1> SUFFICES ASSUME MCInit PROVE FitIInv
  OBVIOUS
<1>1. driven = "fit" => Fit!Init
  BY DEF MCInit
<1>2. ASSUME driven # "fit"
      PROVE  /\ model \in Models /\ host \in Hosts /\ profile \in Profiles
             /\ cached = << >> /\ reached = TRUE /\ Fit!Begun
  <2>1. /\ model = (CHOOSE m \in Models : TRUE) /\ host = (CHOOSE h \in Hosts : TRUE)
        /\ profile = (CHOOSE p \in Profiles : TRUE) /\ cached = << >> /\ reached = TRUE /\ Fit!Begun
    BY <1>2 DEF MCInit
  <2>2. Models # {} /\ Hosts # {} /\ Profiles # {}
    BY FiguresAssumption
  <2> QED
    BY <2>1, <2>2
<1> QED
  BY <1>1, <1>2, FitInit

\* The outcomes reported of a test are those its runs told, and every item is under its test, in one
\* process or several on one file; a panel in error is reported, whatever its title; and the list of a
\* dashboard's panels is that of its open rows, all mounted but for those out of the scrolls' reach: for
\* any tests, titles, panels, dashboards and sizes of a page.
THEOREM FailuresShownAlways == MCSpec => []FailuresShown
<1> DEFINE Inv == ReportIInv /\ PanelIInv /\ PageIInv
<1>1. MCInit => Inv
  BY ReportInit, PanelInit, PageInit DEF MCInit
<1>2. Inv /\ [MCNext]_sessionVars => Inv'
  BY ReportStep, PanelStep, PageStep, PartSteps
<1>3. Inv => FailuresShown
  BY ReportImplies, PanelImplies, PageImplies DEF FailuresShown
<1> QED
  BY <1>1, <1>2, <1>3, PTL DEF MCSpec

\* A model that passed fits the disk and every worker's GPUs, and who follows the RoPE advice needs no
\* third round of it; a name in the table of chips is one chip's, an estimate is its TDP's, and a run's
\* rates and power are the table's where they say so, with figures that agree: for any models, hosts,
\* profiles, tables and fetches.
THEOREM FiguresHoldAlways == MCSpec => []FiguresHold
<1> DEFINE Inv == FitIInv /\ PricesIInv
<1>1. MCInit => Inv
  BY FitBegins, PricesInit DEF MCInit
<1>2. Inv /\ [MCNext]_sessionVars => Inv'
  BY FitStep, PricesStep, PartSteps
<1>3. Inv => FiguresHold
  BY FitImplies, PricesImplies DEF FiguresHold
<1> QED
  BY <1>1, <1>2, <1>3, PTL DEF MCSpec

\* The states of all the parts stay of their types: a container in a list has a slot, a completion a
\* worker of its proxy's pools, an instrument a name of its own, and no more users have names than there
\* are, for every value of the constants.
THEOREM SessionTypeOKAlways == MCSpec => []SessionTypeOK
<1> DEFINE Serving == VllmIInv /\ ListsNamed /\ ProxyIInv /\ ProxyTypes /\ HttpIInv
           Benchmarking == InstallIInv /\ RunIInv /\ StreamTypes
           Measuring == ProviderTypes /\ LoadIInv /\ UsersCounted /\ PowerIInv /\ SamplesTaken
           Checking == EnvIInv /\ EnvironmentTypes /\ ReportIInv /\ PanelIInv /\ PageIInv /\ FitIInv /\ PricesIInv
           Inv == Serving /\ Benchmarking /\ Measuring /\ Checking
<1>1. MCInit => Inv
  <2>1. MCInit => Serving
    BY VllmInit, ListsNamedInit, ProxyInit, ProxyTypesInit, HttpInit DEF MCInit
  <2>2. MCInit => Benchmarking
    BY InstallInit, RunInit, StreamTypesInit DEF MCInit
  <2>3. MCInit => Measuring
    BY ProviderTypesInit, LoadInit, UsersCountedInit, PowerInit, SamplesTakenInit DEF MCInit
  <2>4. MCInit => Checking
    BY EnvInit, EnvironmentTypesInit, ReportInit, PanelInit, PageInit, FitBegins, PricesInit DEF MCInit
  <2> QED
    BY <2>1, <2>2, <2>3, <2>4
<1>2. Inv /\ [MCNext]_sessionVars => Inv'
  <2> SUFFICES ASSUME Inv, [MCNext]_sessionVars PROVE Inv'
    OBVIOUS
  <2>1. Serving'
    BY VllmStep, ListsNamedStep, ProxyStep, ProxyTypesStep, HttpStep, PartSteps DEF VllmIInv
  <2>2. Benchmarking'
    BY InstallStep, RunStep, StreamTypesStep, PartSteps
  <2>3. Measuring'
    BY ProviderTypesStep, LoadStep, UsersCountedStep, PowerStep, SamplesTakenStep, PartSteps
  <2>4. Checking'
    BY EnvStep, EnvironmentTypesStep, ReportStep, PanelStep, PageStep, FitStep, PricesStep, PartSteps
  <2> QED
    BY <2>1, <2>2, <2>3, <2>4
<1>3. Inv => SessionTypeOK
  <2> SUFFICES ASSUME Inv PROVE SessionTypeOK
    OBVIOUS
  <2>1. TypeOK /\ Proxy!TypeOK /\ Http!TypeOK
    BY ListsNamedImply, ProxyTypesImply, HttpImplies DEF VllmIInv
  <2>2. Agentx!TypeOK /\ Benchmarks!TypeOK
    BY InstallTypesImply, RunTypesImply
  <2>3. Telemetry!TypeOK /\ Load!TypeOK /\ Power!TypeOK
    BY ProviderTypesImply, UsersCountedImplies, PowerTypesImply
  <2>4. Env!TypeOK /\ Report!TypeOK /\ Panel!TypeOK /\ Page!TypeOK /\ Fit!TypeOK /\ Prices!TypeOK
    BY EnvironmentTypesImply, ReportImplies, PanelImplies, PageImplies, FitImplies, PricesImplies
  <2> QED
    BY <2>1, <2>2, <2>3, <2>4 DEF SessionTypeOK
<1> QED
  BY <1>1, <1>2, <1>3, PTL DEF MCSpec
=============================================================================
