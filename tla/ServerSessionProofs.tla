------------------------- MODULE ServerSessionProofs -------------------------
(***************************************************************************)
(* Proofs about ServerSession, for any number of sessions, threads,        *)
(* requests and callbacks: the types, that a session is in the table under *)
(* its own handle as long as it runs, that a callback is sent through no   *)
(* session that has ended otherwise than by an exception, what may be torn *)
(* apart on a connection, the order of the answers, and why a session ends.*)
(*                                                                         *)
(* IInv is inductive; WInv, about the connections, is inductive beside it, *)
(* and so is Ending.  RunStep says what the steps within run() have in     *)
(* common, Quiet what the steps that write nothing do.                     *)
(***************************************************************************)
EXTENDS ServerSession, FiniteSetTheorems, TLAPS

Places == {"new", "accepted", "adding", "checking", "polling", "calling", "handling",
           "replying", "replied", "leaving", "thrown", "ended"}

\* A session that has its handle, and one that is in the table: also one that an
\* exception has ended.
Numbered(s) == ses[s].at \notin {"new", "accepted"}
Listed(s)   == ses[s].at \notin {"new", "accepted", "adding", "ended"}

SessionRecord == [at : Places, handle : Nat, taken : Nat,
                  early : BOOLEAN, may : BOOLEAN, reset : BOOLEAN]

SessionTypes ==
    /\ ses \in [Sessions -> SessionRecord]
    /\ asked \in [Sessions -> 0 .. MaxRequests]
    /\ \A s \in Sessions : ses[s].taken <= asked[s]
    /\ \A s \in Sessions : At(s, "new") => ses[s].taken = 0
    /\ \A s \in Sessions : At(s, "thrown") => ses[s].reset

OtherTypes ==
    /\ server \in {"started", "running", "stopped"} /\ running \in BOOLEAN
    /\ registered \in BOOLEAN
    /\ methodsMutex \in Sessions \cup {None}
    /\ {sessionsMutex, callbacksMutex} \subseteq Actors \cup {None}
    /\ call \in [Actors -> [at : {"none", "found", "sending", "sent"},
                            to : Sessions \cup {None}]]

\* Handles are given once, in their order.
Handles ==
    /\ lastHandle = Cardinality({s \in Sessions : Numbered(s)})
    /\ \A s \in Sessions : Numbered(s) => ses[s].handle < lastHandle
    /\ \A s, t \in Sessions :
           Numbered(s) /\ Numbered(t) /\ ses[s].handle = ses[t].handle => s = t

\* The table holds the sessions that run or have thrown, each under its handle.
Table ==
    /\ \A h \in DOMAIN sessions :
           sessions[h] \in Sessions /\ Listed(sessions[h]) /\ ses[sessions[h]].handle = h
    /\ \A s \in Sessions :
           Listed(s) => ses[s].handle \in DOMAIN sessions /\ sessions[ses[s].handle] = s

\* A call holds sessionsMutex, and nobody else does; a handler does not return in it.
Calls ==
    /\ \A a \in Actors : call[a].at # "none" =>
           /\ sessionsMutex = a
           /\ call[a].to \in Sessions /\ Listed(call[a].to)
           /\ a \in Sessions => At(a, "handling")
    /\ sessionsMutex # None => call[sessionsMutex].at # "none"

IInv == SessionTypes /\ OtherTypes /\ Handles /\ Table /\ Calls
-----------------------------------------------------------------------------
LEMMA Initially == Init => IInv
<1> SUFFICES ASSUME Init PROVE IInv
  OBVIOUS
<1>1. SessionTypes
  BY BoundsAreNat DEF Init, SessionTypes, SessionRecord, Places, At
<1>2. OtherTypes
  BY DEF Init, OtherTypes, NotCalling
<1>3. Handles
  <2>1. {s \in Sessions : Numbered(s)} = {}
    BY DEF Init, Numbered
  <2> QED BY <2>1, FS_EmptySet DEF Init, Handles, Numbered
<1>4. Table
  BY DEF Init, Table, Listed
<1>5. Calls
  BY DEF Init, Calls, NotCalling
<1> QED BY <1>1, <1>2, <1>3, <1>4, <1>5 DEF IInv

-----------------------------------------------------------------------------
\* A step within run() of session s, between its entry in the table and its removal:
\* it changes nothing but where s is, and does not leave a handler with a call open.
RunsOn(s) ==
    /\ Listed(s) /\ Listed(s)'
    /\ \A x \in Sessions \ {s} : ses'[x] = ses[x]
    /\ ses'[s].handle = ses[s].handle
    /\ call[s].at # "none" => At(s, "handling")'
    /\ UNCHANGED <<lastHandle, sessions, sessionsMutex, call>>

LEMMA RunStep ==
  ASSUME IInv, NEW s \in Sessions, RunsOn(s)
  PROVE  Handles' /\ Table' /\ Calls'
<1>1. /\ \A x \in Sessions : Numbered(x)' = Numbered(x) /\ ses'[x].handle = ses[x].handle
      /\ \A x \in Sessions : Listed(x)' = Listed(x)
  BY DEF RunsOn, Numbered, Listed
<1>2. Handles'
  <2>1. {x \in Sessions : Numbered(x)'} = {x \in Sessions : Numbered(x)}
    BY <1>1
  <2> QED BY <1>1, <2>1 DEF IInv, Handles, RunsOn
<1>3. Table'
  BY <1>1 DEF IInv, Table, RunsOn
<1>4. Calls'
  BY <1>1 DEF IInv, Calls, RunsOn, At
<1> QED BY <1>2, <1>3, <1>4

\* A step that changes neither the sessions nor who calls whom.
LEMMA Apart ==
  ASSUME IInv, UNCHANGED <<lastHandle, sessions, ses, sessionsMutex, call>>
  PROVE  Handles' /\ Table' /\ Calls'
BY DEF IInv, Handles, Table, Calls, Numbered, Listed, At

\* A step of actor a that leaves the sessions where they are.
LEMMA SessionsApart ==
  ASSUME IInv, UNCHANGED <<lastHandle, sessions>>,
         \A x \in Sessions : ses'[x].at = ses[x].at /\ ses'[x].handle = ses[x].handle
  PROVE  Handles' /\ Table'
<1>1. /\ \A x \in Sessions : Numbered(x)' = Numbered(x)
      /\ \A x \in Sessions : Listed(x)' = Listed(x)
  BY DEF Numbered, Listed
<1>2. {x \in Sessions : Numbered(x)'} = {x \in Sessions : Numbered(x)}
  BY <1>1
<1>3. Handles'
  BY <1>1, <1>2 DEF IInv, Handles
<1>4. Table'
  BY <1>1 DEF IInv, Table
<1> QED BY <1>3, <1>4

-----------------------------------------------------------------------------
\* The server and the clients.

LEMMA ServerSteps ==
  ASSUME IInv, SetRunning \/ StopServer
  PROVE  IInv'
<1>1. UNCHANGED <<lastHandle, sessions, ses, asked, call, sessionsMutex>>
  BY DEF SetRunning, StopServer, locks
<1>2. SessionTypes'
  BY <1>1 DEF IInv, SessionTypes, At
<1>3. OtherTypes'
  BY DEF IInv, OtherTypes, SetRunning, StopServer, locks
<1> QED BY <1>1, <1>2, <1>3, Apart DEF IInv

LEMMA CloseStep ==
  ASSUME IInv, NEW s \in Sessions, Close(s)
  PROVE  IInv'
<1>1. UNCHANGED <<lastHandle, sessions, ses, asked, call, sessionsMutex>>
  BY DEF Close, locks
<1>2. SessionTypes'
  BY <1>1 DEF IInv, SessionTypes, At
<1>3. OtherTypes'
  BY DEF IInv, OtherTypes, Close, locks
<1> QED BY <1>1, <1>2, <1>3, Apart DEF IInv

LEMMA ResetStep ==
  ASSUME IInv, NEW s \in Sessions, Reset(s)
  PROVE  IInv'
<1>1. /\ ~At(s, "new") /\ ses' = [ses EXCEPT ![s].reset = TRUE]
      /\ UNCHANGED <<lastHandle, sessions, asked, call, sessionsMutex>>
  BY DEF Reset, locks
<1>2. ses \in [Sessions -> SessionRecord]
  BY DEF IInv, SessionTypes, SessionRecord
<1>3. ses' \in [Sessions -> SessionRecord]
  BY <1>1, <1>2 DEF SessionRecord
<1>4. \A x \in Sessions : /\ ses'[x].at = ses[x].at /\ ses'[x].handle = ses[x].handle
                          /\ ses'[x].taken = ses[x].taken
                          /\ ses[x].reset => ses'[x].reset
  BY <1>1, <1>2 DEF SessionRecord
<1>5. SessionTypes'
  BY <1>1, <1>3, <1>4 DEF IInv, SessionTypes, SessionRecord, At
<1>6. OtherTypes'
  BY DEF IInv, OtherTypes, Reset, locks
<1>7. Handles' /\ Table'
  BY <1>1, <1>4, SessionsApart
<1>8. \A x \in Sessions : Listed(x)' = Listed(x) /\ At(x, "handling")' = At(x, "handling")
  BY <1>4 DEF Listed, At
<1>9. Calls'
  BY <1>1, <1>8 DEF IInv, Calls
<1> QED BY <1>5, <1>6, <1>7, <1>9 DEF IInv

LEMMA ConnectStep ==
  ASSUME IInv, NEW s \in Sessions, NEW n \in 0 .. MaxRequests, Connect(s, n)
  PROVE  IInv'
<1>1. /\ At(s, "new") /\ ses' = [ses EXCEPT ![s].at = "accepted"]
      /\ asked' = [asked EXCEPT ![s] = n]
      /\ UNCHANGED <<lastHandle, sessions, call, sessionsMutex>>
  BY DEF Connect, Goto, locks
<1>2. SessionTypes'
  <2>1. ses' \in [Sessions -> SessionRecord] /\ asked' \in [Sessions -> 0 .. MaxRequests]
    BY <1>1 DEF IInv, SessionTypes, SessionRecord, Places
  <2>2. \A x \in Sessions : ses'[x].taken = ses[x].taken
    BY <1>1 DEF IInv, SessionTypes
  <2>3. \A x \in Sessions : ses'[x].taken <= asked'[x]
    BY <1>1, <2>2, BoundsAreNat DEF IInv, SessionTypes, At
  <2>4. \A x \in Sessions : At(x, "new")' => ses'[x].taken = 0
    BY <1>1, <2>2 DEF IInv, SessionTypes, At
  <2>5. \A x \in Sessions : At(x, "thrown")' => ses'[x].reset
    BY <1>1 DEF IInv, SessionTypes, SessionRecord, At
  <2> QED BY <2>1, <2>3, <2>4, <2>5 DEF SessionTypes, SessionRecord
<1>3. OtherTypes'
  BY DEF IInv, OtherTypes, Connect, locks
<1>4. /\ \A x \in Sessions : Numbered(x)' = Numbered(x) /\ ses'[x].handle = ses[x].handle
      /\ \A x \in Sessions : Listed(x)' = Listed(x)
      /\ \A x \in Sessions : At(x, "handling")' = At(x, "handling")
  BY <1>1 DEF IInv, SessionTypes, Numbered, Listed, At
<1>5. Handles'
  <2>1. {x \in Sessions : Numbered(x)'} = {x \in Sessions : Numbered(x)}
    BY <1>4
  <2> QED BY <1>1, <1>4, <2>1 DEF IInv, Handles
<1>6. Table'
  BY <1>1, <1>4 DEF IInv, Table
<1>7. Calls'
  BY <1>1, <1>4 DEF IInv, Calls
<1> QED BY <1>2, <1>3, <1>5, <1>6, <1>7 DEF IInv

-----------------------------------------------------------------------------
\* The steps of run().

LEMMA TakeHandleStep ==
  ASSUME IInv, NEW s \in Sessions, TakeHandle(s)
  PROVE  IInv'
<1>1. /\ At(s, "accepted")
      /\ ses' = [ses EXCEPT ![s].at = "adding", ![s].handle = lastHandle]
      /\ lastHandle' = lastHandle + 1
      /\ UNCHANGED <<sessions, asked, call, sessionsMutex>>
  BY DEF TakeHandle, locks
<1> DEFINE N == {x \in Sessions : Numbered(x)}
<1>2. IsFiniteSet(N) /\ Cardinality(N) = lastHandle /\ lastHandle \in Nat
  <2>1. IsFiniteSet(Sessions)
    BY FS_Interval, BoundsAreNat DEF Sessions
  <2>2. IsFiniteSet(N)
    BY <2>1, FS_Subset
  <2> QED BY <2>2, FS_CardinalityType DEF IInv, Handles
<1>3. ses \in [Sessions -> SessionRecord]
  BY DEF IInv, SessionTypes, SessionRecord
<1>4. ses' \in [Sessions -> SessionRecord]
  BY <1>1, <1>2, <1>3 DEF SessionRecord, Places
<1>5. /\ ses'[s].at = "adding" /\ ses'[s].handle = lastHandle
      /\ \A x \in Sessions : ses'[x].taken = ses[x].taken
      /\ \A x \in Sessions \ {s} : ses'[x] = ses[x]
  BY <1>1, <1>3 DEF SessionRecord
<1>6. SessionTypes'
  BY <1>1, <1>4, <1>5 DEF IInv, SessionTypes, SessionRecord, At
<1>7. OtherTypes'
  BY DEF IInv, OtherTypes, TakeHandle, locks
<1>8. /\ ~Numbered(s) /\ Numbered(s)'
      /\ \A x \in Sessions \ {s} : Numbered(x)' = Numbered(x)
      /\ \A x \in Sessions : Listed(x)' = Listed(x)
      /\ ~Listed(s)
      /\ \A x \in Sessions : At(x, "handling")' = At(x, "handling")
  BY <1>1, <1>5 DEF Numbered, Listed, At
<1>9. Handles'
  <2>1. {x \in Sessions : Numbered(x)'} = N \cup {s}
    BY <1>8
  <2>2. Cardinality(N \cup {s}) = lastHandle + 1
    BY <1>2, <1>8, FS_AddElement
  <2>3. \A x \in Sessions : Numbered(x)' => ses'[x].handle \in Nat /\ ses'[x].handle < lastHandle'
    <3> SUFFICES ASSUME NEW x \in Sessions, Numbered(x)'
                 PROVE  ses'[x].handle \in Nat /\ ses'[x].handle < lastHandle'
      OBVIOUS
    <3>1. CASE x = s
      BY <3>1, <1>1, <1>2, <1>5
    <3>2. CASE x # s
      <4>1. Numbered(x) /\ ses'[x].handle = ses[x].handle
        BY <3>2, <1>5, <1>8
      <4>2. ses[x].handle \in Nat /\ ses[x].handle < lastHandle
        BY <4>1, <1>3 DEF IInv, Handles, SessionRecord
      <4> QED BY <4>1, <4>2, <1>1, <1>2
    <3> QED BY <3>1, <3>2
  <2>4. \A x, t \in Sessions :
            Numbered(x)' /\ Numbered(t)' /\ ses'[x].handle = ses'[t].handle => x = t
    <3>1. \A x \in Sessions \ {s} : Numbered(x)' => ses'[x].handle # lastHandle
      BY <1>2, <1>3, <1>5, <1>8 DEF IInv, Handles, SessionRecord
    <3> QED BY <3>1, <1>5, <1>8 DEF IInv, Handles
  <2> QED BY <1>1, <2>1, <2>2, <2>3, <2>4 DEF Handles
<1>10. Table'
  <2>1. \A h \in DOMAIN sessions : sessions[h] # s
    BY <1>8 DEF IInv, Table
  <2>2. \A x \in Sessions \ {s} : ses'[x].handle = ses[x].handle
    BY <1>5
  <2>3. sessions' = sessions
    BY <1>1
  <2>4. \A h \in DOMAIN sessions' :
            sessions'[h] \in Sessions /\ Listed(sessions[h])' /\ ses'[sessions'[h]].handle = h
    BY <1>8, <2>1, <2>2, <2>3 DEF IInv, Table
  <2>5. \A x \in Sessions :
            Listed(x)' => ses'[x].handle \in DOMAIN sessions' /\ sessions'[ses'[x].handle] = x
    BY <1>8, <2>2, <2>3 DEF IInv, Table
  <2> QED BY <2>3, <2>4, <2>5 DEF Table
<1>11. Calls'
  BY <1>1, <1>8 DEF IInv, Calls
<1> QED BY <1>6, <1>7, <1>9, <1>10, <1>11 DEF IInv

\* The entry is the session's own: no session that runs has its handle.
LEMMA AddSessionStep ==
  ASSUME IInv, NEW s \in Sessions, AddSession(s)
  PROVE  IInv'
<1> DEFINE H == ses[s].handle
<1>1. /\ At(s, "adding") /\ ses' = [ses EXCEPT ![s].at = "checking"]
      /\ sessions' = [h \in DOMAIN sessions \cup {H} |->
                          IF h \in DOMAIN sessions THEN sessions[h] ELSE s]
      /\ UNCHANGED <<lastHandle, asked, call, sessionsMutex>>
  BY DEF AddSession, Goto, locks
<1>2. ses \in [Sessions -> SessionRecord]
  BY DEF IInv, SessionTypes, SessionRecord
<1>3. ses' \in [Sessions -> SessionRecord]
  BY <1>1, <1>2 DEF SessionRecord, Places
<1>4. /\ ses'[s].at = "checking"
      /\ \A x \in Sessions : ses'[x].taken = ses[x].taken /\ ses'[x].handle = ses[x].handle
      /\ \A x \in Sessions \ {s} : ses'[x] = ses[x]
  BY <1>1, <1>2 DEF SessionRecord
<1>5. SessionTypes'
  BY <1>1, <1>3, <1>4 DEF IInv, SessionTypes, SessionRecord, At
<1>6. OtherTypes'
  BY DEF IInv, OtherTypes, AddSession, locks
<1>7. /\ Numbered(s) /\ \A x \in Sessions : Numbered(x)' = Numbered(x)
      /\ ~Listed(s) /\ Listed(s)'
      /\ \A x \in Sessions \ {s} : Listed(x)' = Listed(x)
      /\ \A x \in Sessions : At(x, "handling")' = At(x, "handling")
      /\ \A x \in Sessions : Listed(x) => Numbered(x)
  BY <1>1, <1>4 DEF Numbered, Listed, At
<1>8. Handles'
  <2>1. {x \in Sessions : Numbered(x)'} = {x \in Sessions : Numbered(x)}
    BY <1>7
  <2> QED BY <1>1, <1>4, <1>7, <2>1 DEF IInv, Handles
<1>9. Table'
  <2>1. H \notin DOMAIN sessions
    BY <1>7 DEF IInv, Table, Handles
  <2>2. DOMAIN sessions' = DOMAIN sessions \cup {H} /\ sessions'[H] = s
    BY <1>1, <2>1
  <2>3. \A h \in DOMAIN sessions : sessions'[h] = sessions[h] /\ sessions[h] # s
    BY <1>1, <1>7 DEF IInv, Table
  <2> QED BY <1>4, <1>7, <2>1, <2>2, <2>3 DEF IInv, Table
<1>10. Calls'
  BY <1>1, <1>7 DEF IInv, Calls
<1> QED BY <1>5, <1>6, <1>8, <1>9, <1>10 DEF IInv

\* Nobody calls the session that is removed: the caller would hold sessionsMutex.
LEMMA RemoveSessionStep ==
  ASSUME IInv, NEW s \in Sessions, RemoveSession(s)
  PROVE  IInv'
<1> DEFINE H == ses[s].handle
<1>1. /\ At(s, "leaving") /\ Free(sessionsMutex, s)
      /\ ses' = [ses EXCEPT ![s].at = "ended"]
      /\ sessions' = [h \in DOMAIN sessions \ {H} |-> sessions[h]]
      /\ UNCHANGED <<lastHandle, asked, call, sessionsMutex>>
  BY DEF RemoveSession, Goto, locks
<1>2. ses \in [Sessions -> SessionRecord]
  BY DEF IInv, SessionTypes, SessionRecord
<1>3. ses' \in [Sessions -> SessionRecord]
  BY <1>1, <1>2 DEF SessionRecord, Places
<1>4. /\ ses'[s].at = "ended"
      /\ \A x \in Sessions : ses'[x].taken = ses[x].taken /\ ses'[x].handle = ses[x].handle
      /\ \A x \in Sessions \ {s} : ses'[x] = ses[x]
  BY <1>1, <1>2 DEF SessionRecord
<1>5. SessionTypes'
  BY <1>1, <1>3, <1>4 DEF IInv, SessionTypes, SessionRecord, At
<1>6. OtherTypes'
  BY DEF IInv, OtherTypes, RemoveSession, locks
<1>7. /\ \A x \in Sessions : Numbered(x)' = Numbered(x)
      /\ Listed(s) /\ ~Listed(s)'
      /\ \A x \in Sessions \ {s} : Listed(x)' = Listed(x)
      /\ \A x \in Sessions : At(x, "handling")' = At(x, "handling")
      /\ \A x \in Sessions : Listed(x) => Numbered(x)
  BY <1>1, <1>4 DEF Numbered, Listed, At
<1>8. Handles'
  <2>1. {x \in Sessions : Numbered(x)'} = {x \in Sessions : Numbered(x)}
    BY <1>7
  <2> QED BY <1>1, <1>4, <1>7, <2>1 DEF IInv, Handles
<1>9. Table'
  <2>1. DOMAIN sessions' = DOMAIN sessions \ {H}
    BY <1>1
  <2>2. \A h \in DOMAIN sessions \ {H} : sessions'[h] = sessions[h] /\ sessions[h] # s
    BY <1>1 DEF IInv, Table
  <2>3. \A x \in Sessions \ {s} : Listed(x) => ses[x].handle # H
    BY <1>7 DEF IInv, Handles
  <2> QED BY <1>4, <1>7, <2>1, <2>2, <2>3 DEF IInv, Table
<1>10. \A a \in Actors : call[a].at = "none"
  <2> SUFFICES ASSUME NEW a \in Actors, call[a].at # "none" PROVE FALSE
    OBVIOUS
  <2>1. sessionsMutex = a /\ (a \in Sessions => At(a, "handling"))
    BY DEF IInv, Calls
  <2>2. a = s
    BY <1>1, <2>1, Distinct DEF Free, Actors
  <2> QED BY <1>1, <2>1, <2>2 DEF At
<1>11. Calls'
  BY <1>1, <1>10 DEF IInv, Calls
<1> QED BY <1>5, <1>6, <1>8, <1>9, <1>11 DEF IInv
\* What all other steps of run() do: they move s from one place to the next.
LEMMA MovesOn ==
  ASSUME IInv, NEW s \in Sessions, NEW p \in Places,
         Listed(s), p \notin {"new", "accepted", "adding", "ended"},
         call[s].at # "none" => p = "handling",
         p = "thrown" => ses'[s].reset,
         ses' \in [Sessions -> SessionRecord],
         \A x \in Sessions \ {s} : ses'[x] = ses[x],
         ses'[s].at = p, ses'[s].handle = ses[s].handle, ses'[s].taken <= asked[s],
         UNCHANGED <<lastHandle, sessions, asked, sessionsMutex, call>>
  PROVE  SessionTypes' /\ Handles' /\ Table' /\ Calls'
<1>1. RunsOn(s)
  BY DEF RunsOn, Listed, At
<1>2. SessionTypes'
  <2>1. \A x \in Sessions : ses'[x].taken <= asked[x]
    BY DEF IInv, SessionTypes
  <2>2. \A x \in Sessions : /\ At(x, "new")' => ses'[x].taken = 0
                            /\ At(x, "thrown")' => ses'[x].reset
    BY DEF IInv, SessionTypes, At
  <2> QED BY <2>1, <2>2 DEF IInv, SessionTypes, SessionRecord
<1> QED BY <1>1, <1>2, RunStep

\* A handler that has a call open is in the handler.
LEMMA NotInCall ==
  ASSUME IInv, NEW s \in Sessions, ~At(s, "handling")
  PROVE  call[s].at = "none"
BY DEF IInv, Calls, Actors

LEMMA CheckStep ==
  ASSUME IInv, NEW s \in Sessions, Check(s)
  PROVE  IInv'
<1>1. /\ At(s, "checking")
      /\ ses' = [ses EXCEPT ![s].at = IF running THEN "polling" ELSE "leaving",
                            ![s].early = @ \/ server = "started"]
      /\ UNCHANGED <<lastHandle, sessions, asked, sessionsMutex, call>>
  BY DEF Check, locks
<1> DEFINE p == IF running THEN "polling" ELSE "leaving"
<1>2. p \in Places /\ p \notin {"new", "accepted", "adding", "ended"}
  BY DEF Places
<1>3. ses \in [Sessions -> SessionRecord] /\ ses[s].taken <= asked[s]
  BY DEF IInv, SessionTypes, SessionRecord
<1>4. (ses[s].early \/ server = "started") \in BOOLEAN
  OBVIOUS
<1>5. /\ ses' \in [Sessions -> SessionRecord]
      /\ \A x \in Sessions \ {s} : ses'[x] = ses[x]
      /\ ses'[s].at = p /\ ses'[s].handle = ses[s].handle /\ ses'[s].taken = ses[s].taken
  BY <1>1, <1>2, <1>3, <1>4 DEF SessionRecord
<1>6. OtherTypes'
  BY DEF IInv, OtherTypes, Check, locks
<1>7. Listed(s) /\ call[s].at = "none"
  BY <1>1, NotInCall DEF Listed, At
<1> QED BY <1>1, <1>2, <1>3, <1>5, <1>6, <1>7, MovesOn DEF IInv

LEMMA TakeMessageStep ==
  ASSUME IInv, NEW s \in Sessions, ReadMessage(s) \/ SkipMessage(s)
  PROVE  IInv'
<1>1. PICK p \in {"calling", "checking"} :
          ses' = [ses EXCEPT ![s].at = p, ![s].taken = @ + 1]
  BY DEF ReadMessage, SkipMessage
<1>2. /\ At(s, "polling") /\ ses[s].taken < asked[s]
      /\ UNCHANGED <<lastHandle, sessions, asked, sessionsMutex, call>>
  BY DEF ReadMessage, SkipMessage, locks
<1>3. ses \in [Sessions -> SessionRecord] /\ asked[s] \in Nat
  BY BoundsAreNat DEF IInv, SessionTypes, SessionRecord
<1>4. p \in Places /\ p \notin {"new", "accepted", "adding", "ended"}
  BY DEF Places
<1>5. /\ ses' \in [Sessions -> SessionRecord]
      /\ \A x \in Sessions \ {s} : ses'[x] = ses[x]
      /\ ses'[s].at = p /\ ses'[s].handle = ses[s].handle /\ ses'[s].taken = ses[s].taken + 1
  BY <1>1, <1>3, <1>4 DEF SessionRecord
<1>6. ses'[s].taken <= asked[s]
  BY <1>2, <1>3, <1>5 DEF SessionRecord
<1>7. OtherTypes'
  BY DEF IInv, OtherTypes, ReadMessage, SkipMessage, locks
<1>8. Listed(s) /\ call[s].at = "none"
  BY <1>2, NotInCall DEF Listed, At
<1> QED BY <1>2, <1>4, <1>5, <1>6, <1>7, <1>8, MovesOn DEF IInv

\* The steps that change nothing of a session but its place, outside a handler.
JustMoves(s) ==
    \/ PollTimeOut(s) \/ SeeClosed(s) \/ Throws(s) \/ UnknownMethod(s)
    \/ Reply(s) \/ ReplyFails(s)

LEMMA MoveStep ==
  ASSUME IInv, NEW s \in Sessions, JustMoves(s)
  PROVE  IInv'
<1>1. PICK p \in {"checking", "leaving", "thrown", "replied"} :
          ses' = [ses EXCEPT ![s].at = p] /\ (p = "thrown" => ses[s].reset)
  BY DEF JustMoves, PollTimeOut, SeeClosed, Throws, UnknownMethod, Reply, ReplyFails, Goto
<1>2. /\ ses[s].at \in {"polling", "calling", "replying", "replied"}
      /\ UNCHANGED <<lastHandle, sessions, asked, sessionsMutex, call>>
  BY DEF JustMoves, PollTimeOut, SeeClosed, Throws, UnknownMethod, Reply, ReplyFails, At,
         locks
<1>3. ses \in [Sessions -> SessionRecord] /\ ses[s].taken <= asked[s]
  BY DEF IInv, SessionTypes, SessionRecord
<1>4. p \in Places /\ p \notin {"new", "accepted", "adding", "ended"}
  BY DEF Places
<1>5. /\ ses' \in [Sessions -> SessionRecord]
      /\ \A x \in Sessions \ {s} : ses'[x] = ses[x]
      /\ ses'[s].at = p /\ ses'[s].handle = ses[s].handle /\ ses'[s].taken = ses[s].taken
      /\ ses'[s].reset = ses[s].reset
  BY <1>1, <1>3, <1>4 DEF SessionRecord
<1>6. OtherTypes'
  BY DEF IInv, OtherTypes, JustMoves, PollTimeOut, SeeClosed, Throws, UnknownMethod,
         Reply, ReplyFails, locks
<1>7. Listed(s) /\ call[s].at = "none"
  BY <1>2, NotInCall DEF Listed, At
<1> QED BY <1>1, <1>2, <1>3, <1>4, <1>5, <1>6, <1>7, MovesOn DEF IInv

LEMMA ReplyRestStep ==
  ASSUME IInv, NEW s \in Sessions, ReplyRest(s)
  PROVE  IInv'
<1>1. /\ At(s, "replied")
      /\ ses' = [ses EXCEPT ![s].at = "checking"]
      /\ UNCHANGED <<lastHandle, sessions, asked, sessionsMutex, call>>
  BY DEF ReplyRest, Goto, locks
<1>2. ses \in [Sessions -> SessionRecord] /\ ses[s].taken <= asked[s]
  BY DEF IInv, SessionTypes, SessionRecord
<1>3. /\ ses' \in [Sessions -> SessionRecord]
      /\ \A x \in Sessions \ {s} : ses'[x] = ses[x]
      /\ ses'[s].at = "checking" /\ ses'[s].handle = ses[s].handle
      /\ ses'[s].taken = ses[s].taken
  BY <1>1, <1>2 DEF SessionRecord, Places
<1>4. OtherTypes'
  BY DEF IInv, OtherTypes, ReplyRest, locks
<1>5. Listed(s) /\ call[s].at = "none" /\ "checking" \in Places
  BY <1>1, NotInCall DEF Listed, At, Places
<1> QED BY <1>1, <1>2, <1>3, <1>4, <1>5, MovesOn DEF IInv

LEMMA EnterStep ==
  ASSUME IInv, NEW s \in Sessions, EnterHandler(s)
  PROVE  IInv'
<1>1. /\ At(s, "calling")
      /\ ses' = [ses EXCEPT ![s].at = "handling", ![s].may = TRUE]
      /\ UNCHANGED <<lastHandle, sessions, asked, sessionsMutex, call>>
  BY DEF EnterHandler
<1>2. ses \in [Sessions -> SessionRecord] /\ ses[s].taken <= asked[s]
  BY DEF IInv, SessionTypes, SessionRecord
<1>3. /\ ses' \in [Sessions -> SessionRecord]
      /\ \A x \in Sessions \ {s} : ses'[x] = ses[x]
      /\ ses'[s].at = "handling" /\ ses'[s].handle = ses[s].handle
      /\ ses'[s].taken = ses[s].taken
  BY <1>1, <1>2 DEF SessionRecord, Places
<1>4. OtherTypes'
  BY DEF IInv, OtherTypes, EnterHandler
<1>5. Listed(s) /\ "handling" \in Places
  BY <1>1 DEF Listed, At, Places
<1> QED BY <1>1, <1>2, <1>3, <1>4, <1>5, MovesOn DEF IInv

LEMMA LeaveStep ==
  ASSUME IInv, NEW s \in Sessions, NEW response \in BOOLEAN, LeaveHandler(s, response)
  PROVE  IInv'
<1> DEFINE p == IF response THEN "replying" ELSE "checking"
<1>1. /\ At(s, "handling") /\ call[s] = NotCalling
      /\ ses' = [ses EXCEPT ![s].at = p, ![s].may = FALSE]
      /\ UNCHANGED <<lastHandle, sessions, asked, sessionsMutex, call>>
  BY DEF LeaveHandler
<1>2. ses \in [Sessions -> SessionRecord] /\ ses[s].taken <= asked[s]
  BY DEF IInv, SessionTypes, SessionRecord
<1>3. p \in Places /\ p \notin {"new", "accepted", "adding", "ended"}
  BY DEF Places
<1>4. /\ ses' \in [Sessions -> SessionRecord]
      /\ \A x \in Sessions \ {s} : ses'[x] = ses[x]
      /\ ses'[s].at = p /\ ses'[s].handle = ses[s].handle /\ ses'[s].taken = ses[s].taken
  BY <1>1, <1>2, <1>3 DEF SessionRecord
<1>5. OtherTypes'
  BY DEF IInv, OtherTypes, LeaveHandler
<1>6. Listed(s) /\ call[s].at = "none"
  BY <1>1 DEF Listed, At, NotCalling
<1> QED BY <1>1, <1>2, <1>3, <1>4, <1>5, <1>6, MovesOn DEF IInv

LEMMA RunSteps ==
  ASSUME IInv, NEW s \in Sessions, Session(s)
  PROVE  IInv'
BY TakeHandleStep, AddSessionStep, CheckStep, TakeMessageStep, MoveStep, EnterStep,
   LeaveStep, ReplyRestStep, RemoveSessionStep
DEF Session, JustMoves
-----------------------------------------------------------------------------
\* callCallback, and the registry of callbacks.

\* What the beginning of a call or a change of the registry costs its actor.
LEMMA Spending ==
  ASSUME IInv, NEW a \in Actors, Spend(a), UNCHANGED asked
  PROVE  /\ SessionTypes'
         /\ \A x \in Sessions : ses'[x].at = ses[x].at /\ ses'[x].handle = ses[x].handle
<1>1. ses \in [Sessions -> SessionRecord]
  BY DEF IInv, SessionTypes, SessionRecord
<1>2. /\ ses' \in [Sessions -> SessionRecord]
      /\ \A x \in Sessions : /\ ses'[x].at = ses[x].at /\ ses'[x].handle = ses[x].handle
                             /\ ses'[x].taken = ses[x].taken
                             /\ ses'[x].reset = ses[x].reset
  <2>1. CASE a \in Sessions
    <3>1. ses' = [ses EXCEPT ![a].may = FALSE]
      BY <2>1 DEF Spend
    <3>2. ses' \in [Sessions -> SessionRecord]
      BY <2>1, <3>1, <1>1 DEF SessionRecord
    <3>3. \A x \in Sessions : /\ ses'[x].at = ses[x].at /\ ses'[x].handle = ses[x].handle
                             /\ ses'[x].taken = ses[x].taken
                             /\ ses'[x].reset = ses[x].reset
      BY <2>1, <3>1, <1>1 DEF SessionRecord
    <3> QED BY <3>2, <3>3
  <2>2. CASE a \notin Sessions
    BY <2>2, <1>1 DEF Spend
  <2> QED BY <2>1, <2>2
<1>3. SessionTypes'
  BY <1>2 DEF IInv, SessionTypes, SessionRecord, At
<1> QED BY <1>2, <1>3

\* The lock keeps every other actor out; the session is in the table, so it runs.
LEMMA FindStep ==
  ASSUME IInv, NEW a \in Actors, NEW h \in 0 .. lastHandle - 1, FindSession(a, h)
  PROVE  IInv'
<1>1. /\ MayCall(a) /\ Free(sessionsMutex, a) /\ Spend(a)
      /\ UNCHANGED <<lastHandle, sessions, asked>>
  BY DEF FindSession
<1>2. /\ SessionTypes'
      /\ \A x \in Sessions : ses'[x].at = ses[x].at /\ ses'[x].handle = ses[x].handle
  BY <1>1, Spending
<1>3. Handles' /\ Table'
  BY <1>1, <1>2, SessionsApart
<1>4. call[a].at = "none" /\ (a \in Sessions => At(a, "handling"))
  BY <1>1 DEF MayCall, NotCalling
<1>5. sessionsMutex = None /\ \A b \in Actors : call[b].at = "none"
  <2>1. sessionsMutex = None
    BY <1>1, <1>4 DEF IInv, Calls, Free
  <2> QED BY <2>1, Distinct DEF IInv, Calls, Actors
<1>6. \A x \in Sessions : Listed(x)' = Listed(x) /\ At(x, "handling")' = At(x, "handling")
  BY <1>2 DEF Listed, At
<1>7. CASE h \in DOMAIN sessions
  <2>1. /\ call' = [call EXCEPT ![a] = [at |-> "found", to |-> sessions[h]]]
        /\ sessionsMutex' = a
    BY <1>7 DEF FindSession
  <2>2. sessions[h] \in Sessions /\ Listed(sessions[h])
    BY <1>7 DEF IInv, Table
  <2>3. OtherTypes'
    BY <2>1, <2>2 DEF IInv, OtherTypes, FindSession
  <2>4. call'[a] = [at |-> "found", to |-> sessions[h]]
        /\ \A b \in Actors \ {a} : call'[b] = call[b]
    BY <2>1 DEF IInv, OtherTypes
  <2>5. Calls'
    BY <1>4, <1>5, <1>6, <2>1, <2>2, <2>4 DEF Calls
  <2> QED BY <1>2, <1>3, <2>3, <2>5 DEF IInv
<1>8. CASE h \notin DOMAIN sessions
  <2>1. UNCHANGED <<call, sessionsMutex>>
    BY <1>8 DEF FindSession
  <2>2. OtherTypes'
    BY <2>1 DEF IInv, OtherTypes, FindSession
  <2>3. Calls'
    BY <1>5, <2>1 DEF Calls
  <2> QED BY <1>2, <1>3, <2>2, <2>3 DEF IInv
<1> QED BY <1>7, <1>8

\* Until it returns, a call keeps its session and sessionsMutex; when it returns it
\* gives the lock back.
LEMMA SendingStep ==
  ASSUME IInv, NEW a \in Actors, Sending(a)
  PROVE  IInv'
<1>1. UNCHANGED <<lastHandle, sessions, ses, asked>> /\ call[a].at # "none"
  BY DEF Sending, FindCallback, SendCallback, SendRest, SendFails
<1>2. SessionTypes'
  BY <1>1 DEF IInv, SessionTypes, At
<1>3. Handles' /\ Table'
  BY <1>1, SessionsApart
<1>4. call[a] \in [at : {"none", "found", "sending", "sent"}, to : Sessions \cup {None}]
  BY DEF IInv, OtherTypes
<1>5. sessionsMutex = a /\ \A b \in Actors \ {a} : call[b].at = "none"
  BY <1>1 DEF IInv, Calls
<1>6. \A x \in Sessions : Listed(x)' = Listed(x) /\ At(x, "handling")' = At(x, "handling")
  BY <1>1 DEF Listed, At
<1>7. CASE \E p \in {"sending", "sent"} : call' = [call EXCEPT ![a].at = p] /\ UNCHANGED sessionsMutex
  <2>1. PICK p \in {"sending", "sent"} : call' = [call EXCEPT ![a].at = p] /\ UNCHANGED sessionsMutex
    BY <1>7
  <2>2. /\ call' \in [Actors -> [at : {"none", "found", "sending", "sent"},
                                 to : Sessions \cup {None}]]
        /\ call'[a].at # "none" /\ call'[a].to = call[a].to
        /\ \A b \in Actors \ {a} : call'[b] = call[b]
    BY <2>1, <1>4 DEF IInv, OtherTypes
  <2>3. OtherTypes'
    BY <2>1, <2>2 DEF IInv, OtherTypes, Sending, FindCallback, SendCallback, SendRest,
                      SendFails, Return, locks
  <2>4. Calls'
    BY <1>1, <1>5, <1>6, <2>1, <2>2 DEF IInv, Calls
  <2> QED BY <1>2, <1>3, <2>3, <2>4 DEF IInv
<1>8. CASE call' = [call EXCEPT ![a] = NotCalling] /\ sessionsMutex' = None
  <2>1. /\ call' \in [Actors -> [at : {"none", "found", "sending", "sent"},
                                 to : Sessions \cup {None}]]
        /\ \A b \in Actors : call'[b].at = "none"
    BY <1>5, <1>8 DEF IInv, OtherTypes, NotCalling
  <2>2. OtherTypes'
    BY <1>8, <2>1 DEF IInv, OtherTypes, Sending, FindCallback, SendCallback, SendRest,
                      SendFails, Return, locks
  <2>3. Calls'
    BY <1>8, <2>1 DEF Calls
  <2> QED BY <1>2, <1>3, <2>2, <2>3 DEF IInv
<1>9. \/ \E p \in {"sending", "sent"} : call' = [call EXCEPT ![a].at = p] /\ UNCHANGED sessionsMutex
      \/ call' = [call EXCEPT ![a] = NotCalling] /\ sessionsMutex' = None
  BY DEF Sending, FindCallback, SendCallback, SendRest, SendFails, Return, locks
<1> QED BY <1>7, <1>8, <1>9

LEMMA RegistryStep ==
  ASSUME IInv, NEW a \in Actors, NEW b \in BOOLEAN, SetRegistered(a, b)
  PROVE  IInv'
<1>1. Spend(a) /\ UNCHANGED <<lastHandle, sessions, asked, call, sessionsMutex>>
  BY DEF SetRegistered, locks
<1>2. /\ SessionTypes'
      /\ \A x \in Sessions : ses'[x].at = ses[x].at /\ ses'[x].handle = ses[x].handle
  BY <1>1, Spending
<1>3. Handles' /\ Table'
  BY <1>1, <1>2, SessionsApart
<1>4. \A x \in Sessions : Listed(x)' = Listed(x) /\ At(x, "handling")' = At(x, "handling")
  BY <1>2 DEF Listed, At
<1>5. OtherTypes'
  BY DEF IInv, OtherTypes, SetRegistered, locks
<1>6. Calls'
  BY <1>1, <1>4 DEF IInv, Calls
<1> QED BY <1>2, <1>3, <1>5, <1>6 DEF IInv

-----------------------------------------------------------------------------
LEMMA Stutter ==
  ASSUME IInv, UNCHANGED vars
  PROVE  IInv'
<1>1. SessionTypes'
  BY DEF IInv, SessionTypes, At, vars
<1>2. OtherTypes'
  BY DEF IInv, OtherTypes, vars, locks
<1>3. UNCHANGED <<lastHandle, sessions, ses, sessionsMutex, call>>
  BY DEF vars, locks
<1> QED BY <1>1, <1>2, <1>3, Apart DEF IInv

\* Every step of the server (NymphSession::run, NymphRemoteClient::callCallback, start
\* and stop) and of its clients preserves the invariant.
LEMMA EveryStep ==
  ASSUME IInv, [Next]_vars
  PROVE  IInv'
<1>1. CASE SetRunning \/ StopServer
  BY <1>1, ServerSteps
<1>2. CASE \E s \in Sessions : \E n \in 0 .. MaxRequests : Connect(s, n)
  BY <1>2, ConnectStep
<1>3. CASE \E s \in Sessions : Close(s) \/ Reset(s) \/ Session(s)
  BY <1>3, CloseStep, ResetStep, RunSteps
<1>4. CASE \E a \in Actors : \E h \in 0 .. lastHandle - 1 : FindSession(a, h)
  BY <1>4, FindStep
<1>5. CASE \E a \in Actors : Sending(a) \/ \E b \in BOOLEAN : SetRegistered(a, b)
  BY <1>5, SendingStep, RegistryStep
<1>6. CASE UNCHANGED vars
  BY <1>6, Stutter
<1> QED BY <1>1, <1>2, <1>3, <1>4, <1>5, <1>6 DEF Next

\* The invariant holds in every state the server can be in: handles are given once,
\* the table holds the sessions in run() and those that threw out of it, and a
\* callCallback holds sessionsMutex.
THEOREM SessionsInductive == Spec => []IInv
<1>1. Init => IInv
  BY Initially
<1>2. IInv /\ [Next]_vars => IInv'
  BY EveryStep
<1> QED BY <1>1, <1>2, PTL DEF Spec

\* The table holds exactly the sessions between addSession and removeSession, each under
\* the handle that is its own, and beside them those whose client has reset the
\* connection and which an exception has taken out of run() past removeSession.
THEOREM HandlesAreOwn == Spec => []HandleIsOwn
<1>1. IInv => HandleIsOwn
  <2> SUFFICES ASSUME IInv PROVE HandleIsOwn
    OBVIOUS
  <2>1. \A s \in Sessions : Listed(s) <=> InRun(s) \/ At(s, "thrown")
    BY DEF Listed, InRun, At
  <2>2. \A s \in Sessions : At(s, "thrown") => ses[s].reset
    BY DEF IInv, SessionTypes
  <2> QED BY <2>1, <2>2 DEF IInv, Table, HandleIsOwn
<1> QED BY <1>1, SessionsInductive, PTL

\* A session that callCallback uses is still inside run(), for removeSession waits for
\* sessionsMutex; if not, its client has reset the connection and an exception has ended
\* it: nothing else lets callCallback use a session that may be deleted.
THEOREM NoSessionUsedAfterItsEnd == Spec => []NoSendToEnded
<1>1. IInv => NoSendToEnded
  <2> SUFFICES ASSUME IInv, NEW a \in Actors, call[a].at # "none"
               PROVE  \/ InRun(call[a].to)
                      \/ At(call[a].to, "thrown") /\ ses[call[a].to].reset
    BY DEF NoSendToEnded
  <2>1. PICK s \in Sessions : s = call[a].to /\ Listed(s)
    BY DEF IInv, Calls
  <2>2. InRun(s) \/ At(s, "thrown")
    BY <2>1 DEF Listed, InRun, At
  <2>3. At(s, "thrown") => ses[s].reset
    BY DEF IInv, SessionTypes
  <2> QED BY <2>1, <2>2, <2>3
<1> QED BY <1>1, SessionsInductive, PTL

\* The tables and locks have their types, and no session has taken (run) more messages
\* than its client has sent.
THEOREM TypesHold == Spec => []TypeOK
<1>1. IInv => TypeOK
  <2> SUFFICES ASSUME IInv PROVE TypeOK
    OBVIOUS
  <2>1. IsFiniteSet(Sessions) /\ Cardinality(Sessions) \in Nat
    BY FS_Interval, FS_CardinalityType, BoundsAreNat DEF Sessions
  <2>2. lastHandle \in 0 .. Cardinality(Sessions)
    <3> DEFINE N == {x \in Sessions : Numbered(x)}
    <3>1. IsFiniteSet(N) /\ Cardinality(N) <= Cardinality(Sessions)
      BY <2>1, FS_Subset
    <3>2. Cardinality(N) \in Nat
      BY <3>1, FS_CardinalityType
    <3> QED BY <2>1, <3>1, <3>2 DEF IInv, Handles
  <2>3. /\ \A h \in DOMAIN sessions : sessions[h] \in Sessions
        /\ DOMAIN sessions \subseteq 0 .. Cardinality(Sessions)
    <3> SUFFICES ASSUME NEW h \in DOMAIN sessions
                 PROVE  sessions[h] \in Sessions /\ h \in 0 .. Cardinality(Sessions)
      OBVIOUS
    <3>1. sessions[h] \in Sessions /\ Listed(sessions[h]) /\ ses[sessions[h]].handle = h
      BY DEF IInv, Table
    <3>2. Numbered(sessions[h]) /\ h \in Nat
      BY <3>1 DEF IInv, SessionTypes, SessionRecord, Listed, Numbered
    <3>3. h < lastHandle
      BY <3>1, <3>2 DEF IInv, Handles
    <3> QED BY <2>1, <2>2, <3>1, <3>2, <3>3
  <2>4. \A s \in Sessions : asked[s] \in 0 .. MaxRequests /\ ses[s].taken \in 0 .. asked[s]
    BY BoundsAreNat DEF IInv, SessionTypes, SessionRecord
  <2> QED BY <2>2, <2>3, <2>4 DEF IInv, OtherTypes, TypeOK
<1> QED BY <1>1, SessionsInductive, PTL

-----------------------------------------------------------------------------
\* What is written to the connections.  WInv is inductive beside IInv: a frame is left
\* open at the end of a connection only by whoever is about to write its second half,
\* and a session has answered no request beyond the one it works on.

Halves == [kind : {"reply", "callback"}, by : Actors, n : Nat, part : {1, 2}]

Writing ==
    /\ wire \in [Sessions -> Seq(Halves)]
    /\ closed \in [Sessions -> BOOLEAN]
    /\ \A s \in Sessions : closed[s] => wire[s] = << >>

\* The number that a's callbacks carry.
Mark(a) == IF a \in Sessions THEN ses[a].taken ELSE 0

OpenOn(s) ==
    wire[s] # << >> /\ wire[s][Len(wire[s])].part = 1 =>
        LET f == wire[s][Len(wire[s])]
        IN  \/ At(s, "replied") /\ f = Half("reply", s, ses[s].taken, 1)
            \/ \E a \in Actors : /\ call[a].at = "sent" /\ call[a].to = s
                                 /\ f = Half("callback", a, Mark(a), 1)

AnsweredOn(s) ==
    \A i \in DOMAIN wire[s] :
        wire[s][i].kind = "reply" =>
            /\ wire[s][i].n <= ses[s].taken
            /\ wire[s][i].n = ses[s].taken =>
                   /\ ses[s].at \notin {"calling", "handling", "replying"}
                   /\ At(s, "replied") => wire[s][i].part = 1

Open == \A s \in Sessions : OpenOn(s)
Answered == \A s \in Sessions : AnsweredOn(s)

WInv == Writing /\ Open /\ Answered /\ TornOnlyByReply /\ AnswersInOrder

\* A step that writes nothing, and leaves open what is.
LEMMA Quiet ==
  ASSUME IInv, WInv, UNCHANGED <<wire, closed>>,
         \A s \in Sessions :
            \/ /\ ses'[s].taken = ses[s].taken + 1
               /\ ~ At(s, "replied") /\ call[s].at # "sent"
            \/ /\ ses'[s].taken = ses[s].taken
               /\ At(s, "replied") /\ ~ closed[s] => At(s, "replied")'
               /\ At(s, "replied")' => At(s, "replied")
               /\ ses'[s].at \in {"calling", "handling", "replying"} =>
                     ses[s].at \in {"calling", "handling", "replying"},
         \A a \in Actors : call[a].at = "sent" /\ ~ closed[call[a].to] => call'[a] = call[a]
  PROVE  WInv'
<1>1. Writing' /\ TornOnlyByReply' /\ AnswersInOrder'
  BY DEF WInv, Writing, TornOnlyByReply, AnswersInOrder
<1>2. Answered'
  <2> SUFFICES ASSUME NEW s \in Sessions, NEW i \in DOMAIN wire[s], wire[s][i].kind = "reply"
               PROVE  /\ wire[s][i].n <= ses'[s].taken
                      /\ wire[s][i].n = ses'[s].taken =>
                            /\ ses'[s].at \notin {"calling", "handling", "replying"}
                            /\ At(s, "replied")' => wire[s][i].part = 1
    BY DEF Answered, AnsweredOn
  <2>1. wire[s][i].n \in Nat /\ ses[s].taken \in Nat
    <3>1. wire[s] \in Seq(Halves)
      BY DEF WInv, Writing
    <3>2. wire[s][i] \in Halves
      BY <3>1
    <3>3. ses[s].taken \in Nat
      BY DEF IInv, SessionTypes, SessionRecord
    <3> QED BY <3>2, <3>3 DEF Halves
  <2>2. /\ wire[s][i].n <= ses[s].taken
        /\ wire[s][i].n = ses[s].taken =>
              /\ ses[s].at \notin {"calling", "handling", "replying"}
              /\ At(s, "replied") => wire[s][i].part = 1
    BY DEF WInv, Answered, AnsweredOn
  <2> QED BY <2>1, <2>2
<1>3. Open'
  <2> SUFFICES ASSUME NEW s \in Sessions, wire[s] # << >>, wire[s][Len(wire[s])].part = 1
               PROVE  LET f == wire[s][Len(wire[s])]
                      IN  \/ At(s, "replied")' /\ f = Half("reply", s, ses'[s].taken, 1)
                          \/ \E a \in Actors : /\ call'[a].at = "sent" /\ call'[a].to = s
                                               /\ f = Half("callback", a, Mark(a)', 1)
    BY DEF Open, OpenOn, Half
  <2>1. ~ closed[s]
    BY DEF WInv, Writing
  <2>2. PICK f : f = wire[s][Len(wire[s])]
    OBVIOUS
  <2>3. CASE At(s, "replied") /\ f = Half("reply", s, ses[s].taken, 1)
    BY <2>1, <2>2, <2>3
  <2>4. ASSUME NEW a \in Actors, call[a].at = "sent", call[a].to = s,
               f = Half("callback", a, Mark(a), 1)
        PROVE  /\ call'[a].at = "sent" /\ call'[a].to = s
               /\ f = Half("callback", a, Mark(a)', 1)
    BY <2>1, <2>4 DEF Mark, Half
  <2> QED BY <2>2, <2>3, <2>4 DEF WInv, Open, OpenOn
<1> QED BY <1>1, <1>2, <1>3 DEF WInv

\* A step that writes g to the connection of s.
LEMMA AppendPlaces ==
  ASSUME NEW S, NEW w \in Seq(S), NEW e \in S
  PROVE  /\ Append(w, e) \in Seq(S) /\ Append(w, e) # << >>
         /\ Len(w) \in Nat /\ DOMAIN w = 1..Len(w)
         /\ Len(Append(w, e)) = Len(w) + 1 /\ DOMAIN Append(w, e) = 1..Len(w) + 1
         /\ Append(w, e)[Len(w) + 1] = e /\ \A k \in 1..Len(w) : Append(w, e)[k] = w[k]
OBVIOUS

LEMMA Writes ==
  ASSUME IInv, WInv, NEW s \in Sessions, NEW g \in Halves, ~ closed[s], UNCHANGED closed,
         wire' = [wire EXCEPT ![s] = Append(@, g)],
         \A f \in Halves :
            wire[s] # << >> /\ f = wire[s][Len(wire[s])] /\ f.part = 1 /\ ~ IsRest(g, f) =>
                /\ "reply" \in {f.kind, g.kind} /\ "callback" \in {f.kind, g.kind}
                /\ f.by # g.by,
         \A i \in DOMAIN wire[s] : wire[s][i].kind = "reply" =>
            /\ g.kind = "reply" =>
                  \/ wire[s][i].n < g.n
                  \/ wire[s][i].n = g.n /\ wire[s][i].part < g.part
            /\ ~ (g.kind = "callback" /\ g.by = s /\ g.n <= wire[s][i].n)
  PROVE  Writing' /\ TornOnlyByReply' /\ AnswersInOrder'
<1>1. PICK w \in Seq(Halves) : w = wire[s]
  BY DEF WInv, Writing
<1>2. PICK v : v = Append(w, g)
  OBVIOUS
<1>3. /\ v \in Seq(Halves) /\ v # << >> /\ Len(w) \in Nat /\ DOMAIN w = 1..Len(w)
      /\ Len(v) = Len(w) + 1 /\ DOMAIN v = 1..Len(w) + 1
      /\ v[Len(w) + 1] = g /\ \A k \in 1..Len(w) : v[k] = w[k]
  BY <1>2, AppendPlaces
<1>4. wire'[s] = v /\ \A x \in Sessions \ {s} : wire'[x] = wire[x]
  <2>1. DOMAIN wire = Sessions
    BY DEF WInv, Writing
  <2> QED BY <1>1, <1>2, <2>1
<1>5. Writing'
  <2>1. wire' \in [Sessions -> Seq(Halves)]
    BY <1>1, <1>2, <1>3 DEF WInv, Writing
  <2>2. \A x \in Sessions : closed'[x] => x # s /\ wire[x] = << >>
    BY DEF WInv, Writing
  <2>3. closed' \in [Sessions -> BOOLEAN]
    BY DEF WInv, Writing
  <2> QED BY <1>4, <2>1, <2>2, <2>3 DEF Writing
<1>6. TornOnlyByReply'
  <2> SUFFICES ASSUME NEW x \in Sessions, NEW i \in DOMAIN wire'[x],
                      wire'[x][i].part = 1, i < Len(wire'[x]),
                      ~ IsRest(wire'[x][i + 1], wire'[x][i])
               PROVE  /\ "reply" \in {wire'[x][i].kind, wire'[x][i + 1].kind}
                      /\ "callback" \in {wire'[x][i].kind, wire'[x][i + 1].kind}
                      /\ wire'[x][i].by # wire'[x][i + 1].by
    BY DEF TornOnlyByReply, IsRest
  <2>1. CASE x # s
    BY <1>4, <2>1 DEF WInv, TornOnlyByReply
  <2>2. CASE x = s /\ i < Len(w)
    <3>1. i \in 1..Len(w) /\ i + 1 \in 1..Len(w)
      BY <1>3, <1>4, <2>2
    <3>2. v[i] = w[i] /\ v[i + 1] = w[i + 1]
      BY <1>3, <3>1
    <3> QED BY <1>1, <1>3, <1>4, <2>2, <3>1, <3>2 DEF WInv, TornOnlyByReply
  <2>3. CASE x = s /\ i = Len(w)
    <3>1. w # << >> /\ i \in 1..Len(w) /\ w[i] \in Halves
      BY <1>1, <1>3, <1>4, <2>3
    <3>2. v[i] = w[i] /\ v[i + 1] = g
      BY <1>3, <2>3, <3>1
    <3> QED BY <1>1, <1>4, <2>3, <3>1, <3>2
  <2>4. x = s => i < Len(w) \/ i = Len(w)
    BY <1>3, <1>4
  <2> QED BY <2>1, <2>2, <2>3, <2>4
<1>7. AnswersInOrder'
  <2> SUFFICES ASSUME NEW x \in Sessions, NEW i \in DOMAIN wire'[x], NEW j \in DOMAIN wire'[x],
                      i < j
               PROVE  LET f == wire'[x][i]
                          h == wire'[x][j]
                      IN  /\ (f.kind = "reply" /\ h.kind = "reply") =>
                                 f.n < h.n \/ (f.n = h.n /\ f.part < h.part)
                          /\ ~ (f.kind = "reply" /\ h.kind = "callback" /\ h.by = x
                                /\ h.n <= f.n)
    BY DEF AnswersInOrder
  <2>1. CASE x # s
    BY <1>4, <2>1 DEF WInv, AnswersInOrder
  <2>2. CASE x = s /\ j \in 1..Len(w)
    <3>1. i \in 1..Len(w)
      BY <1>3, <1>4, <2>2
    <3>2. v[i] = w[i] /\ v[j] = w[j]
      BY <1>3, <2>2, <3>1
    <3> QED BY <1>1, <1>3, <1>4, <2>2, <3>1, <3>2 DEF WInv, AnswersInOrder
  <2>3. CASE x = s /\ j = Len(w) + 1
    <3>1. i \in 1..Len(w)
      BY <1>3, <1>4, <2>3
    <3>2. v[i] = w[i] /\ v[j] = g
      BY <1>3, <2>3, <3>1
    <3> QED BY <1>1, <1>3, <1>4, <2>3, <3>1, <3>2
  <2>4. x = s => j \in 1..Len(w) \/ j = Len(w) + 1
    BY <1>3, <1>4
  <2> QED BY <2>1, <2>2, <2>3, <2>4
<1> QED BY <1>5, <1>6, <1>7

LEMMA Written ==
  ASSUME WInv, NEW s \in Sessions, NEW g \in Halves,
         wire' = [wire EXCEPT ![s] = Append(@, g)]
  PROVE  /\ \A x \in Sessions \ {s} : wire'[x] = wire[x]
         /\ wire'[s] # << >> /\ wire'[s][Len(wire'[s])] = g
         /\ \A i \in DOMAIN wire'[s] :
               wire'[s][i] = g \/ (i \in DOMAIN wire[s] /\ wire'[s][i] = wire[s][i])
<1>1. PICK w \in Seq(Halves) : w = wire[s]
  BY DEF WInv, Writing
<1>2. wire'[s] = Append(w, g) /\ \A x \in Sessions \ {s} : wire'[x] = wire[x]
  BY <1>1 DEF WInv, Writing
<1>3. /\ Len(w) \in Nat /\ DOMAIN w = 1..Len(w) /\ Append(w, g) # << >>
      /\ Len(Append(w, g)) = Len(w) + 1 /\ DOMAIN Append(w, g) = 1..Len(w) + 1
      /\ Append(w, g)[Len(w) + 1] = g /\ \A k \in 1..Len(w) : Append(w, g)[k] = w[k]
  BY AppendPlaces
<1>4. \A i \in DOMAIN Append(w, g) :
         Append(w, g)[i] = g \/ (i \in DOMAIN w /\ Append(w, g)[i] = w[i])
  <2> TAKE i \in DOMAIN Append(w, g)
  <2>1. i \in 1..Len(w) \/ i = Len(w) + 1
    BY <1>3
  <2> QED BY <1>3, <2>1
<1> QED BY <1>1, <1>2, <1>3, <1>4

\* The frame left open on the connection of a session, by somebody else than the
\* session itself unless it is replying.
LEMMA OpenBy ==
  ASSUME IInv, WInv, NEW s \in Sessions, NEW f \in Halves,
         wire[s] # << >>, f = wire[s][Len(wire[s])], f.part = 1
  PROVE  \/ At(s, "replied") /\ f = Half("reply", s, ses[s].taken, 1)
         \/ \E a \in Actors : /\ call[a].at = "sent" /\ call[a].to = s /\ sessionsMutex = a
                              /\ a \in Sessions => At(a, "handling")
                              /\ f = Half("callback", a, Mark(a), 1)
BY DEF WInv, Open, OpenOn, IInv, Calls

\* What is left open or has been answered on a connection that is not written to.
LEMMA OpenKept ==
  ASSUME NEW x \in Sessions, OpenOn(x), UNCHANGED wire[x],
         \A y \in Sessions : ses'[y].taken = ses[y].taken,
         At(x, "replied") => At(x, "replied")',
         \A a \in Actors : call[a].at = "sent" /\ call[a].to = x => call'[a] = call[a]
  PROVE  OpenOn(x)'
<1> SUFFICES ASSUME wire[x] # << >>, wire[x][Len(wire[x])].part = 1
             PROVE  LET f == wire[x][Len(wire[x])]
                    IN  \/ At(x, "replied")' /\ f = Half("reply", x, ses'[x].taken, 1)
                        \/ \E a \in Actors : /\ call'[a].at = "sent" /\ call'[a].to = x
                                             /\ f = Half("callback", a, Mark(a)', 1)
  BY DEF OpenOn, Half
<1>1. PICK f : f = wire[x][Len(wire[x])]
  OBVIOUS
<1>2. CASE At(x, "replied") /\ f = Half("reply", x, ses[x].taken, 1)
  BY <1>1, <1>2
<1>3. ASSUME NEW a \in Actors, call[a].at = "sent", call[a].to = x,
             f = Half("callback", a, Mark(a), 1)
      PROVE  /\ call'[a].at = "sent" /\ call'[a].to = x
             /\ f = Half("callback", a, Mark(a)', 1)
  BY <1>3 DEF Half, Mark
<1> QED BY <1>1, <1>2, <1>3 DEF OpenOn

LEMMA AnsweredKept ==
  ASSUME NEW x, AnsweredOn(x), UNCHANGED <<wire[x], ses[x]>>
  PROVE  AnsweredOn(x)'
BY DEF AnsweredOn, At

\* The answer to a request.
LEMMA ReplyWrites ==
  ASSUME IInv, WInv, NEW s \in Sessions, Reply(s)
  PROVE  WInv'
<1>1. PICK g : g = Half("reply", s, ses[s].taken, 1)
  OBVIOUS
<1>2. /\ At(s, "replying") /\ ~ closed[s] /\ UNCHANGED <<closed, call>>
      /\ wire' = [wire EXCEPT ![s] = Append(@, g)]
      /\ ses' = [ses EXCEPT ![s].at = "replied"]
  BY <1>1 DEF Reply, Write, Goto
<1>3. ses[s].taken \in Nat
  BY DEF IInv, SessionTypes, SessionRecord
<1>4. g \in Halves /\ g.kind = "reply" /\ g.by = s /\ g.n = ses[s].taken /\ g.part = 1
  BY <1>1, <1>3 DEF Half, Halves, Actors
<1>5. ASSUME NEW i \in DOMAIN wire[s], wire[s][i].kind = "reply"
      PROVE  wire[s][i].n < g.n
  <2>1. wire[s][i] \in Halves
    BY DEF WInv, Writing
  <2>2. wire[s][i].n \in Nat /\ wire[s][i].n <= ses[s].taken /\ wire[s][i].n # ses[s].taken
    BY <1>2, <1>5, <2>1 DEF WInv, Answered, AnsweredOn, At, Halves
  <2> QED BY <1>3, <1>4, <2>2
<1>6. ASSUME NEW f \in Halves, wire[s] # << >>, f = wire[s][Len(wire[s])], f.part = 1
      PROVE  f.kind = "callback" /\ f.by # s
  BY <1>2, <1>6, OpenBy DEF At, Half
<1>7. Writing' /\ TornOnlyByReply' /\ AnswersInOrder'
  BY <1>2, <1>4, <1>5, <1>6, Writes
<1>8. /\ ses'[s].at = "replied" /\ ses'[s].taken = ses[s].taken
      /\ \A x \in Sessions \ {s} : ses'[x] = ses[x]
  BY <1>2 DEF IInv, SessionTypes, SessionRecord
<1>9. /\ \A x \in Sessions \ {s} : wire'[x] = wire[x]
      /\ wire'[s] # << >> /\ wire'[s][Len(wire'[s])] = g
      /\ \A i \in DOMAIN wire'[s] :
            wire'[s][i] = g \/ (i \in DOMAIN wire[s] /\ wire'[s][i] = wire[s][i])
  BY <1>2, <1>4, Written
<1>10. Open'
  <2>1. g = Half("reply", s, ses'[s].taken, 1) /\ At(s, "replied")'
    BY <1>1, <1>8 DEF At
  <2>2. OpenOn(s)'
    BY <1>9, <2>1 DEF OpenOn, Half
  <2>3. \A y \in Sessions : ses'[y].taken = ses[y].taken
    BY <1>8
  <2>4. ASSUME NEW x \in Sessions \ {s} PROVE OpenOn(x)'
    BY <1>2, <1>8, <1>9, <2>3, OpenKept DEF WInv, Open, At
  <2> QED BY <2>2, <2>4 DEF Open
<1>11. Answered'
  <2>1. ASSUME NEW x \in Sessions \ {s} PROVE AnsweredOn(x)'
    BY <1>8, <1>9, AnsweredKept DEF WInv, Answered
  <2>2. ASSUME NEW i \in DOMAIN wire'[s], wire'[s][i].kind = "reply"
        PROVE  /\ wire'[s][i].n <= ses'[s].taken
               /\ wire'[s][i].n = ses'[s].taken => wire'[s][i].part = 1
    <3>1. CASE wire'[s][i] = g
      BY <1>3, <1>4, <1>8, <3>1
    <3>2. CASE i \in DOMAIN wire[s] /\ wire'[s][i] = wire[s][i]
      <4>1. wire[s][i] \in Halves
        BY <3>2 DEF WInv, Writing
      <4>2. wire[s][i].n < ses[s].taken /\ wire[s][i].n \in Nat
        BY <1>4, <1>5, <2>2, <3>2, <4>1 DEF Halves
      <4> QED BY <1>3, <1>8, <3>2, <4>2
    <3> QED BY <1>9, <3>1, <3>2
  <2>3. AnsweredOn(s)'
    BY <1>8, <2>2 DEF AnsweredOn, At
  <2> QED BY <2>1, <2>3 DEF Answered
<1> QED BY <1>7, <1>10, <1>11 DEF WInv

\* The second half of an answer.
LEMMA ReplyRestWrites ==
  ASSUME IInv, WInv, NEW s \in Sessions, ReplyRest(s)
  PROVE  WInv'
<1>1. PICK g : g = Half("reply", s, ses[s].taken, 2)
  OBVIOUS
<1>2. /\ At(s, "replied") /\ ~ closed[s] /\ UNCHANGED <<closed, call>>
      /\ wire' = [wire EXCEPT ![s] = Append(@, g)]
      /\ ses' = [ses EXCEPT ![s].at = "checking"]
  BY <1>1 DEF ReplyRest, Write, Goto
<1>3. ses[s].taken \in Nat
  BY DEF IInv, SessionTypes, SessionRecord
<1>4. g \in Halves /\ g.kind = "reply" /\ g.by = s /\ g.n = ses[s].taken /\ g.part = 2
  BY <1>1, <1>3 DEF Half, Halves, Actors
<1>5. ASSUME NEW i \in DOMAIN wire[s], wire[s][i].kind = "reply"
      PROVE  /\ wire[s][i].n <= g.n
             /\ wire[s][i].n < g.n \/ (wire[s][i].n = g.n /\ wire[s][i].part < g.part)
  <2>1. wire[s][i] \in Halves
    BY DEF WInv, Writing
  <2>2. /\ wire[s][i].n \in Nat /\ wire[s][i].n <= ses[s].taken
        /\ wire[s][i].n = ses[s].taken => wire[s][i].part = 1
    BY <1>2, <1>5, <2>1 DEF WInv, Answered, AnsweredOn, Halves
  <2> QED BY <1>3, <1>4, <2>2
<1>6. ASSUME NEW f \in Halves, wire[s] # << >>, f = wire[s][Len(wire[s])], f.part = 1,
             ~ IsRest(g, f)
      PROVE  f.kind = "callback" /\ f.by # s
  <2>1. f # Half("reply", s, ses[s].taken, 1)
    BY <1>4, <1>6 DEF IsRest, Half
  <2> QED BY <1>2, <1>6, <2>1, OpenBy DEF At, Half
<1>7. Writing' /\ TornOnlyByReply' /\ AnswersInOrder'
  BY <1>2, <1>4, <1>5, <1>6, Writes
<1>8. /\ ses'[s].at = "checking" /\ ses'[s].taken = ses[s].taken
      /\ \A x \in Sessions \ {s} : ses'[x] = ses[x]
  BY <1>2 DEF IInv, SessionTypes, SessionRecord
<1>9. /\ \A x \in Sessions \ {s} : wire'[x] = wire[x]
      /\ wire'[s] # << >> /\ wire'[s][Len(wire'[s])] = g
      /\ \A i \in DOMAIN wire'[s] :
            wire'[s][i] = g \/ (i \in DOMAIN wire[s] /\ wire'[s][i] = wire[s][i])
  BY <1>2, <1>4, Written
<1>10. Open'
  <2>1. OpenOn(s)'
    BY <1>4, <1>9 DEF OpenOn
  <2>2. \A y \in Sessions : ses'[y].taken = ses[y].taken
    BY <1>8
  <2>3. ASSUME NEW x \in Sessions \ {s} PROVE OpenOn(x)'
    BY <1>2, <1>8, <1>9, <2>2, OpenKept DEF WInv, Open, At
  <2> QED BY <2>1, <2>3 DEF Open
<1>11. Answered'
  <2>1. ASSUME NEW x \in Sessions \ {s} PROVE AnsweredOn(x)'
    BY <1>8, <1>9, AnsweredKept DEF WInv, Answered
  <2>2. ASSUME NEW i \in DOMAIN wire'[s], wire'[s][i].kind = "reply"
        PROVE  wire'[s][i].n <= ses'[s].taken
    BY <1>3, <1>4, <1>5, <1>8, <1>9, <2>2
  <2>3. AnsweredOn(s)'
    BY <1>8, <2>2 DEF AnsweredOn, At
  <2> QED BY <2>1, <2>3 DEF Answered
<1> QED BY <1>7, <1>10, <1>11 DEF WInv

\* A half of a callback: a session calls its own client only in a handler, so before
\* it has answered the request.
LEMMA CallbackWrites ==
  ASSUME IInv, WInv, NEW a \in Actors, SendCallback(a) \/ SendRest(a)
  PROVE  WInv'
<1>1. PICK s \in Sessions : s = call[a].to
  BY DEF IInv, Calls, SendCallback, SendRest
<1>2. PICK p \in {1, 2} : /\ p = 1 => SendCallback(a)
                          /\ p = 2 => SendRest(a)
  OBVIOUS
<1>3. PICK g : g = Half("callback", a, Mark(a), p)
  OBVIOUS
<1>4. /\ ~ closed[s] /\ UNCHANGED <<closed, ses>>
      /\ wire' = [wire EXCEPT ![s] = Append(@, g)]
  <2>1. CASE p = 1
    BY <1>1, <1>2, <1>3, <2>1 DEF SendCallback, Write, Mark
  <2>2. CASE p = 2
    BY <1>1, <1>2, <1>3, <2>2 DEF SendRest, Write, Mark
  <2> QED BY <2>1, <2>2
<1>5. /\ sessionsMutex = a /\ (a \in Sessions => At(a, "handling"))
      /\ p = 1 => call[a].at = "sending"
      /\ p = 2 => call[a].at = "sent"
  BY <1>2 DEF IInv, Calls, SendCallback, SendRest
<1>6. /\ g \in Halves /\ g.kind = "callback" /\ g.by = a /\ g.n = Mark(a) /\ g.part = p
      /\ Mark(a) \in Nat
  <2>1. Mark(a) \in Nat
    BY DEF Mark, IInv, SessionTypes, SessionRecord
  <2> QED BY <1>3, <2>1 DEF Half, Halves
<1>7. ASSUME NEW i \in DOMAIN wire[s], wire[s][i].kind = "reply"
      PROVE  ~ (g.by = s /\ g.n <= wire[s][i].n)
  <2> SUFFICES ASSUME a = s PROVE ~ (g.n <= wire[s][i].n)
    BY <1>6
  <2>1. wire[s][i] \in Halves
    BY DEF WInv, Writing
  <2>2. wire[s][i].n \in Nat /\ wire[s][i].n <= ses[s].taken /\ wire[s][i].n # ses[s].taken
    BY <1>5, <1>7, <2>1 DEF WInv, Answered, AnsweredOn, At, Halves
  <2>3. g.n = ses[s].taken /\ g.n \in Nat
    BY <1>6 DEF Mark
  <2> QED BY <2>2, <2>3
<1>8. ASSUME NEW f \in Halves, wire[s] # << >>, f = wire[s][Len(wire[s])], f.part = 1,
             ~ IsRest(g, f)
      PROVE  f.kind = "reply" /\ f.by # a
  <2>1. CASE At(s, "replied") /\ f = Half("reply", s, ses[s].taken, 1)
    BY <1>5, <2>1 DEF At, Half
  <2>2. ASSUME NEW b \in Actors, call[b].at = "sent", sessionsMutex = b,
               f = Half("callback", b, Mark(b), 1)
        PROVE  FALSE
    <3>1. b = a /\ p = 2
      BY <1>2, <1>5, <2>2
    <3> QED BY <1>3, <1>8, <2>2, <3>1 DEF IsRest, Half
  <2> QED BY <1>8, <2>1, <2>2, OpenBy
<1>9. Writing' /\ TornOnlyByReply' /\ AnswersInOrder'
  BY <1>4, <1>6, <1>7, <1>8, Writes
<1>10. /\ \A x \in Sessions \ {s} : wire'[x] = wire[x]
       /\ wire'[s] # << >> /\ wire'[s][Len(wire'[s])] = g
       /\ \A i \in DOMAIN wire'[s] :
             wire'[s][i] = g \/ (i \in DOMAIN wire[s] /\ wire'[s][i] = wire[s][i])
  BY <1>4, <1>6, Written
<1>11. \A b \in Actors \ {a} : call'[b] = call[b]
  BY <1>2 DEF SendCallback, SendRest, Return, IInv, OtherTypes
<1>12. Open'
  <2>1. OpenOn(s)'
    <3>1. CASE p = 1
      <4>1. call'[a].at = "sent" /\ call'[a].to = s
        BY <1>1, <1>2, <3>1 DEF SendCallback, IInv, OtherTypes
      <4>2. g = Half("callback", a, IF a \in Sessions THEN ses'[a].taken ELSE 0, 1)
        BY <1>3, <1>4, <3>1 DEF Mark
      <4>3. wire'[s][Len(wire'[s])] = Half("callback", a, Mark(a)', 1)
        BY <1>10, <4>2 DEF Mark
      <4> QED BY <4>1, <4>3 DEF OpenOn
    <3>2. CASE p = 2
      <4>1. wire'[s][Len(wire'[s])].part = 2
        BY <1>6, <1>10, <3>2
      <4> QED BY <4>1 DEF OpenOn
    <3> QED BY <3>1, <3>2
  <2>2. ASSUME NEW x \in Sessions \ {s} PROVE OpenOn(x)'
    BY <1>1, <1>4, <1>10, <1>11, OpenKept DEF WInv, Open, At
  <2> QED BY <2>1, <2>2 DEF Open
<1>13. Answered'
  <2>1. ASSUME NEW x \in Sessions \ {s} PROVE AnsweredOn(x)'
    BY <1>4, <1>10, AnsweredKept DEF WInv, Answered
  <2>2. AnsweredOn(s)'
    BY <1>4, <1>6, <1>10 DEF WInv, Answered, AnsweredOn, At
  <2> QED BY <2>1, <2>2 DEF Answered
<1> QED BY <1>9, <1>12, <1>13 DEF WInv

\* What a client does that closes or resets its connection.
LEMMA ClientLeaves ==
  ASSUME ses \in [Sessions -> SessionRecord], NEW s \in Sessions, Close(s) \/ Reset(s)
  PROVE  /\ closed' = [closed EXCEPT ![s] = TRUE] /\ wire' = [wire EXCEPT ![s] = << >>]
         /\ UNCHANGED <<call, server, running>>
         /\ \A y \in Sessions : /\ ses'[y].taken = ses[y].taken /\ ses'[y].at = ses[y].at
                                /\ ses'[y].early = ses[y].early
                                /\ ses'[y].reset => ses[y].reset \/ y = s
         /\ \A y \in Sessions \ {s} : ses'[y] = ses[y]
<1>1. CASE Close(s)
  BY <1>1 DEF Close
<1>2. CASE Reset(s)
  <2>1. ses' = [ses EXCEPT ![s].reset = TRUE]
    BY <1>2 DEF Reset
  <2>2. /\ \A y \in Sessions : ses'[y].taken = ses[y].taken /\ ses'[y].at = ses[y].at
        /\ \A y \in Sessions \ {s} : ses'[y] = ses[y]
    BY <2>1 DEF SessionRecord
  <2>3. /\ closed' = [closed EXCEPT ![s] = TRUE] /\ wire' = [wire EXCEPT ![s] = << >>]
        /\ UNCHANGED <<call, server, running>>
    BY <1>2 DEF Reset
  <2>4. \A y \in Sessions : ses'[y].early = ses[y].early
    BY <2>1 DEF SessionRecord
  <2>5. \A y \in Sessions : ses'[y].reset => ses[y].reset \/ y = s
    BY <2>2
  <2> QED BY <2>2, <2>3, <2>4, <2>5
<1> QED BY <1>1, <1>2

\* Nobody reads what was written to a connection that is closed or reset.
LEMMA CloseWrites ==
  ASSUME IInv, WInv, NEW s \in Sessions, Close(s) \/ Reset(s)
  PROVE  WInv'
<1>1. /\ closed' = [closed EXCEPT ![s] = TRUE] /\ wire' = [wire EXCEPT ![s] = << >>]
      /\ UNCHANGED call
      /\ \A y \in Sessions : ses'[y].taken = ses[y].taken /\ ses'[y].at = ses[y].at
      /\ \A y \in Sessions \ {s} : ses'[y] = ses[y]
  BY ClientLeaves DEF IInv, SessionTypes
<1>2. wire'[s] = << >> /\ \A x \in Sessions \ {s} : wire'[x] = wire[x]
  BY <1>1 DEF WInv, Writing
<1>3. Writing'
  <2>1. wire' \in [Sessions -> Seq(Halves)]
    BY <1>1 DEF WInv, Writing
  <2>2. ASSUME NEW x \in Sessions \ {s} PROVE closed'[x] = closed[x]
    BY <1>1 DEF WInv, Writing
  <2>3. closed' \in [Sessions -> BOOLEAN]
    BY <1>1 DEF WInv, Writing
  <2> QED BY <1>2, <2>1, <2>2, <2>3 DEF WInv, Writing
<1>4. DOMAIN wire'[s] = {}
  <2>1. DOMAIN << >> = {}
    OBVIOUS
  <2> QED BY <1>2, <2>1
<1>5. TornOnlyByReply'
  <2>1. ASSUME NEW x \in Sessions \ {s}
        PROVE  \A i \in DOMAIN wire'[x] :
                  LET f == wire'[x][i]
                      h == wire'[x][i + 1]
                  IN  (f.part = 1 /\ i < Len(wire'[x]) /\ ~ IsRest(h, f)) =>
                          /\ "reply" \in {f.kind, h.kind}
                          /\ "callback" \in {f.kind, h.kind}
                          /\ f.by # h.by
    BY <1>2 DEF WInv, TornOnlyByReply
  <2> QED BY <1>4, <2>1 DEF TornOnlyByReply, IsRest
<1>6. AnswersInOrder'
  <2>1. ASSUME NEW x \in Sessions \ {s}
        PROVE  \A i, j \in DOMAIN wire'[x] :
                  LET f == wire'[x][i]
                      h == wire'[x][j]
                  IN  i < j =>
                        /\ (f.kind = "reply" /\ h.kind = "reply") =>
                               f.n < h.n \/ (f.n = h.n /\ f.part < h.part)
                        /\ ~ (f.kind = "reply" /\ h.kind = "callback" /\ h.by = x /\ h.n <= f.n)
    BY <1>2 DEF WInv, AnswersInOrder
  <2> QED BY <1>4, <2>1 DEF AnswersInOrder
<1>7. Open'
  <2>1. \A y \in Sessions : ses'[y].taken = ses[y].taken
    BY <1>1
  <2>2. ASSUME NEW x \in Sessions \ {s} PROVE OpenOn(x)'
    BY <1>1, <1>2, <2>1, OpenKept DEF WInv, Open, At
  <2>3. OpenOn(s)'
    BY <1>2 DEF OpenOn
  <2> QED BY <2>2, <2>3 DEF Open
<1>8. Answered'
  <2>1. ASSUME NEW x \in Sessions \ {s} PROVE AnsweredOn(x)'
    BY <1>1, <1>2, AnsweredKept DEF WInv, Answered
  <2>2. AnsweredOn(s)'
    BY <1>4 DEF AnsweredOn
  <2> QED BY <2>1, <2>2 DEF Answered
<1> QED BY <1>3, <1>5, <1>6, <1>7, <1>8 DEF WInv

-----------------------------------------------------------------------------
\* The other steps write nothing.

\* A step of one session that is not writing its answer, or whose connection is closed.
LEMMA QuietSession ==
  ASSUME IInv, WInv, NEW s \in Sessions, UNCHANGED <<wire, closed, call>>,
         \A x \in Sessions \ {s} : ses'[x] = ses[x],
         \/ /\ ses'[s].taken = ses[s].taken + 1 /\ At(s, "polling")
         \/ /\ ses'[s].taken = ses[s].taken
            /\ At(s, "replied") => closed[s]
            /\ ses'[s].at # "replied"
            /\ ses'[s].at \in {"calling", "handling", "replying"} =>
                  ses[s].at \in {"calling", "handling", "replying"}
  PROVE  WInv'
<1>1. \A a \in Actors : call[a].at = "sent" /\ ~ closed[call[a].to] => call'[a] = call[a]
  OBVIOUS
<1>2. At(s, "polling") => ~ At(s, "replied") /\ call[s].at # "sent"
  BY DEF IInv, Calls, At, Actors
<1>3. ASSUME NEW x \in Sessions
      PROVE  \/ /\ ses'[x].taken = ses[x].taken + 1
                /\ ~ At(x, "replied") /\ call[x].at # "sent"
             \/ /\ ses'[x].taken = ses[x].taken
                /\ At(x, "replied") /\ ~ closed[x] => At(x, "replied")'
                /\ At(x, "replied")' => At(x, "replied")
                /\ ses'[x].at \in {"calling", "handling", "replying"} =>
                      ses[x].at \in {"calling", "handling", "replying"}
  BY <1>2 DEF At
<1> QED BY <1>1, <1>3, Quiet

\* A step of another actor, or of the server, that leaves the sessions where they are.
LEMMA QuietActor ==
  ASSUME IInv, WInv, UNCHANGED <<wire, closed>>,
         \A x \in Sessions : ses'[x].at = ses[x].at /\ ses'[x].taken = ses[x].taken,
         \A a \in Actors : call[a].at = "sent" /\ ~ closed[call[a].to] => call'[a] = call[a]
  PROVE  WInv'
<1>1. ASSUME NEW x \in Sessions
      PROVE  /\ ses'[x].taken = ses[x].taken
             /\ At(x, "replied") /\ ~ closed[x] => At(x, "replied")'
             /\ At(x, "replied")' => At(x, "replied")
             /\ ses'[x].at \in {"calling", "handling", "replying"} =>
                   ses[x].at \in {"calling", "handling", "replying"}
  BY DEF At
<1> QED BY <1>1, Quiet

LEMMA ConnectWrites ==
  ASSUME IInv, WInv, NEW s \in Sessions, NEW n \in 0 .. MaxRequests, Connect(s, n)
  PROVE  WInv'
<1>1. /\ UNCHANGED <<wire, closed, call>> /\ At(s, "new")
      /\ ses' = [ses EXCEPT ![s].at = "accepted"]
  BY DEF Connect, Goto
<1>2. ses'[s].at = "accepted" /\ ses'[s].taken = ses[s].taken /\ ~ At(s, "replied")
  BY <1>1 DEF IInv, SessionTypes, SessionRecord, At
<1>3. \A x \in Sessions \ {s} : ses'[x] = ses[x]
  BY <1>1
<1> QED BY <1>1, <1>2, <1>3, QuietSession

\* The steps of run() that write nothing.
LEMMA RunWrites ==
  ASSUME IInv, WInv, NEW s \in Sessions, Session(s), ~ Reply(s), ~ ReplyRest(s)
  PROVE  WInv'
<1>1. ses \in [Sessions -> SessionRecord]
  BY DEF IInv, SessionTypes
<1>2. CASE TakeHandle(s)
  BY <1>1, <1>2, QuietSession DEF TakeHandle, SessionRecord, At
<1>3. CASE AddSession(s)
  BY <1>1, <1>3, QuietSession DEF AddSession, Goto, SessionRecord, At
<1>4. CASE Check(s)
  BY <1>1, <1>4, QuietSession DEF Check, SessionRecord, At
<1>5. CASE ReadMessage(s)
  BY <1>1, <1>5, QuietSession DEF ReadMessage, SessionRecord
<1>6. CASE SkipMessage(s)
  BY <1>1, <1>6, QuietSession DEF SkipMessage, SessionRecord
<1>7. CASE PollTimeOut(s)
  BY <1>1, <1>7, QuietSession DEF PollTimeOut, Goto, SessionRecord, At
<1>8. CASE SeeClosed(s)
  BY <1>1, <1>8, QuietSession DEF SeeClosed, Goto, SessionRecord, At
<1>9. CASE Throws(s) \/ UnknownMethod(s)
  BY <1>1, <1>9, QuietSession DEF Throws, UnknownMethod, Goto, SessionRecord, At
<1>10. CASE EnterHandler(s)
  BY <1>1, <1>10, QuietSession DEF EnterHandler, SessionRecord, At
<1>11. CASE \E b \in BOOLEAN : LeaveHandler(s, b)
  BY <1>1, <1>11, QuietSession DEF LeaveHandler, SessionRecord, At
<1>12. CASE ReplyFails(s)
  BY <1>1, <1>12, QuietSession DEF ReplyFails, Goto, SessionRecord
<1>13. CASE RemoveSession(s)
  BY <1>1, <1>13, QuietSession DEF RemoveSession, Goto, SessionRecord, At
<1> QED
  BY <1>2, <1>3, <1>4, <1>5, <1>6, <1>7, <1>8, <1>9, <1>10, <1>11, <1>12, <1>13 DEF Session

LEMMA ActorWrites ==
  ASSUME IInv, WInv, NEW a \in Actors,
         \/ \E h \in 0 .. lastHandle - 1 : FindSession(a, h)
         \/ FindCallback(a) \/ SendFails(a)
         \/ \E b \in BOOLEAN : SetRegistered(a, b)
  PROVE  WInv'
<1>1. ses \in [Sessions -> SessionRecord]
  BY DEF IInv, SessionTypes
<1>2. ASSUME Spend(a)
      PROVE  \A x \in Sessions : ses'[x].at = ses[x].at /\ ses'[x].taken = ses[x].taken
  BY <1>1, <1>2 DEF Spend, SessionRecord
<1>3. CASE \E h \in 0 .. lastHandle - 1 : FindSession(a, h)
  <2>1. UNCHANGED <<wire, closed>> /\ Spend(a) /\ call[a].at = "none"
    BY <1>3 DEF FindSession, MayCall, NotCalling
  <2>2. \A b \in Actors \ {a} : call'[b] = call[b]
    BY <1>3 DEF FindSession, IInv, OtherTypes
  <2> QED BY <1>2, <2>1, <2>2, QuietActor
<1>4. CASE FindCallback(a) \/ SendFails(a)
  <2>1. /\ UNCHANGED <<wire, closed, ses>>
        /\ call[a].at = "sent" => closed[call[a].to]
        /\ \A b \in Actors \ {a} : call'[b] = call[b]
    BY <1>4 DEF FindCallback, SendFails, Return, IInv, OtherTypes
  <2> QED BY <2>1, QuietActor
<1>5. CASE \E b \in BOOLEAN : SetRegistered(a, b)
  BY <1>2, <1>5, QuietActor DEF SetRegistered
<1> QED BY <1>3, <1>4, <1>5

LEMMA EveryWrite ==
  ASSUME IInv, WInv, [Next]_vars
  PROVE  WInv'
<1>1. CASE SetRunning \/ StopServer \/ UNCHANGED vars
  BY <1>1, QuietActor DEF SetRunning, StopServer, vars
<1>2. CASE \E s \in Sessions : \E n \in 0 .. MaxRequests : Connect(s, n)
  BY <1>2, ConnectWrites
<1>3. CASE \E s \in Sessions : Close(s) \/ Reset(s) \/ Session(s)
  BY <1>3, CloseWrites, ReplyWrites, ReplyRestWrites, RunWrites
<1>4. CASE \E a \in Actors : \/ \E h \in 0 .. lastHandle - 1 : FindSession(a, h)
                             \/ Sending(a)
                             \/ \E b \in BOOLEAN : SetRegistered(a, b)
  BY <1>4, ActorWrites, CallbackWrites DEF Sending
<1> QED BY <1>1, <1>2, <1>3, <1>4 DEF Next

LEMMA NothingWritten == Init => WInv
<1> SUFFICES ASSUME Init PROVE WInv
  OBVIOUS
<1>1. \A s \in Sessions : wire[s] = << >> /\ ~ closed[s]
  BY DEF Init
<1>2. DOMAIN << >> = {}
  OBVIOUS
<1>3. Writing
  BY DEF Init, Writing
<1>4. Open /\ Answered
  BY <1>1, <1>2 DEF Open, OpenOn, Answered, AnsweredOn
<1>5. TornOnlyByReply /\ AnswersInOrder
  BY <1>1, <1>2 DEF TornOnlyByReply, AnswersInOrder
<1> QED BY <1>3, <1>4, <1>5 DEF WInv

\* What is true of the connections (NymphSession::send, whose sendBytes is not one
\* write) in every state: a frame left open has an owner about to complete it, and no
\* request beyond the one a session works on has been answered.
THEOREM WiresInductive == Spec => []WInv
<1>1. Init => WInv
  BY NothingWritten
<1>2. IInv /\ WInv /\ [Next]_vars => WInv'
  BY EveryWrite
<1> QED BY <1>1, <1>2, SessionsInductive, PTL DEF Spec

\* The halves of a frame are torn apart only where a session's answer, sent with no
\* lock held, meets a callback of somebody else: callCallback keeps sessionsMutex, so
\* two callbacks never mix.
THEOREM CallbacksNeverMix == Spec => []TornOnlyByReply
<1>1. WInv => TornOnlyByReply
  BY DEF WInv
<1> QED BY <1>1, WiresInductive, PTL

\* A session (run) answers its requests in the order they came, each at most once, and
\* a handler's callback to its own caller is complete before that answer begins.
THEOREM RequestsAnsweredInOrder == Spec => []AnswersInOrder
<1>1. WInv => AnswersInOrder
  BY DEF WInv
<1> QED BY <1>1, WiresInductive, PTL

-----------------------------------------------------------------------------
\* Why a session ends.

Out == {"leaving", "ended", "thrown"}

\* The server runs between its start and its stop.
Running == running <=> server = "running"

\* A session that a client's reset has ended has its connection closed.
ResetCloses == \A s \in Sessions : ses[s].reset => closed[s]

Ending == Running /\ EndsForAReason /\ ResetCloses

\* A step of a session that leaves the connections open and the server as it is.
LEMMA EndsKept ==
  ASSUME Ending, NEW s \in Sessions, UNCHANGED <<server, running, closed>>,
         \A x \in Sessions \ {s} : ses'[x] = ses[x],
         ses[s].at \notin Out \/ ses'[s].early = ses[s].early,
         ses'[s].reset = ses[s].reset,
         ses'[s].at \in Out /\ ses[s].at \notin Out =>
            closed[s] \/ server = "stopped" \/ ses'[s].early
  PROVE  Ending'
BY DEF Ending, Running, EndsForAReason, ResetCloses, Out

\* A step that leaves every session where it is.
LEMMA EndsApart ==
  ASSUME Ending, UNCHANGED <<server, running>>,
         \A x \in Sessions : /\ ses'[x].at = ses[x].at /\ ses'[x].early = ses[x].early
                             /\ closed[x] => closed'[x]
                             /\ ses'[x].reset => ses[x].reset \/ closed'[x]
  PROVE  Ending'
BY DEF Ending, Running, EndsForAReason, ResetCloses, Out

LEMMA ServerEnds ==
  ASSUME Ending, SetRunning \/ StopServer
  PROVE  Ending'
BY DEF Ending, Running, EndsForAReason, ResetCloses, Out, SetRunning, StopServer

LEMMA ClientEnds ==
  ASSUME IInv, WInv, Ending, NEW s \in Sessions,
         (\E n \in 0 .. MaxRequests : Connect(s, n)) \/ Close(s) \/ Reset(s)
  PROVE  Ending'
<1>1. CASE Close(s) \/ Reset(s)
  <2>1. /\ closed' = [closed EXCEPT ![s] = TRUE] /\ UNCHANGED <<server, running>>
        /\ \A x \in Sessions : /\ ses'[x].at = ses[x].at /\ ses'[x].early = ses[x].early
                               /\ ses'[x].reset => ses[x].reset \/ x = s
    BY <1>1, ClientLeaves DEF IInv, SessionTypes
  <2>2. \A x \in Sessions : closed'[x] <=> closed[x] \/ x = s
    BY <2>1 DEF WInv, Writing
  <2> QED BY <2>1, <2>2, EndsApart
<1>2. CASE \E n \in 0 .. MaxRequests : Connect(s, n)
  <2>1. /\ UNCHANGED <<server, running, closed>>
        /\ ses[s].at = "new" /\ ses' = [ses EXCEPT ![s].at = "accepted"]
    BY <1>2 DEF Connect, Goto, At
  <2>2. ses'[s].at = "accepted" /\ ses'[s].reset = ses[s].reset
    BY <2>1 DEF IInv, SessionTypes, SessionRecord
  <2> QED BY <2>1, <2>2, EndsKept DEF Out
<1> QED BY <1>1, <1>2

\* The steps of run(): only Check, SeeClosed and Throws leave the loop.
LEMMA RunEnds ==
  ASSUME IInv, Ending, NEW s \in Sessions, Session(s)
  PROVE  Ending'
<1>1. ses \in [Sessions -> SessionRecord]
  BY DEF IInv, SessionTypes
<1>2. CASE Check(s)
  <2>1. /\ UNCHANGED <<server, running, closed>>
        /\ ses[s].at = "checking" /\ \A x \in Sessions \ {s} : ses'[x] = ses[x]
        /\ ses'[s].at = IF running THEN "polling" ELSE "leaving"
        /\ ses'[s].early = (ses[s].early \/ server = "started")
        /\ ses'[s].reset = ses[s].reset
    BY <1>1, <1>2 DEF Check, At, SessionRecord
  <2>2. running \/ server \in {"started", "stopped"}
    BY DEF Ending, Running, IInv, OtherTypes
  <2> QED BY <2>1, <2>2, EndsKept DEF Out
<1>3. CASE SeeClosed(s) \/ Throws(s)
  BY <1>1, <1>3, EndsKept DEF Ending, ResetCloses, SeeClosed, Throws, Goto, SessionRecord, At, Out
<1>4. CASE RemoveSession(s)
  BY <1>1, <1>4, EndsKept DEF RemoveSession, Goto, SessionRecord, At, Out
<1>5. CASE TakeHandle(s) \/ AddSession(s)
  BY <1>1, <1>5, EndsKept DEF TakeHandle, AddSession, Goto, SessionRecord, At, Out
<1>6. CASE ReadMessage(s) \/ SkipMessage(s) \/ PollTimeOut(s)
  BY <1>1, <1>6, EndsKept DEF ReadMessage, SkipMessage, PollTimeOut, Goto, SessionRecord,
         At, Out
<1>7. CASE UnknownMethod(s) \/ EnterHandler(s)
  BY <1>1, <1>7, EndsKept DEF UnknownMethod, EnterHandler, Goto, SessionRecord, At, Out
<1>8. CASE \E b \in BOOLEAN : LeaveHandler(s, b)
  BY <1>1, <1>8, EndsKept DEF LeaveHandler, SessionRecord, At, Out
<1>9. CASE Reply(s) \/ ReplyRest(s) \/ ReplyFails(s)
  BY <1>1, <1>9, EndsKept DEF Reply, ReplyRest, ReplyFails, Goto, SessionRecord, At, Out
<1> QED BY <1>2, <1>3, <1>4, <1>5, <1>6, <1>7, <1>8, <1>9 DEF Session

LEMMA ActorEnds ==
  ASSUME IInv, Ending, NEW a \in Actors,
         \/ \E h \in 0 .. lastHandle - 1 : FindSession(a, h)
         \/ Sending(a)
         \/ \E b \in BOOLEAN : SetRegistered(a, b)
  PROVE  Ending'
<1>1. ses \in [Sessions -> SessionRecord]
  BY DEF IInv, SessionTypes
<1>2. CASE Sending(a)
  BY <1>2, EndsApart DEF Sending, FindCallback, SendCallback, SendRest, SendFails
<1>3. ASSUME Spend(a)
      PROVE  \A x \in Sessions : /\ ses'[x].at = ses[x].at /\ ses'[x].early = ses[x].early
                                 /\ ses'[x].reset = ses[x].reset
  BY <1>1, <1>3 DEF Spend, SessionRecord
<1>4. CASE \E h \in 0 .. lastHandle - 1 : FindSession(a, h)
  <2>1. UNCHANGED <<server, running, closed>> /\ Spend(a)
    BY <1>4 DEF FindSession
  <2> QED BY <1>3, <2>1, EndsApart
<1>5. CASE \E b \in BOOLEAN : SetRegistered(a, b)
  BY <1>3, <1>5, EndsApart DEF SetRegistered
<1> QED BY <1>2, <1>4, <1>5

\* A session ends because its client closed or reset the connection or the server
\* stopped, or because it looked at NymphServer::running before start() had set it.
THEOREM SessionsEndForAReason == Spec => []EndsForAReason
<1>1. Init => Ending
  BY DEF Init, Ending, Running, EndsForAReason, ResetCloses
<1>2. ASSUME IInv, WInv, Ending, [Next]_vars
      PROVE  Ending'
  <2>1. CASE SetRunning \/ StopServer
    BY <1>2, <2>1, ServerEnds
  <2>2. CASE \E s \in Sessions :
                (\E n \in 0 .. MaxRequests : Connect(s, n)) \/ Close(s) \/ Reset(s)
    BY <1>2, <2>2, ClientEnds
  <2>3. CASE \E s \in Sessions : Session(s)
    BY <1>2, <2>3, RunEnds
  <2>4. CASE \E a \in Actors : \/ \E h \in 0 .. lastHandle - 1 : FindSession(a, h)
                               \/ Sending(a)
                               \/ \E b \in BOOLEAN : SetRegistered(a, b)
    BY <1>2, <2>4, ActorEnds
  <2>5. CASE UNCHANGED vars
    BY <1>2, <2>5 DEF vars, Ending, Running, EndsForAReason, ResetCloses
  <2> QED BY <1>2, <2>1, <2>2, <2>3, <2>4, <2>5 DEF Next
<1>3. Ending => EndsForAReason
  BY DEF Ending
<1> QED BY <1>1, <1>2, <1>3, SessionsInductive, WiresInductive, PTL DEF Spec
=============================================================================
