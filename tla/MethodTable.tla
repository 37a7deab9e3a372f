----------------------------- MODULE MethodTable -----------------------------
(***************************************************************************)
(* The method tables of both sides: the server's registry                   *)
(* (NymphRemoteClient::registerMethod, removeMethod, syncMethods,           *)
(* callMethodCallback) and the tables a connection builds from it           *)
(* (NymphServerInstance::sync, addMethod, callMethod, callMethodId,         *)
(* removeMethod).                                                           *)
(*                                                                          *)
(* A NymphMethod object is named by the id it was registered under, its     *)
(* own id: methods maps a name to the object the map holds, methodsIds maps  *)
(* an id to the object it points to.  A pointer whose object was erased from *)
(* the map dangles.  How a call travels and what it waits for is RemoteCall. *)
(***************************************************************************)
EXTENDS Naturals, FiniteSets

CONSTANTS
    Clients,         \* connections, each with its session on the server
    Names,           \* the names an application registers
    MaxId,           \* bound on method ids
    ServerRemoves,   \* names the server's application may remove
    ClientRemoves,   \* names the clients' applications may remove
    RemovesUnknown,  \* whether the server may remove a name it does not have
    None,
    Garbage          \* bytes of a list that do not parse

Ids == 0..MaxId

ASSUME TableAssumption ==
    /\ MaxId \in Nat
    /\ ServerRemoves \subseteq Names /\ ClientRemoves \subseteq Names
    /\ RemovesUnknown \in BOOLEAN
    /\ None \notin Ids \cup Names \cup Clients
    /\ Garbage \notin Ids \cup {None}
    /\ "nymphsync" \notin Names \cup {None}

VARIABLES
    \* server
    methods, methodsIds, nextMethodId,
    registered,         \* history: the name each id was given to
    object,             \* history: the object each id was made to point to
    methodsMutex,       \* the session inside syncMethods, or None
    serializedMethods,  \* id to the object listed under it
    \* connections
    phase,              \* where connect is
    listing,            \* the list in the reply to nymphsync
    parsed,             \* the first id of the list that sync has not come to
    cmethods, cids, cnext,   \* methods, methodIds, nextMethodId of the instance
    wire,               \* the request on its way to the server
    ran                 \* history: what the server ran for the last request

serverVars == <<methods, methodsIds, nextMethodId, registered, object>>
syncVars   == <<methodsMutex, serializedMethods>>
listVars   == <<phase, listing, parsed>>
clientVars == <<cmethods, cids, cnext>>
callVars   == <<wire, ran>>
vars == <<serverVars, syncVars, listVars, clientVars, callVars>>

AllNames == Names \cup {"nymphsync"}
Nothing  == [i \in Ids |-> None]
NoNames  == [n \in AllNames |-> None]
SyncOnly == [i \in Ids |-> IF i = 0 THEN 0 ELSE None]
SyncName == [n \in AllNames |-> IF n = "nymphsync" THEN 0 ELSE None]

\* The object with own id o is still in the map m.
Live(o, m) == \E n \in AllNames : m[n] = o

\* init has registered nymphsync.
Init ==
    /\ methods = SyncName
    /\ methodsIds = SyncOnly
    /\ nextMethodId = 1
    /\ registered = [i \in Ids |-> IF i = 0 THEN "nymphsync" ELSE None]
    /\ object = SyncOnly
    /\ methodsMutex = None
    /\ serializedMethods = Nothing
    /\ phase = [c \in Clients |-> "closed"]
    /\ listing = [c \in Clients |-> Nothing]
    /\ parsed = [c \in Clients |-> 0]
    /\ cmethods = [c \in Clients |-> NoNames]
    /\ cids = [c \in Clients |-> Nothing]
    /\ cnext = [c \in Clients |-> 0]
    /\ wire = [c \in Clients |-> None]
    /\ ran = [c \in Clients |-> None]

-----------------------------------------------------------------------------
(* The server's registry. *)

\* map::insert keeps the object of a name that is registered already; the new
\* id then points to that object.
RegisterMethod(n) ==
    /\ methodsMutex = None
    /\ nextMethodId \in Ids
    /\ methods' = IF methods[n] = None THEN [methods EXCEPT ![n] = nextMethodId]
                                       ELSE methods
    /\ methodsIds' = [methodsIds EXCEPT ![nextMethodId] = methods'[n]]
    /\ registered' = [registered EXCEPT ![nextMethodId] = n]
    /\ object' = [object EXCEPT ![nextMethodId] = methods'[n]]
    /\ nextMethodId' = nextMethodId + 1
    /\ UNCHANGED <<syncVars, listVars, clientVars, callVars>>

\* Mutants of RemoveMethod: one of the two maps is forgotten.
RemoveIdOnly(n) ==
    /\ methodsMutex = None
    /\ methods[n] # None
    /\ methodsIds' = [methodsIds EXCEPT ![methods[n]] = None]
    /\ UNCHANGED <<methods, nextMethodId, registered, object, syncVars, listVars, clientVars, callVars>>

RemoveNameOnly(n) ==
    /\ methodsMutex = None
    /\ methods[n] # None
    /\ methods' = [methods EXCEPT ![n] = None]
    /\ UNCHANGED <<methodsIds, nextMethodId, registered, object, syncVars, listVars, clientVars, callVars>>

\* The object and the entry under its own id go; other ids that point to it stay.
RemoveMethod(n) ==
    /\ methodsMutex = None
    /\ methods[n] # None
    /\ methods' = [methods EXCEPT ![n] = None]
    /\ methodsIds' = [methodsIds EXCEPT ![methods[n]] = None]
    /\ UNCHANGED <<nextMethodId, registered, object, syncVars, listVars, clientVars, callVars>>

\* The id is read through the end iterator: it may be any number, and the entry
\* under that number is erased.
RemoveUnknown(n) ==
    /\ RemovesUnknown
    /\ methodsMutex = None
    /\ methods[n] = None
    /\ \E i \in Ids : methodsIds' = [methodsIds EXCEPT ![i] = None]
    /\ UNCHANGED <<methods, nextMethodId, registered, object, syncVars, listVars, clientVars, callVars>>

-----------------------------------------------------------------------------
(* Synchronisation, on the server.  synced is never set, so every nymphsync  *)
(* rebuilds the one static string; the reply points into that string and is   *)
(* copied from it by the session after it has released methodsMutex.          *)

SyncBegin(c) ==
    /\ phase[c] = "asked"
    /\ methodsMutex = None
    /\ methodsIds[0] # None
    /\ methodsMutex' = c
    /\ phase' = [phase EXCEPT ![c] = "building"]
    /\ UNCHANGED <<serverVars, serializedMethods, listing, parsed, clientVars, callVars>>

\* Without an entry for nymphsync the session drops the request; connect gives up
\* when its call has timed out.
SyncDropped(c) ==
    /\ phase[c] = "asked"
    /\ methodsMutex = None
    /\ methodsIds[0] = None
    /\ phase' = [phase EXCEPT ![c] = "failed"]
    /\ UNCHANGED <<serverVars, syncVars, listing, parsed, clientVars, callVars>>

\* An erased object may still hold its bytes, or not.
SyncEnd(c) ==
    /\ phase[c] = "building"
    /\ \E freed \in SUBSET {i \in Ids : methodsIds[i] # None /\ ~ Live(methodsIds[i], methods)} :
          serializedMethods' = [i \in Ids |-> IF i \in freed THEN Garbage ELSE methodsIds[i]]
    /\ listing' = [listing EXCEPT ![c] = serializedMethods']
    /\ methodsMutex' = None
    /\ phase' = [phase EXCEPT ![c] = "built"]
    /\ UNCHANGED <<serverVars, parsed, clientVars, callVars>>

\* What the session reads when another session has rebuilt the string since, or
\* is doing so: old, new or broken parts.
Torn(old, new) ==
    {[i \in Ids |-> IF i \in broken THEN Garbage ELSE IF i \in fresh THEN new[i] ELSE old[i]] :
        broken \in SUBSET {i \in Ids : old[i] # None \/ new[i] # None}, fresh \in SUBSET Ids}

SyncReply(c) ==
    /\ phase[c] = "built"
    /\ \E list \in IF methodsMutex = None /\ serializedMethods = listing[c]
                   THEN {listing[c]} ELSE Torn(listing[c], serializedMethods) :
          listing' = [listing EXCEPT ![c] = list]
    /\ phase' = [phase EXCEPT ![c] = "parsing"]
    /\ UNCHANGED <<serverVars, syncVars, parsed, clientVars, callVars>>

-----------------------------------------------------------------------------
(* The connection: connect with sync, and disconnect. *)

\* The constructor registers nymphsync under id 0.
Connect(c) ==
    /\ phase[c] \in {"closed", "failed"}
    /\ phase' = [phase EXCEPT ![c] = "asked"]
    /\ listing' = [listing EXCEPT ![c] = Nothing]
    /\ parsed' = [parsed EXCEPT ![c] = 0]
    /\ cmethods' = [cmethods EXCEPT ![c] = SyncName]
    /\ cids' = [cids EXCEPT ![c] = SyncOnly]
    /\ cnext' = [cnext EXCEPT ![c] = 1]
    /\ UNCHANGED <<serverVars, syncVars, callVars>>

\* i is the id of the list that sync comes to next.
NextEntry(c, i) ==
    /\ phase[c] = "parsing"
    /\ i >= parsed[c]
    /\ listing[c][i] # None
    /\ \A j \in Ids : j >= parsed[c] /\ j < i => listing[c][j] = None
    /\ parsed' = [parsed EXCEPT ![c] = i + 1]

\* Mutant of AddMethod: a name that is there already takes no number.
AddNewMethod(c, n) ==
    /\ cmethods' = IF cmethods[c][n] = None THEN [cmethods EXCEPT ![c][n] = cnext[c]]
                                            ELSE cmethods
    /\ cids' = IF cmethods[c][n] = None THEN [cids EXCEPT ![c][cnext[c]] = cnext[c]]
                                        ELSE cids
    /\ cnext' = [cnext EXCEPT ![c] = IF cmethods[c][n] = None THEN @ + 1 ELSE @]

\* addMethod numbers the methods in the order of the list.
AddMethod(c, n) ==
    /\ cmethods' = IF cmethods[c][n] = None THEN [cmethods EXCEPT ![c][n] = cnext[c]]
                                            ELSE cmethods
    /\ cids' = [cids EXCEPT ![c][cnext[c]] = cmethods'[c][n]]
    /\ cnext' = [cnext EXCEPT ![c] = @ + 1]

\* Mutant of SkipSync: nymphsync is added a second time.
AddSync(c) ==
    \E i \in Ids :
        /\ NextEntry(c, i)
        /\ listing[c][i] = 0
        /\ AddMethod(c, "nymphsync")
        /\ UNCHANGED <<serverVars, syncVars, phase, listing, callVars>>

SkipSync(c) ==
    \E i \in Ids :
        /\ NextEntry(c, i)
        /\ listing[c][i] = 0
        /\ UNCHANGED <<serverVars, syncVars, phase, listing, clientVars, callVars>>

ParseMethod(c) ==
    \E i \in Ids :
        /\ NextEntry(c, i)
        /\ listing[c][i] \notin {0, Garbage}
        /\ AddMethod(c, registered[listing[c][i]])
        /\ UNCHANGED <<serverVars, syncVars, phase, listing, callVars>>

\* A signature that is not there ends sync; the methods added so far stay.
RejectList(c) ==
    \E i \in Ids :
        /\ NextEntry(c, i)
        /\ listing[c][i] = Garbage
        /\ phase' = [phase EXCEPT ![c] = "failed"]
        /\ UNCHANGED <<serverVars, syncVars, listing, clientVars, callVars>>

SyncDone(c) ==
    /\ phase[c] = "parsing"
    /\ \A i \in Ids : i >= parsed[c] => listing[c][i] = None
    /\ phase' = [phase EXCEPT ![c] = "ready"]
    /\ UNCHANGED <<serverVars, syncVars, listing, parsed, clientVars, callVars>>

\* A request that was sent before may still be handled.
Disconnect(c) ==
    /\ phase[c] = "ready"
    /\ phase' = [phase EXCEPT ![c] = "closed"]
    /\ listing' = [listing EXCEPT ![c] = Nothing]
    /\ parsed' = [parsed EXCEPT ![c] = 0]
    /\ cmethods' = [cmethods EXCEPT ![c] = NoNames]
    /\ cids' = [cids EXCEPT ![c] = Nothing]
    /\ cnext' = [cnext EXCEPT ![c] = 0]
    /\ UNCHANGED <<serverVars, syncVars, callVars>>

-----------------------------------------------------------------------------
(* Calls. *)

\* The list had every id from 0 on, without gaps.
WithoutGaps(list) ==
    \E n \in Ids : \A i \in Ids : IF i <= n THEN list[i] \in Ids ELSE list[i] = None

\* exact: the table the request was composed from came from a list without
\* gaps, and from an object that exists.
Request(id, asked, exact) == [id |-> id, asked |-> asked, exact |-> exact]

SendRequest(c, id, asked, exact) ==
    /\ phase[c] = "ready"
    /\ wire[c] = None
    /\ wire' = [wire EXCEPT ![c] = Request(id, asked, exact)]
    /\ ran' = [ran EXCEPT ![c] = None]
    /\ UNCHANGED <<serverVars, syncVars, listVars, clientVars>>

CallMethod(c, n) ==
    /\ cmethods[c][n] # None
    /\ SendRequest(c, cmethods[c][n], n, WithoutGaps(listing[c]))

\* The user means the method the server registered under the id.
CallMethodId(c, i) ==
    /\ cids[c][i] # None
    /\ Live(cids[c][i], cmethods[c])
    /\ SendRequest(c, cids[c][i], registered[i], WithoutGaps(listing[c]))

\* removeMethod has left the pointer to the object it erased: the id that is
\* sent is whatever the memory holds.
CallErasedMethod(c, i) ==
    /\ cids[c][i] # None
    /\ ~ Live(cids[c][i], cmethods[c])
    /\ \E id \in Ids : SendRequest(c, id, registered[i], FALSE)

\* The session runs the method, under methodsMutex; what an erased object runs
\* is not determined.  A request for an id that is not there is dropped.
CallMethodCallback(c) ==
    /\ wire[c] # None
    /\ methodsMutex = None
    /\ LET o == methodsIds[wire[c].id] IN
       \/ /\ o = None
          /\ ran' = ran
       \/ /\ o # None
          /\ \E n \in IF Live(o, methods) THEN {registered[o]} ELSE AllNames :
                ran' = [ran EXCEPT ![c] = [asked |-> wire[c].asked, got |-> n,
                                           exact |-> wire[c].exact]]
    /\ wire' = [wire EXCEPT ![c] = None]
    /\ UNCHANGED <<serverVars, syncVars, listVars, clientVars>>

ClientRemoveMethod(c, n) ==
    /\ phase[c] = "ready"
    /\ cmethods[c][n] # None
    /\ cmethods' = [cmethods EXCEPT ![c][n] = None]
    /\ UNCHANGED <<serverVars, syncVars, listVars, cids, cnext, callVars>>

-----------------------------------------------------------------------------

ServerStep ==
    \/ \E n \in Names : RegisterMethod(n)
    \/ \E n \in ServerRemoves : RemoveMethod(n)
    \/ \E n \in ServerRemoves : RemoveUnknown(n)

SyncStep(c) ==
    \/ SyncBegin(c) \/ SyncDropped(c) \/ SyncEnd(c) \/ SyncReply(c)
    \/ Connect(c) \/ SkipSync(c) \/ ParseMethod(c) \/ RejectList(c) \/ SyncDone(c)
    \/ Disconnect(c)

CallStep(c) ==
    \/ \E n \in Names : CallMethod(c, n)
    \/ \E i \in Ids : CallMethodId(c, i) \/ CallErasedMethod(c, i)
    \/ \E n \in ClientRemoves : ClientRemoveMethod(c, n)
    \/ CallMethodCallback(c)

Next == ServerStep \/ \E c \in Clients : SyncStep(c) \/ CallStep(c)

Spec == Init /\ [][Next]_vars

-----------------------------------------------------------------------------
(* Properties. *)

ListType == [Ids -> Ids \cup {None, Garbage}]

TypeOK ==
    /\ methods \in [AllNames -> Ids \cup {None}]
    /\ methodsIds \in [Ids -> Ids \cup {None}]
    /\ nextMethodId \in 1..(MaxId + 1)
    /\ registered \in [Ids -> AllNames \cup {None}]
    /\ object \in [Ids -> Ids \cup {None}]
    /\ methodsMutex \in Clients \cup {None}
    /\ serializedMethods \in ListType
    /\ phase \in [Clients -> {"closed", "asked", "building", "built", "parsing", "ready", "failed"}]
    /\ listing \in [Clients -> ListType]
    /\ parsed \in [Clients -> 0..(MaxId + 1)]
    /\ cmethods \in [Clients -> [AllNames -> Ids \cup {None}]]
    /\ cids \in [Clients -> [Ids -> Ids \cup {None}]]
    /\ cnext \in [Clients -> 0..(MaxId + 1)]
    /\ wire \in [Clients -> [id : Ids, asked : AllNames, exact : BOOLEAN] \cup {None}]
    /\ ran \in [Clients -> [asked : AllNames, got : AllNames, exact : BOOLEAN] \cup {None}]

\* The method the server runs is the one the caller named, or the one registered
\* under the id the caller gave.  It does not hold: the client numbers the
\* methods anew, and after a removal on the server its numbers are others.
NamedMethodRuns == \A c \in Clients : ran[c] # None => ran[c].got = ran[c].asked

\* It does hold for every connection whose list was without gaps, whatever the
\* server registers again or removes before the request arrives, and although
\* the list may be put together from two.
ExactTableRunsNamed ==
    \A c \in Clients : ran[c] # None /\ ran[c].exact => ran[c].got = ran[c].asked

\* A method that is registered can be reached by its own id: registerMethod and
\* removeMethod keep the two maps in step, unless an unknown name is removed.
MethodsResolve ==
    \A n \in AllNames : methods[n] # None => methodsIds[methods[n]] = methods[n]

\* Every id of the server's table points to an object in methods.  It does not
\* always hold: a name registered twice leaves an id behind when it is removed.
NoDanglingId ==
    \A i \in Ids : methodsIds[i] # None => Live(methodsIds[i], methods)

\* But an id that dangles leaves a gap: while every id given out is in the table,
\* syncMethods and callMethodCallback meet no erased object.
DanglingLeavesGap ==
    (\A i \in Ids : i < nextMethodId => methodsIds[i] # None) => NoDanglingId

-----------------------------------------------------------------------------
(* The inductive invariant of MethodTableProofs. *)

\* Ids are given out in order, once, and each to a name and an object whose own
\* id was given to the same name.
Numbering ==
    /\ registered[0] = "nymphsync" /\ object[0] = 0
    /\ \A i \in Ids :
          /\ registered[i] = None <=> i >= nextMethodId
          /\ i # 0 => registered[i] # "nymphsync"
          /\ i < nextMethodId =>
                /\ object[i] \in Ids /\ object[i] <= i
                /\ object[object[i]] = object[i]
                /\ registered[object[i]] = registered[i]

\* The two maps of the server hold what was registered, or nothing; an entry
\* under an object's own id is removed with the object.
ServerTables ==
    /\ \A n \in AllNames : methods[n] # None =>
          registered[methods[n]] = n /\ object[methods[n]] = methods[n]
    /\ \A i \in Ids : methodsIds[i] # None => i < nextMethodId /\ methodsIds[i] = object[i]
    /\ \A i \in Ids : methodsIds[i] = i => methods[registered[i]] = i

ListOf(list) ==
    \A i \in Ids : list[i] # None => i < nextMethodId /\ list[i] \in {object[i], Garbage}

\* A list has at each id what was registered under it, nothing, or garbage.
Lists == ListOf(serializedMethods) /\ \A c \in Clients : ListOf(listing[c])

\* The client has given out no more numbers than sync has come past, and exactly
\* as many when the list is without gaps.
ClientNumbers(c) ==
    /\ phase[c] \in {"asked", "building", "built"} =>
          /\ parsed[c] = 0 /\ cnext[c] = 1
          /\ cmethods[c] = SyncName /\ cids[c] = SyncOnly
    /\ parsed[c] <= nextMethodId
    /\ cnext[c] <= parsed[c] \/ cnext[c] <= 1
    /\ \A i \in Ids : cids[c][i] # None => i < cnext[c]
    /\ phase[c] \in {"parsing", "ready"} /\ WithoutGaps(listing[c]) =>
          cnext[c] = IF parsed[c] = 0 THEN 1 ELSE parsed[c]

\* Without gaps the client's objects are the server's, under the same ids.
ExactTable(c) ==
    phase[c] \in {"parsing", "ready"} /\ WithoutGaps(listing[c]) =>
        /\ \A n \in AllNames : cmethods[c][n] # None =>
              registered[cmethods[c][n]] = n /\ object[cmethods[c][n]] = cmethods[c][n]
        /\ \A i \in Ids : cids[c][i] # None =>
              registered[cids[c][i]] = registered[i] /\ object[cids[c][i]] = cids[c][i]
        /\ phase[c] = "parsing" =>
              \A i \in Ids : i < cnext[c] => cmethods[c][registered[i]] # None

\* The id in a request from such a table is the own id of an object that was
\* registered under the name the caller meant.
ExactRequest(c) ==
    wire[c] # None /\ wire[c].exact =>
        registered[wire[c].id] = wire[c].asked /\ object[wire[c].id] = wire[c].id

IInv ==
    /\ TypeOK /\ Numbering /\ ServerTables /\ Lists
    /\ \A c \in Clients : ClientNumbers(c) /\ ExactTable(c) /\ ExactRequest(c)
    /\ ExactTableRunsNamed

=============================================================================
