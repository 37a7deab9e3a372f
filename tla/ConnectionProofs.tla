--------------------------- MODULE ConnectionProofs ---------------------------
(***************************************************************************)
(* Proofs about Connection: the types of its variables and three safety    *)
(* properties, for any number of connections, of calls of disconnect, with *)
(* and without shutdown() and sockets that fail to shut down.              *)
(*                                                                          *)
(* Everything but the types is claimed of executions in which no two        *)
(* connects overlapped: IInv then follows the handle from its instance to   *)
(* its listener (Handles, InstanceTable, ListenerTable), the order in which *)
(* the objects of a connection go (Ends, Telling) and shutdown's iterator   *)
(* (Iteration).                                                             *)
(***************************************************************************)
EXTENDS Connection, FiniteSetTheorems, TLAPS

Places == {"new", "inserted", "waiting", "woken", "added", "syncing", "connected"}
Threads == {"none", "starting", "looping", "leaving", "deleting", "ended", "died"}
Object == {"none", "live", "deleted"}

Connection ==
    [at : Places, own : Nat, handle : Nat, given : Nat,
     instance : Object, socket : {"none", "open", "closed", "deleted"},
     ready : Object, listener : Object, listen : BOOLEAN, thread : Threads,
     remote : BOOLEAN, reset : BOOLEAN, told : Nat, early : BOOLEAN]

Types ==
    /\ con \in [Conns -> Connection]
    /\ lastHandle \in Nat /\ cursor \in Nat
    /\ DOMAIN instances \subseteq Nat /\ DOMAIN listeners \subseteq Nat
    /\ \A h \in DOMAIN instances : instances[h] \in Conns
    /\ \A h \in DOMAIN listeners : listeners[h] \in Conns
    /\ shut \in {"no", "visiting", "removed", "advancing", "listeners", "done"}
    /\ misuse \subseteq {"instance", "socket", "ready", "listener", "iterator"}
    /\ overlap \in BOOLEAN /\ failed \in BOOLEAN

\* lastHandle counts the connects that have taken their handle.
Counted == lastHandle = Cardinality({c \in Conns : Given(c)})

\* What connect makes in its course.
Making ==
    /\ \A c \in Conns :
          /\ con[c].at = "new" <=> con[c].instance = "none"
          /\ con[c].at \in {"new", "inserted"} <=> con[c].thread = "none"
          /\ con[c].at = "new" => con[c].told = 0
    /\ \A h \in DOMAIN instances : con[instances[h]].at # "new"

\* One connect at a time, and all of its three uses of lastHandle get the same number,
\* which no other connection has.
Handles ==
    /\ \A c, d \in Conns : InBetween(c) /\ InBetween(d) => c = d
    /\ \A c \in Conns :
          /\ InBetween(c) => con[c].own = lastHandle
          /\ InBetween(c) /\ con[c].at # "inserted" => con[c].handle = lastHandle
          /\ Given(c) => /\ con[c].own < lastHandle
                        /\ con[c].handle = con[c].own /\ con[c].given = con[c].own
    /\ \A c, d \in Conns : Given(c) /\ Given(d) /\ c # d => con[c].own # con[d].own

\* The table of the instances has the live ones, under their handles.
InstanceTable ==
    /\ \A h \in DOMAIN instances :
          con[instances[h]].own = h /\ con[instances[h]].instance = "live"
    /\ shut # "done" => \A c \in Conns : con[c].instance = "live" =>
          con[c].own \in DOMAIN instances /\ instances[con[c].own] = c

\* A listener whose connection is already being taken down is in the table only if
\* it ended before connect entered it.
ListenerTable ==
    \A h \in DOMAIN listeners :
        LET c == listeners[h]
        IN  /\ con[c].handle = h /\ con[c].at \in {"added", "syncing", "connected"}
            /\ \/ con[c].thread \in {"deleting", "ended"}
               \/ con[c].instance # "live" \/ con[c].listener = "deleted"
               => con[c].early

\* The order in which the objects of a connection go.
Ends ==
    \A c \in Conns :
        /\ con[c].instance = "deleted" /\ con[c].at # "connected" =>
              con[c].thread \in {"deleting", "ended"}
        /\ con[c].thread \in {"leaving", "deleting", "ended"} /\ con[c].at # "connected" =>
              con[c].early
        /\ con[c].thread \in {"none", "starting", "looping"} => ~ con[c].early
        /\ con[c].ready = "deleted" => con[c].thread \in {"leaving", "deleting", "ended"}
        /\ con[c].socket = "deleted" => con[c].thread = "ended"
        /\ con[c].listener = "deleted" => con[c].thread = "ended" \/ con[c].early
        /\ con[c].thread \in {"deleting", "ended"} =>
              con[c].instance = "deleted" \/ failed \/ shut = "done"

\* shutdown() begins when no connect is at work, and the listeners it has not
\* stopped yet are at or after its iterator, but for those that ended early.
Iteration ==
    /\ shut # "no" => \A c \in Conns : con[c].at \in {"new", "connected"}
    /\ shut = "visiting" => \A h \in DOMAIN listeners : h >= cursor \/ con[listeners[h]].early
    /\ shut \in {"removed", "advancing"} =>
          \A h \in DOMAIN listeners : h > cursor \/ con[listeners[h]].early
    /\ shut = "listeners" => \A h \in DOMAIN listeners : con[listeners[h]].early
    /\ shut = "done" => DOMAIN instances = {} /\ DOMAIN listeners = {}

\* Whoever takes a connection down tells the user, and does it once unless shutting
\* the socket down failed.  A thread that died untold died of a reset.
Telling ==
    shut = "no" => \A c \in Conns :
        /\ con[c].socket = "closed" \/ con[c].instance = "deleted" => con[c].told >= 1
        /\ con[c].told = 0 \/ failed \/ (con[c].told = 1 /\ con[c].instance = "deleted")
        /\ con[c].thread \in {"deleting", "ended"} => con[c].told >= 1
        /\ con[c].thread = "died" => con[c].told >= 1 \/ con[c].reset

Causes ==
    /\ {"ready", "listener", "instance"} \cap misuse # {} => Early
    /\ "socket" \in misuse => failed \/ Early
    /\ "iterator" \in misuse => shut # "no"

Orderly ==
    /\ Handles /\ InstanceTable /\ ListenerTable
    /\ Ends /\ Iteration /\ Telling /\ Causes

IInv == Types /\ Counted /\ Making /\ (overlap \/ Orderly)

-----------------------------------------------------------------------------
\* Where a step changes neither lastHandle nor who has counted it on.
LEMMA CountKept ==
  ASSUME IInv, lastHandle' = lastHandle, \A x \in Conns : Given(x)' <=> Given(x)
  PROVE  Counted'
<1>1. {x \in Conns : Given(x)'} = {x \in Conns : Given(x)}
  OBVIOUS
<1> QED BY <1>1 DEF IInv, Counted

\* Where a step uses the objects "kinds" of c, gone if at all by an early end.
LEMMA CausesKept ==
  ASSUME IInv, Orderly, NEW c \in Conns, NEW kinds,
         kinds \subseteq {"instance", "socket", "ready", "listener"},
         misuse' = misuse \cup Gone(c, kinds),
         \A k \in kinds : con[c][k] = "deleted" => con[c].early,
         \A x \in Conns : con[x].early => con'[x].early,
         failed => failed', shut' = shut
  PROVE  Causes'
<1>1. Early => Early'
  BY DEF Early
<1>2. \A k \in Gone(c, kinds) : Early /\ k \in {"instance", "socket", "ready", "listener"}
  BY DEF Gone, Early
<1> QED BY <1>1, <1>2 DEF Orderly, Causes

LEMMA StartListenerStep ==
  ASSUME IInv, NEW c \in Conns, StartListener(c)
  PROVE  IInv'
<1>1. /\ con[c].at = "inserted"
      /\ con' = [con EXCEPT ![c].at = "waiting", ![c].handle = lastHandle,
                            ![c].ready = "live", ![c].listener = "live",
                            ![c].thread = "starting"]
      /\ misuse' = misuse \cup Gone(c, {"instance"})
      /\ UNCHANGED <<lastHandle, instances, listeners, shut, cursor, overlap, failed>>
  BY DEF StartListener
<1>2. Types'
  <2>1. con' \in [Conns -> Connection]
    <3>1. /\ con[c] \in Connection /\ lastHandle \in Nat
          /\ "waiting" \in Places /\ "starting" \in Threads /\ "live" \in Object
      BY DEF IInv, Types, Places, Threads, Object
    <3>2. con'[c] \in Connection
      BY <1>1, <3>1 DEF IInv, Types, Connection
    <3> QED BY <1>1, <3>2 DEF IInv, Types
  <2> QED BY <1>1, <2>1 DEF IInv, Types, Gone
<1>3. Counted'
  BY <1>1, CountKept DEF IInv, Types, Given
<1>4. Making'
  BY <1>1 DEF IInv, Types, Making
<1>5. ASSUME ~ overlap' PROVE Orderly'
  <2>1. ~ overlap /\ Orderly
    BY <1>1, <1>5 DEF IInv
  <2>2. Handles'
    BY <1>1, <2>1 DEF IInv, Types, Orderly, Handles, InBetween, Given
  <2>3. InstanceTable'
    BY <1>1, <2>1 DEF IInv, Types, Orderly, InstanceTable
  <2>4. ListenerTable'
    BY <1>1, <2>1 DEF IInv, Types, Orderly, ListenerTable
  <2>5. Ends'
    BY <1>1, <2>1 DEF IInv, Types, Orderly, Ends, Making
  <2>6. Iteration'
    BY <1>1, <2>1 DEF IInv, Types, Orderly, Iteration
  <2>7. Telling'
    BY <1>1, <2>1 DEF IInv, Types, Orderly, Telling
  <2>8. Causes'
    <3>1. ~ (con[c].instance = "deleted")
      BY <1>1, <2>1 DEF IInv, Types, Orderly, Ends, Making
    <3> QED BY <1>1, <2>1, <3>1, CausesKept DEF IInv, Types
  <2> QED BY <2>2, <2>3, <2>4, <2>5, <2>6, <2>7, <2>8 DEF Orderly
<1> QED BY <1>2, <1>3, <1>4, <1>5 DEF IInv

LEMMA SyncEndsStep ==
  ASSUME IInv, NEW c \in Conns, SyncEnds(c)
  PROVE  IInv'
<1>1. /\ con[c].at = "syncing"
      /\ con' = [con EXCEPT ![c].at = "connected"]
      /\ misuse' = misuse \cup Gone(c, {"instance", "socket"}) \cup ListenerGone(con[c].own)
      /\ UNCHANGED <<lastHandle, instances, listeners, shut, cursor, overlap, failed>>
  BY DEF SyncEnds
<1>2. Types'
  BY <1>1 DEF IInv, Types, Connection, Places, Threads, Object, Gone, ListenerGone
<1>3. Counted'
  BY <1>1, CountKept DEF IInv, Types, Given
<1>4. Making'
  BY <1>1 DEF IInv, Types, Making
<1>5. ASSUME ~ overlap' PROVE Orderly'
  <2>1. ~ overlap /\ Orderly
    BY <1>1, <1>5 DEF IInv
  <2>2. Handles'
    BY <1>1, <2>1 DEF IInv, Types, Orderly, Handles, InBetween, Given
  <2>3. InstanceTable'
    BY <1>1, <2>1 DEF IInv, Types, Orderly, InstanceTable
  <2>4. ListenerTable'
    BY <1>1, <2>1 DEF IInv, Types, Orderly, ListenerTable
  <2>5. Ends'
    BY <1>1, <2>1 DEF IInv, Types, Orderly, Ends
  <2>6. Iteration'
    BY <1>1, <2>1 DEF IInv, Types, Orderly, Iteration
  <2>7. Telling'
    BY <1>1, <2>1 DEF IInv, Types, Orderly, Telling
  <2>8. Causes'
    <3>1. \A k \in {"instance", "socket"} : con[c][k] = "deleted" => con[c].early
      <4>1. con[c].instance = "deleted" \/ con[c].socket = "deleted" => con[c].early
        BY <1>1, <2>1 DEF IInv, Types, Orderly, Ends
      <4> QED BY <4>1
    <3>2. Gone(c, {"instance", "socket"}) # {} => Early
      BY <3>1 DEF Gone, Early
    <3>3. ListenerGone(con[c].own) # {} => Early
      BY <2>1 DEF ListenerGone, Gone, Orderly, ListenerTable, Early, IInv, Types
    <3>4. misuse' = misuse \/ Early
      BY <1>1, <3>2, <3>3
    <3>5. Early' = Early
      BY <1>1 DEF IInv, Types, Early
    <3>6. "iterator" \in misuse' => "iterator" \in misuse
      BY <1>1 DEF Gone, ListenerGone
    <3> QED BY <1>1, <2>1, <3>4, <3>5, <3>6 DEF Orderly, Causes
  <2> QED BY <2>2, <2>3, <2>4, <2>5, <2>6, <2>7, <2>8 DEF Orderly
<1> QED BY <1>2, <1>3, <1>4, <1>5 DEF IInv

LEMMA AwakeStep ==
  ASSUME IInv, NEW c \in Conns, Awake(c)
  PROVE  IInv'
<1>1. /\ con[c].at = "woken"
      /\ con' = [con EXCEPT ![c].at = "added"]
      /\ misuse' = misuse \cup Gone(c, {"ready"})
      /\ listeners' = Put(listeners, con[c].handle, c)
      /\ UNCHANGED <<lastHandle, instances, shut, cursor, overlap, failed>>
  BY DEF Awake
<1>2. Types'
  <2>1. con' \in [Conns -> Connection]
    <3>1. /\ con \in [Conns -> Connection]
          /\ "added" \in Places
      BY DEF IInv, Types, Places, Threads, Object
    <3>2. con'[c] \in Connection
      BY <1>1, <3>1 DEF Connection
    <3> QED BY <1>1, <3>1, <3>2
  <2>2. con[c].handle \in Nat
    BY DEF IInv, Types, Connection
  <2>3. /\ DOMAIN listeners' \subseteq Nat
        /\ \A h \in DOMAIN listeners' : listeners'[h] \in Conns
    BY <1>1, <2>2 DEF IInv, Types, Put
  <2> QED BY <1>1, <2>1, <2>3 DEF IInv, Types, Gone
<1>3. Counted'
  BY <1>1, CountKept DEF IInv, Types, Given
<1>4. Making'
  BY <1>1 DEF IInv, Types, Making
<1>5. ASSUME ~ overlap' PROVE Orderly'
  <2>1. ~ overlap /\ Orderly
    BY <1>1, <1>5 DEF IInv
  <2>2. Handles'
    BY <1>1, <2>1 DEF IInv, Types, Orderly, Handles, InBetween, Given
  <2>3. InstanceTable'
    BY <1>1, <2>1 DEF IInv, Types, Orderly, InstanceTable
  <2>4. ListenerTable'
    <3>1. con[c].handle = lastHandle /\ con[c].handle \notin DOMAIN listeners
      BY <1>1, <2>1 DEF IInv, Types, Orderly, Handles, ListenerTable, InBetween, Given
    <3>2. \/ con[c].thread \in {"deleting", "ended"}
          \/ con[c].instance # "live" \/ con[c].listener = "deleted"
          => con[c].early
      BY <1>1, <2>1 DEF IInv, Types, Connection, Object, Making, Orderly, Ends
    <3> QED BY <1>1, <2>1, <3>1, <3>2 DEF IInv, Types, Orderly, ListenerTable, Put
  <2>5. Ends'
    BY <1>1, <2>1 DEF IInv, Types, Orderly, Ends
  <2>6. Iteration'
    <3>1. shut = "no"
      BY <1>1, <2>1 DEF Orderly, Iteration
    <3> QED BY <1>1, <3>1 DEF Iteration
  <2>7. Telling'
    BY <1>1, <2>1 DEF IInv, Types, Orderly, Telling
  <2>8. Causes'
    <3>1. con[c].ready = "deleted" => con[c].early
      BY <1>1, <2>1 DEF IInv, Types, Orderly, Ends, Making
    <3> QED BY <1>1, <2>1, <3>1, CausesKept DEF IInv, Types
  <2> QED BY <2>2, <2>3, <2>4, <2>5, <2>6, <2>7, <2>8 DEF Orderly
<1> QED BY <1>2, <1>3, <1>4, <1>5 DEF IInv

LEMMA WaitTimesOutStep ==
  ASSUME IInv, NEW c \in Conns, WaitTimesOut(c)
  PROVE  IInv'
<1>1. /\ con[c].at = "waiting"
      /\ con' = [con EXCEPT ![c].at = "added"]
      /\ misuse' = misuse \cup Gone(c, {"ready"})
      /\ UNCHANGED <<lastHandle, instances, listeners, shut, cursor, overlap, failed>>
  BY DEF WaitTimesOut
<1>2. Types'
  <2>1. con' \in [Conns -> Connection]
    <3>1. /\ con \in [Conns -> Connection]
          /\ "added" \in Places
      BY DEF IInv, Types, Places, Threads, Object
    <3>2. con'[c] \in Connection
      BY <1>1, <3>1 DEF Connection
    <3> QED BY <1>1, <3>1, <3>2
  <2> QED BY <1>1, <2>1 DEF IInv, Types, Gone
<1>3. Counted'
  BY <1>1, CountKept DEF IInv, Types, Given
<1>4. Making'
  BY <1>1 DEF IInv, Types, Making
<1>5. ASSUME ~ overlap' PROVE Orderly'
  <2>1. ~ overlap /\ Orderly
    BY <1>1, <1>5 DEF IInv
  <2>2. Handles'
    BY <1>1, <2>1 DEF IInv, Types, Orderly, Handles, InBetween, Given
  <2>3. InstanceTable'
    BY <1>1, <2>1 DEF IInv, Types, Orderly, InstanceTable
  <2>4. ListenerTable'
    BY <1>1, <2>1 DEF IInv, Types, Orderly, ListenerTable
  <2>5. Ends'
    BY <1>1, <2>1 DEF IInv, Types, Orderly, Ends
  <2>6. Iteration'
    BY <1>1, <2>1 DEF IInv, Types, Orderly, Iteration
  <2>7. Telling'
    BY <1>1, <2>1 DEF IInv, Types, Orderly, Telling
  <2>8. Causes'
    <3>1. con[c].ready = "deleted" => con[c].early
      BY <1>1, <2>1 DEF IInv, Types, Orderly, Ends, Making
    <3> QED BY <1>1, <2>1, <3>1, CausesKept DEF IInv, Types
  <2> QED BY <2>2, <2>3, <2>4, <2>5, <2>6, <2>7, <2>8 DEF Orderly
<1> QED BY <1>2, <1>3, <1>4, <1>5 DEF IInv

LEMMA RemoteClosesStep ==
  ASSUME IInv, NEW c \in Conns, RemoteCloses(c)
  PROVE  IInv'
<1>1. /\ con' = [con EXCEPT ![c].remote = TRUE]
      /\ UNCHANGED <<lastHandle, instances, listeners, shut, cursor, misuse, overlap, failed>>
  BY DEF RemoteCloses
<1>2. Types'
  <2>1. con' \in [Conns -> Connection]
    <3>1. /\ con \in [Conns -> Connection]
      BY DEF IInv, Types, Places, Threads, Object
    <3>2. con'[c] \in Connection
      BY <1>1, <3>1 DEF Connection
    <3> QED BY <1>1, <3>1, <3>2
  <2> QED BY <1>1, <2>1 DEF IInv, Types, Gone
<1>3. Counted'
  BY <1>1, CountKept DEF IInv, Types, Given
<1>4. Making'
  BY <1>1 DEF IInv, Types, Making
<1>5. ASSUME ~ overlap' PROVE Orderly'
  <2>1. ~ overlap /\ Orderly
    BY <1>1, <1>5 DEF IInv
  <2>2. Handles'
    BY <1>1, <2>1 DEF IInv, Types, Orderly, Handles, InBetween, Given
  <2>3. InstanceTable'
    BY <1>1, <2>1 DEF IInv, Types, Orderly, InstanceTable
  <2>4. ListenerTable'
    BY <1>1, <2>1 DEF IInv, Types, Orderly, ListenerTable
  <2>5. Ends'
    BY <1>1, <2>1 DEF IInv, Types, Orderly, Ends
  <2>6. Iteration'
    BY <1>1, <2>1 DEF IInv, Types, Orderly, Iteration
  <2>7. Telling'
    BY <1>1, <2>1 DEF IInv, Types, Orderly, Telling
  <2>8. Causes'
    BY <1>1, <2>1 DEF IInv, Types, Orderly, Causes, Early
  <2> QED BY <2>2, <2>3, <2>4, <2>5, <2>6, <2>7, <2>8 DEF Orderly
<1> QED BY <1>2, <1>3, <1>4, <1>5 DEF IInv

LEMMA RemoteResetsStep ==
  ASSUME IInv, NEW c \in Conns, RemoteResets(c)
  PROVE  IInv'
<1>1. /\ con' = [con EXCEPT ![c].remote = TRUE, ![c].reset = TRUE]
      /\ UNCHANGED <<lastHandle, instances, listeners, shut, cursor, misuse, overlap, failed>>
  BY DEF RemoteResets
<1>2. Types'
  <2>1. con' \in [Conns -> Connection]
    <3>1. /\ con \in [Conns -> Connection]
      BY DEF IInv, Types, Places, Threads, Object
    <3>2. con'[c] \in Connection
      BY <1>1, <3>1 DEF Connection
    <3> QED BY <1>1, <3>1, <3>2
  <2> QED BY <1>1, <2>1 DEF IInv, Types, Gone
<1>3. Counted'
  BY <1>1, CountKept DEF IInv, Types, Given
<1>4. Making'
  BY <1>1 DEF IInv, Types, Making
<1>5. ASSUME ~ overlap' PROVE Orderly'
  <2>1. ~ overlap /\ Orderly
    BY <1>1, <1>5 DEF IInv
  <2>2. Handles'
    BY <1>1, <2>1 DEF IInv, Types, Orderly, Handles, InBetween, Given
  <2>3. InstanceTable'
    BY <1>1, <2>1 DEF IInv, Types, Orderly, InstanceTable
  <2>4. ListenerTable'
    BY <1>1, <2>1 DEF IInv, Types, Orderly, ListenerTable
  <2>5. Ends'
    BY <1>1, <2>1 DEF IInv, Types, Orderly, Ends
  <2>6. Iteration'
    BY <1>1, <2>1 DEF IInv, Types, Orderly, Iteration
  <2>7. Telling'
    BY <1>1, <2>1 DEF IInv, Types, Orderly, Telling
  <2>8. Causes'
    BY <1>1, <2>1 DEF IInv, Types, Orderly, Causes, Early
  <2> QED BY <2>2, <2>3, <2>4, <2>5, <2>6, <2>7, <2>8 DEF Orderly
<1> QED BY <1>2, <1>3, <1>4, <1>5 DEF IInv

LEMMA ReadyStep ==
  ASSUME IInv, NEW c \in Conns, Ready(c)
  PROVE  IInv'
<1>1. /\ con[c].thread = "starting"
      /\ con' = [con EXCEPT ![c].thread = "looping",
                            ![c].at = IF @ = "waiting" THEN "woken" ELSE @]
      /\ misuse' = misuse \cup Gone(c, {"listener", "ready", "socket"})
      /\ UNCHANGED <<lastHandle, instances, listeners, shut, cursor, overlap, failed>>
  BY DEF Ready
<1>2. Types'
  <2>1. con' \in [Conns -> Connection]
    <3>1. /\ con \in [Conns -> Connection]
          /\ "looping" \in Threads /\ "woken" \in Places
      BY DEF IInv, Types, Places, Threads, Object
    <3>2. con'[c] \in Connection
      BY <1>1, <3>1 DEF Connection
    <3> QED BY <1>1, <3>1, <3>2
  <2> QED BY <1>1, <2>1 DEF IInv, Types, Gone
<1>3. Counted'
  BY <1>1, CountKept DEF IInv, Types, Given
<1>4. Making'
  BY <1>1 DEF IInv, Types, Making
<1>5. ASSUME ~ overlap' PROVE Orderly'
  <2>1. ~ overlap /\ Orderly
    BY <1>1, <1>5 DEF IInv
  <2>2. Handles'
    BY <1>1, <2>1 DEF IInv, Types, Orderly, Handles, InBetween, Given
  <2>3. InstanceTable'
    BY <1>1, <2>1 DEF IInv, Types, Orderly, InstanceTable
  <2>4. ListenerTable'
    BY <1>1, <2>1 DEF IInv, Types, Orderly, ListenerTable
  <2>5. Ends'
    BY <1>1, <2>1 DEF IInv, Types, Orderly, Ends
  <2>6. Iteration'
    BY <1>1, <2>1 DEF IInv, Types, Orderly, Iteration
  <2>7. Telling'
    BY <1>1, <2>1 DEF IInv, Types, Orderly, Telling
  <2>8. Causes'
    <3>1. Gone(c, {"listener", "ready", "socket"}) = {}
      <4>1. con[c].listener # "deleted" /\ con[c].ready # "deleted" /\ con[c].socket # "deleted"
        BY <1>1, <2>1 DEF IInv, Types, Orderly, Ends
      <4> QED BY <4>1 DEF Gone
    <3> QED BY <1>1, <2>1, <3>1 DEF IInv, Types, Orderly, Causes, Early
  <2> QED BY <2>2, <2>3, <2>4, <2>5, <2>6, <2>7, <2>8 DEF Orderly
<1> QED BY <1>2, <1>3, <1>4, <1>5 DEF IInv

LEMMA LeaveLoopStep ==
  ASSUME IInv, NEW c \in Conns, LeaveLoop(c)
  PROVE  IInv'
<1> DEFINE early == con[c].at # "connected"
<1>0. /\ con[c].thread \in {"starting", "looping"} /\ early \in BOOLEAN
      /\ con' = [con EXCEPT ![c].thread = "leaving", ![c].ready = "deleted",
                            ![c].reset = FALSE, ![c].early = early]
      /\ misuse' = misuse \cup Gone(c, {"listener", "ready"})
      /\ UNCHANGED <<lastHandle, instances, listeners, shut, cursor, overlap, failed>>
  BY DEF LeaveLoop
<1>1. /\ con[c].thread \in {"starting", "looping"} /\ early \in BOOLEAN
      /\ con[c].at # "connected" => early
      /\ con' = [con EXCEPT ![c].thread = "leaving", ![c].ready = "deleted",
                            ![c].reset = FALSE, ![c].early = early]
      /\ misuse' = misuse \cup Gone(c, {"listener", "ready"})
      /\ UNCHANGED <<lastHandle, instances, listeners, shut, cursor, overlap, failed>>
  BY <1>0
<1> HIDE DEF early
<1>2. Types'
  <2>1. con' \in [Conns -> Connection]
    <3>1. /\ con \in [Conns -> Connection]
          /\ "leaving" \in Threads /\ "deleted" \in Object
      BY DEF IInv, Types, Places, Threads, Object
    <3>2. con'[c] \in Connection
      BY <1>1, <3>1 DEF Connection
    <3> QED BY <1>1, <3>1, <3>2
  <2> QED BY <1>1, <2>1 DEF IInv, Types, Gone
<1>3. Counted'
  BY <1>1, CountKept DEF IInv, Types, Given
<1>4. Making'
  BY <1>1 DEF IInv, Types, Making
<1>5. ASSUME ~ overlap' PROVE Orderly'
  <2>1. ~ overlap /\ Orderly
    BY <1>1, <1>5 DEF IInv
  <2>2. Handles'
    BY <1>1, <2>1 DEF IInv, Types, Orderly, Handles, InBetween, Given
  <2>3. InstanceTable'
    BY <1>1, <2>1 DEF IInv, Types, Orderly, InstanceTable
  <2>4. ListenerTable'
    <3>1. ~ con[c].early
      BY <1>1, <2>1 DEF Orderly, Ends
    <3> QED BY <1>1, <2>1, <3>1 DEF IInv, Types, Orderly, ListenerTable
  <2>5. Ends'
    BY <1>1, <2>1 DEF IInv, Types, Orderly, Ends
  <2>6. Iteration'
    <3>1. ~ con[c].early
      BY <1>1, <2>1 DEF Orderly, Ends
    <3> QED BY <1>1, <2>1, <3>1 DEF IInv, Types, Orderly, Iteration, ListenerTable
  <2>7. Telling'
    BY <1>1, <2>1 DEF IInv, Types, Orderly, Telling
  <2>8. Causes'
    <3>1. /\ con[c].listener # "deleted" /\ con[c].ready # "deleted"
          /\ ~ con[c].early
      BY <1>1, <2>1 DEF IInv, Types, Orderly, Ends
    <3> QED BY <1>1, <2>1, <3>1, CausesKept DEF IInv, Types
  <2> QED BY <2>2, <2>3, <2>4, <2>5, <2>6, <2>7, <2>8 DEF Orderly
<1> QED BY <1>2, <1>3, <1>4, <1>5 DEF IInv

LEMMA DiesStep ==
  ASSUME IInv, NEW c \in Conns, Dies(c)
  PROVE  IInv'
<1>1. /\ con[c].thread \in {"starting", "looping"}
      /\ con[c].socket = "closed" \/ con[c].reset
      /\ con' = [con EXCEPT ![c].thread = "died"]
      /\ UNCHANGED <<lastHandle, instances, listeners, shut, cursor, misuse, overlap, failed>>
  BY DEF Dies
<1>2. Types'
  <2>1. con' \in [Conns -> Connection]
    <3>1. /\ con \in [Conns -> Connection]
          /\ "died" \in Threads
      BY DEF IInv, Types, Places, Threads, Object
    <3>2. con'[c] \in Connection
      BY <1>1, <3>1 DEF Connection
    <3> QED BY <1>1, <3>1, <3>2
  <2> QED BY <1>1, <2>1 DEF IInv, Types, Gone
<1>3. Counted'
  BY <1>1, CountKept DEF IInv, Types, Given
<1>4. Making'
  BY <1>1 DEF IInv, Types, Making
<1>5. ASSUME ~ overlap' PROVE Orderly'
  <2>1. ~ overlap /\ Orderly
    BY <1>1, <1>5 DEF IInv
  <2>2. Handles'
    BY <1>1, <2>1 DEF IInv, Types, Orderly, Handles, InBetween, Given
  <2>3. InstanceTable'
    BY <1>1, <2>1 DEF IInv, Types, Orderly, InstanceTable
  <2>4. ListenerTable'
    BY <1>1, <2>1 DEF IInv, Types, Orderly, ListenerTable
  <2>5. Ends'
    BY <1>1, <2>1 DEF IInv, Types, Orderly, Ends
  <2>6. Iteration'
    BY <1>1, <2>1 DEF IInv, Types, Orderly, Iteration
  <2>7. Telling'
    BY <1>1, <2>1 DEF IInv, Types, Orderly, Telling
  <2>8. Causes'
    BY <1>1, <2>1 DEF IInv, Types, Orderly, Causes, Early
  <2> QED BY <2>2, <2>3, <2>4, <2>5, <2>6, <2>7, <2>8 DEF Orderly
<1> QED BY <1>2, <1>3, <1>4, <1>5 DEF IInv

LEMMA ListenerEndsStep ==
  ASSUME IInv, NEW c \in Conns, ListenerEnds(c)
  PROVE  IInv'
<1>1. /\ con[c].thread = "deleting"
      /\ con' = [con EXCEPT ![c].thread = "ended", ![c].socket = "deleted",
                            ![c].listener = "deleted"]
      /\ misuse' = misuse \cup Gone(c, {"listener", "socket"})
      /\ UNCHANGED <<lastHandle, instances, listeners, shut, cursor, overlap, failed>>
  BY DEF ListenerEnds
<1>2. Types'
  <2>1. con' \in [Conns -> Connection]
    <3>1. /\ con \in [Conns -> Connection]
          /\ "ended" \in Threads /\ "deleted" \in Object
      BY DEF IInv, Types, Places, Threads, Object
    <3>2. con'[c] \in Connection
      BY <1>1, <3>1 DEF Connection
    <3> QED BY <1>1, <3>1, <3>2
  <2> QED BY <1>1, <2>1 DEF IInv, Types, Gone
<1>3. Counted'
  BY <1>1, CountKept DEF IInv, Types, Given
<1>4. Making'
  BY <1>1 DEF IInv, Types, Making
<1>5. ASSUME ~ overlap' PROVE Orderly'
  <2>1. ~ overlap /\ Orderly
    BY <1>1, <1>5 DEF IInv
  <2>2. Handles'
    BY <1>1, <2>1 DEF IInv, Types, Orderly, Handles, InBetween, Given
  <2>3. InstanceTable'
    BY <1>1, <2>1 DEF IInv, Types, Orderly, InstanceTable
  <2>4. ListenerTable'
    BY <1>1, <2>1 DEF IInv, Types, Orderly, ListenerTable
  <2>5. Ends'
    BY <1>1, <2>1 DEF IInv, Types, Orderly, Ends
  <2>6. Iteration'
    BY <1>1, <2>1 DEF IInv, Types, Orderly, Iteration
  <2>7. Telling'
    BY <1>1, <2>1 DEF IInv, Types, Orderly, Telling
  <2>8. Causes'
    <3>1. /\ con[c].listener = "deleted" => con[c].early
          /\ con[c].socket # "deleted"
      BY <1>1, <2>1 DEF IInv, Types, Orderly, Ends
    <3>2. misuse' = misuse \cup Gone(c, {"listener"})
      BY <1>1, <3>1 DEF Gone
    <3> QED BY <1>1, <2>1, <3>1, <3>2, CausesKept DEF IInv, Types
  <2> QED BY <2>2, <2>3, <2>4, <2>5, <2>6, <2>7, <2>8 DEF Orderly
<1> QED BY <1>2, <1>3, <1>4, <1>5 DEF IInv

LEMMA MakeInstanceStep ==
  ASSUME IInv, NEW c \in Conns, MakeInstance(c)
  PROVE  IInv'
<1>1. /\ con[c].at = "new" /\ shut = "no"
      /\ con' = [con EXCEPT ![c].at = "inserted", ![c].own = lastHandle,
                            ![c].instance = "live", ![c].socket = "open"]
      /\ instances' = Put(instances, lastHandle, c)
      /\ overlap' = (overlap \/ \E d \in Conns : InBetween(d))
      /\ UNCHANGED <<lastHandle, listeners, shut, cursor, misuse, failed>>
  BY DEF MakeInstance
<1>2. Types'
  <2>1. con' \in [Conns -> Connection]
    <3>1. /\ con \in [Conns -> Connection]
          /\ lastHandle \in Nat /\ "inserted" \in Places /\ "live" \in Object
      BY DEF IInv, Types, Places, Threads, Object
    <3>2. con'[c] \in Connection
      BY <1>1, <3>1 DEF Connection
    <3> QED BY <1>1, <3>1, <3>2
  <2>2. /\ DOMAIN instances' \subseteq Nat
        /\ \A h \in DOMAIN instances' : instances'[h] \in Conns
    BY <1>1 DEF IInv, Types, Put
  <2>3. overlap' \in BOOLEAN
    BY <1>1 DEF IInv, Types
  <2> QED BY <1>1, <2>1, <2>2, <2>3 DEF IInv, Types
<1>3. Counted'
  BY <1>1, CountKept DEF IInv, Types, Given
<1>4. Making'
  <2>1. \A h \in DOMAIN instances' : con'[instances'[h]].at # "new"
    BY <1>1 DEF IInv, Types, Making, Put
  <2>2. \A x \in Conns :
           /\ con'[x].at = "new" <=> con'[x].instance = "none"
           /\ con'[x].at \in {"new", "inserted"} <=> con'[x].thread = "none"
           /\ con'[x].at = "new" => con'[x].told = 0
    BY <1>1 DEF IInv, Types, Making
  <2> QED BY <2>1, <2>2 DEF Making
<1>5. ASSUME ~ overlap' PROVE Orderly'
  <2>1. ~ overlap /\ Orderly
    BY <1>1, <1>5 DEF IInv
  <2>2. Handles'
    <3>1. \A d \in Conns : ~ InBetween(d)
      BY <1>1, <1>5
    <3> QED BY <1>1, <2>1, <3>1 DEF IInv, Types, Orderly, Handles, InBetween, Given
  <2>3. InstanceTable'
    <3>1. \A d \in Conns : ~ InBetween(d)
      BY <1>1, <1>5
    <3>2. \A d \in Conns : con[d].instance = "live" => con[d].own < lastHandle
      <4>1. \A d \in Conns : con[d].instance = "live" => Given(d)
        BY <3>1 DEF IInv, Types, Connection, Places, Making, InBetween, Given
      <4> QED BY <2>1, <4>1 DEF Orderly, Handles
    <3>3. lastHandle \notin DOMAIN instances
      BY <2>1, <3>2 DEF IInv, Types, Orderly, InstanceTable
    <3> QED BY <1>1, <2>1, <3>3 DEF IInv, Types, Making, Orderly, InstanceTable, Put
  <2>4. ListenerTable'
    BY <1>1, <2>1 DEF IInv, Types, Orderly, ListenerTable, Making
  <2>5. Ends'
    BY <1>1, <2>1 DEF IInv, Types, Orderly, Ends, Making
  <2>6. Iteration'
    BY <1>1, <2>1 DEF IInv, Types, Orderly, Iteration
  <2>7. Telling'
    BY <1>1, <2>1 DEF IInv, Types, Orderly, Telling, Making
  <2>8. Causes'
    BY <1>1, <2>1 DEF IInv, Types, Orderly, Causes, Early
  <2> QED BY <2>2, <2>3, <2>4, <2>5, <2>6, <2>7, <2>8 DEF Orderly
<1> QED BY <1>2, <1>3, <1>4, <1>5 DEF IInv

LEMMA TakeHandleStep ==
  ASSUME IInv, NEW c \in Conns, TakeHandle(c)
  PROVE  IInv'
<1>1. /\ con[c].at = "added"
      /\ con' = [con EXCEPT ![c].at = "syncing", ![c].given = lastHandle]
      /\ lastHandle' = lastHandle + 1
      /\ UNCHANGED <<instances, listeners, shut, cursor, misuse, overlap, failed>>
  BY DEF TakeHandle
<1>2. Types'
  <2>1. con' \in [Conns -> Connection]
    <3>1. /\ con \in [Conns -> Connection]
          /\ lastHandle \in Nat /\ "syncing" \in Places
      BY DEF IInv, Types, Places, Threads, Object
    <3>2. con'[c] \in Connection
      BY <1>1, <3>1 DEF Connection
    <3> QED BY <1>1, <3>1, <3>2
  <2> QED BY <1>1, <2>1 DEF IInv, Types, Gone
<1>3. Counted'
  <2> DEFINE D == {x \in Conns : Given(x)}
  <2>1. IsFiniteSet(D)
    <3>1. IsFiniteSet(Conns)
      BY FS_Interval, BoundsAreTyped DEF Conns
    <3> QED BY <3>1, FS_Subset
  <2>2. c \notin D /\ {x \in Conns : Given(x)'} = D \cup {c}
    BY <1>1 DEF IInv, Types, Given
  <2> HIDE DEF D
  <2>3. Cardinality(D \cup {c}) = Cardinality(D) + 1
    BY <2>1, <2>2, FS_AddElement
  <2> USE DEF D
  <2> QED BY <1>1, <2>2, <2>3 DEF IInv, Counted
<1>4. Making'
  BY <1>1 DEF IInv, Types, Making
<1>5. ASSUME ~ overlap' PROVE Orderly'
  <2>1. ~ overlap /\ Orderly
    BY <1>1, <1>5 DEF IInv
  <2>2. Handles'
    <3>1. /\ lastHandle \in Nat /\ lastHandle' = lastHandle + 1
          /\ \A d \in Conns : con'[d].own \in Nat
      BY <1>1, <1>2 DEF IInv, Types, Connection
    <3>2. /\ con[c].own = lastHandle /\ con[c].handle = lastHandle
          /\ \A d \in Conns : InBetween(d) => d = c
          /\ \A d \in Conns : Given(d) => /\ con[d].own < lastHandle
                                         /\ con[d].handle = con[d].own
                                         /\ con[d].given = con[d].own
      BY <1>1, <2>1 DEF Orderly, Handles, InBetween
    <3>3. /\ con'[c].own = lastHandle /\ con'[c].handle = lastHandle /\ con'[c].given = lastHandle
          /\ con'[c].at = "syncing" /\ \A d \in Conns \ {c} : con'[d] = con[d]
      BY <1>1, <3>2 DEF IInv, Types, Connection
    <3>4. ASSUME NEW d \in Conns
          PROVE  /\ ~ InBetween(d)'
                 /\ Given(d)' => /\ con'[d].own < lastHandle'
                                /\ con'[d].handle = con'[d].own
                                /\ con'[d].given = con'[d].own
                 /\ Given(d)' /\ d # c => Given(d) /\ con'[d].own < lastHandle
      <4>1. CASE d = c
        BY <3>1, <3>3, <4>1 DEF InBetween
      <4>2. CASE d # c
        BY <3>1, <3>2, <3>3, <4>2 DEF InBetween, Given
      <4> QED BY <4>1, <4>2
    <3>5. ASSUME NEW d \in Conns, NEW e \in Conns, Given(d)', Given(e)', d # e
          PROVE  con'[d].own # con'[e].own
      <4>1. CASE d = c
        <5>1. con'[e].own < lastHandle
          BY <3>4, <3>5, <4>1
        <5> QED BY <3>1, <3>3, <4>1, <5>1
      <4>2. CASE e = c
        <5>1. con'[d].own < lastHandle
          BY <3>4, <3>5, <4>2
        <5> QED BY <3>1, <3>3, <4>2, <5>1
      <4>3. CASE d # c /\ e # c
        <5>1. Given(d) /\ Given(e)
          BY <3>4, <3>5, <4>3
        <5> QED BY <2>1, <3>3, <3>5, <4>3, <5>1 DEF Orderly, Handles
      <4> QED BY <4>1, <4>2, <4>3
    <3> QED BY <3>4, <3>5 DEF Handles
  <2>3. InstanceTable'
    BY <1>1, <2>1 DEF IInv, Types, Orderly, InstanceTable
  <2>4. ListenerTable'
    BY <1>1, <2>1 DEF IInv, Types, Orderly, ListenerTable
  <2>5. Ends'
    BY <1>1, <2>1 DEF IInv, Types, Orderly, Ends
  <2>6. Iteration'
    BY <1>1, <2>1 DEF IInv, Types, Orderly, Iteration
  <2>7. Telling'
    BY <1>1, <2>1 DEF IInv, Types, Orderly, Telling
  <2>8. Causes'
    BY <1>1, <2>1 DEF IInv, Types, Orderly, Causes, Early
  <2> QED BY <2>2, <2>3, <2>4, <2>5, <2>6, <2>7, <2>8 DEF Orderly
<1> QED BY <1>2, <1>3, <1>4, <1>5 DEF IInv
-----------------------------------------------------------------------------
\* disconnect.  Going(h, d) is what it does to connection d, found under handle h:
\* the entry of its listener goes, and its instance too if its socket was closed.

Keeps(x) ==
    /\ con'[x].at = con[x].at /\ con'[x].own = con[x].own
    /\ con'[x].handle = con[x].handle /\ con'[x].given = con[x].given
    /\ con'[x].ready = con[x].ready /\ con'[x].listener = con[x].listener
    /\ con'[x].early = con[x].early /\ con'[x].reset = con[x].reset

Going(h, d) ==
    /\ h \in DOMAIN instances /\ d = instances[h]
    /\ con' \in [Conns -> Connection] /\ \A x \in Conns : Keeps(x)
    /\ \A x \in Conns \ {d} : /\ con'[x].told = con[x].told
                              /\ con'[x].instance = con[x].instance
                              /\ con'[x].socket = con[x].socket
    /\ con'[d].told = con[d].told + 1
    /\ misuse' = misuse \cup Gone(d, {"instance", "socket"}) \cup ListenerGone(h)
    /\ listeners' = Remove(listeners, h)
    /\ \/ /\ con[d].socket = "open" /\ con'[d].socket = "closed"
          /\ con'[d].instance = "deleted"
          /\ instances' = Remove(instances, h) /\ failed' = failed
       \/ /\ con'[d].socket = con[d].socket /\ con'[d].instance = con[d].instance
          /\ instances' = instances /\ failed' = TRUE

LEMMA OwnHandles ==
  ASSUME IInv, Orderly, NEW c \in Conns, NEW d \in Conns,
         con[c].at # "new", con[d].at # "new", con[c].own = con[d].own
  PROVE  c = d
<1>1. \A x \in Conns : con[x].at # "new" => InBetween(x) \/ Given(x)
  BY DEF IInv, Types, Connection, Places, InBetween, Given
<1>2. \A x \in Conns : con[x].own \in Nat
  BY DEF IInv, Types, Connection
<1> QED BY <1>1, <1>2 DEF Orderly, Handles, IInv, Types

\* An entry of the table of the listeners is under its connection's own handle.
LEMMA ListenersOwn ==
  ASSUME IInv, Orderly, NEW h \in DOMAIN listeners
  PROVE  con[listeners[h]].own = h
BY DEF IInv, Types, Orderly, ListenerTable, Handles, InBetween, Given

\* The types and counts are kept by it, and by a disconnect that finds nothing.
LEMMA GoingTypes ==
  ASSUME IInv, NEW h, NEW d \in Conns, Going(h, d),
         UNCHANGED <<lastHandle, shut, cursor, overlap>>,
         \A x \in Conns : \/ con'[x].thread = con[x].thread
                          \/ con[x].thread = "leaving" /\ con'[x].thread = "deleting"
  PROVE  Types' /\ Counted' /\ Making'
<1>1. Types'
  <2>1. /\ DOMAIN listeners' \subseteq DOMAIN listeners
        /\ \A x \in DOMAIN listeners' : listeners'[x] = listeners[x]
        /\ DOMAIN instances' \subseteq DOMAIN instances
        /\ \A x \in DOMAIN instances' : instances'[x] = instances[x]
    BY DEF Going, Remove
  <2>2. misuse' \subseteq {"instance", "socket", "ready", "listener", "iterator"}
    BY DEF IInv, Types, Going, Gone, ListenerGone
  <2>3. failed' \in BOOLEAN
    BY DEF IInv, Types, Going
  <2> QED BY <2>1, <2>2, <2>3 DEF IInv, Types, Going
<1>2. \A x \in Conns : Given(x)' <=> Given(x)
  BY DEF Going, Keeps, Given
<1>3. Making'
  <2>1. con[d].at # "new" /\ con[d].instance # "none"
    BY DEF IInv, Making, Going
  <2>2. \A x \in Conns : con'[x].instance = "none" <=> con[x].instance = "none"
    BY <2>1 DEF Going
  <2>3. \A x \in DOMAIN instances' : x \in DOMAIN instances /\ instances'[x] = instances[x]
    BY DEF Going, Remove
  <2>4. \A x \in Conns : /\ con'[x].at \in {"new", "inserted"} <=> con'[x].thread = "none"
                         /\ con'[x].at = "new" => con'[x].told = 0
    BY <2>1 DEF IInv, Making, Going, Keeps
  <2> QED BY <2>2, <2>3, <2>4 DEF IInv, Types, Making, Going, Keeps
<1> QED BY <1>1, <1>2, <1>3, CountKept

LEMMA GoingOrderly ==
  ASSUME IInv, Orderly, NEW h, NEW d \in Conns, Going(h, d),
         UNCHANGED <<lastHandle, shut, cursor>>,
         \A x \in Conns : \/ con'[x].thread = con[x].thread
                          \/ /\ x = d /\ con[x].thread = "leaving"
                             /\ con'[x].thread = "deleting",
         con[d].at = "connected" \/ con'[d].thread = "deleting"
  PROVE  Orderly'
<1>1. con[d].own = h /\ con[d].instance = "live" /\ shut # "done"
  BY DEF Going, Orderly, InstanceTable, Iteration
<1>2. con[d].at # "new"
  BY <1>1 DEF IInv, Making
<1>3. /\ DOMAIN listeners' = DOMAIN listeners \ {h}
      /\ \A x \in DOMAIN listeners' : listeners'[x] = listeners[x] /\ listeners'[x] # d
  <2>1. /\ DOMAIN listeners' = DOMAIN listeners \ {h}
        /\ \A x \in DOMAIN listeners' : listeners'[x] = listeners[x]
    BY DEF Going, Remove
  <2> QED BY <1>1, <2>1, ListenersOwn
<1>4. Handles'
  BY DEF Orderly, Handles, Going, Keeps, InBetween, Given
<1>5. InstanceTable'
  <2>1. \A x \in Conns : con[x].instance = "live" /\ x # d => con[x].own # h
    BY <1>1, <1>2, OwnHandles DEF IInv, Making
  <2>2. CASE instances' = Remove(instances, h) /\ con'[d].instance = "deleted"
    BY <1>1, <2>1, <2>2 DEF Orderly, InstanceTable, Going, Keeps, Remove, IInv, Types
  <2>3. CASE instances' = instances /\ con'[d].instance = con[d].instance
    BY <1>1, <2>3 DEF Orderly, InstanceTable, Going, Keeps, IInv, Types
  <2> QED BY <2>2, <2>3 DEF Going
<1>6. ListenerTable'
  BY <1>3 DEF Orderly, ListenerTable, Going, Keeps, IInv, Types
<1>7. Ends'
  <2>1. failed => failed'
    BY DEF Going, IInv, Types
  <2>2. con'[d].instance = "deleted" \/ failed'
    BY DEF Going, IInv, Types
  <2>3. \A x \in Conns : con'[x].socket = "deleted" => con[x].socket = "deleted"
    BY DEF Going
  <2>4. \A x \in Conns : con[x].socket = "deleted" => con[x].thread = "ended"
    BY DEF Orderly, Ends
  <2> SUFFICES ASSUME NEW x \in Conns
               PROVE  /\ con'[x].instance = "deleted" /\ con'[x].at # "connected" =>
                            con'[x].thread \in {"deleting", "ended"}
                      /\ con'[x].thread \in {"leaving", "deleting", "ended"}
                         /\ con'[x].at # "connected" => con'[x].early
                      /\ con'[x].thread \in {"none", "starting", "looping"} => ~ con'[x].early
                      /\ con'[x].ready = "deleted" =>
                            con'[x].thread \in {"leaving", "deleting", "ended"}
                      /\ con'[x].socket = "deleted" => con'[x].thread = "ended"
                      /\ con'[x].listener = "deleted" => con'[x].thread = "ended" \/ con'[x].early
                      /\ con'[x].thread \in {"deleting", "ended"} =>
                            con'[x].instance = "deleted" \/ failed' \/ shut' = "done"
    BY DEF Ends
  <2>5. Keeps(x)
    BY DEF Going
  <2>6. CASE x = d
    BY <1>1, <2>1, <2>2, <2>3, <2>4, <2>5, <2>6 DEF Orderly, Ends, Keeps
  <2>7. CASE x # d
    BY <2>1, <2>3, <2>4, <2>5, <2>7 DEF Orderly, Ends, Keeps, Going
  <2> QED BY <2>6, <2>7
<1>8. Iteration'
  BY <1>1, <1>3 DEF Orderly, Iteration, Going, Keeps, IInv, Types
<1>9. Telling'
  <2> SUFFICES ASSUME shut = "no", NEW x \in Conns
               PROVE  /\ con'[x].socket = "closed" \/ con'[x].instance = "deleted" =>
                            con'[x].told >= 1
                      /\ \/ con'[x].told = 0 \/ failed'
                         \/ con'[x].told = 1 /\ con'[x].instance = "deleted"
                      /\ con'[x].thread \in {"deleting", "ended"} => con'[x].told >= 1
                      /\ con'[x].thread = "died" => con'[x].told >= 1 \/ con'[x].reset
    BY DEF Telling
  <2>1. /\ con[x].told \in Nat /\ (failed => failed')
        /\ con[x].socket = "closed" \/ con[x].instance = "deleted" => con[x].told >= 1
        /\ con[x].told = 0 \/ failed \/ (con[x].told = 1 /\ con[x].instance = "deleted")
        /\ con[x].thread \in {"deleting", "ended"} => con[x].told >= 1
        /\ con[x].thread = "died" => con[x].told >= 1 \/ con[x].reset
        /\ con'[x].reset = con[x].reset
    BY DEF Orderly, Telling, IInv, Types, Connection, Going, Keeps
  <2>2. CASE x = d
    <3>1. con'[x].told = con[x].told + 1
      BY <2>2 DEF Going
    <3>2. con'[x].told >= 1
      BY <2>1, <3>1
    <3>3. con[x].told = 0 \/ failed
      BY <1>1, <2>1, <2>2
    <3>4. failed' \/ con'[x].instance = "deleted"
      BY <2>2 DEF Going
    <3> QED BY <2>1, <3>1, <3>2, <3>3, <3>4
  <2>3. CASE x # d
    BY <2>1, <2>3 DEF Going
  <2> QED BY <2>2, <2>3
<1>10. Causes'
  <2>1. Early' = Early
    BY DEF Early, Going, Keeps
  <2>2. Gone(d, {"instance", "socket"}) \subseteq {"socket"}
    BY <1>1 DEF Gone
  <2>3. con[d].socket = "deleted" => failed
    BY <1>1 DEF Orderly, Ends
  <2>4. ListenerGone(h) \subseteq {"listener"} /\ (ListenerGone(h) # {} => Early)
    BY DEF ListenerGone, Gone, Orderly, ListenerTable, Early, IInv, Types
  <2>5. failed => failed'
    BY DEF Going
  <2>6. "socket" \in Gone(d, {"instance", "socket"}) => failed
    BY <2>3 DEF Gone
  <2>7. misuse' = misuse \cup Gone(d, {"instance", "socket"}) \cup ListenerGone(h)
    BY DEF Going
  <2> QED BY <2>1, <2>2, <2>4, <2>5, <2>6, <2>7 DEF Orderly, Causes
<1> QED BY <1>4, <1>5, <1>6, <1>7, <1>8, <1>9, <1>10 DEF Orderly

\* Two states of a connection that differ at most in "listen".
Alike(p, q) ==
    /\ p.at = q.at /\ p.own = q.own /\ p.handle = q.handle /\ p.given = q.given
    /\ p.instance = q.instance /\ p.socket = q.socket
    /\ p.ready = q.ready /\ p.listener = q.listener /\ p.thread = q.thread
    /\ p.remote = q.remote /\ p.reset = q.reset
    /\ p.told = q.told /\ p.early = q.early

LEMMA StoppedIs ==
  ASSUME Types, NEW h, NEW cs \in [Conns -> Connection]
  PROVE  /\ Stopped(h, cs) \in [Conns -> Connection]
         /\ \A x \in Conns : Alike(Stopped(h, cs)[x], cs[x])
<1>1. CASE h \notin DOMAIN listeners
  <2>1. Stopped(h, cs) = cs
    BY <1>1 DEF Stopped
  <2> QED BY <2>1 DEF Alike
<1>2. CASE h \in DOMAIN listeners
  <2>1. PICK l \in Conns : l = listeners[h]
    BY <1>2 DEF Types
  <2>2. Stopped(h, cs) = [cs EXCEPT ![l].listen = FALSE]
    BY <1>2, <2>1 DEF Stopped
  <2>3. [cs[l] EXCEPT !.listen = FALSE] \in Connection
    BY DEF Connection
  <2>4. Stopped(h, cs) \in [Conns -> Connection]
    BY <2>2, <2>3
  <2>5. \A x \in Conns : Alike(Stopped(h, cs)[x], cs[x])
    BY <2>2 DEF Alike, Connection
  <2> QED BY <2>4, <2>5
<1> QED BY <1>1, <1>2

\* Closing the socket of d and telling the user, then stopping the listener.
LEMMA CloseIs ==
  ASSUME Types, NEW h, NEW d \in Conns, NEW cs \in [Conns -> Connection],
         NEW ok \in BOOLEAN
  PROVE  LET r == Stopped(h, Close(d, cs, ok))
         IN  /\ r \in [Conns -> Connection]
             /\ \A x \in Conns \ {d} : Alike(r[x], cs[x])
             /\ Alike(r[d], [cs[d] EXCEPT !.socket = IF ok THEN "closed" ELSE @,
                                          !.told = @ + 1])
<1>1. PICK after : after = Close(d, cs, ok)
  OBVIOUS
<1>2. after = [cs EXCEPT ![d].socket = IF ok THEN "closed" ELSE @, ![d].told = @ + 1]
  BY <1>1 DEF Close
<1>3. after \in [Conns -> Connection]
  <2>1. after[d] \in Connection
    BY <1>2 DEF Connection
  <2> QED BY <1>2, <2>1
<1>4. Stopped(h, after) \in [Conns -> Connection]
      /\ \A x \in Conns : Alike(Stopped(h, after)[x], after[x])
  BY <1>3, StoppedIs
<1>5. Stopped(h, after) = Stopped(h, Close(d, cs, ok))
  BY <1>1 DEF Stopped
<1>6. /\ \A x \in Conns \ {d} : after[x] = cs[x]
      /\ after[d] = [cs[d] EXCEPT !.socket = IF ok THEN "closed" ELSE @, !.told = @ + 1]
  BY <1>2 DEF Connection
<1>7. PICK r : r = Stopped(h, Close(d, cs, ok))
  OBVIOUS
<1>8. r \in [Conns -> Connection] /\ \A x \in Conns : Alike(r[x], after[x])
  BY <1>4, <1>5, <1>7
<1>9. \A x \in Conns \ {d} : Alike(r[x], cs[x])
  BY <1>6, <1>8 DEF Alike
<1>10. Alike(r[d], [cs[d] EXCEPT !.socket = IF ok THEN "closed" ELSE @, !.told = @ + 1])
  BY <1>6, <1>8
<1> QED BY <1>7, <1>8, <1>9, <1>10

\* A step that changes nothing but how often the user has disconnected.
LEMMA NothingFound ==
  ASSUME IInv, UNCHANGED <<con, lastHandle, instances, listeners, shut, cursor, misuse,
                           overlap, failed>>
  PROVE  IInv'
<1>1. Types' /\ Counted' /\ Making'
  BY DEF IInv, Types, Counted, Making, Given
<1>2. ASSUME Orderly PROVE Orderly'
  <2>1. Handles' /\ InstanceTable' /\ ListenerTable'
    BY <1>2 DEF Orderly, Handles, InstanceTable, ListenerTable, InBetween, Given
  <2>2. Ends' /\ Iteration' /\ Telling' /\ Causes'
    BY <1>2 DEF Orderly, Ends, Iteration, Telling, Causes, Early
  <2> QED BY <2>1, <2>2 DEF Orderly
<1> QED BY <1>1, <1>2 DEF IInv

\* Two states of a connection that differ at most in where its thread is.
But(p, q) ==
    /\ p.at = q.at /\ p.own = q.own /\ p.handle = q.handle /\ p.given = q.given
    /\ p.instance = q.instance /\ p.socket = q.socket
    /\ p.ready = q.ready /\ p.listener = q.listener
    /\ p.told = q.told /\ p.early = q.early /\ p.reset = q.reset

\* Disconnect(h, cs) where it finds the instance of d.
Disconnecting(h, d, cs) ==
    /\ listeners' = Remove(listeners, h)
    /\ misuse' = misuse \cup Gone(d, {"instance", "socket"}) \cup ListenerGone(h)
    /\ \/ /\ con[d].socket = "open"
          /\ con' = [Stopped(h, Close(d, cs, TRUE)) EXCEPT ![d].instance = "deleted"]
          /\ instances' = Remove(instances, h)
          /\ UNCHANGED failed
       \/ /\ con' = Stopped(h, Close(d, cs, FALSE))
          /\ failed' = TRUE
          /\ UNCHANGED instances

\* The connections as Disconnect gets them, and as it leaves them.
LEMMA DisconnectGoes ==
  ASSUME IInv, NEW h \in DOMAIN instances, NEW d \in Conns, d = instances[h],
         NEW cs \in [Conns -> Connection],
         \A x \in Conns : But(cs[x], con[x]),
         Disconnecting(h, d, cs)
  PROVE  Going(h, d) /\ \A x \in Conns : con'[x].thread = cs[x].thread
<1>1. ASSUME NEW x \in Conns
      PROVE  /\ cs[x].at = con[x].at /\ cs[x].own = con[x].own
             /\ cs[x].handle = con[x].handle /\ cs[x].given = con[x].given
             /\ cs[x].instance = con[x].instance /\ cs[x].socket = con[x].socket
             /\ cs[x].ready = con[x].ready /\ cs[x].listener = con[x].listener
             /\ cs[x].told = con[x].told /\ cs[x].early = con[x].early
             /\ cs[x].reset = con[x].reset
  BY DEF But
<1>2. CASE /\ con[d].socket = "open"
           /\ con' = [Stopped(h, Close(d, cs, TRUE)) EXCEPT ![d].instance = "deleted"]
           /\ instances' = Remove(instances, h)
           /\ UNCHANGED failed
  <2>1. PICK r : r = Stopped(h, Close(d, cs, TRUE))
    OBVIOUS
  <2>2. /\ r \in [Conns -> Connection] /\ \A x \in Conns \ {d} : Alike(r[x], cs[x])
        /\ Alike(r[d], [cs[d] EXCEPT !.socket = "closed", !.told = @ + 1])
    BY <2>1, CloseIs DEF IInv
  <2>3. con' = [r EXCEPT ![d].instance = "deleted"]
    BY <1>2, <2>1
  <2>4. con' \in [Conns -> Connection]
    <3>1. con'[d] \in Connection
      <4>1. r[d] \in Connection /\ con'[d] = [r[d] EXCEPT !.instance = "deleted"]
        BY <2>2, <2>3
      <4>2. "deleted" \in Object
        BY DEF Object
      <4> QED BY <4>1, <4>2 DEF Connection
    <3> QED BY <2>2, <2>3, <3>1
  <2>5. ASSUME NEW x \in Conns \ {d}
        PROVE  /\ Keeps(x) /\ con'[x].told = con[x].told
               /\ con'[x].instance = con[x].instance /\ con'[x].socket = con[x].socket
               /\ con'[x].thread = cs[x].thread
    <3>1. con'[x] = r[x] /\ Alike(r[x], cs[x])
      BY <2>2, <2>3
    <3> QED BY <1>1, <3>1 DEF Alike, Keeps
  <2>6. /\ Keeps(d) /\ con'[d].told = con[d].told + 1
        /\ con'[d].instance = "deleted" /\ con'[d].socket = "closed"
        /\ con'[d].thread = cs[d].thread
    <3>1. con'[d] = [r[d] EXCEPT !.instance = "deleted"]
      BY <2>2, <2>3
    <3>2. /\ r[d].at = cs[d].at /\ r[d].own = cs[d].own /\ r[d].handle = cs[d].handle
          /\ r[d].given = cs[d].given /\ r[d].ready = cs[d].ready
          /\ r[d].listener = cs[d].listener /\ r[d].thread = cs[d].thread
          /\ r[d].early = cs[d].early /\ r[d].reset = cs[d].reset /\ r[d].socket = "closed"
          /\ r[d].told = cs[d].told + 1
      BY <2>2 DEF Alike, Connection
    <3> QED BY <1>1, <2>2, <3>1, <3>2 DEF Keeps, Connection
  <2> QED BY <1>2, <2>4, <2>5, <2>6 DEF Going, Disconnecting
<1>3. CASE /\ con' = Stopped(h, Close(d, cs, FALSE))
           /\ failed' = TRUE
           /\ UNCHANGED instances
  <2>1. PICK r : r = Stopped(h, Close(d, cs, FALSE))
    OBVIOUS
  <2>2. /\ r \in [Conns -> Connection] /\ \A x \in Conns \ {d} : Alike(r[x], cs[x])
        /\ Alike(r[d], [cs[d] EXCEPT !.socket = @, !.told = @ + 1])
    BY <2>1, CloseIs DEF IInv
  <2>3. con' = r
    BY <1>3, <2>1
  <2>4. ASSUME NEW x \in Conns \ {d}
        PROVE  /\ Keeps(x) /\ con'[x].told = con[x].told
               /\ con'[x].instance = con[x].instance /\ con'[x].socket = con[x].socket
               /\ con'[x].thread = cs[x].thread
    BY <1>1, <2>2, <2>3 DEF Alike, Keeps
  <2>5. /\ Keeps(d) /\ con'[d].told = con[d].told + 1
        /\ con'[d].instance = con[d].instance /\ con'[d].socket = con[d].socket
        /\ con'[d].thread = cs[d].thread
    <3>1. /\ r[d].at = cs[d].at /\ r[d].own = cs[d].own /\ r[d].handle = cs[d].handle
          /\ r[d].given = cs[d].given /\ r[d].ready = cs[d].ready
          /\ r[d].listener = cs[d].listener /\ r[d].thread = cs[d].thread
          /\ r[d].early = cs[d].early /\ r[d].reset = cs[d].reset /\ r[d].socket = cs[d].socket
          /\ r[d].instance = cs[d].instance /\ r[d].told = cs[d].told + 1
      BY <2>2 DEF Alike, Connection
    <3> QED BY <1>1, <2>3, <3>1 DEF Keeps
  <2> QED BY <1>3, <2>2, <2>3, <2>4, <2>5 DEF Going, Disconnecting
<1> QED BY <1>2, <1>3 DEF Disconnecting

LEMMA UserDisconnectStep ==
  ASSUME IInv, NEW c \in Conns, UserDisconnect(c)
  PROVE  IInv'
<1>1. PICK h : h = con[c].given
  OBVIOUS
<1>2. /\ con[c].at = "connected"
      /\ UNCHANGED <<lastHandle, shut, cursor, overlap>>
  BY DEF UserDisconnect
<1>3. CASE h \notin DOMAIN instances
  <2>1. con' = con /\ UNCHANGED <<instances, listeners, misuse, failed>>
    BY <1>1, <1>3 DEF UserDisconnect, Disconnect
  <2> QED BY <1>2, <2>1, NothingFound
<1>4. CASE h \in DOMAIN instances
  <2>1. PICK d \in Conns : d = instances[h]
    BY <1>4 DEF IInv, Types
  <2>2. Going(h, d) /\ \A x \in Conns : con'[x].thread = con[x].thread
    <3>1. PICK cs : cs = con
      OBVIOUS
    <3>2. Disconnecting(h, d, cs)
      BY <1>1, <1>4, <2>1, <3>1, ZenonT(30) DEF UserDisconnect, Disconnect, Disconnecting
    <3>3. /\ cs \in [Conns -> Connection]
          /\ \A x \in Conns : But(cs[x], con[x])
      BY <3>1 DEF IInv, Types, But
    <3>4. Going(h, d) /\ \A x \in Conns : con'[x].thread = cs[x].thread
      BY <1>4, <2>1, <3>2, <3>3, DisconnectGoes
    <3> QED BY <3>1, <3>4
  <2>3. Types' /\ Counted' /\ Making'
    BY <1>2, <2>2, GoingTypes
  <2>4. ASSUME ~ overlap PROVE Orderly'
    <3>1. Orderly
      BY <2>4 DEF IInv
    <3>2. con[d].own = h /\ con[d].instance = "live"
      BY <2>1, <1>4, <3>1 DEF Orderly, InstanceTable
    <3>3. con[c].own = h
      BY <1>1, <1>2, <3>1 DEF Orderly, Handles, Given
    <3>4. d = c
      BY <1>2, <3>1, <3>2, <3>3, OwnHandles DEF IInv, Making
    <3> QED BY <1>2, <2>2, <3>1, <3>4, GoingOrderly
  <2> QED BY <1>2, <2>3, <2>4 DEF IInv
<1> QED BY <1>3, <1>4

LEMMA ListenerDisconnectsStep ==
  ASSUME IInv, NEW c \in Conns, ListenerDisconnects(c)
  PROVE  IInv'
<1>1. PICK h : h = con[c].handle
  OBVIOUS
<1>2. PICK cs : cs = [con EXCEPT ![c].thread = "deleting"]
  OBVIOUS
<1>3. /\ con[c].thread = "leaving"
      /\ UNCHANGED <<lastHandle, shut, cursor, overlap>>
  BY DEF ListenerDisconnects
<1>4. con[c].at \notin {"new", "inserted"} /\ con[c].instance # "none"
  BY <1>3 DEF IInv, Making
<1>5. ASSUME Orderly PROVE con[c].own = h
  BY <1>1, <1>4, <1>5 DEF IInv, Types, Connection, Places, Orderly, Handles, InBetween, Given
<1>6. /\ cs \in [Conns -> Connection] /\ \A x \in Conns : But(cs[x], con[x])
      /\ cs[c].thread = "deleting" /\ \A x \in Conns \ {c} : cs[x] = con[x]
  <2>1. con \in [Conns -> Connection] /\ "deleting" \in Threads
    BY DEF IInv, Types, Threads
  <2>2. cs[c] \in Connection
    BY <1>2, <2>1 DEF Connection
  <2> QED BY <1>2, <2>1, <2>2 DEF But, Connection
<1>7. CASE h \notin DOMAIN instances
  <2>1. con' = cs /\ UNCHANGED <<instances, listeners, misuse, failed>>
    BY <1>1, <1>2, <1>7 DEF ListenerDisconnects, Disconnect
  <2>2. /\ con'[c].thread = "deleting" /\ \A x \in Conns \ {c} : con'[x] = con[x]
        /\ con' \in [Conns -> Connection] /\ \A x \in Conns : But(con'[x], con[x])
    BY <1>6, <2>1
  <2>3. Types' /\ Making'
    BY <1>3, <1>4, <2>1, <2>2 DEF IInv, Types, Making, But
  <2>4. Counted'
    BY <1>3, <2>2, CountKept DEF Given, But
  <2>5. ASSUME ~ overlap PROVE Orderly'
    <3>1. Orderly
      BY <2>5 DEF IInv
    <3>2. con[c].instance = "deleted" \/ shut = "done"
      BY <1>4, <1>5, <1>7, <3>1 DEF IInv, Types, Connection, Object, Orderly, InstanceTable
    <3>3. Handles' /\ InstanceTable'
      BY <1>3, <2>1, <2>2, <3>1 DEF IInv, Types, Orderly, Handles, InstanceTable, InBetween,
                                  Given, But
    <3>4. ListenerTable'
      <4>1. \A x \in DOMAIN listeners : listeners[x] = c => con[c].early
        BY <3>1, <3>2 DEF Orderly, ListenerTable, Iteration
      <4> QED BY <2>1, <2>2, <3>1, <4>1 DEF IInv, Types, Orderly, ListenerTable, But
    <3>5. Ends'
      BY <1>3, <2>1, <2>2, <3>1, <3>2 DEF Orderly, Ends, But
    <3>6. Iteration'
      BY <1>3, <2>1, <2>2, <3>1 DEF IInv, Types, Orderly, Iteration, But
    <3>7. Telling'
      BY <1>3, <2>1, <2>2, <3>1, <3>2 DEF Orderly, Telling, But
    <3>8. Causes'
      BY <1>3, <2>1, <2>2, <3>1 DEF Orderly, Causes, Early, But
    <3> QED BY <3>3, <3>4, <3>5, <3>6, <3>7, <3>8 DEF Orderly
  <2> QED BY <1>3, <2>3, <2>4, <2>5 DEF IInv
<1>8. CASE h \in DOMAIN instances
  <2>1. PICK d \in Conns : d = instances[h]
    BY <1>8 DEF IInv, Types
  <2>2. Disconnecting(h, d, cs)
    BY <1>1, <1>2, <1>8, <2>1, ZenonT(30) DEF ListenerDisconnects, Disconnect, Disconnecting
  <2>3. Going(h, d) /\ \A x \in Conns : con'[x].thread = cs[x].thread
    BY <1>6, <1>8, <2>1, <2>2, DisconnectGoes
  <2>4. con'[c].thread = "deleting" /\ \A x \in Conns \ {c} : con'[x].thread = con[x].thread
    BY <1>6, <2>3
  <2>5. Types' /\ Counted' /\ Making'
    BY <1>3, <2>3, <2>4, GoingTypes
  <2>6. ASSUME ~ overlap PROVE Orderly'
    <3>1. Orderly
      BY <2>6 DEF IInv
    <3>2. con[d].own = h /\ con[d].instance = "live"
      BY <2>1, <1>8, <3>1 DEF Orderly, InstanceTable
    <3>3. d = c
      BY <1>4, <1>5, <3>1, <3>2, OwnHandles DEF IInv, Making
    <3> QED BY <1>3, <2>3, <2>4, <3>1, <3>3, GoingOrderly
  <2> QED BY <1>3, <2>5, <2>6 DEF IInv
<1> QED BY <1>7, <1>8

-----------------------------------------------------------------------------
\* shutdown().

LEMMA LeastExists ==
  ASSUME NEW S, S \subseteq Nat, S # {}
  PROVE  \E x \in S : \A y \in S : x <= y
<1> DEFINE UpTo(x) == {y \in S : y <= x}
           Ups == {UpTo(x) : x \in S}
<1>1. \A x \in S : UpTo(x) \in FiniteSubsetsOf(S)
  <2> TAKE x \in S
  <2>1. UpTo(x) \in SUBSET Nat /\ \A y \in UpTo(x) : y <= x
    OBVIOUS
  <2>2. IsFiniteSet(UpTo(x))
    <3> HIDE DEF UpTo
    <3> QED BY <2>1, FS_BoundedSetOfNaturals
  <2> QED BY <2>2 DEF FiniteSubsetsOf
<1>2. PICK T \in Ups : \A U \in Ups : ~ (<<U, T>> \in StrictSubsetOrdering(S))
  <2> HIDE DEF UpTo
  <2>1. Ups # {} /\ Ups \subseteq FiniteSubsetsOf(S)
    BY <1>1
  <2> QED BY <2>1, FS_StrictSubsetOrderingWellFounded, WFMin
<1>3. PICK x \in S : T = UpTo(x)
  OBVIOUS
<1>4. ASSUME NEW y \in S PROVE x <= y
  <2> SUFFICES ASSUME ~ (x <= y) PROVE FALSE
    OBVIOUS
  <2>1. x \in Nat /\ y \in Nat
    OBVIOUS
  <2>2. y < x
    BY <2>1
  <2>3. UpTo(y) \subseteq UpTo(x)
    <3>1. \A z \in Nat : z <= y => z <= x
      BY <2>1, <2>2
    <3> QED BY <3>1
  <2>4. x \in UpTo(x) /\ x \notin UpTo(y)
    BY <2>1, <2>2
  <2>5. <<UpTo(y), UpTo(x)>> \in StrictSubsetOrdering(S)
    BY <2>3, <2>4 DEF StrictSubsetOrdering
  <2> QED BY <1>2, <1>3, <2>5
<1> QED BY <1>4

LEMMA LeastIs ==
  ASSUME NEW S, S \subseteq Nat
  PROVE  /\ Least(S) \in Nat
         /\ S # {} => Least(S) \in S /\ \A x \in S : Least(S) <= x
<1>1. CASE S = {}
  BY <1>1 DEF Least
<1>2. CASE S # {}
  <2>1. \E h \in S : \A x \in S : h <= x
    BY <1>2, LeastExists
  <2> QED BY <1>2, <2>1 DEF Least
<1> QED BY <1>1, <1>2

\* Where shutdown goes on to the instances "rest", and every listener that has not
\* ended early is among them.
LEMMA GoesOn ==
  ASSUME IInv, NEW rest, rest \subseteq DOMAIN instances,
         shut \in {"no", "advancing"}, shut' = First(rest), cursor' = Least(rest),
         misuse' \subseteq misuse \cup {"iterator"},
         UNCHANGED <<con, lastHandle, instances, listeners, overlap, failed>>,
         Orderly => /\ \A c \in Conns : con[c].at \in {"new", "connected"}
                    /\ \A h \in DOMAIN listeners : h \in rest \/ con[listeners[h]].early
  PROVE  IInv'
<1>1. rest \subseteq Nat
  BY DEF IInv, Types
<1>2. /\ cursor' \in Nat
      /\ rest # {} => \A x \in rest : x >= cursor'
  <2>1. PICK l : l = Least(rest)
    OBVIOUS
  <2>2. l \in Nat /\ (rest # {} => \A x \in rest : l <= x)
    BY <1>1, <2>1, LeastIs
  <2> QED BY <1>1, <2>1, <2>2
<1>3. shut' \in {"visiting", "listeners"} /\ (shut' = "listeners" <=> rest = {})
  BY DEF First
<1>4. Types' /\ Making'
  BY <1>2, <1>3 DEF IInv, Types, Making
<1>5. Counted'
  BY CountKept DEF Given
<1>6. ASSUME ~ overlap PROVE Orderly'
  <2>1. Orderly
    BY <1>6 DEF IInv
  <2>2. Handles' /\ ListenerTable'
    BY <2>1 DEF Orderly, Handles, ListenerTable, InBetween, Given
  <2>3. InstanceTable'
    BY <1>3, <2>1 DEF Orderly, InstanceTable
  <2>4. Ends' /\ Telling'
    BY <1>3, <2>1 DEF Orderly, Ends, Telling
  <2>5. Iteration'
    BY <1>2, <1>3, <2>1 DEF Iteration
  <2>6. Causes'
    BY <1>3, <2>1 DEF IInv, Types, Orderly, Causes, Early
  <2> QED BY <2>1, <2>2, <2>3, <2>4, <2>5, <2>6 DEF Orderly
<1> QED BY <1>4, <1>5, <1>6 DEF IInv

\* A listener that has not ended early still has its instance in the table.
LEMMA LateHasInstance ==
  ASSUME IInv, Orderly, shut # "done", NEW h \in DOMAIN listeners, ~ con[listeners[h]].early
  PROVE  h \in DOMAIN instances
<1>1. PICK c \in Conns : c = listeners[h]
  BY DEF IInv, Types
<1>2. con[c].own = h
  BY <1>1, ListenersOwn
<1>3. con[c].instance = "live"
  BY <1>1 DEF Orderly, ListenerTable
<1> QED BY <1>2, <1>3 DEF Orderly, InstanceTable

LEMMA ShutdownStep ==
  ASSUME IInv, Shutdown
  PROVE  IInv'
<1>1. /\ shut = "no" /\ \A c \in Conns : con[c].at \in {"new", "connected"}
      /\ shut' = First(DOMAIN instances) /\ cursor' = Least(DOMAIN instances)
      /\ UNCHANGED <<con, lastHandle, instances, listeners, misuse, overlap, failed>>
  BY DEF Shutdown
<1>2. Orderly => \A h \in DOMAIN listeners : h \in DOMAIN instances \/ con[listeners[h]].early
  BY <1>1, LateHasInstance
<1> QED BY <1>1, <1>2, GoesOn

LEMMA ShutNextStep ==
  ASSUME IInv, ShutNext
  PROVE  IInv'
<1>1. PICK rest : rest = {h \in DOMAIN instances : h > cursor}
  OBVIOUS
<1>2. /\ shut = "advancing" /\ shut' = First(rest) /\ cursor' = Least(rest)
      /\ misuse' = misuse \cup Erased
      /\ UNCHANGED <<con, lastHandle, instances, listeners, overlap, failed>>
  BY <1>1 DEF ShutNext
<1>3. misuse' \subseteq misuse \cup {"iterator"}
  BY <1>2 DEF Erased
<1>4. Orderly => /\ \A c \in Conns : con[c].at \in {"new", "connected"}
                 /\ \A h \in DOMAIN listeners : h \in rest \/ con[listeners[h]].early
  <2> SUFFICES ASSUME Orderly
               PROVE  /\ \A c \in Conns : con[c].at \in {"new", "connected"}
                      /\ \A h \in DOMAIN listeners : h \in rest \/ con[listeners[h]].early
    OBVIOUS
  <2>1. \A h \in DOMAIN listeners : h > cursor \/ con[listeners[h]].early
    BY <1>2 DEF Orderly, Iteration
  <2>2. \A c \in Conns : con[c].at \in {"new", "connected"}
    BY <1>2 DEF Orderly, Iteration
  <2> QED BY <1>1, <1>2, <2>1, <2>2, LateHasInstance
<1> QED BY <1>1, <1>2, <1>3, <1>4, GoesOn

LEMMA ShutRemoveStep ==
  ASSUME IInv, ShutRemove
  PROVE  IInv'
<1>1. /\ shut = "visiting" /\ shut' = "removed"
      /\ misuse' = misuse \cup Erased \cup ListenerGone(cursor)
      /\ con' = Stopped(cursor, con)
      /\ listeners' = Remove(listeners, cursor)
      /\ UNCHANGED <<lastHandle, instances, cursor, overlap, failed>>
  BY DEF ShutRemove
<1>2. con' \in [Conns -> Connection] /\ \A x \in Conns : Alike(con'[x], con[x])
  <2>1. PICK r : r = Stopped(cursor, con)
    OBVIOUS
  <2>2. r \in [Conns -> Connection] /\ \A x \in Conns : Alike(r[x], con[x])
    BY <2>1, StoppedIs DEF IInv, Types
  <2> QED BY <1>1, <2>1, <2>2
<1>3. /\ DOMAIN listeners' = DOMAIN listeners \ {cursor}
      /\ \A h \in DOMAIN listeners' : listeners'[h] = listeners[h]
  BY <1>1 DEF Remove
<1>4. Types'
  <2>1. misuse' \subseteq {"instance", "socket", "ready", "listener", "iterator"}
    BY <1>1 DEF IInv, Types, Erased, ListenerGone, Gone
  <2> QED BY <1>1, <1>2, <1>3, <2>1 DEF IInv, Types
<1>5. Counted'
  BY <1>1, <1>2, CountKept DEF Given, Alike
<1>6. Making'
  BY <1>1, <1>2 DEF IInv, Types, Making, Alike
<1>7. ASSUME ~ overlap PROVE Orderly'
  <2>1. Orderly
    BY <1>7 DEF IInv
  <2>2. Handles' /\ InstanceTable'
    BY <1>1, <1>2, <2>1 DEF IInv, Types, Orderly, Handles, InstanceTable, InBetween, Given, Alike
  <2>3. ListenerTable'
    BY <1>2, <1>3, <2>1 DEF IInv, Types, Orderly, ListenerTable, Alike
  <2>4. Ends' /\ Telling'
    BY <1>1, <1>2, <2>1 DEF Orderly, Ends, Telling, Alike
  <2>5. Iteration'
    <3>1. \A h \in DOMAIN listeners' : h > cursor' \/ con'[listeners'[h]].early
      BY <1>1, <1>2, <1>3, <2>1 DEF IInv, Types, Orderly, Iteration, Alike
    <3> QED BY <1>1, <1>2, <2>1, <3>1 DEF Orderly, Iteration, Alike
  <2>6. Causes'
    <3>1. Early' = Early
      BY <1>2 DEF Early, Alike
    <3>2. ListenerGone(cursor) \subseteq {"listener"} /\ (ListenerGone(cursor) # {} => Early)
      BY <2>1 DEF ListenerGone, Gone, Orderly, ListenerTable, Early, IInv, Types
    <3> QED BY <1>1, <2>1, <3>1, <3>2 DEF Orderly, Causes, Erased
  <2> QED BY <2>2, <2>3, <2>4, <2>5, <2>6 DEF Orderly
<1> QED BY <1>1, <1>4, <1>5, <1>6, <1>7 DEF IInv

LEMMA ShutListenersStep ==
  ASSUME IInv, ShutListeners
  PROVE  IInv'
<1>0. con' = [c \in Conns |-> IF \E h \in DOMAIN listeners : listeners[h] = c
                             THEN [con[c] EXCEPT !.listen = FALSE, !.listener = "deleted"]
                             ELSE con[c]]
  BY DEF ShutListeners
<1>1. /\ shut = "listeners" /\ shut' = "done"
      /\ DOMAIN instances' = {} /\ DOMAIN listeners' = {}
      /\ misuse' = misuse \cup UNION {Gone(listeners[h], {"listener"}) : h \in DOMAIN listeners}
      /\ UNCHANGED <<lastHandle, cursor, overlap, failed>>
  <2>1. DOMAIN << >> = {}
    OBVIOUS
  <2> QED BY <2>1 DEF ShutListeners
<1>2. ASSUME NEW x \in Conns
      PROVE  /\ con'[x] \in Connection
             /\ con'[x].at = con[x].at /\ con'[x].own = con[x].own
             /\ con'[x].handle = con[x].handle /\ con'[x].given = con[x].given
             /\ con'[x].instance = con[x].instance /\ con'[x].socket = con[x].socket
             /\ con'[x].ready = con[x].ready /\ con'[x].thread = con[x].thread
             /\ con'[x].told = con[x].told /\ con'[x].early = con[x].early
             /\ \/ con'[x].listener = con[x].listener
                \/ \E h \in DOMAIN listeners : listeners[h] = x
  <2>1. con[x] \in Connection /\ "deleted" \in Object
    BY DEF IInv, Types, Object
  <2>2. CASE \E h \in DOMAIN listeners : listeners[h] = x
    <3>1. con'[x] = [con[x] EXCEPT !.listen = FALSE, !.listener = "deleted"]
      BY <1>0, <2>2
    <3> QED BY <2>1, <2>2, <3>1 DEF Connection
  <2>3. CASE ~ \E h \in DOMAIN listeners : listeners[h] = x
    <3>1. con'[x] = con[x]
      BY <1>0, <2>3
    <3> QED BY <2>1, <3>1
  <2> QED BY <2>2, <2>3
<1>3. Types'
  <2>1. con' \in [Conns -> Connection]
    BY <1>0, <1>2
  <2>2. misuse' \subseteq {"instance", "socket", "ready", "listener", "iterator"}
    BY <1>1 DEF IInv, Types, Gone
  <2> QED BY <1>1, <2>1, <2>2 DEF IInv, Types
<1>4. Counted'
  BY <1>1, <1>2, CountKept DEF Given
<1>5. Making'
  BY <1>1, <1>2 DEF IInv, Making
<1>6. ASSUME ~ overlap PROVE Orderly'
  <2>1. Orderly
    BY <1>6 DEF IInv
  <2>2. \A h \in DOMAIN listeners : con[listeners[h]].early
    BY <1>1, <2>1 DEF Orderly, Iteration
  <2>3. Handles'
    BY <1>1, <1>2, <2>1 DEF Orderly, Handles, InBetween, Given
  <2>4. InstanceTable' /\ ListenerTable' /\ Telling'
    BY <1>1 DEF InstanceTable, ListenerTable, Telling
  <2>5. Ends'
    BY <1>1, <1>2, <2>1, <2>2 DEF Orderly, Ends
  <2>6. Iteration'
    BY <1>1, <1>2, <2>1 DEF Orderly, Iteration
  <2>7. Causes'
    <3>1. Early' = Early
      BY <1>2 DEF Early
    <3>2. \A k \in UNION {Gone(listeners[h], {"listener"}) : h \in DOMAIN listeners} :
             k = "listener" /\ Early
      BY <2>2 DEF IInv, Types, Gone, Early
    <3> QED BY <1>1, <2>1, <3>1, <3>2 DEF Orderly, Causes
  <2> QED BY <2>3, <2>4, <2>5, <2>6, <2>7 DEF Orderly
<1> QED BY <1>1, <1>3, <1>4, <1>5, <1>6 DEF IInv

LEMMA ShutInstanceStep ==
  ASSUME IInv, ShutInstance
  PROVE  IInv'
<1>1. /\ shut = "removed" /\ shut' = "advancing"
      /\ UNCHANGED <<lastHandle, instances, cursor, overlap>>
  BY DEF ShutInstance
<1>2. CASE cursor \notin DOMAIN instances
  <2>1. misuse' = misuse \cup {"iterator"} /\ UNCHANGED <<con, listeners, failed>>
    BY <1>2 DEF ShutInstance, Erased
  <2>2. Types' /\ Making'
    BY <1>1, <2>1 DEF IInv, Types, Making
  <2>3. Counted'
    BY <1>1, <2>1, CountKept DEF Given
  <2>4. ASSUME ~ overlap PROVE Orderly'
    <3>1. Orderly
      BY <2>4 DEF IInv
    <3>2. Handles' /\ InstanceTable' /\ ListenerTable'
      BY <1>1, <2>1, <3>1 DEF Orderly, Handles, InstanceTable, ListenerTable, InBetween, Given
    <3>3. Ends' /\ Iteration' /\ Telling'
      BY <1>1, <2>1, <3>1 DEF Orderly, Ends, Iteration, Telling
    <3>4. Causes'
      BY <1>1, <2>1, <3>1 DEF Orderly, Causes, Early
    <3> QED BY <3>2, <3>3, <3>4 DEF Orderly
  <2> QED BY <1>1, <2>2, <2>3, <2>4 DEF IInv
<1>3. CASE cursor \in DOMAIN instances
  <2>1. PICK d \in Conns : d = instances[cursor]
    BY <1>3 DEF IInv, Types
  <2>2. /\ misuse' = misuse \cup Gone(d, {"instance", "socket"}) \cup ListenerGone(cursor)
        /\ listeners' = Remove(listeners, cursor)
    BY <1>3, <2>1, ZenonT(30) DEF ShutInstance
  <2>3. PICK ok \in BOOLEAN : /\ ok => con[d].socket = "open"
                              /\ con' = Stopped(cursor, Close(d, con, ok))
                              /\ failed' = (failed \/ ~ok)
    BY <1>3, <2>1, ZenonT(30) DEF ShutInstance
  <2>4. /\ con' \in [Conns -> Connection]
        /\ \A x \in Conns \ {d} : Alike(con'[x], con[x])
        /\ Alike(con'[d], [con[d] EXCEPT !.socket = IF ok THEN "closed" ELSE @,
                                         !.told = @ + 1])
    <3>1. PICK r : r = Stopped(cursor, Close(d, con, ok))
      OBVIOUS
    <3>2. /\ r \in [Conns -> Connection]
          /\ \A x \in Conns \ {d} : Alike(r[x], con[x])
          /\ Alike(r[d], [con[d] EXCEPT !.socket = IF ok THEN "closed" ELSE @,
                                        !.told = @ + 1])
      BY <3>1, CloseIs DEF IInv, Types
    <3> QED BY <2>3, <3>1, <3>2
  <2>5. \A x \in Conns : Keeps(x) /\ con'[x].instance = con[x].instance
                         /\ con'[x].thread = con[x].thread
                         /\ (con'[x].socket = con[x].socket \/ con'[x].socket = "closed")
                         /\ (con'[x].told = con[x].told \/ x = d)
    <3>1. con[d] \in Connection
      BY DEF IInv, Types
    <3> QED BY <2>4, <3>1 DEF Alike, Keeps, Connection
  <2>6. /\ DOMAIN listeners' = DOMAIN listeners \ {cursor}
        /\ \A h \in DOMAIN listeners' : listeners'[h] = listeners[h]
    BY <2>2 DEF Remove
  <2>7. failed' \in BOOLEAN /\ (failed => failed')
    BY <2>3 DEF IInv, Types
  <2>8. Types'
    <3>1. misuse' \subseteq {"instance", "socket", "ready", "listener", "iterator"}
      BY <2>2 DEF IInv, Types, Gone, ListenerGone
    <3> QED BY <1>1, <2>4, <2>6, <2>7, <3>1 DEF IInv, Types
  <2>9. Counted'
    BY <1>1, <2>5, CountKept DEF Given, Keeps
  <2>10. Making'
    <3>1. \A x \in Conns : con[x].at = "new" => x # d
      BY <1>3, <2>1 DEF IInv, Making
    <3> QED BY <1>1, <2>5, <3>1 DEF IInv, Types, Making, Keeps
  <2>11. ASSUME ~ overlap PROVE Orderly'
    <3>1. Orderly
      BY <2>11 DEF IInv
    <3>2. Handles' /\ InstanceTable'
      BY <1>1, <2>5, <3>1 DEF IInv, Types, Orderly, Handles, InstanceTable, InBetween, Given, Keeps
    <3>3. ListenerTable'
      BY <2>5, <2>6, <3>1 DEF IInv, Types, Orderly, ListenerTable, Keeps
    <3>4. Ends'
      BY <1>1, <2>5, <2>7, <3>1 DEF Orderly, Ends, Keeps
    <3>5. Iteration'
      BY <1>1, <2>5, <2>6, <3>1 DEF IInv, Types, Orderly, Iteration, Keeps
    <3>6. Telling'
      BY <1>1 DEF Telling
    <3>7. Causes'
      <4>1. Early' = Early
        BY <2>5 DEF Early, Keeps
      <4>2. con[d].instance = "live" /\ (con[d].socket = "deleted" => failed)
        BY <1>1, <1>3, <2>1, <3>1 DEF Orderly, InstanceTable, Ends
      <4>3. Gone(d, {"instance", "socket"}) \subseteq {"socket"}
            /\ ("socket" \in Gone(d, {"instance", "socket"}) => failed)
        BY <4>2 DEF Gone
      <4>4. ListenerGone(cursor) \subseteq {"listener"} /\ (ListenerGone(cursor) # {} => Early)
        BY <3>1 DEF ListenerGone, Gone, Orderly, ListenerTable, Early, IInv, Types
      <4> QED BY <1>1, <2>2, <2>7, <3>1, <4>1, <4>3, <4>4 DEF Orderly, Causes
    <3> QED BY <3>2, <3>3, <3>4, <3>5, <3>6, <3>7 DEF Orderly
  <2> QED BY <1>1, <2>8, <2>9, <2>10, <2>11 DEF IInv
<1> QED BY <1>2, <1>3

-----------------------------------------------------------------------------
LEMMA Initially == Init => IInv
<1> SUFFICES ASSUME Init PROVE IInv
  OBVIOUS
<1>1. DOMAIN << >> = {}
  OBVIOUS
<1>2. Types
  <2>1. NoConnection \in Connection
    BY DEF NoConnection, Connection, Places, Threads, Object
  <2> QED BY <1>1, <2>1 DEF Init, Types
<1>3. Counted
  <2>1. {c \in Conns : Given(c)} = {}
    BY DEF Init, NoConnection, Given
  <2> QED BY <2>1, FS_EmptySet DEF Init, Counted
<1>4. Making
  BY <1>1 DEF Init, NoConnection, Making
<1>5. Orderly
  <2>1. \A c \in Conns : con[c] = NoConnection
    BY DEF Init
  <2>2. Handles /\ InstanceTable /\ ListenerTable
    BY <1>1, <2>1 DEF Init, NoConnection, Handles, InstanceTable, ListenerTable, InBetween, Given
  <2>3. Ends /\ Iteration /\ Telling
    BY <1>1, <2>1 DEF Init, NoConnection, Ends, Iteration, Telling
  <2>4. Causes
    BY DEF Init, Causes
  <2> QED BY <2>2, <2>3, <2>4 DEF Orderly
<1> QED BY <1>2, <1>3, <1>4, <1>5 DEF IInv

LEMMA Inductive == IInv /\ [Next]_vars => IInv'
<1> SUFFICES ASSUME IInv, [Next]_vars PROVE IInv'
  OBVIOUS
<1>1. CASE UNCHANGED vars
  BY <1>1, NothingFound DEF vars
<1>2. ASSUME NEW c \in Conns, MakeInstance(c) \/ Connecting(c)
      PROVE  IInv'
  BY <1>2, MakeInstanceStep, StartListenerStep, AwakeStep, WaitTimesOutStep, TakeHandleStep,
     SyncEndsStep DEF Connecting
<1>3. ASSUME NEW c \in Conns, UserDisconnect(c) \/ RemoteCloses(c) \/ RemoteResets(c) \/ Listener(c)
      PROVE  IInv'
  BY <1>3, UserDisconnectStep, RemoteClosesStep, RemoteResetsStep, ReadyStep, LeaveLoopStep, DiesStep,
     ListenerDisconnectsStep, ListenerEndsStep DEF Listener
<1>4. CASE Shutdown \/ ShuttingDown
  BY <1>4, ShutdownStep, ShutRemoveStep, ShutInstanceStep, ShutNextStep, ShutListenersStep
     DEF ShuttingDown
<1> QED BY <1>1, <1>2, <1>3, <1>4 DEF Next

\* Connections and their threads are at known places, the tables lead from numbers to
\* connections, and no more handles are given than connects are made.
LEMMA TypesOK == IInv => TypeOK
<1> SUFFICES ASSUME IInv PROVE TypeOK
  OBVIOUS
<1>1. lastHandle \in 0 .. Cardinality(Conns)
  <2>1. IsFiniteSet(Conns)
    BY FS_Interval, BoundsAreTyped DEF Conns
  <2>2. /\ Cardinality({c \in Conns : Given(c)}) <= Cardinality(Conns)
        /\ Cardinality(Conns) \in Nat
    BY <2>1, FS_Subset, FS_CardinalityType
  <2> QED BY <2>2 DEF IInv, Types, Counted
<1> QED BY <1>1 DEF IInv, Types, Connection, Places, Threads, TypeOK

\* What the variables hold, IInv's invariant, in every reachable state.
THEOREM ConnectionInductive == Spec => []IInv
<1> QED BY Initially, Inductive, PTL DEF Spec

\* connect, the listener's threads, disconnect and shutdown leave every variable
\* with a value of its type: above all, lastHandle counts no more than the connects made.
THEOREM TypesHold == Spec => []TypeOK
<1> QED BY ConnectionInductive, TypesOK, PTL

\* The handle that connect returns is the one the instance and the listener are kept
\* under, as long as no two connects overlap: the three reads of lastHandle agree.
THEOREM HandlesAreOwn == Spec => []HandleIsOwn
<1>1. IInv => HandleIsOwn
  <2> SUFFICES ASSUME IInv, ~ overlap PROVE HandleIsOwn
    BY DEF HandleIsOwn
  <2>1. Orderly
    BY DEF IInv
  <2>2. \A c \in Conns : Given(c) => con[c].given = con[c].own /\ con[c].given = con[c].handle
    BY <2>1 DEF Orderly, Handles
  <2>3. \A c, d \in Conns : Given(c) /\ Given(d) /\ c # d => con[c].own # con[d].own
    BY <2>1 DEF Orderly, Handles
  <2>4. \A c \in Conns : con[c].instance = "live" /\ shut # "done" =>
            con[c].own \in DOMAIN instances /\ instances[con[c].own] = c
    BY <2>1 DEF Orderly, InstanceTable
  <2> QED BY <2>2, <2>3, <2>4 DEF HandleIsOwn, Given
<1> QED BY <1>1, ConnectionInductive, PTL

\* Whether the user, the listener or both take a connection down, the user's disconnect
\* callback runs, and runs once unless a socket's shutdown failed; a thread that died
\* without it died of a reset, and has left the instance to the user (disconnect, run).
THEOREM UserIsToldOnce == Spec => []ToldOnce
<1>1. IInv => ToldOnce
  <2> SUFFICES ASSUME IInv, ~ overlap, shut = "no", NEW c \in Conns
               PROVE  /\ con[c].told <= 1 \/ failed
                      /\ con[c].thread \in {"deleting", "ended"} => con[c].told >= 1
                      /\ con[c].thread = "died" => con[c].told >= 1 \/ Abandoned(c)
    BY DEF ToldOnce
  <2>1. /\ con[c].told \in Nat
        /\ con[c].instance = "deleted" => con[c].told >= 1
        /\ con[c].told = 0 \/ failed \/ con[c].told = 1
        /\ con[c].thread \in {"deleting", "ended"} => con[c].told >= 1
        /\ con[c].thread = "died" => con[c].told >= 1 \/ con[c].reset
    BY DEF IInv, Types, Connection, Orderly, Telling
  <2>2. con[c].thread = "died" => con[c].instance \in {"live", "deleted"}
    BY DEF IInv, Types, Connection, Object, Making
  <2> QED BY <2>1, <2>2 DEF Abandoned
<1> QED BY <1>1, ConnectionInductive, PTL

\* A deleted instance, socket, condition or listener is used only after one of the
\* causes the code leaves open: nothing else that two threads may do reaches one.
THEOREM MisusesHaveTheirCauses == Spec => []MisuseHasItsCause
<1>1. IInv => MisuseHasItsCause
  BY DEF IInv, Orderly, Causes, MisuseHasItsCause
<1> QED BY <1>1, ConnectionInductive, PTL
=============================================================================
