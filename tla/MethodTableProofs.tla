-------------------------- MODULE MethodTableProofs --------------------------
(***************************************************************************)
(* Proofs about MethodTable: IInv is inductive, and with it a connection     *)
(* whose list was without gaps runs the methods its user names, for all      *)
(* values of the constants.  Steps of the server share the lemma ServerFrame. *)
(***************************************************************************)
EXTENDS MethodTable, TLAPS

LEMMA NoneIsNoId == ASSUME NEW i \in Ids PROVE i # None /\ i # Garbage
BY TableAssumption

LEMMA IdsAreNumbers == /\ MaxId \in Nat /\ 0 \in Ids
                       /\ \A i \in Ids : i \in Nat /\ i <= MaxId /\ i + 1 \in 1..(MaxId + 1)
                       /\ \A i \in 0..(MaxId + 1) : i <= MaxId => i \in Ids
BY TableAssumption DEF Ids

\* The start tables have the types of tables.
LEMMA StartTables ==
  /\ SyncName \in [AllNames -> Ids \cup {None}] /\ NoNames \in [AllNames -> Ids \cup {None}]
  /\ SyncOnly \in [Ids -> Ids \cup {None}] /\ Nothing \in [Ids -> Ids \cup {None}]
  /\ SyncOnly \in ListType /\ Nothing \in ListType
BY IdsAreNumbers DEF SyncName, NoNames, SyncOnly, Nothing, ListType

\* What an id was given to and points to does not change once it is given out.
Extends ==
    /\ nextMethodId <= nextMethodId'
    /\ \A i \in Ids : i < nextMethodId =>
          registered'[i] = registered[i] /\ object'[i] = object[i]

-----------------------------------------------------------------------------
(* Steps of the server's application. *)

\* A step that only extends the registry keeps what the lists, the clients'
\* tables and the requests say about it.
LEMMA ServerFrame ==
  ASSUME IInv, Extends, nextMethodId' \in 1..(MaxId + 1),
         UNCHANGED <<syncVars, listVars, clientVars, callVars>>
  PROVE  /\ Lists' /\ ExactTableRunsNamed'
         /\ \A c \in Clients : ClientNumbers(c)' /\ ExactTable(c)' /\ ExactRequest(c)'
<1> USE DEF IInv, syncVars, listVars, clientVars, callVars
<1>1. /\ nextMethodId \in Nat /\ nextMethodId >= 1 /\ nextMethodId' \in Nat
      /\ \A i \in Ids : i \in Nat
  BY IdsAreNumbers DEF TypeOK
<1>2. \A i \in Ids : registered[i] # None => registered'[i] = registered[i] /\ object'[i] = object[i]
  BY <1>1 DEF Extends, Numbering
<1>3. \A i \in Ids : i < nextMethodId => i < nextMethodId'
  BY <1>1 DEF Extends
<1>4. Lists'
  BY <1>3 DEF Lists, ListOf, Extends
<1>5. ExactTableRunsNamed'
  BY DEF ExactTableRunsNamed
<1>6. ASSUME NEW c \in Clients
      PROVE  ClientNumbers(c)' /\ ExactTable(c)' /\ ExactRequest(c)'
  <2>1. /\ \A n \in AllNames : cmethods[c][n] \in Ids \cup {None}
        /\ \A i \in Ids : cids[c][i] \in Ids \cup {None}
        /\ cnext[c] \in Nat /\ parsed[c] \in Nat
    BY IdsAreNumbers DEF TypeOK
  <2>2. ClientNumbers(c)'
    <3>1. parsed[c] <= nextMethodId'
      BY <1>1, <2>1 DEF ClientNumbers, Extends
    <3> QED BY <3>1 DEF ClientNumbers
  <2>3. \A i \in Ids : i < cnext[c] => i < nextMethodId
    <3>1. parsed[c] <= nextMethodId /\ (cnext[c] <= parsed[c] \/ cnext[c] <= 1)
      BY DEF ClientNumbers
    <3> HIDE DEF IInv
    <3> QED BY <1>1, <2>1, <3>1
  <2>4. \A i \in Ids : i < cnext[c] => registered'[i] = registered[i]
    BY <2>3 DEF Extends
  <2>5. ExactTable(c)'
    <3> SUFFICES ASSUME phase[c] \in {"parsing", "ready"}, WithoutGaps(listing[c])
                 PROVE  /\ \A n \in AllNames : cmethods[c][n] # None =>
                              registered'[cmethods[c][n]] = n /\ object'[cmethods[c][n]] = cmethods[c][n]
                        /\ \A i \in Ids : cids[c][i] # None =>
                              registered'[cids[c][i]] = registered'[i] /\ object'[cids[c][i]] = cids[c][i]
                        /\ phase[c] = "parsing" =>
                              \A i \in Ids : i < cnext[c] => cmethods[c][registered'[i]] # None
      BY DEF ExactTable
    <3>1. ASSUME NEW n \in AllNames, cmethods[c][n] # None
          PROVE  registered'[cmethods[c][n]] = n /\ object'[cmethods[c][n]] = cmethods[c][n]
      <4>1. n # None
        BY TableAssumption DEF AllNames
      <4> QED BY <2>1, <3>1, <4>1, <1>2 DEF ExactTable
    <3>2. ASSUME NEW i \in Ids, cids[c][i] # None
          PROVE  registered'[cids[c][i]] = registered'[i] /\ object'[cids[c][i]] = cids[c][i]
      <4>1. i < cnext[c]
        BY <3>2 DEF ClientNumbers
      <4>2. registered'[i] = registered[i] /\ registered[i] # None
        BY <4>1, <2>3, <2>4, <1>1 DEF Numbering
      <4>3. registered[cids[c][i]] = registered[i] /\ object[cids[c][i]] = cids[c][i] /\ cids[c][i] \in Ids
        BY <2>1, <3>2 DEF ExactTable
      <4> QED BY <4>2, <4>3, <1>2
    <3>3. phase[c] = "parsing" => \A i \in Ids : i < cnext[c] => cmethods[c][registered'[i]] # None
      BY <2>4 DEF ExactTable
    <3> QED BY <3>1, <3>2, <3>3
  <2>6. ExactRequest(c)'
    <3> SUFFICES ASSUME wire[c] # None, wire[c].exact
                 PROVE  registered'[wire[c].id] = wire[c].asked /\ object'[wire[c].id] = wire[c].id
      BY DEF ExactRequest
    <3>1. wire[c].id \in Ids /\ wire[c].asked \in AllNames
      BY DEF TypeOK
    <3>2. wire[c].asked # None
      BY <3>1, TableAssumption DEF AllNames
    <3> QED BY <3>1, <3>2, <1>2 DEF ExactRequest
  <2> QED BY <2>2, <2>5, <2>6
<1> QED BY <1>4, <1>5, <1>6

\* A new id, for a new object or for the one that has the name already.
LEMMA RegisterInv == ASSUME IInv, NEW n \in Names, RegisterMethod(n) PROVE IInv'
<1> USE DEF IInv
<1> DEFINE k == nextMethodId
<1> DEFINE o == methods'[n]
<1>0. n \in AllNames /\ n # "nymphsync" /\ n # None /\ k \in Ids /\ k \in Nat /\ k >= 1
  BY TableAssumption, IdsAreNumbers DEF AllNames, RegisterMethod, TypeOK
<1>1. /\ methods' \in [AllNames -> Ids \cup {None}] /\ o \in Ids
      /\ \A m \in AllNames \ {n} : methods'[m] = methods[m]
      /\ IF methods[n] = None THEN o = k ELSE o = methods[n]
  BY <1>0, NoneIsNoId DEF RegisterMethod, TypeOK
<1>2. /\ methodsIds' \in [Ids -> Ids \cup {None}] /\ methodsIds'[k] = o
      /\ \A i \in Ids \ {k} : methodsIds'[i] = methodsIds[i]
  BY <1>0, <1>1 DEF RegisterMethod, TypeOK
<1>3. /\ registered' \in [Ids -> AllNames \cup {None}] /\ registered'[k] = n
      /\ \A i \in Ids \ {k} : registered'[i] = registered[i]
  BY <1>0 DEF RegisterMethod, TypeOK
<1>4. /\ object' \in [Ids -> Ids \cup {None}] /\ object'[k] = o
      /\ \A i \in Ids \ {k} : object'[i] = object[i]
  BY <1>0, <1>1 DEF RegisterMethod, TypeOK
<1>5. nextMethodId' = k + 1 /\ k + 1 \in 1..(MaxId + 1)
      /\ UNCHANGED <<syncVars, listVars, clientVars, callVars>>
  BY <1>0, IdsAreNumbers DEF RegisterMethod
<1> HIDE DEF k, o
<1>6. TypeOK'
  BY <1>1, <1>2, <1>3, <1>4, <1>5 DEF TypeOK, syncVars, listVars, clientVars, callVars
<1>7. registered[k] = None /\ \A i \in Ids : i \in Nat /\ (i < k <=> registered[i] # None)
  BY <1>0, IdsAreNumbers DEF Numbering, k
<1>8. o = k \/ (o < k /\ registered[o] = n /\ object[o] = o)
  BY <1>0, <1>1, <1>7 DEF ServerTables
<1>9. registered'[o] = n /\ object'[o] = o
  BY <1>1, <1>3, <1>4, <1>7, <1>8
<1>10. Numbering'
  <2>1. registered'[0] = "nymphsync" /\ object'[0] = 0
    BY <1>0, <1>3, <1>4, IdsAreNumbers DEF Numbering
  <2>2. ASSUME NEW i \in Ids
        PROVE  /\ registered'[i] = None <=> i >= k + 1
               /\ i # 0 => registered'[i] # "nymphsync"
               /\ i < k + 1 =>
                  /\ object'[i] \in Ids /\ object'[i] <= i
                  /\ object'[object'[i]] = object'[i]
                  /\ registered'[object'[i]] = registered'[i]
    <3>1. CASE i = k
      BY <3>1, <1>0, <1>1, <1>3, <1>4, <1>7, <1>8, <1>9
    <3>2. CASE i # k
      <4>1. registered'[i] = registered[i] /\ object'[i] = object[i] /\ (i < k + 1 <=> i < k) /\ (i >= k + 1 <=> i >= k)
        BY <3>2, <1>0, <1>3, <1>4, <1>7
      <4>2. i < k => object[i] \in Ids /\ object[i] <= i /\ object[i] < k
        BY <1>0, <1>7 DEF Numbering, k
      <4>3. i < k => object'[object[i]] = object[object[i]] /\ registered'[object[i]] = registered[object[i]]
        BY <4>2, <1>0, <1>3, <1>4, <1>7
      <4> QED BY <4>1, <4>2, <4>3 DEF Numbering, k
    <3> QED BY <3>1, <3>2
  <2> QED BY <2>1, <2>2, <1>5 DEF Numbering
<1>11. ServerTables'
  <2>1. ASSUME NEW m \in AllNames, methods'[m] # None
        PROVE  registered'[methods'[m]] = m /\ object'[methods'[m]] = methods'[m]
    <3>1. CASE m = n
      BY <3>1, <1>9 DEF o
    <3>2. CASE m # n
      <4>1. methods'[m] = methods[m] /\ methods[m] \in Ids /\ registered[methods[m]] = m /\ object[methods[m]] = methods[m]
        BY <3>2, <2>1, <1>1 DEF ServerTables, TypeOK
      <4>2. m # None
        BY TableAssumption DEF AllNames
      <4> QED BY <4>1, <4>2, <1>3, <1>4, <1>7
    <3> QED BY <3>1, <3>2
  <2>2. ASSUME NEW i \in Ids, methodsIds'[i] # None
        PROVE  i < k + 1 /\ methodsIds'[i] = object'[i]
    <3>1. CASE i = k
      BY <3>1, <1>0, <1>2, <1>4
    <3>2. CASE i # k
      BY <3>2, <2>2, <1>0, <1>2, <1>4, <1>7 DEF ServerTables, k
    <3> QED BY <3>1, <3>2
  <2>3. ASSUME NEW i \in Ids, methodsIds'[i] = i
        PROVE  methods'[registered'[i]] = i
    <3>1. CASE i = k
      BY <3>1, <2>3, <1>2, <1>3 DEF o
    <3>2. CASE i # k
      <4>1. methodsIds[i] = i /\ methods[registered[i]] = i /\ registered'[i] = registered[i]
        BY <3>2, <2>3, <1>2, <1>3 DEF ServerTables
      <4>2. registered[i] \in AllNames
        BY <4>1, <1>7, NoneIsNoId DEF ServerTables, TypeOK, k
      <4>3. CASE registered[i] = n
        BY <4>1, <4>3, <1>1, NoneIsNoId DEF o
      <4>4. CASE registered[i] # n
        BY <4>1, <4>2, <4>4, <1>1
      <4> QED BY <4>3, <4>4
    <3> QED BY <3>1, <3>2
  <2> QED BY <2>1, <2>2, <2>3, <1>5 DEF ServerTables
<1>12. Extends
  BY <1>0, <1>3, <1>4, <1>5, <1>7 DEF Extends, k
<1> QED BY <1>5, <1>6, <1>10, <1>11, <1>12, ServerFrame

\* A step that takes entries out of the server's maps and leaves no name whose
\* own id it keeps.
LEMMA RemovalInv ==
  ASSUME IInv,
         methods' \in [AllNames -> Ids \cup {None}], methodsIds' \in [Ids -> Ids \cup {None}],
         \A m \in AllNames : methods'[m] \in {None, methods[m]},
         \A i \in Ids : methodsIds'[i] \in {None, methodsIds[i]},
         \A i \in Ids : methodsIds'[i] = i /\ methods[registered[i]] = i => methods'[registered[i]] = i,
         UNCHANGED <<nextMethodId, registered, object, syncVars, listVars, clientVars, callVars>>
  PROVE  IInv'
<1> USE DEF IInv
<1>1. TypeOK'
  BY DEF TypeOK, syncVars, listVars, clientVars, callVars
<1>2. Numbering'
  BY DEF Numbering
<1>3. ServerTables'
  <2>1. \A m \in AllNames : methods'[m] # None => methods'[m] = methods[m]
    OBVIOUS
  <2>2. \A i \in Ids : methodsIds'[i] # None => methodsIds'[i] = methodsIds[i]
    OBVIOUS
  <2>3. \A i \in Ids : methodsIds'[i] = i => methodsIds[i] = i
    BY <2>2, NoneIsNoId
  <2>4. \A m \in AllNames : methods'[m] # None =>
           registered'[methods'[m]] = m /\ object'[methods'[m]] = methods'[m]
    BY <2>1 DEF ServerTables
  <2>5. \A i \in Ids : methodsIds'[i] # None => i < nextMethodId' /\ methodsIds'[i] = object'[i]
    BY <2>2 DEF ServerTables
  <2>6. \A i \in Ids : methodsIds'[i] = i => methods'[registered'[i]] = i
    BY <2>3 DEF ServerTables
  <2> QED BY <2>4, <2>5, <2>6 DEF ServerTables
<1>4. Extends /\ nextMethodId' \in 1..(MaxId + 1)
  BY IdsAreNumbers DEF Extends, TypeOK
<1> QED BY <1>1, <1>2, <1>3, <1>4, ServerFrame

LEMMA RemoveMethodInv == ASSUME IInv, NEW n \in Names, RemoveMethod(n) PROVE IInv'
<1> USE DEF IInv
<1>1. n \in AllNames /\ methods[n] \in Ids /\ registered[methods[n]] = n
  BY DEF RemoveMethod, TypeOK, AllNames, ServerTables
<1>2. methods' \in [AllNames -> Ids \cup {None}] /\ methods'[n] = None
      /\ \A m \in AllNames \ {n} : methods'[m] = methods[m]
  BY <1>1 DEF RemoveMethod, TypeOK
<1>3. methodsIds' \in [Ids -> Ids \cup {None}] /\ methodsIds'[methods[n]] = None
      /\ \A i \in Ids \ {methods[n]} : methodsIds'[i] = methodsIds[i]
  BY <1>1 DEF RemoveMethod, TypeOK
<1>4. ASSUME NEW i \in Ids, methodsIds'[i] = i, methods[registered[i]] = i
      PROVE  methods'[registered[i]] = i
  <2>1. i # methods[n] /\ methodsIds[i] = i
    BY <1>3, <1>4, NoneIsNoId
  <2>2. i < nextMethodId
    BY <2>1, NoneIsNoId DEF ServerTables
  <2>3. registered[i] \in AllNames
    BY <2>2, IdsAreNumbers DEF Numbering, TypeOK
  <2> QED BY <2>1, <2>3, <1>2, <1>4
<1> QED BY <1>2, <1>3, <1>4, RemovalInv DEF RemoveMethod

LEMMA RemoveUnknownInv == ASSUME IInv, NEW n \in Names, RemoveUnknown(n) PROVE IInv'
<1> USE DEF IInv
<1>1. PICK j \in Ids : methodsIds' = [methodsIds EXCEPT ![j] = None]
  BY DEF RemoveUnknown
<1>2. methodsIds' \in [Ids -> Ids \cup {None}]
      /\ \A i \in Ids : methodsIds'[i] \in {None, methodsIds[i]}
  BY <1>1 DEF TypeOK
<1>3. methods' = methods /\ methods \in [AllNames -> Ids \cup {None}]
  BY DEF RemoveUnknown, TypeOK
<1> QED BY <1>2, <1>3, RemovalInv DEF RemoveUnknown

-----------------------------------------------------------------------------
(* Steps of a connection. *)

\* c is the only connection whose list or tables change.
OnlyList(c) == \A d \in Clients \ {c} :
    /\ phase'[d] = phase[d] /\ listing'[d] = listing[d] /\ parsed'[d] = parsed[d]
    /\ cmethods'[d] = cmethods[d] /\ cids'[d] = cids[d] /\ cnext'[d] = cnext[d]

\* Such a step keeps IInv if c's list and tables are right after it.
LEMMA ListFrame ==
  ASSUME IInv, NEW c \in Clients, OnlyList(c), TypeOK', UNCHANGED <<serverVars, callVars>>,
         ListOf(serializedMethods'), ListOf(listing'[c]), ClientNumbers(c)', ExactTable(c)'
  PROVE  IInv'
<1> USE DEF IInv, serverVars, callVars
<1>1. Numbering' /\ ServerTables'
  BY DEF Numbering, ServerTables
<1>2. Lists'
  BY DEF Lists, ListOf, OnlyList
<1>3. ASSUME NEW d \in Clients PROVE ClientNumbers(d)' /\ ExactTable(d)'
  <2>1. CASE d = c
    BY <2>1
  <2>2. CASE d # c
    BY <2>2 DEF ClientNumbers, ExactTable, OnlyList
  <2> QED BY <2>1, <2>2
<1>4. ExactTableRunsNamed' /\ \A d \in Clients : ExactRequest(d)'
  BY DEF ExactTableRunsNamed, ExactRequest
<1> QED BY <1>1, <1>2, <1>3, <1>4

LEMMA SyncBeginInv == ASSUME IInv, NEW c \in Clients, SyncBegin(c) PROVE IInv'
<1> USE DEF IInv, SyncBegin
<1>1. phase' \in [Clients -> {"closed", "asked", "building", "built", "parsing", "ready", "failed"}]
      /\ phase'[c] = "building" /\ \A d \in Clients \ {c} : phase'[d] = phase[d]
  BY DEF TypeOK
<1>2. TypeOK'
  BY <1>1 DEF TypeOK, serverVars, clientVars, callVars
<1>3. ClientNumbers(c)' /\ ExactTable(c)'
  BY <1>1 DEF ClientNumbers, ExactTable, serverVars, clientVars
<1>4. OnlyList(c) /\ ListOf(serializedMethods') /\ ListOf(listing'[c])
  BY <1>1 DEF OnlyList, Lists, clientVars
<1> QED BY <1>2, <1>3, <1>4, ListFrame

LEMMA SyncDroppedInv == ASSUME IInv, NEW c \in Clients, SyncDropped(c) PROVE IInv'
<1> USE DEF IInv, SyncDropped
<1>1. phase' \in [Clients -> {"closed", "asked", "building", "built", "parsing", "ready", "failed"}]
      /\ phase'[c] = "failed" /\ \A d \in Clients \ {c} : phase'[d] = phase[d]
  BY DEF TypeOK
<1>2. TypeOK'
  BY <1>1 DEF TypeOK, serverVars, syncVars, clientVars, callVars
<1>3. ClientNumbers(c)' /\ ExactTable(c)'
  BY <1>1 DEF ClientNumbers, ExactTable, serverVars, clientVars
<1>4. OnlyList(c) /\ ListOf(serializedMethods') /\ ListOf(listing'[c])
  BY <1>1 DEF OnlyList, Lists, clientVars, syncVars
<1> QED BY <1>2, <1>3, <1>4, ListFrame

\* Bytes of a list come from the table that was listed, or they are garbage.
LEMMA SyncEndInv == ASSUME IInv, NEW c \in Clients, SyncEnd(c) PROVE IInv'
<1> USE DEF IInv
<1>1. phase' \in [Clients -> {"closed", "asked", "building", "built", "parsing", "ready", "failed"}]
      /\ phase[c] = "building" /\ phase'[c] = "built" /\ \A d \in Clients \ {c} : phase'[d] = phase[d]
  BY DEF SyncEnd, TypeOK
<1>2. PICK freed \in SUBSET {i \in Ids : methodsIds[i] # None /\ ~ Live(methodsIds[i], methods)} :
         serializedMethods' = [i \in Ids |-> IF i \in freed THEN Garbage ELSE methodsIds[i]]
  BY DEF SyncEnd
<1>3. serializedMethods' \in ListType
  BY <1>2 DEF ListType, TypeOK
<1>4. listing' \in [Clients -> ListType] /\ listing'[c] = serializedMethods'
      /\ \A d \in Clients \ {c} : listing'[d] = listing[d]
  BY <1>3 DEF SyncEnd, TypeOK
<1>5. UNCHANGED <<serverVars, parsed, clientVars, callVars>> /\ methodsMutex' = None
  BY DEF SyncEnd
<1>6. TypeOK'
  BY <1>1, <1>3, <1>4, <1>5 DEF TypeOK, serverVars, clientVars, callVars
<1>7. ClientNumbers(c)' /\ ExactTable(c)'
  BY <1>1, <1>5 DEF ClientNumbers, ExactTable, serverVars, clientVars
<1>8. ListOf(serializedMethods')
  <2> SUFFICES ASSUME NEW i \in Ids, serializedMethods'[i] # None
               PROVE  i < nextMethodId /\ serializedMethods'[i] \in {object[i], Garbage}
    BY DEF ListOf
  <2>1. methodsIds[i] # None /\ serializedMethods'[i] \in {methodsIds[i], Garbage}
    BY <1>2
  <2> QED BY <2>1 DEF ServerTables
<1>9. OnlyList(c)
  BY <1>1, <1>4, <1>5 DEF OnlyList, clientVars
<1> QED BY <1>4, <1>5, <1>6, <1>7, <1>8, <1>9, ListFrame

\* The tables that a connection starts with are right for every list.
LEMMA StartTablesExact ==
  ASSUME IInv, NEW c \in Clients, cmethods[c] = SyncName, cids[c] = SyncOnly, cnext[c] = 1
  PROVE  /\ \A n \in AllNames : cmethods[c][n] # None =>
              registered[cmethods[c][n]] = n /\ object[cmethods[c][n]] = cmethods[c][n]
         /\ \A i \in Ids : cids[c][i] # None =>
              registered[cids[c][i]] = registered[i] /\ object[cids[c][i]] = cids[c][i]
         /\ \A i \in Ids : i < cnext[c] => cmethods[c][registered[i]] # None
<1>1. registered[0] = "nymphsync" /\ object[0] = 0 /\ "nymphsync" \in AllNames /\ 0 # None
  BY IdsAreNumbers, NoneIsNoId DEF IInv, Numbering, AllNames
<1>2. \A i \in Ids : i < 1 => i = 0
  BY IdsAreNumbers
<1> QED BY <1>1, <1>2 DEF SyncName, SyncOnly

LEMMA SyncReplyInv == ASSUME IInv, NEW c \in Clients, SyncReply(c) PROVE IInv'
<1> USE DEF IInv
<1>1. phase' \in [Clients -> {"closed", "asked", "building", "built", "parsing", "ready", "failed"}]
      /\ phase[c] = "built" /\ phase'[c] = "parsing" /\ \A d \in Clients \ {c} : phase'[d] = phase[d]
  BY DEF SyncReply, TypeOK
<1>2. PICK list \in {listing[c]} \cup Torn(listing[c], serializedMethods) :
         listing' = [listing EXCEPT ![c] = list]
  BY DEF SyncReply
<1>3. listing[c] \in ListType /\ serializedMethods \in ListType
      /\ ListOf(listing[c]) /\ ListOf(serializedMethods)
  BY DEF TypeOK, Lists
<1>4. list \in ListType /\ ListOf(list)
  <2>1. CASE list = listing[c]
    BY <2>1, <1>3
  <2>2. CASE list \in Torn(listing[c], serializedMethods)
    <3>1. PICK broken \in SUBSET {i \in Ids : listing[c][i] # None \/ serializedMethods[i] # None},
               fresh \in SUBSET Ids :
            list = [i \in Ids |-> IF i \in broken THEN Garbage
                                  ELSE IF i \in fresh THEN serializedMethods[i] ELSE listing[c][i]]
      BY <2>2 DEF Torn
    <3>2. list \in ListType
      BY <3>1, <1>3 DEF ListType
    <3>3. ASSUME NEW i \in Ids, list[i] # None
          PROVE  i < nextMethodId /\ list[i] \in {object[i], Garbage}
      BY <3>1, <3>3, <1>3 DEF ListOf
    <3> QED BY <3>2, <3>3 DEF ListOf
  <2> QED BY <2>1, <2>2
<1>5. listing' \in [Clients -> ListType] /\ listing'[c] = list
      /\ \A d \in Clients \ {c} : listing'[d] = listing[d]
  BY <1>2, <1>4 DEF TypeOK
<1>6. UNCHANGED <<serverVars, syncVars, parsed, clientVars, callVars>>
  BY DEF SyncReply
<1>7. TypeOK'
  BY <1>1, <1>5, <1>6 DEF TypeOK, serverVars, syncVars, clientVars, callVars
<1>8. parsed[c] = 0 /\ cnext[c] = 1 /\ cmethods[c] = SyncName /\ cids[c] = SyncOnly
  BY <1>1 DEF ClientNumbers
<1>9. ClientNumbers(c)' /\ ExactTable(c)'
  BY <1>1, <1>6, <1>8, StartTablesExact DEF ClientNumbers, ExactTable, serverVars, clientVars
<1>10. OnlyList(c)
  BY <1>1, <1>5, <1>6 DEF OnlyList, clientVars
<1> QED BY <1>3, <1>4, <1>5, <1>6, <1>7, <1>9, <1>10, ListFrame DEF syncVars

\* A connection whose tables are started or dropped.
LEMMA ResetInv ==
  ASSUME IInv, NEW c \in Clients, Connect(c) \/ Disconnect(c)
  PROVE  IInv'
<1> USE DEF IInv
<1>1. PICK p \in {"closed", "asked"}, m \in {SyncName, NoNames}, t \in {SyncOnly, Nothing}, k \in {0, 1} :
        /\ phase' = [phase EXCEPT ![c] = p]
        /\ listing' = [listing EXCEPT ![c] = Nothing]
        /\ parsed' = [parsed EXCEPT ![c] = 0]
        /\ cmethods' = [cmethods EXCEPT ![c] = m]
        /\ cids' = [cids EXCEPT ![c] = t]
        /\ cnext' = [cnext EXCEPT ![c] = k]
        /\ \/ p = "asked" /\ m = SyncName /\ t = SyncOnly /\ k = 1
           \/ p = "closed" /\ m = NoNames /\ t = Nothing /\ k = 0
        /\ UNCHANGED <<serverVars, syncVars, callVars>>
  BY DEF Connect, Disconnect
<1>2. 0 \in 0..(MaxId + 1) /\ k \in 0..(MaxId + 1)
  BY <1>1, IdsAreNumbers
<1>3. TypeOK'
  BY <1>1, <1>2, StartTables DEF TypeOK, serverVars, syncVars, callVars
<1>4. /\ phase'[c] = p /\ listing'[c] = Nothing /\ parsed'[c] = 0
      /\ cmethods'[c] = m /\ cids'[c] = t /\ cnext'[c] = k
  BY <1>1 DEF TypeOK
<1>5. \A i \in Ids : t[i] # None => i < k
  BY <1>1 DEF SyncOnly, Nothing
<1>6. nextMethodId' = nextMethodId /\ 0 <= nextMethodId
  BY <1>1, IdsAreNumbers DEF TypeOK, serverVars
<1>7. ClientNumbers(c)' /\ ExactTable(c)'
  BY <1>1, <1>4, <1>5, <1>6 DEF ClientNumbers, ExactTable
<1>8. ListOf(serializedMethods') /\ ListOf(listing'[c])
  BY <1>1, <1>4 DEF ListOf, Lists, Nothing, syncVars
<1>9. OnlyList(c)
  BY <1>1 DEF OnlyList, TypeOK
<1> QED BY <1>1, <1>3, <1>7, <1>8, <1>9, ListFrame

\* The entry sync comes to: a list without gaps is read id by id.
LEMMA NextEntryFacts ==
  ASSUME IInv, NEW c \in Clients, NEW i \in Ids, NextEntry(c, i)
  PROVE  /\ phase[c] = "parsing" /\ parsed' \in [Clients -> 0..(MaxId + 1)] /\ parsed'[c] = i + 1
         /\ \A d \in Clients \ {c} : parsed'[d] = parsed[d]
         /\ i \in Nat /\ parsed[c] \in Nat /\ cnext[c] \in Nat /\ parsed[c] <= i
         /\ i < nextMethodId /\ i + 1 <= nextMethodId
         /\ listing[c][i] \in {object[i], Garbage}
         /\ WithoutGaps(listing[c]) => parsed[c] = i /\ listing[c][i] \in Ids
<1> USE DEF IInv
<1>1. /\ phase[c] = "parsing" /\ parsed[c] <= i /\ listing[c][i] # None
      /\ \A j \in Ids : j >= parsed[c] /\ j < i => listing[c][j] = None
      /\ parsed' = [parsed EXCEPT ![c] = i + 1]
  BY DEF NextEntry
<1>2. i \in Nat /\ parsed[c] \in Nat /\ cnext[c] \in Nat /\ i + 1 \in 0..(MaxId + 1) /\ nextMethodId \in Nat
      /\ i <= MaxId
  BY IdsAreNumbers DEF TypeOK
<1>3. parsed' \in [Clients -> 0..(MaxId + 1)] /\ parsed'[c] = i + 1
      /\ \A d \in Clients \ {c} : parsed'[d] = parsed[d]
  BY <1>1, <1>2 DEF TypeOK
<1>4. i < nextMethodId /\ listing[c][i] \in {object[i], Garbage}
  BY <1>1 DEF Lists, ListOf
<1>5. i + 1 <= nextMethodId
  BY <1>2, <1>4
<1>6. ASSUME WithoutGaps(listing[c]) PROVE parsed[c] = i /\ listing[c][i] \in Ids
  <2>1. PICK n \in Ids : \A j \in Ids : IF j <= n THEN listing[c][j] \in Ids ELSE listing[c][j] = None
    BY <1>6 DEF WithoutGaps
  <2>2. i <= n /\ listing[c][i] \in Ids
    BY <1>1, <2>1
  <2>3. parsed[c] \in Ids /\ (parsed[c] < i => parsed[c] <= n)
    BY <1>1, <1>2, <2>2, IdsAreNumbers
  <2>4. listing[c][parsed[c]] # None \/ ~ (parsed[c] < i)
    BY <2>1, <2>3, NoneIsNoId
  <2>5. ~ (parsed[c] < i)
    BY <1>1, <1>2, <2>3, <2>4
  <2> QED BY <1>1, <1>2, <2>2, <2>5
<1> QED BY <1>1, <1>2, <1>3, <1>4, <1>5, <1>6

\* Only nymphsync is listed with the id 0, and only at 0.
LEMMA SkipSyncInv == ASSUME IInv, NEW c \in Clients, SkipSync(c) PROVE IInv'
<1> USE DEF IInv
<1>1. PICK i \in Ids : NextEntry(c, i) /\ listing[c][i] = 0
        /\ UNCHANGED <<serverVars, syncVars, phase, listing, clientVars, callVars>>
  BY DEF SkipSync
<1>2. /\ phase[c] = "parsing" /\ parsed' \in [Clients -> 0..(MaxId + 1)] /\ parsed'[c] = i + 1
      /\ \A d \in Clients \ {c} : parsed'[d] = parsed[d]
      /\ i \in Nat /\ parsed[c] \in Nat /\ cnext[c] \in Nat /\ parsed[c] <= i
      /\ i < nextMethodId /\ i + 1 <= nextMethodId
      /\ listing[c][i] \in {object[i], Garbage}
  BY <1>1, NextEntryFacts
<1>3. i = 0
  BY <1>1, <1>2, IdsAreNumbers, NoneIsNoId DEF Numbering
<1>4. parsed[c] = 0 /\ parsed'[c] = 1 /\ 1 <= nextMethodId
  BY <1>2, <1>3
<1>5. TypeOK'
  BY <1>1, <1>2 DEF TypeOK, serverVars, syncVars, clientVars, callVars
<1>6. cnext[c] <= 1
  BY <1>2, <1>4 DEF ClientNumbers
<1>7. ClientNumbers(c)'
  BY <1>1, <1>2, <1>4, <1>6 DEF ClientNumbers, serverVars, clientVars
<1>8. ExactTable(c)'
  BY <1>1 DEF ExactTable, serverVars, clientVars
<1>9. OnlyList(c) /\ ListOf(serializedMethods') /\ ListOf(listing'[c])
  BY <1>1, <1>2 DEF OnlyList, Lists, clientVars, syncVars
<1> QED BY <1>1, <1>5, <1>7, <1>8, <1>9, ListFrame

\* addMethod gives the entry the client's next number; without gaps that is the
\* id it has on the server.
LEMMA ParseMethodInv == ASSUME IInv, NEW c \in Clients, ParseMethod(c) PROVE IInv'
<1> USE DEF IInv
<1>1. PICK i \in Ids : NextEntry(c, i) /\ listing[c][i] \notin {0, Garbage}
        /\ AddMethod(c, registered[listing[c][i]])
        /\ UNCHANGED <<serverVars, syncVars, phase, listing, callVars>>
  BY DEF ParseMethod
<1>2. /\ phase[c] = "parsing" /\ parsed' \in [Clients -> 0..(MaxId + 1)] /\ parsed'[c] = i + 1
      /\ \A d \in Clients \ {c} : parsed'[d] = parsed[d]
      /\ i \in Nat /\ parsed[c] \in Nat /\ cnext[c] \in Nat /\ parsed[c] <= i
      /\ i < nextMethodId /\ i + 1 <= nextMethodId
      /\ listing[c][i] \in {object[i], Garbage}
      /\ WithoutGaps(listing[c]) => parsed[c] = i /\ listing[c][i] \in Ids
  BY <1>1, NextEntryFacts
<1> DEFINE n == registered[i]
<1> DEFINE k == cnext[c]
<1>3. /\ listing[c][i] = object[i] /\ object[i] \in Ids /\ object[i] # 0 /\ object[i] <= i
      /\ object[object[i]] = object[i] /\ registered[object[i]] = n
  BY <1>1, <1>2 DEF Numbering
<1>4. i >= 1
  BY <1>2, <1>3 DEF Numbering
<1>5. n \in AllNames
  BY <1>2, IdsAreNumbers DEF Numbering, TypeOK
<1>6. k <= i /\ k \in Ids /\ k \in Nat /\ k + 1 \in 0..(MaxId + 1) /\ k + 1 <= i + 1
  <2>1. k <= parsed[c] \/ k <= 1
    BY DEF ClientNumbers
  <2>2. k <= i /\ k \in Nat
    <3> HIDE DEF IInv
    <3> QED BY <1>2, <1>4, <2>1
  <2> QED BY <2>2, <1>2, IdsAreNumbers
<1> DEFINE o == cmethods'[c][n]
<1>7. AddMethod(c, n)
  BY <1>1, <1>3
<1> HIDE DEF n, k
<1>8. /\ cmethods' \in [Clients -> [AllNames -> Ids \cup {None}]] /\ o \in Ids
      /\ \A m \in AllNames \ {n} : cmethods'[c][m] = cmethods[c][m]
      /\ \A d \in Clients \ {c} : cmethods'[d] = cmethods[d]
      /\ IF cmethods[c][n] = None THEN o = k ELSE o = cmethods[c][n]
  <2>1. cmethods[c] \in [AllNames -> Ids \cup {None}] /\ cmethods \in [Clients -> [AllNames -> Ids \cup {None}]]
    BY DEF TypeOK
  <2>2. cmethods' = IF cmethods[c][n] = None THEN [cmethods EXCEPT ![c][n] = k] ELSE cmethods
    BY <1>7 DEF AddMethod, k
  <2>3. CASE cmethods[c][n] = None
    <3>1. cmethods' = [cmethods EXCEPT ![c] = [cmethods[c] EXCEPT ![n] = k]]
      BY <2>1, <2>2, <2>3
    <3> QED BY <1>5, <1>6, <2>1, <2>3, <3>1
  <2>4. CASE cmethods[c][n] # None
    BY <1>5, <2>1, <2>2, <2>4
  <2> QED BY <2>3, <2>4
<1>9. /\ cids' \in [Clients -> [Ids -> Ids \cup {None}]] /\ cids'[c][k] = o
      /\ \A j \in Ids \ {k} : cids'[c][j] = cids[c][j]
      /\ \A d \in Clients \ {c} : cids'[d] = cids[d]
  <2>1. cids[c] \in [Ids -> Ids \cup {None}] /\ cids \in [Clients -> [Ids -> Ids \cup {None}]]
    BY DEF TypeOK
  <2>2. cids' = [cids EXCEPT ![c] = [cids[c] EXCEPT ![k] = o]]
    BY <1>7, <2>1 DEF AddMethod, k, o
  <2> QED BY <1>6, <1>8, <2>1, <2>2
<1>10. cnext' \in [Clients -> 0..(MaxId + 1)] /\ cnext'[c] = k + 1
       /\ \A d \in Clients \ {c} : cnext'[d] = cnext[d]
  <2>1. cnext' = [cnext EXCEPT ![c] = k + 1]
    BY <1>7 DEF AddMethod, k
  <2> QED BY <2>1, <1>6 DEF TypeOK
<1>11. TypeOK'
  BY <1>1, <1>2, <1>8, <1>9, <1>10 DEF TypeOK, serverVars, syncVars, callVars
<1>12. ClientNumbers(c)'
  <2>1. \A j \in Ids : cids'[c][j] # None => j < k + 1
    <3>1. \A j \in Ids : cids[c][j] # None => j < k
      BY DEF ClientNumbers, k
    <3>2. \A j \in Ids : j < k => j < k + 1
      BY <1>6, IdsAreNumbers
    <3> HIDE DEF IInv
    <3>3. k < k + 1
      BY <1>6
    <3> QED BY <3>1, <3>2, <3>3, <1>6, <1>9
  <2>2. WithoutGaps(listing[c]) => k = i
    BY <1>2, <1>4 DEF ClientNumbers, k
  <2>3. i + 1 # 0
    BY <1>2
  <2> QED BY <1>1, <1>2, <1>6, <1>10, <2>1, <2>2, <2>3 DEF ClientNumbers, serverVars
<1>13. ExactTable(c)'
  <2> SUFFICES ASSUME WithoutGaps(listing[c])
               PROVE  /\ \A m \in AllNames : cmethods'[c][m] # None =>
                            registered[cmethods'[c][m]] = m /\ object[cmethods'[c][m]] = cmethods'[c][m]
                      /\ \A j \in Ids : cids'[c][j] # None =>
                            registered[cids'[c][j]] = registered[j] /\ object[cids'[c][j]] = cids'[c][j]
                      /\ \A j \in Ids : j < cnext'[c] => cmethods'[c][registered[j]] # None
    BY <1>1 DEF ExactTable, serverVars
  <2>1. k = i /\ registered[k] = n
    BY <1>2, <1>4 DEF ClientNumbers, k, n
  <2>2. registered[o] = n /\ object[o] = o
    <3>1. CASE cmethods[c][n] # None
      BY <3>1, <1>2, <1>5, <1>8 DEF ExactTable
    <3>2. CASE cmethods[c][n] = None
      <4>1. o = i
        BY <3>2, <1>8, <2>1
      <4>2. ~ (object[i] < i)
        BY <3>2, <1>2, <1>3, <2>1 DEF ExactTable, k
      <4>3. object[i] = i
        <5> HIDE DEF IInv
        <5>1. object[i] \in Nat
          BY <1>3, IdsAreNumbers
        <5> QED BY <4>2, <5>1, <1>2, <1>3
      <4> QED BY <4>1, <4>3, <2>1
    <3> QED BY <3>1, <3>2
  <2>3. \A m \in AllNames : cmethods'[c][m] # None =>
           registered[cmethods'[c][m]] = m /\ object[cmethods'[c][m]] = cmethods'[c][m]
    BY <2>2, <1>2, <1>8 DEF ExactTable
  <2>4. ASSUME NEW j \in Ids, cids'[c][j] # None
        PROVE  registered[cids'[c][j]] = registered[j] /\ object[cids'[c][j]] = cids'[c][j]
    <3>1. CASE j = k
      BY <3>1, <2>1, <2>2, <1>9
    <3>2. CASE j # k
      BY <3>2, <2>4, <1>2, <1>9 DEF ExactTable
    <3> QED BY <3>1, <3>2
  <2>5. ASSUME NEW j \in Ids, j < cnext'[c] PROVE cmethods'[c][registered[j]] # None
    <3>1. CASE j = k
      BY <3>1, <2>1, <1>8, NoneIsNoId
    <3>2. CASE j # k
      <4>1. j < k
        BY <3>2, <2>5, <1>6, <1>10, IdsAreNumbers
      <4>2. cmethods[c][registered[j]] # None
        BY <4>1, <1>2 DEF ExactTable, k
      <4>3. registered[j] \in AllNames
        <5>1. j < nextMethodId
          BY <4>1, <1>2, <1>6, IdsAreNumbers DEF TypeOK
        <5> QED BY <5>1, IdsAreNumbers DEF Numbering, TypeOK
      <4> QED BY <4>2, <4>3, <1>8, NoneIsNoId
    <3> QED BY <3>1, <3>2
  <2> QED BY <2>3, <2>4, <2>5
<1>14. OnlyList(c) /\ ListOf(serializedMethods') /\ ListOf(listing'[c])
  BY <1>1, <1>2, <1>8, <1>9, <1>10 DEF OnlyList, Lists, syncVars
<1> QED BY <1>1, <1>11, <1>12, <1>13, <1>14, ListFrame

LEMMA RejectListInv == ASSUME IInv, NEW c \in Clients, RejectList(c) PROVE IInv'
<1> USE DEF IInv
<1>1. PICK i \in Ids : NextEntry(c, i)
        /\ phase' = [phase EXCEPT ![c] = "failed"]
        /\ UNCHANGED <<serverVars, syncVars, listing, clientVars, callVars>>
  BY DEF RejectList
<1>2. /\ parsed' \in [Clients -> 0..(MaxId + 1)] /\ parsed'[c] = i + 1
      /\ \A d \in Clients \ {c} : parsed'[d] = parsed[d]
      /\ i \in Nat /\ parsed[c] \in Nat /\ cnext[c] \in Nat /\ parsed[c] <= i
      /\ i + 1 <= nextMethodId
  BY <1>1, NextEntryFacts
<1>3. phase' \in [Clients -> {"closed", "asked", "building", "built", "parsing", "ready", "failed"}]
      /\ phase'[c] = "failed" /\ \A d \in Clients \ {c} : phase'[d] = phase[d]
  BY <1>1 DEF TypeOK
<1>4. TypeOK'
  BY <1>1, <1>2, <1>3 DEF TypeOK, serverVars, syncVars, clientVars, callVars
<1>5. cnext[c] <= i + 1 \/ cnext[c] <= 1
  <2>1. cnext[c] <= parsed[c] \/ cnext[c] <= 1
    BY DEF ClientNumbers
  <2> HIDE DEF IInv
  <2> QED BY <1>2, <2>1
<1>6. ClientNumbers(c)' /\ ExactTable(c)'
  BY <1>1, <1>2, <1>3, <1>5 DEF ClientNumbers, ExactTable, serverVars, clientVars
<1>7. OnlyList(c) /\ ListOf(serializedMethods') /\ ListOf(listing'[c])
  BY <1>1, <1>2, <1>3 DEF OnlyList, Lists, clientVars, syncVars
<1> QED BY <1>1, <1>4, <1>6, <1>7, ListFrame

LEMMA SyncDoneInv == ASSUME IInv, NEW c \in Clients, SyncDone(c) PROVE IInv'
<1> USE DEF IInv, SyncDone
<1>1. phase' \in [Clients -> {"closed", "asked", "building", "built", "parsing", "ready", "failed"}]
      /\ phase[c] = "parsing" /\ phase'[c] = "ready" /\ \A d \in Clients \ {c} : phase'[d] = phase[d]
  BY DEF TypeOK
<1>2. TypeOK'
  BY <1>1 DEF TypeOK, serverVars, syncVars, clientVars, callVars
<1>3. ClientNumbers(c)' /\ ExactTable(c)'
  BY <1>1 DEF ClientNumbers, ExactTable, serverVars, clientVars
<1>4. OnlyList(c) /\ ListOf(serializedMethods') /\ ListOf(listing'[c])
  BY <1>1 DEF OnlyList, Lists, clientVars, syncVars
<1> QED BY <1>2, <1>3, <1>4, ListFrame

\* The application takes a method out of a complete table.
LEMMA ClientRemoveInv ==
  ASSUME IInv, NEW c \in Clients, NEW n \in Names, ClientRemoveMethod(c, n)
  PROVE  IInv'
<1> USE DEF IInv, ClientRemoveMethod
<1>1. cmethods[c] \in [AllNames -> Ids \cup {None}] /\ cmethods \in [Clients -> [AllNames -> Ids \cup {None}]]
      /\ n \in AllNames
  BY DEF TypeOK, AllNames
<1>2. cmethods' = [cmethods EXCEPT ![c] = [cmethods[c] EXCEPT ![n] = None]]
  BY <1>1
<1>3. /\ cmethods' \in [Clients -> [AllNames -> Ids \cup {None}]] /\ cmethods'[c][n] = None
      /\ \A m \in AllNames \ {n} : cmethods'[c][m] = cmethods[c][m]
      /\ \A d \in Clients \ {c} : cmethods'[d] = cmethods[d]
  BY <1>1, <1>2
<1>4. TypeOK'
  BY <1>3 DEF TypeOK, serverVars, syncVars, listVars, callVars
<1>5. ClientNumbers(c)'
  BY DEF ClientNumbers, serverVars, listVars
<1>6. ExactTable(c)'
  BY <1>3 DEF ExactTable, serverVars, listVars
<1>7. OnlyList(c) /\ ListOf(serializedMethods') /\ ListOf(listing'[c])
  BY <1>3 DEF OnlyList, Lists, listVars, syncVars
<1> QED BY <1>4, <1>5, <1>6, <1>7, ListFrame

-----------------------------------------------------------------------------
(* Calls. *)

\* A request is on its way that names what its id was registered under, if it is
\* exact.
LEMMA SendInv ==
  ASSUME IInv, NEW c \in Clients, NEW id \in Ids, NEW n \in AllNames, NEW exact \in BOOLEAN,
         SendRequest(c, id, n, exact),
         exact => registered[id] = n /\ object[id] = id
  PROVE  IInv'
<1> USE DEF IInv
<1>1. Request(id, n, exact) \in [id : Ids, asked : AllNames, exact : BOOLEAN]
      /\ Request(id, n, exact).id = id /\ Request(id, n, exact).asked = n
      /\ Request(id, n, exact).exact = exact
  BY DEF Request
<1>2. /\ wire' \in [Clients -> [id : Ids, asked : AllNames, exact : BOOLEAN] \cup {None}]
      /\ wire'[c] = Request(id, n, exact)
      /\ \A d \in Clients \ {c} : wire'[d] = wire[d]
  BY <1>1 DEF SendRequest, TypeOK
<1>3. /\ ran' \in [Clients -> [asked : AllNames, got : AllNames, exact : BOOLEAN] \cup {None}]
      /\ ran'[c] = None /\ \A d \in Clients \ {c} : ran'[d] = ran[d]
  BY DEF SendRequest, TypeOK
<1>4. UNCHANGED <<serverVars, syncVars, listVars, clientVars>>
  BY DEF SendRequest
<1>5. TypeOK'
  BY <1>2, <1>3, <1>4 DEF TypeOK, serverVars, syncVars, listVars, clientVars
<1>6. Numbering' /\ ServerTables' /\ Lists'
  BY <1>4 DEF Numbering, ServerTables, Lists, ListOf, serverVars, syncVars, listVars
<1>7. ASSUME NEW d \in Clients PROVE ClientNumbers(d)' /\ ExactTable(d)' /\ ExactRequest(d)'
  <2>1. ClientNumbers(d)' /\ ExactTable(d)'
    BY <1>4 DEF ClientNumbers, ExactTable, serverVars, listVars, clientVars
  <2>2. CASE d = c
    BY <2>1, <2>2, <1>1, <1>2, <1>4 DEF ExactRequest, serverVars
  <2>3. CASE d # c
    BY <2>1, <2>3, <1>2, <1>4 DEF ExactRequest, serverVars
  <2> QED BY <2>2, <2>3
<1>8. ExactTableRunsNamed'
  BY <1>3 DEF ExactTableRunsNamed
<1> QED BY <1>5, <1>6, <1>7, <1>8

\* An id in a client's table was given out by the server.
LEMMA ClientIdRegistered ==
  ASSUME IInv, NEW c \in Clients, NEW i \in Ids, cids[c][i] # None
  PROVE  cids[c][i] \in Ids /\ registered[i] \in AllNames
<1> USE DEF IInv
<1>1. /\ i \in Nat /\ cnext[c] \in Nat /\ parsed[c] \in Nat
      /\ nextMethodId \in Nat /\ nextMethodId >= 1
      /\ cids[c][i] \in Ids
  BY IdsAreNumbers DEF TypeOK
<1>2. i < cnext[c] /\ parsed[c] <= nextMethodId /\ (cnext[c] <= parsed[c] \/ cnext[c] <= 1)
  BY DEF ClientNumbers
<1>3. i < nextMethodId
  <2> HIDE DEF IInv
  <2> QED BY <1>1, <1>2
<1> QED BY <1>1, <1>3 DEF Numbering, TypeOK

LEMMA CallInv ==
  ASSUME IInv, NEW c \in Clients,
         \/ \E n \in Names : CallMethod(c, n)
         \/ \E i \in Ids : CallMethodId(c, i) \/ CallErasedMethod(c, i)
  PROVE  IInv'
<1>0. WithoutGaps(listing[c]) \in BOOLEAN
  BY DEF WithoutGaps
<1>1. ASSUME NEW n \in Names, CallMethod(c, n) PROVE IInv'
  <2>1. n \in AllNames /\ cmethods[c][n] \in Ids /\ phase[c] = "ready"
    BY <1>1 DEF IInv, TypeOK, CallMethod, SendRequest, AllNames
  <2>2. WithoutGaps(listing[c]) =>
           registered[cmethods[c][n]] = n /\ object[cmethods[c][n]] = cmethods[c][n]
    BY <2>1, NoneIsNoId DEF IInv, ExactTable
  <2> QED BY <1>0, <1>1, <2>1, <2>2, SendInv DEF CallMethod
<1>2. ASSUME NEW i \in Ids, CallMethodId(c, i) PROVE IInv'
  <2>1. cids[c][i] \in Ids /\ registered[i] \in AllNames /\ phase[c] = "ready" /\ cids[c][i] # None
    BY <1>2, ClientIdRegistered DEF CallMethodId, SendRequest
  <2>2. WithoutGaps(listing[c]) =>
           registered[cids[c][i]] = registered[i] /\ object[cids[c][i]] = cids[c][i]
    BY <2>1 DEF IInv, ExactTable
  <2> QED BY <1>0, <1>2, <2>1, <2>2, SendInv DEF CallMethodId
<1>3. ASSUME NEW i \in Ids, CallErasedMethod(c, i) PROVE IInv'
  <2>1. PICK id \in Ids : SendRequest(c, id, registered[i], FALSE)
    BY <1>3 DEF CallErasedMethod
  <2>2. registered[i] \in AllNames
    BY <1>3, ClientIdRegistered DEF CallErasedMethod
  <2> QED BY <2>1, <2>2, SendInv
<1> QED BY <1>1, <1>2, <1>3

\* The server finds at an exact request's id the object that was registered
\* there, still in its map, or nothing.
LEMMA CallMethodCallbackInv ==
  ASSUME IInv, NEW c \in Clients, CallMethodCallback(c)
  PROVE  IInv'
<1> USE DEF IInv
<1> DEFINE o == methodsIds[wire[c].id]
<1>1. /\ wire[c] # None /\ wire[c].id \in Ids /\ wire[c].asked \in AllNames /\ wire[c].exact \in BOOLEAN
      /\ o \in Ids \cup {None}
      /\ wire' = [wire EXCEPT ![c] = None]
      /\ UNCHANGED <<serverVars, syncVars, listVars, clientVars>>
  BY DEF CallMethodCallback, TypeOK
<1>2. o # None => registered[o] \in AllNames
  BY <1>1, NoneIsNoId, IdsAreNumbers DEF ServerTables, Numbering, TypeOK
<1>3. ASSUME wire[c].exact, o # None
      PROVE  Live(o, methods) /\ registered[o] = wire[c].asked
  <2>1. registered[wire[c].id] = wire[c].asked /\ object[wire[c].id] = wire[c].id
    BY <1>1, <1>3 DEF ExactRequest
  <2>2. o = wire[c].id
    BY <1>1, <1>3, <2>1 DEF ServerTables
  <2>3. methods[registered[o]] = o
    BY <1>1, <2>2 DEF ServerTables
  <2> QED BY <1>1, <2>1, <2>2, <2>3 DEF Live
<1>5. \/ ran' = ran
      \/ \E n \in AllNames :
            /\ wire[c].exact => n = wire[c].asked
            /\ ran' = [ran EXCEPT ![c] = [asked |-> wire[c].asked, got |-> n, exact |-> wire[c].exact]]
  <2>1. CASE o = None
    BY <2>1 DEF CallMethodCallback
  <2>2. CASE o # None
    <3>1. PICK n \in IF Live(o, methods) THEN {registered[o]} ELSE AllNames :
             ran' = [ran EXCEPT ![c] = [asked |-> wire[c].asked, got |-> n, exact |-> wire[c].exact]]
      BY <2>2 DEF CallMethodCallback
    <3>2. n \in AllNames
      BY <3>1, <2>2, <1>2
    <3>3. wire[c].exact => n = wire[c].asked
      BY <3>1, <2>2, <1>3
    <3> QED BY <3>1, <3>2, <3>3
  <2> QED BY <2>1, <2>2
<1> HIDE DEF o
<1>6. ran' \in [Clients -> [asked : AllNames, got : AllNames, exact : BOOLEAN] \cup {None}]
      /\ ExactTableRunsNamed'
  <2>1. CASE ran' = ran
    BY <2>1 DEF ExactTableRunsNamed, TypeOK
  <2>2. CASE ran' # ran
    <3>1. PICK n \in AllNames :
            /\ wire[c].exact => n = wire[c].asked
            /\ ran' = [ran EXCEPT ![c] = [asked |-> wire[c].asked, got |-> n, exact |-> wire[c].exact]]
      BY <2>2, <1>5
    <3> DEFINE new == [asked |-> wire[c].asked, got |-> n, exact |-> wire[c].exact]
    <3>2. new \in [asked : AllNames, got : AllNames, exact : BOOLEAN]
          /\ (new.exact => new.got = new.asked)
      BY <1>1, <3>1
    <3>3. ran' = [ran EXCEPT ![c] = new]
      BY <3>1
    <3> HIDE DEF new
    <3>4. ran' \in [Clients -> [asked : AllNames, got : AllNames, exact : BOOLEAN] \cup {None}]
          /\ ran'[c] = new /\ \A d \in Clients \ {c} : ran'[d] = ran[d]
      BY <3>2, <3>3 DEF TypeOK
    <3>5. ASSUME NEW d \in Clients, ran'[d] # None, ran'[d].exact
          PROVE  ran'[d].got = ran'[d].asked
      BY <3>2, <3>4, <3>5 DEF ExactTableRunsNamed
    <3> QED BY <3>4, <3>5 DEF ExactTableRunsNamed
  <2> QED BY <2>1, <2>2
<1>7. /\ wire' \in [Clients -> [id : Ids, asked : AllNames, exact : BOOLEAN] \cup {None}]
      /\ wire'[c] = None /\ \A d \in Clients \ {c} : wire'[d] = wire[d]
  BY <1>1 DEF TypeOK
<1>8. TypeOK'
  BY <1>1, <1>6, <1>7 DEF TypeOK, serverVars, syncVars, listVars, clientVars
<1>9. Numbering' /\ ServerTables' /\ Lists'
  BY <1>1 DEF Numbering, ServerTables, Lists, ListOf, serverVars, syncVars, listVars
<1>10. ASSUME NEW d \in Clients PROVE ClientNumbers(d)' /\ ExactTable(d)' /\ ExactRequest(d)'
  <2>1. ClientNumbers(d)' /\ ExactTable(d)'
    BY <1>1 DEF ClientNumbers, ExactTable, serverVars, listVars, clientVars
  <2>2. ExactRequest(d)'
    BY <1>1, <1>7 DEF ExactRequest, serverVars
  <2> QED BY <2>1, <2>2
<1> QED BY <1>6, <1>8, <1>9, <1>10

-----------------------------------------------------------------------------

LEMMA InitInv == ASSUME Init PROVE IInv
<1> USE DEF Init
<1>1. 0 \in Ids /\ 0 \in 0..(MaxId + 1) /\ 1 \in 1..(MaxId + 1) /\ 0 # None
      /\ \A i \in Ids : i \in Nat /\ (i >= 1 <=> i # 0) /\ (i < 1 <=> i = 0)
  BY IdsAreNumbers, NoneIsNoId
<1>2. TypeOK
  <2>1. registered \in [Ids -> AllNames \cup {None}]
    BY <1>1 DEF AllNames
  <2> QED BY <1>1, <2>1, StartTables DEF TypeOK
<1>3. Numbering
  BY <1>1, TableAssumption DEF Numbering, SyncOnly
<1>4. ServerTables
  BY <1>1, NoneIsNoId DEF ServerTables, SyncOnly, SyncName, AllNames
<1>5. Lists
  BY DEF Lists, ListOf, Nothing
<1>6. ASSUME NEW c \in Clients PROVE ClientNumbers(c) /\ ExactTable(c) /\ ExactRequest(c)
  BY <1>1 DEF ClientNumbers, ExactTable, ExactRequest, Nothing
<1>7. ExactTableRunsNamed
  BY DEF ExactTableRunsNamed
<1> QED BY <1>2, <1>3, <1>4, <1>5, <1>6, <1>7 DEF IInv

LEMMA StutterInv == ASSUME IInv, UNCHANGED vars PROVE IInv'
<1>1. UNCHANGED <<serverVars, syncVars, listVars, clientVars, callVars>>
  BY DEF vars
<1>2. \A c \in Clients : ClientNumbers(c)' /\ ExactTable(c)' /\ ExactRequest(c)'
  BY <1>1 DEF IInv, ClientNumbers, ExactTable, ExactRequest, serverVars, listVars, clientVars, callVars
<1>3. TypeOK' /\ Numbering' /\ ServerTables' /\ Lists' /\ ExactTableRunsNamed'
  BY <1>1 DEF IInv, TypeOK, Numbering, ServerTables, Lists, ListOf, ExactTableRunsNamed,
              serverVars, syncVars, listVars, clientVars, callVars
<1> QED BY <1>2, <1>3 DEF IInv

LEMMA NextInv == ASSUME IInv, [Next]_vars PROVE IInv'
<1>1. CASE ServerStep
  <2>1. ServerRemoves \subseteq Names
    BY TableAssumption
  <2> QED BY <1>1, <2>1, RegisterInv, RemoveMethodInv, RemoveUnknownInv DEF ServerStep
<1>2. ASSUME NEW c \in Clients, SyncStep(c) PROVE IInv'
  BY <1>2, SyncBeginInv, SyncDroppedInv, SyncEndInv, SyncReplyInv, ResetInv, SkipSyncInv,
     ParseMethodInv, RejectListInv, SyncDoneInv DEF SyncStep
<1>3. ASSUME NEW c \in Clients, CallStep(c) PROVE IInv'
  <2>1. ClientRemoves \subseteq Names
    BY TableAssumption
  <2> QED BY <1>3, <2>1, CallInv, ClientRemoveInv, CallMethodCallbackInv DEF CallStep
<1>4. CASE UNCHANGED vars
  BY <1>4, StutterInv
<1> QED BY <1>1, <1>2, <1>3, <1>4 DEF Next

\* IInv holds in every state of every behaviour of the method tables.
THEOREM TablesInductive == Spec => []IInv
<1>1. Init => IInv
  BY InitInv
<1>2. IInv /\ [Next]_vars => IInv'
  BY NextInv
<1> QED BY <1>1, <1>2, PTL DEF Spec

\* sync, callMethod, callMethodId, callMethodCallback: a connection whose list had
\* no gaps runs the method its user named or none, whatever the server registers
\* and removes meanwhile.
THEOREM ExactTablesAreSafe == Spec => []ExactTableRunsNamed
<1>1. IInv => ExactTableRunsNamed
  BY DEF IInv
<1> QED BY <1>1, TablesInductive, PTL

\* registerMethod, removeMethod: while no id is missing from the server's table,
\* none of its pointers dangles.
THEOREM NoGapNoDangling == Spec => []DanglingLeavesGap
<1>1. IInv => DanglingLeavesGap
  <2> SUFFICES ASSUME IInv, \A i \in Ids : i < nextMethodId => methodsIds[i] # None,
                      NEW i \in Ids, methodsIds[i] # None
               PROVE  Live(methodsIds[i], methods)
    BY DEF DanglingLeavesGap, NoDanglingId
  <2> DEFINE o == object[i]
  <2>1. i < nextMethodId /\ methodsIds[i] = o
    BY DEF IInv, ServerTables
  <2>2. o \in Ids /\ o <= i /\ object[o] = o /\ i \in Nat /\ nextMethodId \in Nat
    BY <2>1, IdsAreNumbers DEF IInv, Numbering, TypeOK
  <2>3. o < nextMethodId
    <3> HIDE DEF o
    <3> QED BY <2>1, <2>2, IdsAreNumbers
  <2>4. methodsIds[o] = o
    BY <2>2, <2>3 DEF IInv, ServerTables
  <2>5. methods[registered[o]] = o
    BY <2>2, <2>4 DEF IInv, ServerTables
  <2>6. registered[o] # None /\ registered[o] \in AllNames \cup {None}
    <3>1. registered[o] \in AllNames \cup {None} /\ (registered[o] = None <=> o >= nextMethodId)
      BY <2>2 DEF IInv, TypeOK, Numbering
    <3> HIDE DEF o
    <3>2. o \in Nat /\ nextMethodId \in Nat
      BY <2>2, IdsAreNumbers
    <3>3. ~ (o >= nextMethodId)
      BY <2>3, <3>2
    <3> QED BY <3>1, <3>3
  <2> QED BY <2>1, <2>5, <2>6 DEF Live
<1> QED BY <1>1, TablesInductive, PTL

\* Both maps of the server lose a name's object together.
LEMMA ResolveStep ==
  ASSUME ~ RemovesUnknown, IInv, MethodsResolve, Next
  PROVE  MethodsResolve'
<1>1. ASSUME NEW n \in Names, RegisterMethod(n) PROVE MethodsResolve'
  <2> DEFINE k == nextMethodId
  <2>1. k \in Ids /\ k \in Nat /\ n \in AllNames
    BY <1>1, IdsAreNumbers DEF RegisterMethod, AllNames
  <2>2. \A m \in AllNames : methods[m] # None => methods[m] \in Ids \ {k}
    <3>1. ASSUME NEW m \in AllNames, methods[m] # None PROVE methods[m] \in Ids /\ registered[methods[m]] = m
      BY <3>1 DEF IInv, TypeOK, ServerTables
    <3>2. registered[k] = None /\ \A m \in AllNames : m # None
      BY <2>1, TableAssumption DEF IInv, Numbering, AllNames
    <3> QED BY <3>1, <3>2
  <2>3. /\ methods' \in [AllNames -> Ids \cup {None}]
        /\ \A m \in AllNames \ {n} : methods'[m] = methods[m]
        /\ IF methods[n] = None THEN methods'[n] = k ELSE methods'[n] = methods[n]
    BY <1>1, <2>1 DEF RegisterMethod, IInv, TypeOK
  <2>4. methodsIds'[k] = methods'[n] /\ \A i \in Ids \ {k} : methodsIds'[i] = methodsIds[i]
    BY <1>1, <2>1 DEF RegisterMethod, IInv, TypeOK
  <2> HIDE DEF k
  <2> QED BY <2>2, <2>3, <2>4 DEF MethodsResolve
<1>2. ASSUME NEW n \in Names, RemoveMethod(n) PROVE MethodsResolve'
  <2>1. n \in AllNames /\ methods[n] \in Ids /\ registered[methods[n]] = n
    BY <1>2 DEF RemoveMethod, IInv, TypeOK, ServerTables, AllNames
  <2>2. methods'[n] = None /\ \A m \in AllNames \ {n} : methods'[m] = methods[m]
    BY <1>2, <2>1 DEF RemoveMethod, IInv, TypeOK
  <2>3. \A i \in Ids \ {methods[n]} : methodsIds'[i] = methodsIds[i]
    BY <1>2, <2>1 DEF RemoveMethod, IInv, TypeOK
  <2>4. \A m \in AllNames \ {n} : methods[m] # None => methods[m] \in Ids \ {methods[n]}
    BY <2>1 DEF IInv, TypeOK, ServerTables
  <2> QED BY <2>2, <2>3, <2>4 DEF MethodsResolve
<1>3. ASSUME NEW n \in Names PROVE ~ RemoveUnknown(n)
  BY DEF RemoveUnknown
<1>4. ASSUME NEW c \in Clients, SyncStep(c) \/ CallStep(c) PROVE MethodsResolve'
  <2>1. UNCHANGED serverVars
    BY <1>4 DEF SyncStep, CallStep, SyncBegin, SyncDropped, SyncEnd, SyncReply, Connect, SkipSync, ParseMethod,
                RejectList, SyncDone, Disconnect, CallMethod, CallMethodId, CallErasedMethod,
                SendRequest, ClientRemoveMethod, CallMethodCallback
  <2> QED BY <2>1 DEF MethodsResolve, serverVars
<1>5. ServerRemoves \subseteq Names
  BY TableAssumption
<1> QED BY <1>1, <1>2, <1>3, <1>4, <1>5 DEF Next, ServerStep

\* registerMethod, removeMethod: a registered name can be reached by its own id,
\* unless removeMethod is called with a name that is not registered.
THEOREM NamesResolve == ASSUME ~ RemovesUnknown PROVE Spec => []MethodsResolve
<1>1. Init => MethodsResolve
  BY IdsAreNumbers DEF Init, MethodsResolve, SyncName, SyncOnly
<1>2. ASSUME MethodsResolve, UNCHANGED vars PROVE MethodsResolve'
  BY <1>2 DEF MethodsResolve, vars, serverVars
<1>3. IInv /\ MethodsResolve /\ [Next]_vars => MethodsResolve'
  BY <1>2, ResolveStep
<1> QED BY <1>1, <1>3, TablesInductive, PTL DEF Spec

=============================================================================
