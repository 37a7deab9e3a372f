------------------------------- MODULE Message -------------------------------
(***************************************************************************)
(* The life of the messages of one exchange (nymph_message.cpp): a call    *)
(* and its answer, or a callback.  The sender composes a NymphMessage and  *)
(* serialises it; the receiver parses the bytes into a new object, whose   *)
(* buffer the parsed strings, arrays and structs point into: they count    *)
(* references to it (linkWithMessage), and it is deleted by a handler      *)
(* (discard), by whoever drops it (delete), or by the last of those values *)
(* (decrementReferenceCount).                                              *)
(***************************************************************************)
EXTENDS NymphCodec, FiniteSets

CONSTANTS
    MaxValues,      \* bound: parameters of a call
    NameLength,     \* length of the name of the callback
    None            \* null pointer

ASSUME BoundsAreNat == MaxValues \in Nat /\ NameLength \in Nat
ASSUME NoneIsNoValue == None \notin Values

Sides == {"server", "client"}

VARIABLES
    pc,         \* where the exchange stands
    kind,       \* "call" or "callback"
    out,        \* the NymphMessage being composed, or the last one sent
    wire,       \* the bytes under way
    obj,        \* the NymphMessage each side has parsed
    nextId,     \* NymphUtilities::messageId
    waiting,    \* the caller is waiting for the answer
    result      \* the caller's returnValue: "none", "held" or "deleted"

vars == <<pc, kind, out, wire, obj, nextId, waiting, result>>

-----------------------------------------------------------------------------
\* The sender's object.

NymphMessage(flags) == [flags |-> flags, values |-> <<>>, response |-> None,
                        bufferLength |-> 0, messageId |-> 0, responseId |-> 0]

addValue(m, v) == [m EXCEPT !.values = Append(@, v), !.bufferLength = @ + v.length]

setInReplyTo(m, id) == [m EXCEPT !.responseId = id, !.messageId = id + 1]

setResultValue(m, v) == [m EXCEPT !.flags = @ \cup {"reply"}, !.response = v,
                                  !.bufferLength = v.length]

setException(m) == [m EXCEPT !.flags = @ \cup {"exception"}]

CallbackName == String(NameLength)

\* The length announced in the header: everything after the first 8 bytes.
messageLength(m) ==
    18 + m.bufferLength
       + (IF "reply" \in m.flags THEN 8 ELSE 0)
       + (IF "exception" \in m.flags THEN 8
          ELSE IF "callback" \in m.flags THEN CallbackName.length ELSE 0)

\* The values of the message, in the order they are written.
Parts(m) ==
    IF "reply" \in m.flags THEN serialize[m.response]
    ELSE (IF "callback" \in m.flags THEN serializeString(CallbackName) ELSE <<>>)
         \o FlattenSeq([i \in DOMAIN m.values |-> serialize[m.values[i]]])

\* Header (25 bytes), response id of a reply, values, terminator.
Written(m) == 25 + (IF "reply" \in m.flags THEN 8 ELSE 0) + WidthOf(Parts(m)) + 1

Unused(n) == [kind |-> "unused", code |-> "", num |-> 0, width |-> n]

Frame(m) ==
    LET size == messageLength(m) + 8
    IN  [size |-> size, flags |-> m.flags, messageId |-> m.messageId,
         responseId |-> m.responseId,
         body |-> Parts(m) \o <<Code("none")>>
                  \o (IF Written(m) < size THEN <<Unused(size - Written(m))>> ELSE <<>>)]

-----------------------------------------------------------------------------
\* The receiver's object.

NoMessage == [live |-> FALSE, flags |-> {}, messageId |-> 0, responseId |-> 0,
              callback |-> Null, values |-> <<>>, response |-> Null, linked |-> 0,
              corrupt |-> FALSE, owned |-> TRUE, refs |-> 0, discarded |-> FALSE,
              frees |-> 0, responseFrees |-> 0, dropped |-> FALSE]

IsLinked(c) == c.type \in Linkable
Links(vs) == Cardinality({i \in DOMAIN vs : IsLinked(vs[i])})

\* The values from a position up to a terminator or the end of the message.
ReadValues(w, P, from) ==
    LET after[k \in 0 .. Len(w)] ==
            IF k = 0 THEN [pos |-> from, vals |-> <<>>]
            ELSE LET s == after[k - 1]
                 IN  IF s.pos > Len(w) \/ w[s.pos] = Code("none") THEN s
                     ELSE [pos |-> P[s.pos].next, vals |-> Append(s.vals, P[s.pos].val)]
    IN  after[Len(w)]

\* A reply is corrupt unless its response is followed by the terminator; the
\* response is linked only then.  Otherwise the message is corrupt when the values
\* run up to its end.
parse(f) ==
    LET w == f.body
        P == Reads(w)
        base == [NoMessage EXCEPT !.live = TRUE, !.flags = f.flags,
                                  !.messageId = f.messageId, !.responseId = f.responseId]
    IN  IF "reply" \in f.flags
        THEN LET bad == P[1].next > Len(w) \/ w[P[1].next] # Code("none")
             IN  [base EXCEPT !.response = P[1].val, !.corrupt = bad,
                              !.refs = IF ~bad /\ IsLinked(P[1].val) THEN 1 ELSE 0]
        ELSE LET from == IF "callback" \in f.flags THEN P[1].next ELSE 1
                 args == ReadValues(w, P, from)
             IN  [base EXCEPT !.callback = IF "callback" \in f.flags THEN P[1].val ELSE Null,
                              !.values = args.vals, !.linked = Links(args.vals),
                              !.corrupt = args.pos > Len(w), !.refs = Links(args.vals)]

\* The response is deleted with its message as long as the message owns it.
OwnsResponse(m) == m.owned /\ m.response # Null

\* ~NymphMessage: the values it deletes give back their references, so that a
\* message deleted with references left deletes itself again, unless it is marked.
Destroy(m) ==
    LET back == m.linked + (IF OwnsResponse(m) /\ IsLinked(m.response) /\ ~m.corrupt THEN 1 ELSE 0)
        again == ~m.discarded /\ m.refs \in 1 .. back
    IN  [m EXCEPT !.live = FALSE, !.frees = @ + (IF again THEN 2 ELSE 1),
                  !.responseFrees = @ + (IF ~OwnsResponse(m) THEN 0 ELSE IF again THEN 2 ELSE 1)]

\* A plain delete of a message nobody uses.
Drop(m) == Destroy([m EXCEPT !.dropped = TRUE])

discard(m) == Destroy([m EXCEPT !.discarded = TRUE])

decrementReferenceCount(m) ==
    IF m.discarded THEN m
    ELSE IF m.refs = 1 THEN Destroy([m EXCEPT !.refs = 0])
    ELSE [m EXCEPT !.refs = @ - 1]

\* Mutant of getResponse: the message goes on owning the response.
getResponseShared(m) == m

\* getResponse() leaves the response to the caller.
getResponse(m) == [m EXCEPT !.owned = FALSE]

\* ~NymphType of the response, deleted by its new owner.
deleteResponse(m) ==
    LET freed == [m EXCEPT !.responseFrees = @ + 1]
    IN  IF IsLinked(m.response) THEN decrementReferenceCount(freed) ELSE freed

-----------------------------------------------------------------------------
Init ==
    /\ pc = "idle" /\ kind = "call"
    /\ out = NymphMessage({}) /\ wire = None
    /\ obj = [s \in Sides |-> NoMessage]
    /\ nextId = 1 /\ waiting = FALSE /\ result = "none"

\* NymphMethod::call starts a message, for a method or for a callback.
Compose(k) ==
    /\ pc = "idle"
    /\ kind' = k
    /\ out' = NymphMessage(IF k = "callback" THEN {"callback"} ELSE {})
    /\ pc' = "composing"
    /\ UNCHANGED <<wire, obj, nextId, waiting, result>>

AddValue(v) ==
    /\ pc = "composing" /\ Len(out.values) < MaxValues
    /\ out' = addValue(out, v)
    /\ UNCHANGED <<pc, kind, wire, obj, nextId, waiting, result>>

\* A value of the wrong type: the call returns false, nothing is sent.
Refuse ==
    /\ pc = "composing"
    /\ pc' = "done"
    /\ UNCHANGED <<kind, out, wire, obj, nextId, waiting, result>>

\* serialize takes a new id, unless the message is a reply, and the bytes are sent.
Send ==
    /\ pc \in {"composing", "replying"}
    /\ LET m == IF "reply" \in out.flags THEN out ELSE [out EXCEPT !.messageId = nextId]
       IN  out' = m /\ wire' = Frame(m)
    /\ nextId' = IF "reply" \in out.flags THEN nextId ELSE nextId + 1
    /\ waiting' = (waiting \/ (pc = "composing" /\ kind = "call"))
    /\ pc' = "sent"
    /\ UNCHANGED <<kind, obj, result>>

Receiver == IF kind = "call" /\ "reply" \notin out.flags THEN "server" ELSE "client"

\* The session or the listener reads the whole frame and constructs the message.
Receive ==
    /\ pc = "sent"
    /\ obj' = [obj EXCEPT ![Receiver] = parse(wire)]
    /\ wire' = None
    /\ pc' = "parsed"
    /\ UNCHANGED <<kind, out, nextId, waiting, result>>

\* Both sides delete a corrupt message and go on.
DropCorrupt ==
    /\ pc = "parsed" /\ obj[Receiver].corrupt
    /\ obj' = [obj EXCEPT ![Receiver] = Drop(@)]
    /\ pc' = "done"
    /\ UNCHANGED <<kind, out, wire, nextId, waiting, result>>

\* No method of that id: the session leaves the message alone.
UnknownMethod ==
    /\ pc = "parsed" /\ Receiver = "server" /\ ~obj["server"].corrupt
    /\ pc' = "done"
    /\ UNCHANGED <<kind, out, wire, obj, nextId, waiting, result>>

-----------------------------------------------------------------------------
\* The method's callback on the server, as the handlers of the test server do it.

GetReply ==
    /\ pc = "parsed" /\ Receiver = "server" /\ ~obj["server"].corrupt
    /\ out' = setInReplyTo(NymphMessage({}), obj["server"].messageId)
    /\ pc' = "handling"
    /\ UNCHANGED <<kind, wire, obj, nextId, waiting, result>>

SetResult(v) ==
    /\ pc = "handling"
    /\ out' = setResultValue(out, v)
    /\ UNCHANGED <<pc, kind, wire, obj, nextId, waiting, result>>

SetException ==
    /\ pc = "handling"
    /\ out' = setException(out)
    /\ UNCHANGED <<pc, kind, wire, obj, nextId, waiting, result>>

\* The handler is done with its parameters.
Discard ==
    /\ pc = "handling" /\ obj["server"].live
    /\ obj' = [obj EXCEPT !["server"] = discard(@)]
    /\ UNCHANGED <<pc, kind, out, wire, nextId, waiting, result>>

\* callCallback lets only a result of the declared type through; otherwise the
\* session has no answer to send (and a handler without a result, whose method
\* returns nothing, is left out: callCallback reads through a null pointer).
HandlerReturns(ofType) ==
    /\ pc = "handling"
    /\ out.response = None => ~ofType
    /\ pc' = IF ofType THEN "replying" ELSE "done"
    /\ UNCHANGED <<kind, out, wire, obj, nextId, waiting, result>>

-----------------------------------------------------------------------------
\* The client's listener, its workers and the caller.

\* A callback: a worker runs the user's function, which discards the message.
CallbackRuns ==
    /\ pc = "parsed" /\ kind = "callback" /\ ~obj["client"].corrupt
    /\ obj' = [obj EXCEPT !["client"] = discard(@)]
    /\ pc' = "done"
    /\ UNCHANGED <<kind, out, wire, nextId, waiting, result>>

\* No callback of that name: the request deletes the message.
CallbackMissing ==
    /\ pc = "parsed" /\ kind = "callback" /\ ~obj["client"].corrupt
    /\ obj' = [obj EXCEPT !["client"] = Drop(@)]
    /\ pc' = "done"
    /\ UNCHANGED <<kind, out, wire, nextId, waiting, result>>

IsAnswer == kind = "call" /\ pc = "parsed" /\ Receiver = "client" /\ ~obj["client"].corrupt

\* Mutant of Deliver: the listener deletes the message at once.
DeliverAndDelete ==
    /\ IsAnswer /\ waiting
    /\ obj' = [obj EXCEPT !["client"] = Destroy(getResponse(@))]
    /\ waiting' = FALSE /\ result' = "held" /\ pc' = "answered"
    /\ UNCHANGED <<kind, out, wire, nextId>>

\* The caller is still there: it gets the response, and the message stays behind it.
Deliver ==
    /\ IsAnswer /\ waiting
    /\ obj' = [obj EXCEPT !["client"] = getResponse(@)]
    /\ waiting' = FALSE /\ result' = "held" /\ pc' = "answered"
    /\ UNCHANGED <<kind, out, wire, nextId>>

\* The caller has given up: the listener deletes the message.
DropLate ==
    /\ IsAnswer /\ ~waiting
    /\ obj' = [obj EXCEPT !["client"] = Drop(@)]
    /\ pc' = "done"
    /\ UNCHANGED <<kind, out, wire, nextId, waiting, result>>

TimeOut ==
    /\ waiting
    /\ waiting' = FALSE
    /\ UNCHANGED <<pc, kind, out, wire, obj, nextId, result>>

\* The caller deletes the result it was given.
DeleteResult ==
    /\ pc = "answered" /\ result = "held"
    /\ obj' = [obj EXCEPT !["client"] = deleteResponse(@)]
    /\ result' = "deleted" /\ pc' = "done"
    /\ UNCHANGED <<kind, out, wire, nextId, waiting>>

Next ==
    \/ \E k \in {"call", "callback"} : Compose(k)
    \/ \E v \in Values : AddValue(v) \/ SetResult(v)
    \/ Refuse \/ Send \/ Receive \/ DropCorrupt \/ UnknownMethod
    \/ GetReply \/ SetException \/ Discard
    \/ \E b \in BOOLEAN : HandlerReturns(b)
    \/ CallbackRuns \/ CallbackMissing
    \/ Deliver \/ DropLate \/ TimeOut \/ DeleteResult

Spec == Init /\ [][Next]_vars

-----------------------------------------------------------------------------
\* serialize allocates messageLength + 8 bytes from the lengths the values claim
\* (bytes()) and then writes what they really contain: it never writes past the end.
FitsBuffer == pc = "sent" => Written(out) <= wire.size

\* The receiver gets the values the sender put in: in order, with their structure,
\* and the id of the call they answer; the one exception are values the format does
\* not carry, a string once set to the empty string and a struct with such a key or with
\* one that is no string.
RoundTrip ==
    pc = "parsed" =>
        LET got == obj[Receiver]
            sent == IF "reply" \in out.flags THEN <<out.response>> ELSE out.values
        IN  (\A i \in DOMAIN sent : faithful[sent[i]]) =>
                /\ ~got.corrupt
                /\ (IF "reply" \in out.flags THEN <<got.response>> ELSE got.values)
                       = [i \in DOMAIN sent |-> content[sent[i]]]
                /\ got.responseId = out.responseId
                /\ kind = "callback" => got.callback = Content("string", NameLength, <<>>)

\* A message, or the response in it, is deleted twice only if the message is dropped
\* by a plain delete while values parsed from it still count references to it (a late
\* answer, a callback nobody registered, a corrupt message).
DoubleDeleteOnlyByDrop ==
    \A s \in Sides :
        (obj[s].frees > 1 \/ obj[s].responseFrees > 1) => obj[s].dropped /\ obj[s].refs > 0

\* While the caller holds a string, array or struct it was given as a result, the
\* message whose buffer it points into exists; when it deletes the result, the
\* message goes with it, once.
ResultIsBacked ==
    (result # "none" /\ IsLinked(obj["client"].response)) =>
        /\ result = "held"    => obj["client"].live
        /\ result = "deleted" => obj["client"].frees = 1

\* The answer to a call, which the client's listener has parsed, is deleted at most
\* once, also when it comes after the caller has given up (nymph_message.cpp:211, 457).
AnswerDeletedOnce == kind = "call" => obj["client"].frees <= 1
=============================================================================
