------------------------------- MODULE Codec -------------------------------
(***************************************************************************)
(* The messages of the A-NSLP on the wire: the object store of a message,  *)
(* serialization by gistka_mapper::create_api_msg, and the parser that     *)
(* gistka_mapper::map_api_receive_message runs over a received payload.    *)
(*                                                                         *)
(* The scale is smaller than the code's: a word has WORD bytes instead of  *)
(* four, the length field of an object header counts up to LenSpace words  *)
(* instead of 2^12, object types are numbered from 1 instead of 0xF4 (in   *)
(* the same order, which the keys of the object store depend on), and the  *)
(* first byte of an IPAP message is its length.                            *)
(*                                                                         *)
(* A behaviour composes one message the way a session does, serializes it  *)
(* and parses it at the peer, or parses a payload that other software      *)
(* sent.  Each of the three loops takes one object a step.                 *)
(***************************************************************************)
EXTENDS Integers, Sequences, SequencesExt, FiniteSets, FiniteSetsExt

CONSTANTS
    LenSpace,    \* values of an object header's length field
    Values,      \* values of fixed-size objects, and bytes of IPAP messages
    MaxIpap,     \* bound: IPAP objects in a message
    MaxIpapLen,  \* bound: bytes of an IPAP message
    Foreign      \* payloads of peers that run other software

ASSUME LenSpaceAssumption == LenSpace \in Nat /\ LenSpace > 1
ASSUME ValuesAssumption == Values \subseteq Nat
ASSUME IpapAssumption == MaxIpap \in Nat /\ MaxIpapLen \in Nat
ASSUME ForeignAssumption == \A p \in Foreign : p \in Seq(Nat)

VARIABLES
    phase,       \* where the message is, see Phases
    outgoing,    \* the message composed by the session
    todo,        \* the objects it has yet to set, then the keys serialize has yet to write
    size,        \* what get_serialized_size returned
    buf,         \* the payload
    pos,         \* the parser's position: the bytes before it are read
    incoming,    \* the message the parser fills
    bytes_read,  \* the parser's own count of bytes
    errlist,     \* an error was put into the error list
    sent,        \* history: the objects written, with the key and the position of each
    parsed       \* history: the objects parsed so far

encoder == <<outgoing, todo, size, sent>>

parser == <<pos, incoming, bytes_read, errlist, parsed>>

vars == <<phase, buf, encoder, parser>>

WORD == 2

HEADER_LENGTH == WORD

(***************************************************************************)
(* Objects.  body holds the bytes of the object without header and         *)
(* padding.  Objects with a value have a body of one word.                 *)
(***************************************************************************)
INFORMATION_CODE == 1
SELECTION_AUCTIONING_ENTITIES == 2
MESSAGE_HOP_COUNT == 3
MSG_SEQUENCE_NUMBER == 4
SESSION_LIFETIME == 5
ANSLP_IPAP_MESSAGE == 6

\* Severity and response code, then the object type, which is always 0.
information_code(v) == [type |-> INFORMATION_CODE, body |-> <<v, 0>>]

selection_auctioning_entities(v) ==
    [type |-> SELECTION_AUCTIONING_ENTITIES, body |-> <<0, v>>]

message_hop_count(v) == [type |-> MESSAGE_HOP_COUNT, body |-> <<0, v>>]

msg_sequence_number(v) == [type |-> MSG_SEQUENCE_NUMBER, body |-> <<0, v>>]

session_lifetime(v) == [type |-> SESSION_LIFETIME, body |-> <<0, v>>]

anslp_ipap_message(b) == [type |-> ANSLP_IPAP_MESSAGE, body |-> b]

\* The object types register_known_ies registers.
RegisteredObjects == INFORMATION_CODE .. ANSLP_IPAP_MESSAGE

is_unique(o) == o.type # ANSLP_IPAP_MESSAGE

\* What libipap exports: its length, then that many bytes less one.
IpapMessages ==
    {[i \in 1 .. n |-> IF i = 1 THEN n ELSE v] : n \in 1 .. MaxIpapLen, v \in Values}

\* The bytes libipap takes from a body, 0 standing for ipap_bad_argument.
ipap_import(body) ==
    IF body # <<>> /\ Head(body) \in 1 .. Len(body) THEN Head(body) ELSE 0

(***************************************************************************)
(* The object store: a std::map whose keys are compared by the sum of type *)
(* and sequence number, so that keys with equal sums are one key.          *)
(***************************************************************************)
ie_object_key(t, n) == [type |-> t, seq |-> n]

KeyLess(k, l) == k.type + k.seq < l.type + l.seq

SameKey(k, l) == ~ KeyLess(k, l) /\ ~ KeyLess(l, k)

\* The objects registered under key k: none or one.
get(store, k) == {e.obj : e \in {f \in store : SameKey(f.key, k)}}

\* entries[id] = ie keeps the key of the entry it overwrites.
set(store, k, o) ==
    IF get(store, k) = {}
    THEN store \cup {[key |-> k, obj |-> o]}
    ELSE {IF SameKey(e.key, k) THEN [e EXCEPT !.obj = o] ELSE e : e \in store}

getMaxSequence(store, t) == Max({0} \cup {e.key.seq : e \in {f \in store : f.key.type = t}})

set_object_SameKey(store, o) == set(store, ie_object_key(o.type, 1), o)

set_object(store, o) ==
    set(store,
        ie_object_key(o.type, IF is_unique(o) THEN 1 ELSE getMaxSequence(store, o.type) + 1),
        o)

Types(store) == {e.key.type : e \in store}

(***************************************************************************)
(* Messages: the type, what serialize writes and in which order, whether   *)
(* the IPAP objects follow, and the types of object check asks for.        *)
(***************************************************************************)
AnyObject == RegisteredObjects

anslp_create ==
    [type |-> 1, ipap |-> TRUE, allowed |-> AnyObject,
     written |-> <<MSG_SEQUENCE_NUMBER, SESSION_LIFETIME,
                   SELECTION_AUCTIONING_ENTITIES, MESSAGE_HOP_COUNT>>,
     required |-> {MSG_SEQUENCE_NUMBER, SESSION_LIFETIME,
                   SELECTION_AUCTIONING_ENTITIES, MESSAGE_HOP_COUNT}]

anslp_response ==
    [type |-> 2, ipap |-> TRUE, required |-> {},
     written |-> <<MSG_SEQUENCE_NUMBER, INFORMATION_CODE, SESSION_LIFETIME>>,
     allowed |-> {MSG_SEQUENCE_NUMBER, INFORMATION_CODE, SESSION_LIFETIME,
                  ANSLP_IPAP_MESSAGE}]

anslp_notify ==
    [type |-> 3, ipap |-> FALSE, required |-> {INFORMATION_CODE},
     allowed |-> {INFORMATION_CODE}, written |-> <<INFORMATION_CODE>>]

anslp_refresh ==
    [type |-> 5, ipap |-> FALSE, required |-> {MSG_SEQUENCE_NUMBER, SESSION_LIFETIME},
     allowed |-> {MSG_SEQUENCE_NUMBER, SESSION_LIFETIME},
     written |-> <<MSG_SEQUENCE_NUMBER, SESSION_LIFETIME>>]

anslp_bidding ==
    [type |-> 6, ipap |-> TRUE, required |-> {MSG_SEQUENCE_NUMBER, ANSLP_IPAP_MESSAGE},
     allowed |-> AnyObject, written |-> <<MSG_SEQUENCE_NUMBER>>]

RegisteredMessages == {anslp_create, anslp_response, anslp_notify, anslp_refresh, anslp_bidding}

Class(m) == CHOOSE c \in RegisteredMessages : c.type = m.type

NoMessage == [type |-> 0, store |-> {}]

check(m) == /\ Class(m).required \subseteq Types(m.store)
            /\ Types(m.store) \subseteq Class(m).allowed

(***************************************************************************)
(* Serialization.                                                          *)
(***************************************************************************)
Zeros(n) == [i \in 1 .. n |-> 0]

\* GIST wants whole words.
num_padding(n) == (WORD - (n % WORD)) % WORD

ObjectSize(o) == HEADER_LENGTH + Len(o.body) + num_padding(Len(o.body))

\* body_length has 16 bits, of which the words fill the lower half of the header.
serialize_header(o) ==
    <<o.type, ((ObjectSize(o) - HEADER_LENGTH) % (4 * LenSpace * WORD)) \div WORD>>

serialize(o) == serialize_header(o) \o o.body \o Zeros(num_padding(Len(o.body)))

\* The header and all bytes of all objects, counted by the number of a byte in
\* its object.
get_serialized_size_NoPadding(m) ==
    HEADER_LENGTH
    + Cardinality(UNION {{e} \X (1 .. HEADER_LENGTH + Len(e.obj.body)) : e \in m.store})

get_serialized_size(m) ==
    HEADER_LENGTH + Cardinality(UNION {{e} \X (1 .. ObjectSize(e.obj)) : e \in m.store})

\* The keys serialize looks up, in its order.
WriteOrder(m) ==
    [i \in 1 .. Len(Class(m).written) |-> ie_object_key(Class(m).written[i], 1)]
    \o (IF Class(m).ipap
        THEN [i \in 1 .. getMaxSequence(m.store, ANSLP_IPAP_MESSAGE)
                |-> ie_object_key(ANSLP_IPAP_MESSAGE, i)]
        ELSE <<>>)

(***************************************************************************)
(* The messages the sessions and the dispatcher compose: the type and the  *)
(* objects in the order in which they are set.                             *)
(***************************************************************************)
IpapLists == SeqOf(IpapMessages, MaxIpap)

Ipaps(l) == [i \in DOMAIN l |-> anslp_ipap_message(l[i])]

CreateMessages ==
    {[type |-> anslp_create.type,
      objects |-> <<session_lifetime(v), msg_sequence_number(w),
                    selection_auctioning_entities(v), message_hop_count(w)>> \o Ipaps(l)] :
        v \in Values, w \in Values, l \in IpapLists}

\* Nothing keeps a session from composing a BIDDING without objects.
BiddingMessages ==
    {[type |-> anslp_bidding.type, objects |-> <<msg_sequence_number(v)>> \o Ipaps(l)] :
        v \in Values, l \in IpapLists}

RefreshMessages ==
    {[type |-> anslp_refresh.type,
      objects |-> <<session_lifetime(v), msg_sequence_number(w)>>] :
        v \in Values, w \in Values}

SuccessResponses ==
    {[type |-> anslp_response.type,
      objects |-> <<information_code(v), msg_sequence_number(w), session_lifetime(v)>>
                  \o Ipaps(l)] :
        v \in Values, w \in Values, l \in IpapLists}

\* The number is missing when the message answered has none.
ErrorResponses ==
    {[type |-> anslp_response.type, objects |-> <<information_code(v)>> \o n] :
        v \in Values, n \in {<<>>} \cup {<<msg_sequence_number(w)>> : w \in Values}}

Composed == CreateMessages \cup BiddingMessages \cup RefreshMessages
            \cup SuccessResponses \cup ErrorResponses

(***************************************************************************)
(* The parser.                                                             *)
(***************************************************************************)
bytes_left == Len(buf) - pos

Word(p) == SubSeq(buf, p + 1, p + WORD)

extract_object_type(header) == header[1]

\* The length field in bytes.
extract_body_length(header) == (header[2] % LenSpace) * WORD

Failure(how) == [outcome |-> how, obj |-> [type |-> 0, body |-> <<>>], pos |-> pos]

Success(t, body, p) == [outcome |-> "ok", obj |-> [type |-> t, body |-> body], pos |-> p]

\* Objects with a value read one word whatever the length field says; at the
\* end of the payload NetMsg throws, and nobody catches.
deserialize_value(t) ==
    IF bytes_left < HEADER_LENGTH + WORD THEN Failure("thrown")
    ELSE IF t = INFORMATION_CODE /\ Word(pos + HEADER_LENGTH)[2] # 0 THEN Failure("error")
    ELSE Success(t, Word(pos + HEADER_LENGTH), pos + HEADER_LENGTH + WORD)

\* An IPAP message reads the body the length field announces; bytes after the
\* message that are not 0 end the parser without an entry in the error list.
deserialize_ipap(length) ==
    LET start == pos + HEADER_LENGTH
        body == SubSeq(buf, start + 1, start + length)
        num_read == ipap_import(body)
    IN IF num_read = 0 THEN Failure("thrown")
       ELSE IF \E i \in num_read + 1 .. length : body[i] # 0 THEN Failure("silent")
       ELSE Success(ANSLP_IPAP_MESSAGE, SubSeq(body, 1, num_read), start + length)

deserialize_object ==
    IF bytes_left < HEADER_LENGTH THEN Failure("error")
    ELSE LET t == extract_object_type(Word(pos))
             length == extract_body_length(Word(pos))
         IN IF t \notin RegisteredObjects \/ bytes_left - HEADER_LENGTH < length
            THEN Failure("error")
            ELSE IF t = ANSLP_IPAP_MESSAGE THEN deserialize_ipap(length)
                                           ELSE deserialize_value(t)

(***************************************************************************)
(* The steps.                                                              *)
(***************************************************************************)
Phases == {"idle", "composing", "writing", "undefined", "assert failed", "received",
           "objects", "accepted", "rejected", "thrown"}

Ended == {"undefined", "assert failed", "accepted", "rejected", "thrown"}

Init ==
    /\ phase = "idle"
    /\ outgoing = NoMessage /\ todo = <<>> /\ size = 0 /\ sent = <<>>
    /\ incoming = NoMessage
    /\ buf = <<>> /\ pos = 0 /\ bytes_read = 0
    /\ errlist = FALSE
    /\ parsed = <<>>

Compose ==
    /\ phase = "idle"
    /\ phase' = "composing"
    /\ \E m \in Composed :
          /\ outgoing' = [type |-> m.type, store |-> {}]
          /\ todo' = m.objects
    /\ UNCHANGED <<buf, size, sent, parser>>

SetObject ==
    /\ phase = "composing" /\ todo # <<>>
    /\ outgoing' = [outgoing EXCEPT !.store = set_object(@, Head(todo))]
    /\ todo' = Tail(todo)
    /\ UNCHANGED <<phase, buf, size, sent, parser>>

\* create_api_msg reserves the payload, and serialize writes the header.
BeginSerialize ==
    /\ phase = "composing" /\ todo = <<>>
    /\ check(outgoing)
    /\ phase' = "writing"
    /\ size' = get_serialized_size(outgoing)
    /\ buf' = <<outgoing.type, 0>>
    /\ todo' = WriteOrder(outgoing)
    /\ UNCHANGED <<outgoing, sent, parser>>

\* serialize throws IEError and create_api_msg asserts that it does not.
CheckFails ==
    /\ phase = "composing" /\ todo = <<>>
    /\ ~ check(outgoing)
    /\ phase' = "assert failed"
    /\ UNCHANGED <<buf, encoder, parser>>

\* An object that does not fit the payload throws too.
WriteObject ==
    /\ phase = "writing" /\ todo # <<>>
    /\ \E o \in get(outgoing.store, Head(todo)) :
          IF Len(buf) + ObjectSize(o) > size
          THEN /\ phase' = "assert failed"
               /\ UNCHANGED <<buf, todo, sent>>
          ELSE /\ buf' = buf \o serialize(o)
               /\ todo' = Tail(todo)
               /\ sent' = Append(sent, [key |-> Head(todo), obj |-> o, at |-> Len(buf)])
               /\ UNCHANGED phase
    /\ UNCHANGED <<outgoing, size, parser>>

MissesObject ==
    /\ phase = "writing" /\ todo # <<>>
    /\ get(outgoing.store, Head(todo)) = {}

\* serialize_object has no return statement for an object that is missing: with
\* optimization the compiled code calls the missing object's serialize,
RunOffTheEnd ==
    /\ MissesObject
    /\ phase' = "undefined"
    /\ UNCHANGED <<buf, encoder, parser>>

\* and without it nothing is written and some number returned, which is only
\* compared for the log.
WriteNothing ==
    /\ MissesObject
    /\ todo' = Tail(todo)
    /\ UNCHANGED <<phase, buf, outgoing, size, sent, parser>>

\* The payload is as long as get_serialized_size said, whatever was written.
\* GIST carries it to the peer.
Transmit ==
    /\ phase = "writing" /\ todo = <<>>
    /\ buf' = buf \o Zeros(size - Len(buf))
    /\ phase' = "received"
    /\ UNCHANGED <<encoder, parser>>

ReceiveForeign ==
    /\ phase = "idle"
    /\ phase' = "received"
    /\ buf' \in Foreign
    /\ UNCHANGED <<encoder, parser>>

Reject(e) ==
    /\ phase' = "rejected"
    /\ errlist' = e
    /\ UNCHANGED <<buf, encoder, pos, incoming, bytes_read, parsed>>

deserialize_msg_AnyType ==
    /\ phase = "received"
    /\ IF Len(buf) < HEADER_LENGTH
       THEN Reject(TRUE)
       ELSE /\ phase' = "objects"
            /\ incoming' = [type |-> buf[1], store |-> {}]
            /\ pos' = HEADER_LENGTH
            /\ bytes_read' = HEADER_LENGTH
            /\ UNCHANGED <<buf, encoder, errlist, parsed>>

deserialize_msg ==
    /\ phase = "received"
    /\ IF Len(buf) < HEADER_LENGTH \/ ~ \E c \in RegisteredMessages : c.type = buf[1]
       THEN Reject(TRUE)
       ELSE /\ phase' = "objects"
            /\ incoming' = [type |-> buf[1], store |-> {}]
            /\ pos' = HEADER_LENGTH
            /\ bytes_read' = HEADER_LENGTH
            /\ UNCHANGED <<buf, encoder, errlist, parsed>>

ReadObject ==
    /\ phase = "objects" /\ bytes_left > 0
    /\ deserialize_object.outcome = "ok"
    /\ LET o == deserialize_object.obj
           p == deserialize_object.pos
       IN IF is_unique(o) /\ get(incoming.store, ie_object_key(o.type, 1)) # {}
          THEN Reject(TRUE)
          ELSE /\ incoming' = [incoming EXCEPT !.store = set_object(@, o)]
               /\ bytes_read' = bytes_read + (p - pos)
               /\ pos' = p
               /\ parsed' = Append(parsed, o)
               /\ UNCHANGED <<phase, buf, encoder, errlist>>

RejectObject_SilentIgnored ==
    /\ phase = "objects" /\ bytes_left > 0
    /\ deserialize_object.outcome = "error"
    /\ Reject(TRUE)

RejectObject ==
    /\ phase = "objects" /\ bytes_left > 0
    /\ deserialize_object.outcome \in {"error", "silent"}
    /\ Reject(deserialize_object.outcome = "error")

ObjectThrows ==
    /\ phase = "objects" /\ bytes_left > 0
    /\ deserialize_object.outcome = "thrown"
    /\ phase' = "thrown"
    /\ UNCHANGED <<buf, encoder, parser>>

\* Empty messages are not allowed.
EndMessage ==
    /\ phase = "objects" /\ bytes_left = 0
    /\ IF incoming.store = {}
       THEN Reject(TRUE)
       ELSE /\ phase' = "accepted"
            /\ UNCHANGED <<buf, encoder, parser>>

Parse == deserialize_msg \/ ReadObject \/ RejectObject \/ ObjectThrows \/ EndMessage

Next ==
    \/ Compose \/ SetObject
    \/ BeginSerialize \/ CheckFails \/ WriteObject \/ RunOffTheEnd \/ WriteNothing \/ Transmit
    \/ ReceiveForeign
    \/ Parse

\* The mapper's thread runs to the end of a call once it is in it.
Spec == Init /\ [][Next]_vars /\ WF_vars(Parse)

(***************************************************************************)
(* Properties.                                                             *)
(***************************************************************************)
Object == [type : RegisteredObjects, body : Seq(Nat)]

Key == [type : RegisteredObjects, seq : Nat \ {0}]

Entry == {e \in [key : Key, obj : Object] : e.key.type = e.obj.type}

Message == [type : {0} \cup {c.type : c \in RegisteredMessages}, store : SUBSET Entry]

TypeOK ==
    /\ phase \in Phases
    /\ outgoing \in Message /\ incoming \in Message
    /\ todo \in IF phase = "composing" THEN Seq(Object) ELSE Seq(Key)
    /\ size \in Nat
    /\ buf \in Seq(Nat)
    /\ pos \in 0 .. Len(buf)
    /\ bytes_read \in 0 .. Len(buf)
    /\ errlist \in BOOLEAN
    /\ sent \in Seq([key : Key, obj : Object, at : 0 .. Len(buf)])
    /\ parsed \in Seq(Object)

\* Every object of a message the sessions compose fits its length field.
Fits(m) == \A e \in m.store : ObjectSize(e.obj) - HEADER_LENGTH < LenSpace * WORD

\* The store keeps all objects of a message apart, although its keys are
\* compared by a sum, and numbers the IPAP objects in their order in the payload.
StoreKeepsObjects ==
    /\ {e.obj : e \in incoming.store} = Range(parsed)
    /\ Cardinality(incoming.store) = Len(parsed)
    /\ \A i \in DOMAIN parsed : ~ is_unique(parsed[i])
          => LET n == Cardinality({j \in 1 .. i : ~ is_unique(parsed[j])})
             IN get(incoming.store, ie_object_key(ANSLP_IPAP_MESSAGE, n)) = {parsed[i]}

\* A message of a session that passes check is serialized without an exception:
\* get_serialized_size reserves what serialize writes.  The peer does not refuse
\* it, since the parser undoes order, length and padding, and the message it
\* accepts is the one composed: the objects get the keys they had.
ArrivesUnchanged ==
    outgoing # NoMessage /\ Fits(outgoing) =>
        /\ phase = "assert failed" => ~ check(outgoing)
        /\ phase \notin {"rejected", "thrown"}
        /\ phase = "accepted" => incoming = outgoing

\* The parser comes to an end with every payload.  With ArrivesUnchanged: a
\* message of a session that was sent and fits is accepted as it was composed.
ParserEnds == (phase = "received") ~> (phase \in Ended)

\* "All errors encountered during parsing are added to the errorlist object":
\* a payload is not refused without an entry, which the mapper asserts.
ErrorsRecorded == phase = "rejected" => errlist

\* serialize_object "throwns an exception" for a missing object; it never
\* leaves what happens undefined.
SerializeDefined == phase # "undefined"
=============================================================================
