---------------------------- MODULE Codec_proofs ----------------------------
(***************************************************************************)
(* Proofs about Codec: the object store keeps the objects of a message     *)
(* apart, and every message a session composes whose objects fit their     *)
(* length field passes the encoder and the parser unchanged, whatever the  *)
(* number of its IPAP objects and their lengths.                           *)
(***************************************************************************)
EXTENDS Codec, FiniteSetTheorems, TLAPS

-----------------------------------------------------------------------------
(* The inductive invariant *)

\* The numbers of the IPAP objects of a store.
IpapNumbers(s) == {e.key.seq : e \in {f \in s : f.key.type = ANSLP_IPAP_MESSAGE}}

\* A key that set_object makes: the sum the map compares tells two of them apart.
MadeKey(k) == k \in Key /\ (k.type # ANSLP_IPAP_MESSAGE => k.seq = 1)

\* What set_object makes of an empty store.
StoreOK(s) ==
    /\ s \subseteq Entry /\ IsFiniteSet(s)
    /\ \A e \in s : MadeKey(e.key)
    /\ \A e \in s : \A f \in s : e.key = f.key => e = f
    /\ getMaxSequence(s, ANSLP_IPAP_MESSAGE) \in Nat
    /\ IpapNumbers(s) = 1 .. getMaxSequence(s, ANSLP_IPAP_MESSAGE)

\* The parser has not begun.
ParserIdle ==
    phase \notin {"objects", "accepted", "rejected", "thrown"}
        => pos = 0 /\ incoming = NoMessage /\ parsed = <<>>

\* The store of the message received numbers the IPAP objects parsed.
IpapsCounted ==
    Cardinality({j \in 1 .. Len(parsed) : ~ is_unique(parsed[j])})
        = getMaxSequence(incoming.store, ANSLP_IPAP_MESSAGE)

ParserInv ==
    /\ ParserIdle
    /\ bytes_read = pos
    /\ StoreOK(incoming.store)
    /\ StoreKeepsObjects
    /\ IpapsCounted

\* An object the setters of a message and libipap produce.
WellFormed(o) ==
    /\ o \in Object
    /\ is_unique(o) => Len(o.body) = WORD
    /\ o.type = INFORMATION_CODE => o.body[2] = 0
    /\ ~ is_unique(o) => o.body # <<>> /\ Head(o.body) = Len(o.body)

\* The types serialize looks up.
Writable(m) ==
    Range(Class(m).written) \cup (IF Class(m).ipap THEN {ANSLP_IPAP_MESSAGE} ELSE {})

\* The message composed so far.
Composition ==
    /\ outgoing = NoMessage \/ outgoing.type # 0
    /\ phase = "idle" => outgoing = NoMessage
    /\ phase \in {"composing", "writing"} => outgoing # NoMessage
    /\ phase \in {"idle", "composing"} => sent = <<>>
    /\ StoreOK(outgoing.store)
    /\ \A e \in outgoing.store : WellFormed(e.obj) /\ e.obj.type \in Writable(outgoing)

\* The objects still to be set find no object of their type if they are unique.
ToBeSet ==
    phase = "composing" =>
        /\ outgoing.store # {} \/ todo # <<>>
        /\ \A i \in DOMAIN todo :
              /\ WellFormed(todo[i]) /\ todo[i].type \in Writable(outgoing)
              /\ is_unique(todo[i]) =>
                    /\ todo[i].type \notin Types(outgoing.store)
                    /\ \A j \in DOMAIN todo : todo[j].type = todo[i].type => i = j

\* The entries of the store among the objects written.
EntryOf(x) == [key |-> x.key, obj |-> x.obj]

EntriesOf(w) == {EntryOf(w[i]) : i \in DOMAIN w}

\* Position after the first n objects.
EndOf(w, n) == IF n = 0 THEN HEADER_LENGTH ELSE w[n].at + ObjectSize(w[n].obj)

\* Object i of w follows the one before and stands in the payload b.
Placed(w, b, i) ==
    /\ w[i].at = EndOf(w, i - 1)
    /\ EndOf(w, i) <= Len(b)
    /\ \A j \in 1 .. ObjectSize(w[i].obj) : b[w[i].at + j] = serialize(w[i].obj)[j]

\* It is written once, and an IPAP object after those with smaller numbers.
InOrder(w, i) ==
    /\ \A j \in DOMAIN w : w[i].key = w[j].key => i = j
    /\ ~ is_unique(w[i].obj) => \A q \in 1 .. w[i].key.seq - 1 :
          \E j \in 1 .. i - 1 : w[j].key = ie_object_key(ANSLP_IPAP_MESSAGE, q)

\* What serialize wrote is in the payload.
SentInBuffer ==
    /\ sent # <<>> => Len(buf) >= HEADER_LENGTH
    /\ EntriesOf(sent) \subseteq outgoing.store
    /\ \A i \in DOMAIN sent : Placed(sent, buf, i) /\ InOrder(sent, i)

\* The bytes of the objects of a set of entries.
Bytes(s) == UNION {{e} \X (1 .. ObjectSize(e.obj)) : e \in s}

\* Key i of q is looked up once and not among those of the objects w; one of an
\* IPAP object finds it in the store s, and after those with smaller numbers.
Pending(q, w, s, i) ==
    /\ MadeKey(q[i])
    /\ \A j \in DOMAIN q : q[i] = q[j] => i = j
    /\ \A j \in DOMAIN w : w[j].key # q[i]
    /\ q[i].type = ANSLP_IPAP_MESSAGE =>
          /\ get(s, q[i]) # {}
          /\ \A n \in 1 .. q[i].seq - 1 :
                \/ \E j \in DOMAIN w : w[j].key = ie_object_key(ANSLP_IPAP_MESSAGE, n)
                \/ \E j \in 1 .. i - 1 : q[j] = ie_object_key(ANSLP_IPAP_MESSAGE, n)

\* While serialize runs: what is left to be written, and the room for it.
ToBeWritten ==
    phase = "writing" =>
        /\ outgoing.store # {}
        /\ size = get_serialized_size(outgoing)
        /\ Len(buf) = EndOf(sent, Len(sent))
        /\ Len(buf) = HEADER_LENGTH + Cardinality(Bytes(EntriesOf(sent)))
        /\ buf[1] = outgoing.type
        /\ \A e \in outgoing.store :
              e \in EntriesOf(sent) \/ \E i \in DOMAIN todo : todo[i] = e.key
        /\ \A i \in DOMAIN todo : Pending(todo, sent, outgoing.store, i)

\* The payload of a message of a session holds all its objects and nothing else.
PayloadComplete ==
    phase \in {"received", "objects", "accepted", "rejected", "thrown"} /\ outgoing # NoMessage =>
        /\ outgoing.store # {}
        /\ outgoing.store = EntriesOf(sent)
        /\ Len(buf) = EndOf(sent, Len(sent))
        /\ buf[1] = outgoing.type

\* The parser follows what was written, object by object.
ParserFollows ==
    phase = "objects" /\ outgoing # NoMessage /\ Fits(outgoing) =>
        /\ incoming.type = outgoing.type
        /\ Len(parsed) <= Len(sent)
        /\ \A i \in DOMAIN parsed : parsed[i] = sent[i].obj
        /\ incoming.store = {EntryOf(sent[i]) : i \in 1 .. Len(parsed)}
        /\ pos = EndOf(sent, Len(parsed))

EncoderInv == Composition /\ ToBeSet /\ SentInBuffer /\ ToBeWritten /\ PayloadComplete

IInv == TypeOK /\ ParserInv /\ EncoderInv /\ ParserFollows /\ ArrivesUnchanged

-----------------------------------------------------------------------------
(* The object store *)

LEMMA MaxOfInterval ==
    ASSUME NEW n \in Nat
    PROVE  Max({0} \cup 1 .. n) = n
BY DEF Max

\* The sum of type and number tells the keys apart that set_object makes.
LEMMA SameKeyIsEqual ==
    ASSUME NEW k, NEW l, MadeKey(k), MadeKey(l)
    PROVE  SameKey(k, l) <=> k = l
BY DEF MadeKey, Key, SameKey, KeyLess, RegisteredObjects, INFORMATION_CODE, ANSLP_IPAP_MESSAGE

LEMMA KeyIsMade ==
    /\ \A t \in RegisteredObjects : MadeKey(ie_object_key(t, 1))
    /\ \A n \in Nat \ {0} : MadeKey(ie_object_key(ANSLP_IPAP_MESSAGE, n))
BY DEF MadeKey, Key, ie_object_key, RegisteredObjects, INFORMATION_CODE, ANSLP_IPAP_MESSAGE

\* get finds what is registered under the key.
LEMMA GetFinds ==
    ASSUME NEW s, StoreOK(s), NEW k, MadeKey(k)
    PROVE  /\ \A e \in s : e.key = k => get(s, k) = {e.obj}
           /\ \A o \in get(s, k) : [key |-> k, obj |-> o] \in s
           /\ get(s, k) = {} <=> \A e \in s : e.key # k
<1>1. \A e \in s : SameKey(e.key, k) <=> e.key = k
    BY SameKeyIsEqual DEF StoreOK
<1>2. \A e \in s : e = [key |-> e.key, obj |-> e.obj]
    BY DEF StoreOK, Entry
<1>3. ASSUME NEW e \in s, e.key = k PROVE get(s, k) = {e.obj}
    BY <1>1, <1>3 DEF get, StoreOK
<1>4. ASSUME NEW o \in get(s, k) PROVE [key |-> k, obj |-> o] \in s
    BY <1>1, <1>2 DEF get
<1>5. get(s, k) = {} <=> \A e \in s : e.key # k
    BY <1>1 DEF get
<1> QED
    BY <1>3, <1>4, <1>5

\* The key set_object gives an object.
NewKey(s, o) ==
    ie_object_key(o.type, IF is_unique(o) THEN 1 ELSE getMaxSequence(s, o.type) + 1)

NewEntry(s, o) == [key |-> NewKey(s, o), obj |-> o]

LEMMA EmptyStore == StoreOK({}) /\ getMaxSequence({}, ANSLP_IPAP_MESSAGE) = 0
<1>1. {e.key.seq : e \in {f \in {} : f.key.type = ANSLP_IPAP_MESSAGE}} = 1 .. 0
    OBVIOUS
<1>2. getMaxSequence({}, ANSLP_IPAP_MESSAGE) = 0
    BY <1>1, MaxOfInterval DEF getMaxSequence
<1> QED
    BY <1>1, <1>2, FS_EmptySet DEF StoreOK, IpapNumbers

\* The key of a new object is one set_object makes and that no entry has.
LEMMA NewKeyIsNew ==
    ASSUME NEW s, StoreOK(s), NEW o \in Object,
           is_unique(o) => get(s, ie_object_key(o.type, 1)) = {}
    PROVE  /\ MadeKey(NewKey(s, o)) /\ NewKey(s, o).type = o.type
           /\ \A e \in s : e.key # NewKey(s, o)
<1>1. o.type \in RegisteredObjects
    BY DEF Object
<1>2. CASE is_unique(o)
  <2>1. NewKey(s, o) = ie_object_key(o.type, 1)
    BY <1>2 DEF NewKey
  <2> QED BY <1>1, <1>2, <2>1, KeyIsMade, GetFinds DEF ie_object_key
<1>3. CASE ~ is_unique(o)
  <2> DEFINE n == getMaxSequence(s, ANSLP_IPAP_MESSAGE)
  <2>1. n \in Nat /\ IpapNumbers(s) = 1 .. n
    BY DEF StoreOK
  <2>2. NewKey(s, o) = ie_object_key(ANSLP_IPAP_MESSAGE, n + 1) /\ o.type = ANSLP_IPAP_MESSAGE
    BY <1>3 DEF NewKey, is_unique
  <2>3. MadeKey(NewKey(s, o))
    BY <2>1, <2>2, KeyIsMade
  <2>4. n + 1 \notin IpapNumbers(s)
    BY <2>1
  <2> QED BY <2>2, <2>3, <2>4 DEF IpapNumbers, ie_object_key
<1> QED
    BY <1>2, <1>3

\* set_object adds one entry and overwrites none, although the map's order looks
\* at the sum of type and number only.
LEMMA SetObjectAdds ==
    ASSUME NEW s, StoreOK(s), NEW o \in Object,
           is_unique(o) => get(s, ie_object_key(o.type, 1)) = {}
    PROVE  /\ NewEntry(s, o) \notin s
           /\ set_object(s, o) = s \cup {NewEntry(s, o)}
           /\ StoreOK(set_object(s, o))
           /\ getMaxSequence(set_object(s, o), ANSLP_IPAP_MESSAGE)
                = getMaxSequence(s, ANSLP_IPAP_MESSAGE) + (IF is_unique(o) THEN 0 ELSE 1)
<1> DEFINE k == NewKey(s, o)
           d == NewEntry(s, o)
           n == getMaxSequence(s, ANSLP_IPAP_MESSAGE)
           t == set_object(s, o)
           b == IF is_unique(o) THEN 0 ELSE 1
<1>1. /\ MadeKey(k) /\ k.type = o.type
      /\ \A e \in s : e.key # k
    BY NewKeyIsNew
<1>2. d.key = k /\ d.obj = o
    BY DEF NewEntry
<1>3. d \notin s
    BY <1>1, <1>2
<1>4. get(s, k) = {}
    BY <1>1, GetFinds
<1>5. t = s \cup {d}
    BY <1>4 DEF set_object, set, NewEntry, NewKey
<1>6. d \in Entry
    BY <1>1 DEF Entry, MadeKey, NewEntry
<1>7. t \subseteq Entry /\ IsFiniteSet(t)
    BY <1>5, <1>6, FS_AddElement DEF StoreOK
<1>8. \A e \in t : MadeKey(e.key)
    BY <1>1, <1>2, <1>5 DEF StoreOK
<1>9. \A e \in t : \A f \in t : e.key = f.key => e = f
    BY <1>1, <1>2, <1>5 DEF StoreOK
<1>10. n \in Nat /\ IpapNumbers(s) = 1 .. n
    BY DEF StoreOK
<1>11. IpapNumbers(t) = 1 .. n + b
  <2>1. CASE is_unique(o)
    <3>1. k.type # ANSLP_IPAP_MESSAGE
      BY <1>1, <2>1 DEF is_unique
    <3>2. IpapNumbers(t) = IpapNumbers(s)
      BY <1>2, <1>5, <3>1 DEF IpapNumbers
    <3> QED BY <1>10, <2>1, <3>2
  <2>2. CASE ~ is_unique(o)
    <3>1. k.type = ANSLP_IPAP_MESSAGE /\ k.seq = n + 1
      BY <2>2 DEF is_unique, NewKey, ie_object_key
    <3>2. IpapNumbers(t) = IpapNumbers(s) \cup {n + 1}
      BY <1>2, <1>5, <3>1 DEF IpapNumbers
    <3> QED BY <1>10, <2>2, <3>2
  <2> QED BY <2>1, <2>2
<1>12. getMaxSequence(t, ANSLP_IPAP_MESSAGE) = n + b
  <2>1. n + b \in Nat
    BY <1>10
  <2> QED BY <1>11, <2>1, MaxOfInterval DEF getMaxSequence, IpapNumbers
<1>13. StoreOK(t)
    BY <1>7, <1>8, <1>9, <1>10, <1>11, <1>12 DEF StoreOK
<1> QED
    BY <1>3, <1>5, <1>12, <1>13

-----------------------------------------------------------------------------
(* The parser *)

LEMMA Words == WORD = 2 /\ HEADER_LENGTH = 2
BY DEF WORD, HEADER_LENGTH

LEMMA Elements ==
    ASSUME NEW s \in Seq(Nat), NEW i \in 1 .. Len(s)
    PROVE  s[i] \in Nat
OBVIOUS

\* A piece of a payload: the n bytes after the first a.
LEMMA Piece ==
    ASSUME NEW s \in Seq(Nat), NEW a \in Nat, NEW n \in Nat, a + n <= Len(s)
    PROVE  /\ SubSeq(s, a + 1, a + n) \in Seq(Nat)
           /\ Len(SubSeq(s, a + 1, a + n)) = n
           /\ \A i \in 1 .. n : SubSeq(s, a + 1, a + n)[i] = s[a + i]
<1>1. \A i \in a + 1 .. a + n : s[i] \in Nat
    BY Elements
<1>2. Len(SubSeq(s, a + 1, a + n)) = n
    OBVIOUS
<1> QED
    BY <1>1, <1>2

LEMMA HeaderRead ==
    ASSUME buf \in Seq(Nat), pos \in 0 .. Len(buf), bytes_left >= HEADER_LENGTH
    PROVE  extract_body_length(Word(pos)) \in Nat
<1>1. Word(pos) \in Seq(Nat) /\ Len(Word(pos)) = 2
    BY Piece, Words DEF Word, bytes_left
<1>2. Word(pos)[2] \in Nat
  <2> DEFINE w == Word(pos)
  <2>1. w \in Seq(Nat) /\ 2 \in 1 .. Len(w)
    BY <1>1
  <2> HIDE DEF w
  <2>2. w[2] \in Nat
    BY <2>1, Elements
  <2> QED BY <2>2 DEF w
<1> QED
    BY <1>2, LenSpaceAssumption, Words DEF extract_body_length

\* What the parser reads from any payload: an object, from bytes of the payload.
LEMMA ObjectRead ==
    ASSUME buf \in Seq(Nat), pos \in 0 .. Len(buf), bytes_left > 0,
           deserialize_object.outcome = "ok"
    PROVE  /\ deserialize_object.obj \in Object
           /\ deserialize_object.pos \in pos + 1 .. Len(buf)
<1> DEFINE t == extract_object_type(Word(pos))
           length == extract_body_length(Word(pos))
<1>0. /\ \A how \in {"error", "thrown", "silent"} : Failure(how).outcome # "ok"
      /\ \A u, b, p : Success(u, b, p) = [outcome |-> "ok", obj |-> [type |-> u, body |-> b], pos |-> p]
    BY DEF Failure, Success
<1>1. /\ bytes_left >= HEADER_LENGTH
      /\ t \in RegisteredObjects /\ bytes_left - HEADER_LENGTH >= length
      /\ deserialize_object = IF t = ANSLP_IPAP_MESSAGE THEN deserialize_ipap(length)
                                                         ELSE deserialize_value(t)
  <2>1. bytes_left \in Nat
    BY DEF bytes_left
  <2>2. bytes_left >= HEADER_LENGTH
    BY <1>0, <2>1, Words DEF deserialize_object
  <2>3. length \in Nat
    BY <2>2, HeaderRead
  <2> QED BY <1>0, <2>1, <2>2, <2>3, Words DEF deserialize_object
<1>2. CASE t # ANSLP_IPAP_MESSAGE
  <2>1. deserialize_object = deserialize_value(t)
    BY <1>1, <1>2
  <2>2. bytes_left >= 4
    BY <1>0, <2>1, Words DEF deserialize_value, bytes_left
  <2>3. deserialize_object = Success(t, Word(pos + HEADER_LENGTH), pos + HEADER_LENGTH + WORD)
    BY <1>0, <2>1 DEF deserialize_value
  <2>4. Word(pos + HEADER_LENGTH) \in Seq(Nat)
    BY <2>2, Words DEF Word, bytes_left
  <2>5. pos + 4 \in pos + 1 .. Len(buf) /\ pos + HEADER_LENGTH + WORD = pos + 4
    BY <2>2, Words DEF bytes_left
  <2> DEFINE w == Word(pos + HEADER_LENGTH)
  <2> HIDE DEF w
  <2>6. deserialize_object.obj = [type |-> t, body |-> w] /\ deserialize_object.pos = pos + 4
    BY <1>0, <2>3, <2>5 DEF w
  <2>7. [type |-> t, body |-> w] \in Object
    BY <1>1, <2>4 DEF Object, w
  <2> QED BY <2>5, <2>6, <2>7
<1>3. CASE t = ANSLP_IPAP_MESSAGE
  <2> DEFINE start == pos + HEADER_LENGTH
             body == SubSeq(buf, start + 1, start + length)
             n == ipap_import(body)
  <2>1. deserialize_object = deserialize_ipap(length)
    BY <1>1, <1>3
  <2>2. /\ n # 0
        /\ deserialize_object = Success(ANSLP_IPAP_MESSAGE, SubSeq(body, 1, n), start + length)
    BY <1>0, <2>1 DEF deserialize_ipap
  <2>3. length \in Nat
    BY <1>1, HeaderRead
  <2>4. body \in Seq(Nat) /\ Len(body) = length /\ start + length <= Len(buf)
    <3>1. start \in Nat /\ start + length <= Len(buf)
      BY <1>1, <2>3, Words DEF bytes_left
    <3> HIDE DEF start, length
    <3> QED BY <2>3, <3>1, Piece
  <2>5. n \in 1 .. Len(body)
    BY <2>2, <2>4 DEF ipap_import
  <2>6. SubSeq(body, 0 + 1, 0 + n) \in Seq(Nat) /\ SubSeq(body, 0 + 1, 0 + n) = SubSeq(body, 1, n)
    <3> HIDE DEF body, n
    <3> QED BY <2>4, <2>5, Piece
  <2>7. [type |-> ANSLP_IPAP_MESSAGE, body |-> SubSeq(body, 1, n)] \in Object
    BY <1>1, <1>3, <2>6 DEF Object
  <2>8. start + length \in pos + 1 .. Len(buf)
    BY <2>3, <2>4, Words
  <2> QED BY <1>0, <2>2, <2>7, <2>8
<1> QED
    BY <1>2, <1>3

-----------------------------------------------------------------------------
(* The parser keeps the objects it reads *)

\* The IPAP objects among the first n of a sequence of objects.
IpapsAmong(p, n) == {j \in 1 .. n : ~ is_unique(p[j])}

LEMMA IpapsAmongFinite ==
    ASSUME NEW p, NEW n \in Nat
    PROVE  /\ IsFiniteSet(IpapsAmong(p, n)) /\ Cardinality(IpapsAmong(p, n)) \in Nat
           /\ IpapsAmong(p, n) # {} => Cardinality(IpapsAmong(p, n)) \in Nat \ {0}
<1>1. IsFiniteSet(1 .. n) /\ IpapsAmong(p, n) \in SUBSET (1 .. n)
    BY FS_Interval DEF IpapsAmong
<1>2. IsFiniteSet(IpapsAmong(p, n))
    BY <1>1, FS_Subset
<1> QED
    BY <1>2, FS_CardinalityType, FS_EmptySet

\* StoreKeepsObjects and IpapsCounted for a store s and the objects p put into it.
Keeps(s, p) ==
    /\ {e.obj : e \in s} = Range(p)
    /\ Cardinality(s) = Len(p)
    /\ Cardinality(IpapsAmong(p, Len(p))) = getMaxSequence(s, ANSLP_IPAP_MESSAGE)
    /\ \A i \in DOMAIN p : ~ is_unique(p[i]) =>
          get(s, ie_object_key(ANSLP_IPAP_MESSAGE, Cardinality(IpapsAmong(p, i)))) = {p[i]}

LEMMA KeepsMeans == StoreKeepsObjects /\ IpapsCounted <=> Keeps(incoming.store, parsed)
BY DEF StoreKeepsObjects, IpapsCounted, Keeps, IpapsAmong

LEMMA SetObjectKeeps ==
    ASSUME NEW p \in Seq(Object), NEW s, StoreOK(s), Keeps(s, p), NEW o \in Object,
           is_unique(o) => get(s, ie_object_key(o.type, 1)) = {}
    PROVE  Keeps(set_object(s, o), Append(p, o))
<1> DEFINE t == set_object(s, o)
           q == Append(p, o)
           d == NewEntry(s, o)
           n == Len(p)
           m == getMaxSequence(s, ANSLP_IPAP_MESSAGE)
<1>1. d \notin s
    BY SetObjectAdds
<1>2. t = s \cup {d} /\ StoreOK(t)
    BY SetObjectAdds
<1>3. getMaxSequence(t, ANSLP_IPAP_MESSAGE) = m + (IF is_unique(o) THEN 0 ELSE 1)
    BY SetObjectAdds
<1>4. /\ n \in Nat /\ Len(q) = n + 1 /\ DOMAIN p = 1 .. n /\ DOMAIN q = 1 .. n + 1
      /\ q[n + 1] = o /\ \A i \in 1 .. n : q[i] = p[i]
    OBVIOUS
<1> HIDE DEF t, q
<1>5. \A i \in 0 .. n : IpapsAmong(q, i) = IpapsAmong(p, i)
    BY <1>4 DEF IpapsAmong
<1>6. m \in Nat /\ Cardinality(IpapsAmong(p, n)) = m
    BY DEF StoreOK, Keeps
<1>7. Cardinality(IpapsAmong(q, n + 1)) = m + (IF is_unique(o) THEN 0 ELSE 1)
  <2>1. n + 1 \notin IpapsAmong(p, n)
    BY <1>4 DEF IpapsAmong
  <2>2. CASE is_unique(o)
    <3>1. IpapsAmong(q, n + 1) = IpapsAmong(p, n)
      BY <1>4, <2>2 DEF IpapsAmong
    <3> QED BY <1>6, <2>2, <3>1
  <2>3. CASE ~ is_unique(o)
    <3>1. IpapsAmong(q, n + 1) = IpapsAmong(p, n) \cup {n + 1}
      BY <1>4, <2>3 DEF IpapsAmong
    <3>2. IsFiniteSet(IpapsAmong(p, n))
      BY <1>4, IpapsAmongFinite
    <3> QED BY <1>6, <2>1, <2>3, <3>1, <3>2, FS_AddElement
  <2> QED BY <2>2, <2>3
<1>8. {e.obj : e \in t} = Range(q)
  <2>1. {e.obj : e \in t} = {e.obj : e \in s} \cup {o}
    <3>1. d.obj = o
      BY DEF NewEntry
    <3> HIDE DEF d
    <3> QED BY <1>2, <3>1
  <2>2. {e.obj : e \in s} = Range(p)
    BY DEF Keeps
  <2>3. Range(q) = Range(p) \cup {o}
    BY <1>4 DEF Range
  <2> QED BY <2>1, <2>2, <2>3
<1>9. Cardinality(t) = Len(q)
  <2>1. IsFiniteSet(s) /\ Cardinality(s) = n
    BY DEF StoreOK, Keeps
  <2>2. Cardinality(s \cup {d}) = n + 1
    <3> HIDE DEF n, d
    <3> QED BY <1>1, <2>1, FS_AddElement
  <2> QED BY <1>2, <1>4, <2>2
<1>10. ASSUME NEW i \in DOMAIN q, ~ is_unique(q[i])
       PROVE  get(t, ie_object_key(ANSLP_IPAP_MESSAGE, Cardinality(IpapsAmong(q, i)))) = {q[i]}
  <2> DEFINE c == Cardinality(IpapsAmong(q, i))
             k == ie_object_key(ANSLP_IPAP_MESSAGE, c)
  <2>1. CASE i \in 1 .. n
    <3>1. c = Cardinality(IpapsAmong(p, i)) /\ q[i] = p[i]
      BY <1>4, <1>5, <2>1
    <3>2. i \in IpapsAmong(p, i) /\ i \in Nat
      BY <1>10, <2>1, <3>1 DEF IpapsAmong
    <3>3. c \in Nat \ {0}
      BY <3>1, <3>2, IpapsAmongFinite
    <3>4. MadeKey(k)
      BY <3>3, KeyIsMade
    <3>5. get(s, k) = {p[i]}
      BY <1>4, <1>10, <2>1, <3>1 DEF Keeps
    <3>6. [key |-> k, obj |-> p[i]] \in t
      BY <1>2, <3>4, <3>5, GetFinds
    <3> HIDE DEF k, c
    <3>7. get(t, k) = {p[i]}
      BY <1>2, <3>4, <3>6, GetFinds
    <3> QED BY <3>1, <3>7 DEF k, c
  <2>2. CASE i = n + 1
    <3>1. ~ is_unique(o) /\ q[i] = o
      BY <1>4, <1>10, <2>2
    <3>2. c = m + 1
      BY <1>7, <2>2, <3>1
    <3>3. k = d.key /\ d.obj = o
      BY <3>1, <3>2 DEF NewEntry, NewKey, is_unique
    <3>4. MadeKey(k) /\ d \in t
      BY <1>2, <3>3 DEF StoreOK
    <3> HIDE DEF k, c, d
    <3>5. get(t, k) = {o}
      BY <1>2, <3>3, <3>4, GetFinds
    <3> QED BY <3>1, <3>5 DEF k, c
  <2> QED BY <1>4, <2>1, <2>2
<1> QED
    BY <1>3, <1>4, <1>7, <1>8, <1>9, <1>10 DEF Keeps, t, q

\* A step that leaves the parser's state alone, other than the error list.
LEMMA ParserUntouched ==
    ASSUME ParserInv, UNCHANGED <<pos, incoming, bytes_read, parsed>>,
           \/ phase' \in {"objects", "accepted", "rejected", "thrown"}
           \/ phase \notin {"objects", "accepted", "rejected", "thrown"}
    PROVE  ParserInv'
<1>1. ParserIdle'
    BY DEF ParserInv, ParserIdle
<1>2. StoreKeepsObjects' /\ IpapsCounted'
    BY KeepsMeans DEF ParserInv, StoreKeepsObjects, IpapsCounted
<1> QED
    BY <1>1, <1>2 DEF ParserInv

LEMMA KeepsMeansNext ==
    Keeps(incoming'.store, parsed') => StoreKeepsObjects' /\ IpapsCounted'
BY DEF StoreKeepsObjects, IpapsCounted, Keeps, IpapsAmong

LEMMA EmptyKeeps == Keeps({}, <<>>)
<1>1. IpapsAmong(<<>>, 0) = {}
    BY DEF IpapsAmong
<1> QED
    BY <1>1, FS_EmptySet, EmptyStore DEF Keeps, Range

LEMMA ParserStep == TypeOK /\ ParserInv /\ [Next]_vars => ParserInv'
<1> SUFFICES ASSUME TypeOK, ParserInv, [Next]_vars PROVE ParserInv'
    OBVIOUS
<1>1. CASE \/ Compose \/ SetObject \/ BeginSerialize \/ CheckFails \/ WriteObject
           \/ RunOffTheEnd \/ WriteNothing \/ Transmit \/ ReceiveForeign
  <2>1. UNCHANGED parser /\ phase \notin {"objects", "accepted", "rejected", "thrown"}
    BY <1>1 DEF Compose, SetObject, BeginSerialize, CheckFails, WriteObject, RunOffTheEnd,
                WriteNothing, MissesObject, Transmit, ReceiveForeign
  <2> QED BY <2>1, ParserUntouched DEF parser
<1>2. CASE deserialize_msg
  <2>1. CASE Reject(TRUE)
    BY <2>1, ParserUntouched DEF Reject
  <2>2. CASE ~ Reject(TRUE)
    <3>1. /\ phase = "received" /\ phase' = "objects"
          /\ incoming' = [type |-> buf[1], store |-> {}]
          /\ pos' = HEADER_LENGTH /\ bytes_read' = HEADER_LENGTH /\ parsed' = parsed
      BY <1>2, <2>2 DEF deserialize_msg
    <3>2. parsed' = <<>> /\ incoming'.store = {}
      BY <3>1 DEF ParserInv, ParserIdle
    <3>3. Keeps(incoming'.store, parsed') /\ StoreOK(incoming'.store)
      BY <3>2, EmptyKeeps, EmptyStore
    <3>4. StoreKeepsObjects' /\ IpapsCounted'
      BY <3>3, KeepsMeansNext
    <3> QED BY <3>1, <3>3, <3>4 DEF ParserInv, ParserIdle
  <2> QED BY <2>1, <2>2
<1>3. CASE ReadObject
  <2> DEFINE o == deserialize_object.obj
  <2>1. /\ buf \in Seq(Nat) /\ pos \in 0 .. Len(buf) /\ bytes_left > 0
        /\ deserialize_object.outcome = "ok" /\ phase = "objects"
    BY <1>3 DEF TypeOK, ReadObject
  <2>2. o \in Object /\ deserialize_object.pos \in pos + 1 .. Len(buf)
    BY <2>1, ObjectRead
  <2>3. CASE Reject(TRUE)
    BY <2>3, ParserUntouched DEF Reject
  <2>4. CASE ~ Reject(TRUE)
    <3>1. /\ ~ (is_unique(o) /\ get(incoming.store, ie_object_key(o.type, 1)) # {})
          /\ incoming' = [incoming EXCEPT !.store = set_object(@, o)]
          /\ bytes_read' = bytes_read + (deserialize_object.pos - pos)
          /\ pos' = deserialize_object.pos
          /\ parsed' = Append(parsed, o)
          /\ phase' = phase
      BY <1>3, <2>4 DEF ReadObject
    <3> HIDE DEF o
    <3>2. incoming'.store = set_object(incoming.store, o)
      BY <3>1 DEF TypeOK, Message
    <3>3. Keeps(incoming.store, parsed) /\ parsed \in Seq(Object) /\ StoreOK(incoming.store)
      BY KeepsMeans DEF ParserInv, TypeOK
    <3>4. Keeps(incoming'.store, parsed') /\ StoreOK(incoming'.store)
      <4>1. is_unique(o) => get(incoming.store, ie_object_key(o.type, 1)) = {}
        BY <3>1
      <4>2. Keeps(set_object(incoming.store, o), Append(parsed, o))
        BY <2>2, <3>3, <4>1, SetObjectKeeps
      <4>3. StoreOK(set_object(incoming.store, o))
        BY <2>2, <3>3, <4>1, SetObjectAdds
      <4> QED BY <3>1, <3>2, <4>2, <4>3
    <3>5. StoreKeepsObjects' /\ IpapsCounted'
      BY <3>4, KeepsMeansNext
    <3>6. bytes_read' = pos'
      BY <2>1, <2>2, <3>1 DEF ParserInv
    <3> QED BY <2>1, <3>1, <3>4, <3>5, <3>6 DEF ParserInv, ParserIdle
  <2> QED BY <2>3, <2>4
<1>4. CASE RejectObject \/ ObjectThrows \/ EndMessage
  <2>1. /\ UNCHANGED <<pos, incoming, bytes_read, parsed>>
        /\ phase' \in {"accepted", "rejected", "thrown"}
    BY <1>4 DEF RejectObject, ObjectThrows, EndMessage, Reject, parser
  <2> QED BY <2>1, ParserUntouched
<1>5. CASE UNCHANGED vars
    BY <1>5, ParserUntouched DEF vars, parser
<1> QED
    BY <1>1, <1>2, <1>3, <1>4, <1>5 DEF Next, Parse

-----------------------------------------------------------------------------
(* The messages sessions compose *)

LEMMA MessageTypes ==
    /\ anslp_create.type = 1 /\ anslp_response.type = 2 /\ anslp_notify.type = 3
    /\ anslp_refresh.type = 5 /\ anslp_bidding.type = 6
BY DEF anslp_create, anslp_response, anslp_notify, anslp_refresh, anslp_bidding

\* lookup_ie finds the one class that is registered for a type.
LEMMA ClassOfType ==
    ASSUME NEW c \in RegisteredMessages, NEW m, m.type = c.type
    PROVE  Class(m) = c
<1>1. \A d \in RegisteredMessages : d.type = c.type => d = c
    BY MessageTypes DEF RegisteredMessages
<1> QED
    BY <1>1 DEF Class

LEMMA WritableTypes ==
    ASSUME NEW m
    PROVE  /\ m.type = anslp_create.type => Writable(m) =
                {MSG_SEQUENCE_NUMBER, SESSION_LIFETIME, SELECTION_AUCTIONING_ENTITIES,
                 MESSAGE_HOP_COUNT, ANSLP_IPAP_MESSAGE}
           /\ m.type = anslp_response.type => Writable(m) =
                {MSG_SEQUENCE_NUMBER, INFORMATION_CODE, SESSION_LIFETIME, ANSLP_IPAP_MESSAGE}
           /\ m.type = anslp_refresh.type => Writable(m) = {MSG_SEQUENCE_NUMBER, SESSION_LIFETIME}
           /\ m.type = anslp_bidding.type => Writable(m) = {MSG_SEQUENCE_NUMBER, ANSLP_IPAP_MESSAGE}
<1>1. CASE m.type = anslp_create.type
  <2>1. Class(m) = anslp_create
    BY <1>1, ClassOfType DEF RegisteredMessages
  <2> QED BY <1>1, <2>1, MessageTypes DEF Writable, anslp_create, Range
<1>2. CASE m.type = anslp_response.type
  <2>1. Class(m) = anslp_response
    BY <1>2, ClassOfType DEF RegisteredMessages
  <2> QED BY <1>2, <2>1, MessageTypes DEF Writable, anslp_response, Range
<1>3. CASE m.type = anslp_refresh.type
  <2>1. Class(m) = anslp_refresh
    BY <1>3, ClassOfType DEF RegisteredMessages
  <2> QED BY <1>3, <2>1, MessageTypes DEF Writable, anslp_refresh, Range
<1>4. CASE m.type = anslp_bidding.type
  <2>1. Class(m) = anslp_bidding
    BY <1>4, ClassOfType DEF RegisteredMessages
  <2> QED BY <1>4, <2>1, MessageTypes DEF Writable, anslp_bidding, Range
<1> QED
    BY <1>1, <1>2, <1>3, <1>4, MessageTypes

LEMMA ValueObjects ==
    ASSUME NEW v \in Values
    PROVE  /\ WellFormed(information_code(v)) /\ information_code(v).type = INFORMATION_CODE
           /\ WellFormed(selection_auctioning_entities(v))
           /\ selection_auctioning_entities(v).type = SELECTION_AUCTIONING_ENTITIES
           /\ WellFormed(message_hop_count(v)) /\ message_hop_count(v).type = MESSAGE_HOP_COUNT
           /\ WellFormed(msg_sequence_number(v))
           /\ msg_sequence_number(v).type = MSG_SEQUENCE_NUMBER
           /\ WellFormed(session_lifetime(v)) /\ session_lifetime(v).type = SESSION_LIFETIME
<1>1. v \in Nat
    BY ValuesAssumption
<1>2. <<0, v>> \in Seq(Nat) /\ Len(<<0, v>>) = 2 /\ <<v, 0>> \in Seq(Nat) /\ Len(<<v, 0>>) = 2
    BY <1>1
<1> QED
    BY <1>2 DEF WellFormed, Object, is_unique, RegisteredObjects, WORD, information_code,
        selection_auctioning_entities, message_hop_count, msg_sequence_number, session_lifetime,
        INFORMATION_CODE, SELECTION_AUCTIONING_ENTITIES, MESSAGE_HOP_COUNT, MSG_SEQUENCE_NUMBER,
        SESSION_LIFETIME, ANSLP_IPAP_MESSAGE

LEMMA IpapObjects ==
    ASSUME NEW l \in IpapLists
    PROVE  /\ Ipaps(l) \in Seq(Object)
           /\ \A i \in DOMAIN Ipaps(l) :
                WellFormed(Ipaps(l)[i]) /\ Ipaps(l)[i].type = ANSLP_IPAP_MESSAGE
<1>1. PICK m \in 0 .. MaxIpap : l \in [1 .. m -> IpapMessages]
    BY DEF IpapLists, SeqOf
<1>2. m \in Nat
    BY <1>1, IpapAssumption
<1>3. ASSUME NEW b \in IpapMessages
      PROVE  /\ WellFormed(anslp_ipap_message(b))
             /\ anslp_ipap_message(b).type = ANSLP_IPAP_MESSAGE
  <2>1. PICK n \in 1 .. MaxIpapLen, v \in Values : b = [i \in 1 .. n |-> IF i = 1 THEN n ELSE v]
    BY DEF IpapMessages
  <2>2. n \in Nat \ {0} /\ v \in Nat
    BY <2>1, IpapAssumption, ValuesAssumption
  <2>3. b \in [1 .. n -> Nat] /\ b[1] = n
    BY <2>1, <2>2
  <2>4. b \in Seq(Nat) /\ Len(b) = n
    BY <2>2, <2>3
  <2>5. b # <<>> /\ Head(b) = Len(b)
    BY <2>2, <2>3, <2>4
  <2> QED BY <2>4, <2>5 DEF WellFormed, Object, is_unique, anslp_ipap_message,
        RegisteredObjects, INFORMATION_CODE, ANSLP_IPAP_MESSAGE
<1>4. \A i \in 1 .. m : l[i] \in IpapMessages
    BY <1>1
<1>5. DOMAIN Ipaps(l) = 1 .. m /\ \A i \in 1 .. m : Ipaps(l)[i] = anslp_ipap_message(l[i])
    BY <1>1 DEF Ipaps
<1>6. \A i \in 1 .. m : WellFormed(Ipaps(l)[i]) /\ Ipaps(l)[i].type = ANSLP_IPAP_MESSAGE
    BY <1>3, <1>4, <1>5
<1>7. Ipaps(l) = [i \in 1 .. m |-> anslp_ipap_message(l[i])]
    BY <1>1 DEF Ipaps
<1>8. Ipaps(l) \in [1 .. m -> Object]
    BY <1>5, <1>6, <1>7 DEF WellFormed
<1> QED
    BY <1>2, <1>5, <1>6, <1>8

\* A sequence of objects with types in W that fills an empty store.
Settable(q, W) ==
    /\ q \in Seq(Object) /\ q # <<>>
    /\ \A i \in DOMAIN q :
          /\ WellFormed(q[i]) /\ q[i].type \in W
          /\ is_unique(q[i]) => \A j \in DOMAIN q : q[j].type = q[i].type => i = j

LEMMA PairConcat ==
    ASSUME NEW a \in Object, NEW b \in Object
    PROVE  <<a>> \o <<b>> = <<a, b>>
<1> DEFINE s == <<a>> \o <<b>>
<1>1. s \in Seq(Object) /\ Len(s) = 2 /\ s[1] = a /\ s[2] = b
    OBVIOUS
<1> HIDE DEF s
<1>2. s = <<a, b>>
    BY <1>1
<1> QED
    BY <1>2 DEF s

LEMMA SettableWithIpaps ==
    ASSUME NEW W, NEW q, Settable(q, W), \A i \in DOMAIN q : is_unique(q[i]),
           NEW l \in IpapLists, ANSLP_IPAP_MESSAGE \in W
    PROVE  Settable(q \o Ipaps(l), W)
<1> DEFINE r == Ipaps(l)
           n == Len(q)
<1>1. r \in Seq(Object) /\ \A i \in DOMAIN r : WellFormed(r[i]) /\ r[i].type = ANSLP_IPAP_MESSAGE
    BY IpapObjects
<1>2. q \in Seq(Object) /\ n \in Nat \ {0} /\ DOMAIN q = 1 .. n
    BY DEF Settable
<1> HIDE DEF r
<1>3. /\ q \o r \in Seq(Object) /\ Len(q \o r) = n + Len(r) /\ Len(r) \in Nat
      /\ DOMAIN (q \o r) = 1 .. n + Len(r)
    BY <1>1, <1>2
<1>4. \A i \in 1 .. n : (q \o r)[i] = q[i]
    BY <1>1, <1>2
<1>5. \A i \in n + 1 .. n + Len(r) : (q \o r)[i] = r[i - n] /\ i - n \in DOMAIN r
    BY <1>1, <1>2
<1>6. \A i \in n + 1 .. n + Len(r) :
        WellFormed((q \o r)[i]) /\ (q \o r)[i].type = ANSLP_IPAP_MESSAGE
    BY <1>1, <1>5
<1>7. \A i \in 1 .. n : /\ WellFormed((q \o r)[i])
                        /\ (q \o r)[i].type \in W \ {ANSLP_IPAP_MESSAGE}
                        /\ \A j \in 1 .. n : (q \o r)[j].type = (q \o r)[i].type => i = j
    BY <1>2, <1>4 DEF Settable, is_unique
<1>8. q \o r # <<>>
    BY <1>2, <1>3
<1>9. \A i \in 1 .. n + Len(r) : i \in 1 .. n \/ i \in n + 1 .. n + Len(r)
    BY <1>2, <1>3
<1> QED
    BY <1>3, <1>6, <1>7, <1>8, <1>9 DEF Settable, is_unique, r

\* Every message a session composes has objects of types its class writes, each
\* unique one once.
LEMMA ComposedSettable ==
    ASSUME NEW m \in Composed, NEW x, x.type = m.type
    PROVE  /\ m.type \in {c.type : c \in RegisteredMessages}
           /\ Settable(m.objects, Writable(x))
<1> USE DEF INFORMATION_CODE, SELECTION_AUCTIONING_ENTITIES, MESSAGE_HOP_COUNT,
            MSG_SEQUENCE_NUMBER, SESSION_LIFETIME, ANSLP_IPAP_MESSAGE
<1>1. CASE m \in CreateMessages
  <2>1. PICK v \in Values, w \in Values, l \in IpapLists :
           m = [type |-> anslp_create.type,
                objects |-> <<session_lifetime(v), msg_sequence_number(w),
                    selection_auctioning_entities(v), message_hop_count(w)>> \o Ipaps(l)]
    BY <1>1 DEF CreateMessages
  <2>2. Writable(x) = {4, 5, 2, 3, 6}
    BY <2>1, WritableTypes
  <2> DEFINE q == <<session_lifetime(v), msg_sequence_number(w),
                    selection_auctioning_entities(v), message_hop_count(w)>>
  <2>3. Settable(q, Writable(x)) /\ \A i \in DOMAIN q : is_unique(q[i])
    BY <2>2, ValueObjects DEF Settable, WellFormed, is_unique
  <2> HIDE DEF q
  <2>4. Settable(q \o Ipaps(l), Writable(x))
    BY <2>2, <2>3, SettableWithIpaps
  <2> QED BY <2>1, <2>4 DEF RegisteredMessages, q
<1>2. CASE m \in BiddingMessages
  <2>1. PICK v \in Values, l \in IpapLists :
           m = [type |-> anslp_bidding.type, objects |-> <<msg_sequence_number(v)>> \o Ipaps(l)]
    BY <1>2 DEF BiddingMessages
  <2>2. Writable(x) = {4, 6}
    BY <2>1, WritableTypes
  <2>3. Settable(<<msg_sequence_number(v)>>, Writable(x))
    BY <2>2, ValueObjects DEF Settable, WellFormed
  <2>4. Settable(m.objects, Writable(x))
    BY <2>1, <2>2, <2>3, ValueObjects, SettableWithIpaps DEF is_unique
  <2> QED BY <2>1, <2>4 DEF RegisteredMessages
<1>3. CASE m \in RefreshMessages
  <2>1. PICK v \in Values, w \in Values :
           m = [type |-> anslp_refresh.type,
                objects |-> <<session_lifetime(v), msg_sequence_number(w)>>]
    BY <1>3 DEF RefreshMessages
  <2>2. Writable(x) = {4, 5}
    BY <2>1, WritableTypes
  <2>3. Settable(m.objects, Writable(x))
    BY <2>1, <2>2, ValueObjects DEF Settable, WellFormed
  <2> QED BY <2>1, <2>3 DEF RegisteredMessages
<1>4. CASE m \in SuccessResponses
  <2>1. PICK v \in Values, w \in Values, l \in IpapLists :
           m = [type |-> anslp_response.type,
                objects |-> <<information_code(v), msg_sequence_number(w), session_lifetime(v)>>
                            \o Ipaps(l)]
    BY <1>4, SMTT(60) DEF SuccessResponses
  <2>2. Writable(x) = {4, 1, 5, 6}
    BY <2>1, WritableTypes
  <2> DEFINE q == <<information_code(v), msg_sequence_number(w), session_lifetime(v)>>
  <2>3. Settable(q, Writable(x)) /\ \A i \in DOMAIN q : is_unique(q[i])
    BY <2>2, ValueObjects DEF Settable, WellFormed, is_unique
  <2> HIDE DEF q
  <2>4. Settable(q \o Ipaps(l), Writable(x))
    BY <2>2, <2>3, SettableWithIpaps
  <2> QED BY <2>1, <2>4 DEF RegisteredMessages, q
<1>5. CASE m \in ErrorResponses
  <2>1. PICK v \in Values, n \in {<<>>} \cup {<<msg_sequence_number(w)>> : w \in Values} :
           m = [type |-> anslp_response.type, objects |-> <<information_code(v)>> \o n]
    BY <1>5 DEF ErrorResponses
  <2>2. Writable(x) = {4, 1, 5, 6}
    BY <2>1, WritableTypes
  <2>3. CASE n = <<>>
    <3>1. m.objects = <<information_code(v)>>
      BY <2>1, <2>3
    <3>2. Settable(m.objects, Writable(x))
      BY <2>2, <3>1, ValueObjects DEF Settable, WellFormed
    <3> QED BY <2>1, <3>2 DEF RegisteredMessages
  <2>4. CASE n # <<>>
    <3>1. PICK w \in Values : n = <<msg_sequence_number(w)>>
      BY <2>1, <2>4
    <3>2. m.objects = <<information_code(v), msg_sequence_number(w)>>
      BY <2>1, <3>1, ValueObjects, PairConcat DEF WellFormed
    <3>3. Settable(m.objects, Writable(x))
      BY <2>2, <3>2, ValueObjects DEF Settable, WellFormed
    <3> QED BY <2>1, <3>3 DEF RegisteredMessages
  <2> QED BY <2>3, <2>4
<1> QED
    BY <1>1, <1>2, <1>3, <1>4, <1>5 DEF Composed

-----------------------------------------------------------------------------
(* Encoding an object *)

LEMMA Concat ==
    ASSUME NEW s \in Seq(Nat), NEW t \in Seq(Nat)
    PROVE  /\ s \o t \in Seq(Nat) /\ Len(s \o t) = Len(s) + Len(t)
           /\ \A i \in 1 .. Len(s) : (s \o t)[i] = s[i]
           /\ \A i \in 1 .. Len(t) : (s \o t)[Len(s) + i] = t[i]
OBVIOUS

LEMMA Padding ==
    ASSUME NEW n \in Nat
    PROVE  /\ num_padding(n) \in 0 .. 1
           /\ (n + num_padding(n)) % 2 = 0
           /\ n = 2 => num_padding(n) = 0
BY Words DEF num_padding

\* serialize writes whole words, as many bytes as ObjectSize says.
LEMMA Serialized ==
    ASSUME NEW o \in Object
    PROVE  /\ ObjectSize(o) \in Nat /\ ObjectSize(o) >= HEADER_LENGTH
           /\ ObjectSize(o) = 2 + Len(o.body) + num_padding(Len(o.body))
           /\ serialize(o) \in Seq(Nat) /\ Len(serialize(o)) = ObjectSize(o)
           /\ serialize(o)[1] = o.type /\ serialize(o)[2] = serialize_header(o)[2]
           /\ \A i \in 1 .. Len(o.body) : serialize(o)[2 + i] = o.body[i]
           /\ \A i \in 2 + Len(o.body) + 1 .. ObjectSize(o) : serialize(o)[i] = 0
<1> DEFINE b == o.body
           n == Len(b)
           k == num_padding(n)
           z == Zeros(k)
           h == serialize_header(o)
<1>1. b \in Seq(Nat) /\ n \in Nat /\ o.type \in Nat
    BY DEF Object, RegisteredObjects, INFORMATION_CODE, ANSLP_IPAP_MESSAGE
<1>2. k \in 0 .. 1 /\ k \in Nat
  <2>1. n \in Nat
    BY <1>1
  <2> HIDE DEF n
  <2>2. num_padding(n) \in 0 .. 1
    BY <2>1, Padding
  <2> QED BY <2>2
<1>3. ObjectSize(o) = 2 + n + k
    BY Words DEF ObjectSize
<1>4. h \in Seq(Nat) /\ Len(h) = 2 /\ h[1] = o.type
  <2> DEFINE a == 4 * LenSpace * WORD
             x == ObjectSize(o) - HEADER_LENGTH
  <2>1. a \in Nat /\ a > 0
    BY LenSpaceAssumption, Words
  <2>2. x \in Nat
    BY <1>1, <1>2, <1>3, Words
  <2> HIDE DEF a, x
  <2>3. x % a \in Nat
    BY <2>1, <2>2
  <2>4. (x % a) \div WORD \in Nat
    BY <2>3, Words
  <2>5. h = <<o.type, (x % a) \div WORD>>
    BY DEF serialize_header, a, x
  <2> QED BY <1>1, <2>4, <2>5
<1>5. z \in Seq(Nat) /\ Len(z) = k /\ \A i \in 1 .. k : z[i] = 0
    BY <1>2 DEF Zeros
<1>6. serialize(o) = h \o b \o z
    BY DEF serialize
<1> HIDE DEF h, b, z, k
<1> DEFINE hb == h \o b
<1>7. hb \in Seq(Nat) /\ Len(hb) = 2 + n
  <2>1. h \in Seq(Nat) /\ b \in Seq(Nat)
    BY <1>1, <1>4
  <2>2. hb \in Seq(Nat) /\ Len(hb) = Len(h) + n
    BY <2>1, Concat
  <2> HIDE DEF hb
  <2> QED BY <1>4, <2>2
<1>8. hb[1] = h[1] /\ hb[2] = h[2]
  <2>1. h \in Seq(Nat) /\ b \in Seq(Nat) /\ 1 \in 1 .. Len(h) /\ 2 \in 1 .. Len(h)
    BY <1>1, <1>4
  <2> QED BY <2>1, Concat
<1>9. \A i \in 1 .. n : hb[2 + i] = b[i]
  <2>1. h \in Seq(Nat) /\ b \in Seq(Nat)
    BY <1>1, <1>4
  <2>2. \A i \in 1 .. n : hb[Len(h) + i] = b[i]
    BY <2>1, Concat
  <2> HIDE DEF hb
  <2> QED BY <1>4, <2>2
<1>10. serialize(o) = hb \o z
    BY <1>6
<1> HIDE DEF hb
<1>11. serialize(o) \in Seq(Nat) /\ Len(serialize(o)) = 2 + n + k
    BY <1>1, <1>2, <1>5, <1>7, <1>10, Concat
<1>12. \A i \in 1 .. 2 + n : serialize(o)[i] = hb[i]
    BY <1>5, <1>7, <1>10, Concat
<1>13. \A i \in 1 .. k : serialize(o)[2 + n + i] = 0
    BY <1>5, <1>7, <1>10, Concat
<1>14. serialize(o)[1] = h[1] /\ serialize(o)[2] = h[2]
  <2>1. 1 \in 1 .. 2 + n /\ 2 \in 1 .. 2 + n
    BY <1>1
  <2> QED BY <1>8, <1>12, <2>1
<1>15. ASSUME NEW i \in 1 .. n PROVE serialize(o)[2 + i] = b[i]
  <2>1. 2 + i \in 1 .. 2 + n
    BY <1>1
  <2> QED BY <1>9, <1>12, <2>1
<1>16. ASSUME NEW i \in 2 + n + 1 .. 2 + n + k PROVE serialize(o)[i] = 0
  <2>1. i - (2 + n) \in 1 .. k /\ 2 + n + (i - (2 + n)) = i
    BY <1>1, <1>2
  <2> QED BY <1>13, <2>1
<1>17. ObjectSize(o) \in Nat /\ ObjectSize(o) >= 2
    BY <1>1, <1>2, <1>3
<1> QED
    BY <1>3, <1>4, <1>11, <1>14, <1>15, <1>16, <1>17, Words DEF h, b, k

\* The length field of an object that fits announces body and padding.
LEMMA LengthSent ==
    ASSUME NEW o \in Object, ObjectSize(o) - HEADER_LENGTH < LenSpace * WORD
    PROVE  (serialize_header(o)[2] % LenSpace) * WORD = ObjectSize(o) - HEADER_LENGTH
<1> DEFINE x == ObjectSize(o) - HEADER_LENGTH
           a == 4 * LenSpace * WORD
           y == x \div 2
<1>1. x \in Nat /\ x % 2 = 0
  <2> DEFINE n == Len(o.body)
  <2>1. ObjectSize(o) = 2 + n + num_padding(n) /\ n \in Nat
    BY Serialized DEF Object
  <2> HIDE DEF n
  <2>2. num_padding(n) \in 0 .. 1 /\ (n + num_padding(n)) % 2 = 0
    BY <2>1, Padding
  <2>3. x = n + num_padding(n)
    BY <2>1, <2>2, Words
  <2> QED BY <2>1, <2>2, <2>3
<1>2. y \in Nat /\ x = 2 * y
    BY <1>1
<1>3. y < LenSpace /\ x < a /\ a \in Nat
    BY <1>2, LenSpaceAssumption, Words
<1>4. \A u \in Nat, w \in Nat : u < w => u % w = u
    OBVIOUS
<1>5. serialize_header(o)[2] = y
  <2>1. serialize_header(o)[2] = (x % a) \div 2
    BY Words DEF serialize_header
  <2>2. x % a = x
    BY <1>1, <1>3, <1>4
  <2> QED BY <2>1, <2>2
<1> QED
    BY <1>2, <1>3, <1>4, <1>5, LenSpaceAssumption, Words

LEMMA SameElements ==
    ASSUME NEW s \in Seq(Nat), NEW t \in Seq(Nat), Len(s) = Len(t),
           \A i \in 1 .. Len(t) : s[i] = t[i]
    PROVE  s = t
OBVIOUS

\* A piece of a payload whose bytes are those of b.
LEMMA PieceIs ==
    ASSUME NEW s \in Seq(Nat), NEW b \in Seq(Nat), NEW a \in Nat, NEW n \in Nat, n = Len(b),
           a + n <= Len(s), \A i \in 1 .. n : s[a + i] = b[i]
    PROVE  SubSeq(s, a + 1, a + n) = b
<1> DEFINE w == SubSeq(s, a + 1, a + n)
<1>1. w \in Seq(Nat) /\ Len(w) = n /\ \A i \in 1 .. n : w[i] = s[a + i]
    BY Piece
<1> HIDE DEF w
<1>2. w = b
    BY <1>1, SameElements
<1> QED
    BY <1>2 DEF w

\* libipap takes from a padded body the message that was exported.
LEMMA ImportTakes ==
    ASSUME NEW b \in Seq(Nat), NEW n \in Nat, NEW k \in Nat, NEW w \in Seq(Nat),
           n = Len(b), b # <<>>, Head(b) = n, Len(w) = n + k,
           \A i \in 1 .. n : w[i] = b[i]
    PROVE  ipap_import(w) = n /\ n > 0 /\ SubSeq(w, 1, n) = b
<1>1. n > 0 /\ b[1] = n
    OBVIOUS
<1>2. 1 \in 1 .. n
    BY <1>1
<1>3. w[1] = n /\ Len(w) >= n /\ Len(w) > 0
    BY <1>1, <1>2
<1>4. w # <<>> /\ Head(w) = n
    BY <1>3
<1>5. n \in 1 .. Len(w)
    BY <1>1, <1>3
<1>6. ipap_import(w) = n
    BY <1>4, <1>5 DEF ipap_import
<1>7. SubSeq(w, 0 + 1, 0 + n) = b
  <2>1. \A i \in 1 .. n : w[0 + i] = b[i]
    OBVIOUS
  <2>2. 0 + n <= Len(w) /\ 0 \in Nat
    BY <1>3
  <2> QED BY <2>1, <2>2, PieceIs
<1>8. SubSeq(w, 1, n) = b
    BY <1>7
<1> QED
    BY <1>1, <1>6, <1>8

\* The parser undoes serialize: where an object that fits was written, it reads
\* that object, with any other bytes around.
LEMMA ReadBack ==
    ASSUME buf \in Seq(Nat), pos \in 0 .. Len(buf), NEW o, WellFormed(o),
           ObjectSize(o) - HEADER_LENGTH < LenSpace * WORD,
           pos + ObjectSize(o) <= Len(buf),
           \A j \in 1 .. ObjectSize(o) : buf[pos + j] = serialize(o)[j]
    PROVE  deserialize_object = Success(o.type, o.body, pos + ObjectSize(o))
<1> DEFINE b == o.body
           n == Len(b)
           k == num_padding(n)
           length == extract_body_length(Word(pos))
           start == pos + HEADER_LENGTH
<1>1. o \in Object /\ b \in Seq(Nat) /\ n \in Nat /\ o.type \in RegisteredObjects
    BY DEF WellFormed, Object
<1>2. k \in Nat /\ ObjectSize(o) = 2 + n + k
  <2>1. ObjectSize(o) = 2 + n + k
    BY <1>1, Serialized
  <2>2. n \in Nat
    BY <1>1
  <2> HIDE DEF n
  <2>3. num_padding(n) \in 0 .. 1
    BY <2>2, Padding
  <2> QED BY <2>1, <2>3
<1>3. /\ buf[pos + 1] = o.type /\ buf[pos + 2] = serialize_header(o)[2]
      /\ \A i \in 1 .. n : buf[start + i] = b[i]
      /\ \A i \in n + 1 .. n + k : buf[start + i] = 0
  <2>1. 1 \in 1 .. ObjectSize(o) /\ 2 \in 1 .. ObjectSize(o)
    BY <1>1, <1>2
  <2>2. buf[pos + 1] = o.type /\ buf[pos + 2] = serialize_header(o)[2]
    BY <1>1, <2>1, Serialized
  <2>3. ASSUME NEW i \in 1 .. n PROVE buf[start + i] = b[i]
    <3>1. 2 + i \in 1 .. ObjectSize(o) /\ start + i = pos + (2 + i)
      BY <1>1, <1>2, Words
    <3>2. serialize(o)[2 + i] = b[i]
      BY <1>1, Serialized
    <3> QED BY <3>1, <3>2
  <2>4. ASSUME NEW i \in n + 1 .. n + k PROVE buf[start + i] = 0
    <3>0. i \in Nat /\ i > n /\ i <= n + k
      BY <1>1, <1>2
    <3>1. /\ 2 + i \in 1 .. ObjectSize(o) /\ start + i = pos + (2 + i)
          /\ 2 + i \in 2 + n + 1 .. ObjectSize(o)
      <4> HIDE DEF n, k
      <4> QED BY <1>1, <1>2, <3>0, Words
    <3>2. serialize(o)[2 + i] = 0
      BY <1>1, <3>1, Serialized
    <3> QED BY <3>1, <3>2
  <2> QED BY <2>2, <2>3, <2>4
<1>4. pos \in Nat /\ bytes_left = Len(buf) - pos /\ start = pos + 2 /\ Len(buf) \in Nat
    BY Words DEF bytes_left
<1>5. Word(pos)[1] = o.type /\ Word(pos)[2] = serialize_header(o)[2]
  <2>1. pos + 2 <= Len(buf)
    BY <1>1, <1>2, <1>4
  <2>2. \A i \in 1 .. 2 : SubSeq(buf, pos + 1, pos + 2)[i] = buf[pos + i]
    BY <1>4, <2>1, Piece
  <2> QED BY <1>3, <2>2, Words DEF Word
<1>6. extract_object_type(Word(pos)) = o.type /\ length = n + k
  <2>1. (serialize_header(o)[2] % LenSpace) * WORD = n + k
    BY <1>1, <1>2, LengthSent, Words
  <2> QED BY <1>5, <2>1 DEF extract_object_type, extract_body_length
<1>7. ~ bytes_left < HEADER_LENGTH /\ ~ bytes_left - HEADER_LENGTH < n + k
  <2> DEFINE l == Len(buf)
  <2>1. /\ pos \in Nat /\ l \in Nat /\ n \in Nat /\ k \in Nat /\ bytes_left = l - pos
        /\ pos + (2 + n + k) <= l /\ HEADER_LENGTH = 2
    BY <1>1, <1>2, <1>4, Words
  <2> HIDE DEF l, n, k
  <2> QED BY <2>1
<1>8. deserialize_object = IF o.type = ANSLP_IPAP_MESSAGE THEN deserialize_ipap(n + k)
                                                         ELSE deserialize_value(o.type)
    BY <1>1, <1>6, <1>7 DEF deserialize_object
<1>9. CASE is_unique(o)
  <2>1. n = 2 /\ k = 0
    <3>1. n = 2
      BY <1>9, Words DEF WellFormed
    <3> QED BY <3>1, Padding
  <2>2. pos + 4 <= Len(buf) /\ ObjectSize(o) = 4
    BY <1>2, <1>4, <2>1
  <2>3. Word(start) = b
    <3>1. start \in Nat /\ start + 2 <= Len(buf) /\ 2 \in Nat
      <4> HIDE DEF start
      <4>1. pos + 2 + 2 <= Len(buf)
        BY <1>4, <2>2
      <4> QED BY <1>4, <4>1
    <3>2. Len(b) = 2 /\ \A i \in 1 .. 2 : buf[start + i] = b[i]
      BY <1>3, <2>1
    <3> HIDE DEF start, b
    <3>3. SubSeq(buf, start + 1, start + 2) = b
      BY <1>1, <3>1, <3>2, PieceIs
    <3> QED BY <3>3, Words DEF Word
  <2>4. ~ (o.type = INFORMATION_CODE /\ b[2] # 0)
    BY DEF WellFormed
  <2>5. ~ bytes_left < HEADER_LENGTH + WORD
    BY <1>4, <2>2, Words
  <2>6. deserialize_value(o.type) = Success(o.type, b, pos + HEADER_LENGTH + WORD)
    BY <2>3, <2>4, <2>5 DEF deserialize_value
  <2>7. pos + HEADER_LENGTH + WORD = pos + ObjectSize(o)
    BY <2>2, Words
  <2> QED BY <1>8, <1>9, <2>6, <2>7 DEF is_unique
<1>10. CASE ~ is_unique(o)
  <2> DEFINE w == SubSeq(buf, start + 1, start + (n + k))
  <2>1. o.type = ANSLP_IPAP_MESSAGE /\ b # <<>> /\ Head(b) = n
    BY <1>10 DEF WellFormed, is_unique
  <2>2. start \in Nat /\ n + k \in Nat /\ start + (n + k) <= Len(buf)
    <3> HIDE DEF n, k
    <3> QED BY <1>1, <1>2, <1>4
  <2>3. w \in Seq(Nat) /\ Len(w) = n + k /\ \A i \in 1 .. n + k : w[i] = buf[start + i]
    <3> HIDE DEF start, n, k
    <3> QED BY <2>2, Piece
  <2> HIDE DEF w
  <2>4. /\ \A i \in 1 .. n : w[i] = b[i]
        /\ \A i \in n + 1 .. n + k : w[i] = 0
    <3> HIDE DEF start, b, n, k
    <3>1. \A i \in 1 .. n : i \in 1 .. n + k
      BY <1>1, <1>2
    <3>2. \A i \in n + 1 .. n + k : i \in 1 .. n + k
      BY <1>1, <1>2
    <3> QED BY <1>3, <2>3, <3>1, <3>2
  <2>5. n = Len(b)
    OBVIOUS
  <2>6. ipap_import(w) = n /\ n > 0 /\ SubSeq(w, 1, n) = b
    <3> HIDE DEF b, n, k
    <3> QED BY <1>1, <1>2, <2>1, <2>3, <2>4, <2>5, ImportTakes
  <2>7. deserialize_ipap(n + k) = Success(ANSLP_IPAP_MESSAGE, b, start + (n + k))
    <3>1. n # 0
      BY <2>6
    <3> HIDE DEF b, n, k
    <3> QED BY <2>4, <2>6, <3>1 DEF deserialize_ipap, w, start
  <2>8. start + (n + k) = pos + ObjectSize(o)
    <3> HIDE DEF n, k
    <3> QED BY <1>1, <1>2, <1>4
  <2> QED BY <1>8, <2>1, <2>7, <2>8
<1> QED
    BY <1>9, <1>10

-----------------------------------------------------------------------------
(* The size of a payload *)

LEMMA BytesOfObject ==
    ASSUME NEW e \in Entry
    PROVE  /\ IsFiniteSet({e} \X (1 .. ObjectSize(e.obj)))
           /\ Cardinality({e} \X (1 .. ObjectSize(e.obj))) = ObjectSize(e.obj)
<1> DEFINE n == ObjectSize(e.obj)
<1>1. n \in Nat
    BY Serialized DEF Entry
<1> HIDE DEF n
<1>2. IsFiniteSet(1 .. n) /\ Cardinality(1 .. n) = n
    BY <1>1, FS_Interval
<1>3. IsFiniteSet({e}) /\ Cardinality({e}) = 1
    BY FS_Singleton
<1>4. IsFiniteSet({e} \X (1 .. n)) /\ Cardinality({e} \X (1 .. n)) = 1 * n
  <2> DEFINE S == {e}
             T == 1 .. n
  <2>1. IsFiniteSet(S) /\ IsFiniteSet(T) /\ Cardinality(S) = 1 /\ Cardinality(T) = n
    BY <1>2, <1>3
  <2> HIDE DEF S, T
  <2>2. IsFiniteSet(S \X T) /\ Cardinality(S \X T) = 1 * n
    BY <2>1, FS_Product
  <2> QED BY <2>2 DEF S, T
<1> QED
    BY <1>1, <1>4 DEF n

LEMMA BytesFinite ==
    ASSUME NEW s \in SUBSET Entry, IsFiniteSet(s)
    PROVE  IsFiniteSet(Bytes(s)) /\ Cardinality(Bytes(s)) \in Nat
<1> DEFINE P == {{e} \X (1 .. ObjectSize(e.obj)) : e \in s}
           f == [e \in s |-> {e} \X (1 .. ObjectSize(e.obj))]
<1>1. f \in Surjection(s, P)
    BY DEF Surjection
<1>2. IsFiniteSet(P)
    BY <1>1, FS_Surjection
<1>3. \A T \in P : IsFiniteSet(T)
    BY BytesOfObject
<1>4. IsFiniteSet(UNION P)
    BY <1>2, <1>3, FS_UNION
<1> QED
    BY <1>4, FS_CardinalityType DEF Bytes

LEMMA BytesAdded ==
    ASSUME NEW s \in SUBSET Entry, IsFiniteSet(s), NEW e \in Entry, e \notin s
    PROVE  Cardinality(Bytes(s \cup {e})) = Cardinality(Bytes(s)) + ObjectSize(e.obj)
<1> DEFINE B == {e} \X (1 .. ObjectSize(e.obj))
<1>1. Bytes(s \cup {e}) = Bytes(s) \cup B
    BY DEF Bytes
<1>2. Bytes(s) \cap B = {}
    BY DEF Bytes
<1>3. IsFiniteSet(B) /\ Cardinality(B) = ObjectSize(e.obj)
    BY BytesOfObject
<1>4. ObjectSize(e.obj) \in Nat
    BY Serialized DEF Entry
<1> HIDE DEF B
<1>5. Cardinality(Bytes(s) \cup B) = Cardinality(Bytes(s)) + Cardinality(B) - Cardinality(Bytes(s) \cap B)
    BY <1>3, BytesFinite, FS_Union
<1>6. Cardinality(Bytes(s) \cap B) = 0
    BY <1>2, FS_EmptySet
<1>7. Cardinality(Bytes(s)) \in Nat
    BY BytesFinite
<1> DEFINE c == Cardinality(Bytes(s))
           n == ObjectSize(e.obj)
<1>8. c \in Nat /\ n \in Nat /\ Cardinality(Bytes(s \cup {e})) = c + n - 0
    BY <1>1, <1>3, <1>4, <1>5, <1>6, <1>7
<1> HIDE DEF c, n
<1>9. Cardinality(Bytes(s \cup {e})) = c + n
    BY <1>8
<1> QED
    BY <1>9 DEF c, n

LEMMA BytesMonotone ==
    ASSUME NEW t \in SUBSET Entry, IsFiniteSet(t), NEW s \in SUBSET t
    PROVE  Cardinality(Bytes(s)) <= Cardinality(Bytes(t))
<1>1. Bytes(s) \subseteq Bytes(t)
    BY DEF Bytes
<1> QED
    BY <1>1, BytesFinite, FS_Subset

LEMMA SizeIsBytes ==
    ASSUME NEW m
    PROVE  get_serialized_size(m) = 2 + Cardinality(Bytes(m.store))
BY Words DEF get_serialized_size, Bytes

-----------------------------------------------------------------------------
(* The order of writing *)

LEMMA ClassWritten ==
    ASSUME NEW c \in RegisteredMessages
    PROVE  /\ c.written \in Seq(1 .. 5) /\ c.ipap \in BOOLEAN
           /\ \A i, j \in DOMAIN c.written : c.written[i] = c.written[j] => i = j
<1> USE DEF INFORMATION_CODE, SELECTION_AUCTIONING_ENTITIES, MESSAGE_HOP_COUNT,
            MSG_SEQUENCE_NUMBER, SESSION_LIFETIME
<1>1. CASE c = anslp_create
    BY <1>1 DEF anslp_create
<1>2. CASE c = anslp_response
    BY <1>2 DEF anslp_response
<1>3. CASE c = anslp_notify
    BY <1>3 DEF anslp_notify
<1>4. CASE c = anslp_refresh
    BY <1>4 DEF anslp_refresh
<1>5. CASE c = anslp_bidding
    BY <1>5 DEF anslp_bidding
<1> QED
    BY <1>1, <1>2, <1>3, <1>4, <1>5 DEF RegisteredMessages

\* The types of the objects that are not IPAP objects, and the number of those.
WrittenTypes(m) == Class(m).written

IpapsOf(m) == IF Class(m).ipap THEN getMaxSequence(m.store, ANSLP_IPAP_MESSAGE) ELSE 0

\* The keys W are those of the L types w and of n IPAP objects.
WriteOrderIs(W, w, L, n) ==
    /\ L \in Nat /\ n \in Nat /\ w \in Seq(1 .. 5) /\ DOMAIN w = 1 .. L
    /\ \A i, j \in 1 .. L : w[i] = w[j] => i = j
    /\ DOMAIN W = 1 .. L + n /\ W \in Seq(Key)
    /\ \A i \in 1 .. L : W[i] = ie_object_key(w[i], 1) /\ w[i] \in 1 .. 5
    /\ \A i \in L + 1 .. L + n : W[i] = ie_object_key(ANSLP_IPAP_MESSAGE, i - L)

\* The two parts of the order: unique objects, then IPAP objects by number.
LEMMA WriteOrderParts ==
    ASSUME NEW m, m.type \in {c.type : c \in RegisteredMessages}, StoreOK(m.store)
    PROVE  WriteOrderIs(WriteOrder(m), WrittenTypes(m), Len(WrittenTypes(m)), IpapsOf(m))
<1>1. PICK c \in RegisteredMessages : m.type = c.type
    OBVIOUS
<1>2. Class(m) = c
    BY <1>1, ClassOfType
<1> DEFINE w == WrittenTypes(m)
           L == Len(w)
           n == IpapsOf(m)
           u == [i \in 1 .. L |-> ie_object_key(w[i], 1)]
           v == [i \in 1 .. n |-> ie_object_key(ANSLP_IPAP_MESSAGE, i)]
<1>3. w \in Seq(1 .. 5) /\ c.ipap \in BOOLEAN /\ \A i, j \in DOMAIN w : w[i] = w[j] => i = j
    BY <1>2, ClassWritten DEF WrittenTypes
<1>4. L \in Nat /\ DOMAIN w = 1 .. L /\ n \in Nat
  <2>1. n \in Nat
    BY DEF StoreOK, IpapsOf
  <2> HIDE DEF w
  <2> QED BY <1>3, <2>1
<1>5. WriteOrder(m) = u \o v
  <2>1. CASE Class(m).ipap
    BY <2>1 DEF WriteOrder, WrittenTypes, IpapsOf
  <2>2. CASE ~ Class(m).ipap
    <3>1. n = 0
      BY <2>2 DEF IpapsOf
    <3>2. v = <<>>
      BY <3>1
    <3>3. WriteOrder(m) = u \o <<>>
      BY <2>2 DEF WriteOrder, WrittenTypes
    <3> QED BY <3>2, <3>3
  <2> QED BY <2>1, <2>2
<1> HIDE DEF w, L, n
<1>6. \A i \in 1 .. L : w[i] \in 1 .. 5
    BY <1>3, <1>4
<1>7. u \in [1 .. L -> Key]
    BY <1>6 DEF ie_object_key, Key, RegisteredObjects, INFORMATION_CODE, ANSLP_IPAP_MESSAGE
<1>8. v \in [1 .. n -> Key]
    BY <1>4 DEF ie_object_key, Key, RegisteredObjects, INFORMATION_CODE, ANSLP_IPAP_MESSAGE
<1>9. /\ \A i \in 1 .. L : u[i] = ie_object_key(w[i], 1)
      /\ \A i \in 1 .. n : v[i] = ie_object_key(ANSLP_IPAP_MESSAGE, i)
    OBVIOUS
<1> HIDE DEF u, v
<1>10. u \in Seq(Key) /\ Len(u) = L /\ v \in Seq(Key) /\ Len(v) = n
    BY <1>4, <1>7, <1>8
<1>11. u \o v \in Seq(Key) /\ DOMAIN (u \o v) = 1 .. L + n
    BY <1>4, <1>10
<1>12. \A i \in 1 .. L : (u \o v)[i] = u[i]
    BY <1>4, <1>10
<1>13. \A i \in L + 1 .. L + n : (u \o v)[i] = v[i - L] /\ i - L \in 1 .. n
    BY <1>4, <1>10
<1>16. \A i \in 1 .. L : WriteOrder(m)[i] = ie_object_key(w[i], 1) /\ w[i] \in 1 .. 5
    BY <1>5, <1>6, <1>9, <1>12
<1>17. \A i \in L + 1 .. L + n : WriteOrder(m)[i] = ie_object_key(ANSLP_IPAP_MESSAGE, i - L)
    BY <1>5, <1>9, <1>13
<1>18. \A i, j \in 1 .. L : w[i] = w[j] => i = j
    BY <1>3, <1>4
<1>19. DOMAIN WriteOrder(m) = 1 .. L + n /\ WriteOrder(m) \in Seq(Key)
    BY <1>5, <1>11
<1>20. WriteOrderIs(WriteOrder(m), w, L, n)
    BY <1>3, <1>4, <1>16, <1>17, <1>18, <1>19 DEF WriteOrderIs
<1> QED
    BY <1>20 DEF w, L, n

\* serialize looks up every object it may have to write once, an IPAP object
\* after those with lower numbers.
LEMMA WriteOrderLists ==
    ASSUME NEW m, m.type \in {c.type : c \in RegisteredMessages}, StoreOK(m.store)
    PROVE  /\ WriteOrder(m) \in Seq(Key)
           /\ \A i \in DOMAIN WriteOrder(m) :
                /\ MadeKey(WriteOrder(m)[i])
                /\ \A j \in DOMAIN WriteOrder(m) : WriteOrder(m)[i] = WriteOrder(m)[j] => i = j
                /\ WriteOrder(m)[i].type = ANSLP_IPAP_MESSAGE =>
                     /\ get(m.store, WriteOrder(m)[i]) # {}
                     /\ \A q \in 1 .. WriteOrder(m)[i].seq - 1 : \E j \in 1 .. i - 1 :
                          WriteOrder(m)[j] = ie_object_key(ANSLP_IPAP_MESSAGE, q)
           /\ \A e \in m.store : e.obj.type \in Writable(m) =>
                \E i \in DOMAIN WriteOrder(m) : WriteOrder(m)[i] = e.key
<1> DEFINE W == WriteOrder(m)
           s == m.store
           w == WrittenTypes(m)
           L == Len(w)
           n == IpapsOf(m)
<1>1. /\ L \in Nat /\ n \in Nat /\ w \in Seq(1 .. 5) /\ DOMAIN w = 1 .. L
      /\ \A i, j \in 1 .. L : w[i] = w[j] => i = j
      /\ DOMAIN W = 1 .. L + n /\ W \in Seq(Key)
      /\ \A i \in 1 .. L : W[i] = ie_object_key(w[i], 1) /\ w[i] \in 1 .. 5
      /\ \A i \in L + 1 .. L + n : W[i] = ie_object_key(ANSLP_IPAP_MESSAGE, i - L)
    BY WriteOrderParts DEF WriteOrderIs
<1> HIDE DEF W, s, w, L, n
<1>2. \A i \in 1 .. L + n : i \in 1 .. L \/ i \in L + 1 .. L + n
    BY <1>1
<1>3. ASSUME NEW i \in 1 .. L
      PROVE  MadeKey(W[i]) /\ W[i].type = w[i] /\ W[i].type # ANSLP_IPAP_MESSAGE
  <2>1. W[i] = ie_object_key(w[i], 1) /\ w[i] \in 1 .. 5
    BY <1>1
  <2>2. w[i] \in RegisteredObjects /\ w[i] # ANSLP_IPAP_MESSAGE
    BY <2>1 DEF RegisteredObjects, INFORMATION_CODE, ANSLP_IPAP_MESSAGE
  <2>3. MadeKey(W[i])
    BY <2>1, <2>2, KeyIsMade
  <2> QED BY <2>1, <2>2, <2>3 DEF ie_object_key
<1>4. ASSUME NEW i \in L + 1 .. L + n
      PROVE  MadeKey(W[i]) /\ W[i].type = ANSLP_IPAP_MESSAGE /\ W[i].seq = i - L
  <2>1. i - L \in Nat \ {0} /\ W[i] = ie_object_key(ANSLP_IPAP_MESSAGE, i - L)
    BY <1>1
  <2>2. MadeKey(W[i])
    BY <2>1, KeyIsMade
  <2> QED BY <2>1, <2>2 DEF ie_object_key
<1>5. ASSUME NEW i \in DOMAIN W, NEW j \in DOMAIN W, W[i] = W[j] PROVE i = j
  <2>1. CASE i \in 1 .. L
    <3>1. j \in 1 .. L
      <4>1. j \in L + 1 .. L + n => W[j].type = ANSLP_IPAP_MESSAGE
        BY <1>4
      <4>2. W[i].type # ANSLP_IPAP_MESSAGE
        BY <1>3, <2>1
      <4>3. j \in 1 .. L \/ j \in L + 1 .. L + n
        BY <1>1, <1>2
      <4> QED BY <1>5, <4>1, <4>2, <4>3
    <3>2. w[i] = w[j]
      BY <1>3, <1>5, <2>1, <3>1
    <3> QED BY <1>1, <2>1, <3>1, <3>2
  <2>2. CASE i \in L + 1 .. L + n
    <3>1. j \in L + 1 .. L + n
      <4>1. j \in 1 .. L => W[j].type # ANSLP_IPAP_MESSAGE
        BY <1>3
      <4>2. W[i].type = ANSLP_IPAP_MESSAGE
        BY <1>4, <2>2
      <4>3. j \in 1 .. L \/ j \in L + 1 .. L + n
        BY <1>1, <1>2
      <4> QED BY <1>5, <4>1, <4>2, <4>3
    <3>2. i - L = j - L
      BY <1>4, <1>5, <2>2, <3>1
    <3> QED BY <1>1, <2>2, <3>1, <3>2
  <2> QED BY <1>1, <1>2, <2>1, <2>2
<1>6. ASSUME NEW i \in DOMAIN W, W[i].type = ANSLP_IPAP_MESSAGE
      PROVE  /\ get(s, W[i]) # {}
             /\ \A q \in 1 .. W[i].seq - 1 : \E j \in 1 .. i - 1 :
                  W[j] = ie_object_key(ANSLP_IPAP_MESSAGE, q)
  <2>1. i \in L + 1 .. L + n /\ W[i].seq = i - L
    BY <1>1, <1>2, <1>3, <1>4, <1>6
  <2>2. i - L \in 1 .. getMaxSequence(s, ANSLP_IPAP_MESSAGE)
    <3>1. i - L \in 1 .. n /\ n # 0
      BY <1>1, <2>1
    <3>2. n = getMaxSequence(s, ANSLP_IPAP_MESSAGE)
      BY <3>1 DEF n, IpapsOf, s
    <3> QED BY <3>1, <3>2
  <2>3. i - L \in IpapNumbers(s)
    BY <2>2 DEF StoreOK, s
  <2>4. PICK e \in s : e.key.type = ANSLP_IPAP_MESSAGE /\ e.key.seq = i - L
    BY <2>3 DEF IpapNumbers
  <2>5. e.key = ie_object_key(ANSLP_IPAP_MESSAGE, i - L) /\ MadeKey(e.key)
    BY <2>4 DEF StoreOK, s, MadeKey, Key, ie_object_key
  <2>6. get(s, W[i]) # {}
    BY <1>1, <2>1, <2>5, GetFinds DEF s
  <2>7. ASSUME NEW q \in 1 .. W[i].seq - 1
        PROVE  \E j \in 1 .. i - 1 : W[j] = ie_object_key(ANSLP_IPAP_MESSAGE, q)
    <3>1. q + L \in 1 .. i - 1 /\ q + L \in L + 1 .. L + n /\ (q + L) - L = q
      <4>1. q \in 1 .. (i - L) - 1 /\ i \in L + 1 .. L + n /\ L \in Nat /\ n \in Nat
        BY <1>1, <2>1
      <4> QED BY <4>1
    <3> QED BY <1>1, <3>1
  <2> QED BY <2>6, <2>7
<1>7. ASSUME NEW e \in s, e.obj.type \in Writable(m)
      PROVE  \E i \in DOMAIN W : W[i] = e.key
  <2>1. MadeKey(e.key) /\ e.key.type = e.obj.type /\ e.key = ie_object_key(e.key.type, e.key.seq)
    BY DEF StoreOK, Entry, Key, MadeKey, ie_object_key, s
  <2>2. CASE e.key.type # ANSLP_IPAP_MESSAGE
    <3>1. e.key.type \in Range(w)
      BY <1>7, <2>1, <2>2 DEF Writable, w, WrittenTypes
    <3>2. PICK i \in 1 .. L : w[i] = e.key.type
      <4>1. DOMAIN w = 1 .. L
        BY <1>1
      <4> QED BY <3>1, <4>1 DEF Range
    <3>3. e.key.seq = 1
      BY <2>1, <2>2 DEF MadeKey
    <3>4. W[i] = e.key
      BY <1>1, <2>1, <3>2, <3>3
    <3>5. i \in DOMAIN W
      BY <1>1
    <3> QED BY <3>4, <3>5
  <2>3. CASE e.key.type = ANSLP_IPAP_MESSAGE
    <3>1. Class(m).ipap
      <4>1. ANSLP_IPAP_MESSAGE \notin Range(w)
        <5>1. \A i \in DOMAIN w : w[i] \in 1 .. 5
          BY <1>1
        <5> QED BY <5>1 DEF Range, ANSLP_IPAP_MESSAGE
      <4> QED BY <1>7, <2>1, <2>3, <4>1 DEF Writable, w, WrittenTypes
    <3>2. e.key.seq \in 1 .. n
      <4>1. e.key.seq \in IpapNumbers(s)
        BY <2>3 DEF IpapNumbers
      <4>2. n = getMaxSequence(s, ANSLP_IPAP_MESSAGE)
        BY <3>1 DEF n, IpapsOf, s
      <4> QED BY <4>1, <4>2 DEF StoreOK, s
    <3>3. L + e.key.seq \in L + 1 .. L + n /\ L + e.key.seq \in DOMAIN W /\ (L + e.key.seq) - L = e.key.seq
      BY <1>1, <3>2
    <3>4. W[L + e.key.seq] = e.key
      BY <1>1, <2>1, <2>3, <3>3
    <3> QED BY <3>3, <3>4
  <2> QED BY <2>2, <2>3
<1>8. \A i \in DOMAIN W : MadeKey(W[i])
    BY <1>1, <1>2, <1>3, <1>4
<1>9. W \in Seq(Key)
    BY <1>1
<1> QED
    BY <1>5, <1>6, <1>7, <1>8, <1>9 DEF W, s

-----------------------------------------------------------------------------
(* Types *)

LEMMA SequenceOfMore ==
    ASSUME NEW S, NEW T, S \subseteq T, NEW s \in Seq(S)
    PROVE  s \in Seq(T)
<1>1. Len(s) \in Nat /\ s = [i \in 1 .. Len(s) |-> s[i]] /\ \A i \in 1 .. Len(s) : s[i] \in S
    OBVIOUS
<1> DEFINE n == Len(s)
<1>2. s \in [1 .. n -> T] /\ n \in Nat
    BY <1>1
<1> HIDE DEF n
<1> QED
    BY <1>2

LEMMA OneMore ==
    ASSUME NEW S, NEW s \in Seq(S), NEW e \in S
    PROVE  Append(s, e) \in Seq(S)
OBVIOUS

LEMMA SentGrows ==
    ASSUME NEW a \in Nat, NEW b \in Nat, a <= b,
           NEW s \in Seq([key : Key, obj : Object, at : 0 .. a])
    PROVE  s \in Seq([key : Key, obj : Object, at : 0 .. b])
<1>1. [key : Key, obj : Object, at : 0 .. a] \subseteq [key : Key, obj : Object, at : 0 .. b]
    OBVIOUS
<1> QED
    BY <1>1, SequenceOfMore

LEMMA StoreOKType ==
    ASSUME NEW m \in Message, NEW s, StoreOK(s)
    PROVE  [m EXCEPT !.store = s] \in Message
BY DEF Message, StoreOK

\* Serialized bytes added to the payload.
LEMMA BufferGrows ==
    ASSUME NEW b \in Seq(Nat), NEW s \in Seq(Nat)
    PROVE  b \o s \in Seq(Nat) /\ Len(b \o s) = Len(b) + Len(s) /\ Len(b) <= Len(b \o s)
<1>1. b \o s \in Seq(Nat) /\ Len(b \o s) = Len(b) + Len(s)
    BY Concat
<1> QED
    BY <1>1

LEMMA ZerosType ==
    ASSUME NEW n \in Int
    PROVE  Zeros(n) \in Seq(Nat) /\ (n <= 0 => Zeros(n) = <<>>)
<1>1. CASE n \in Nat
    BY <1>1 DEF Zeros
<1>2. CASE n \notin Nat
  <2>1. 1 .. n = 1 .. 0
    BY <1>2
  <2>2. Zeros(n) = <<>>
    BY <2>1 DEF Zeros
  <2> QED BY <2>2
<1> QED
    BY <1>1, <1>2

LEMMA SetObjectType ==
    ASSUME TypeOK, Composition, ToBeSet, SetObject
    PROVE  /\ Head(todo) \in Object /\ WellFormed(Head(todo)) /\ todo \in Seq(Object)
           /\ is_unique(Head(todo)) => get(outgoing.store, ie_object_key(Head(todo).type, 1)) = {}
           /\ outgoing'.store = set_object(outgoing.store, Head(todo))
           /\ outgoing'.type = outgoing.type
<1>1. phase = "composing" /\ todo # <<>> /\ todo \in Seq(Object) /\ outgoing \in Message
    BY DEF SetObject, TypeOK
<1>2. Head(todo) = todo[1] /\ 1 \in DOMAIN todo
    BY <1>1
<1>3. WellFormed(Head(todo)) /\ Head(todo) \in Object
    BY <1>1, <1>2 DEF ToBeSet, WellFormed
<1>4. ASSUME is_unique(Head(todo)) PROVE get(outgoing.store, ie_object_key(Head(todo).type, 1)) = {}
  <2>1. Head(todo).type \notin Types(outgoing.store)
    BY <1>1, <1>2, <1>4 DEF ToBeSet
  <2>2. MadeKey(ie_object_key(Head(todo).type, 1))
    BY <1>3, KeyIsMade DEF Object
  <2>3. \A e \in outgoing.store : e.key # ie_object_key(Head(todo).type, 1)
    BY <2>1 DEF Types, ie_object_key
  <2> QED BY <2>2, <2>3, GetFinds DEF Composition
<1>5. /\ outgoing'.store = set_object(outgoing.store, Head(todo))
      /\ outgoing'.type = outgoing.type
    BY <1>1 DEF SetObject, Message
<1> QED
    BY <1>1, <1>3, <1>4, <1>5

\* What WriteObject looks up and writes.
LEMMA WriteObjectType ==
    ASSUME TypeOK, phase = "writing", todo # <<>>, NEW o \in get(outgoing.store, Head(todo))
    PROVE  /\ todo \in Seq(Key) /\ Head(todo) \in Key /\ Tail(todo) \in Seq(Key)
           /\ o \in Object /\ serialize(o) \in Seq(Nat)
           /\ buf \o serialize(o) \in Seq(Nat)
           /\ Len(buf \o serialize(o)) = Len(buf) + ObjectSize(o)
           /\ ObjectSize(o) \in Nat /\ Len(buf) \in Nat
<1>1. todo \in Seq(Key)
    BY DEF TypeOK
<1>2. o \in Object
    BY DEF get, TypeOK, Message, Entry
<1>3. serialize(o) \in Seq(Nat) /\ Len(serialize(o)) = ObjectSize(o) /\ ObjectSize(o) \in Nat
    BY <1>2, Serialized
<1>4. buf \in Seq(Nat)
    BY DEF TypeOK
<1>5. Head(todo) \in Key /\ Tail(todo) \in Seq(Key)
    BY <1>1
<1>6. buf \o serialize(o) \in Seq(Nat) /\ Len(buf \o serialize(o)) = Len(buf) + Len(serialize(o))
    BY <1>3, <1>4, BufferGrows
<1>7. Len(buf) \in Nat
    BY <1>4
<1> QED
    BY <1>1, <1>2, <1>3, <1>5, <1>6, <1>7

LEMMA TypeStep == TypeOK /\ ParserInv /\ EncoderInv /\ [Next]_vars => TypeOK'
<1> SUFFICES ASSUME TypeOK, ParserInv, EncoderInv, [Next]_vars PROVE TypeOK'
    OBVIOUS
<1> USE DEF Phases, parser, encoder
<1>1. CASE Compose
  <2>1. PICK m \in Composed : outgoing' = [type |-> m.type, store |-> {}] /\ todo' = m.objects
    BY <1>1 DEF Compose
  <2>2. m.type \in {c.type : c \in RegisteredMessages} /\ m.objects \in Seq(Object)
    BY ComposedSettable DEF Settable
  <2>3. outgoing' \in Message
    BY <2>1, <2>2 DEF Message
  <2> QED BY <1>1, <2>1, <2>2, <2>3 DEF Compose, TypeOK
<1>2. CASE SetObject
  <2>1. outgoing' \in Message /\ todo' \in Seq(Object)
    <3>1. StoreOK(set_object(outgoing.store, Head(todo)))
      BY <1>2, SetObjectType, SetObjectAdds DEF EncoderInv, Composition
    <3>2. todo' \in Seq(Object)
      BY <1>2, SetObjectType DEF SetObject, EncoderInv
    <3> QED BY <1>2, <3>1, <3>2, StoreOKType DEF SetObject, TypeOK
  <2> QED BY <1>2, <2>1 DEF SetObject, TypeOK
<1>3. CASE BeginSerialize
  <2>1. pos = 0 /\ bytes_read = 0 /\ sent = <<>> /\ phase = "composing"
    BY <1>3 DEF BeginSerialize, ParserInv, ParserIdle, EncoderInv, Composition
  <2>2. outgoing.type \in {c.type : c \in RegisteredMessages} /\ outgoing.type \in Nat
    BY <2>1, MessageTypes DEF EncoderInv, Composition, TypeOK, Message, NoMessage, RegisteredMessages
  <2>3. todo' \in Seq(Key)
    BY <1>3, <2>2, WriteOrderLists DEF BeginSerialize, EncoderInv, Composition
  <2>4. size' \in Nat
    <3>1. Cardinality(Bytes(outgoing.store)) \in Nat
      BY BytesFinite DEF EncoderInv, Composition, StoreOK
    <3> QED BY <1>3, <3>1, SizeIsBytes DEF BeginSerialize
  <2>5. buf' \in Seq(Nat) /\ Len(buf') = 2
    BY <1>3, <2>2 DEF BeginSerialize
  <2>6. sent' \in Seq([key : Key, obj : Object, at : 0 .. Len(buf')])
    BY <1>3, <2>1 DEF BeginSerialize
  <2> QED BY <1>3, <2>1, <2>3, <2>4, <2>5, <2>6 DEF BeginSerialize, TypeOK
<1>4. CASE CheckFails
  <2>1. todo' = <<>> /\ phase' = "assert failed"
    BY <1>4 DEF CheckFails
  <2>2. todo' \in Seq(Key)
    <3>1. <<>> \in Seq(Key)
      OBVIOUS
    <3> QED BY <2>1, <3>1
  <2>3. phase' \in Phases /\ phase' # "composing" /\ UNCHANGED <<buf, encoder, parser>>
    BY <1>4 DEF CheckFails
  <2> QED BY <2>2, <2>3 DEF TypeOK
<1>5. CASE WriteObject
  <2>1. PICK o \in get(outgoing.store, Head(todo)) :
          IF Len(buf) + ObjectSize(o) > size
          THEN /\ phase' = "assert failed"
               /\ UNCHANGED <<buf, todo, sent>>
          ELSE /\ buf' = buf \o serialize(o)
               /\ todo' = Tail(todo)
               /\ sent' = Append(sent, [key |-> Head(todo), obj |-> o, at |-> Len(buf)])
               /\ UNCHANGED phase
    BY <1>5 DEF WriteObject
  <2>2. /\ phase = "writing" /\ todo # <<>> /\ UNCHANGED <<outgoing, size, parser>>
        /\ pos = 0 /\ bytes_read = 0
    BY <1>5 DEF WriteObject, ParserInv, ParserIdle
  <2>3. CASE Len(buf) + ObjectSize(o) > size
    BY <2>1, <2>2, <2>3 DEF TypeOK
  <2>4. CASE ~ Len(buf) + ObjectSize(o) > size
    <3>1. /\ Head(todo) \in Key /\ Tail(todo) \in Seq(Key) /\ o \in Object
          /\ buf' \in Seq(Nat) /\ Len(buf') = Len(buf) + ObjectSize(o)
          /\ ObjectSize(o) \in Nat /\ Len(buf) \in Nat
      BY <2>1, <2>2, <2>4, WriteObjectType
    <3>2. Len(buf) <= Len(buf') /\ Len(buf') \in Nat
      BY <3>1
    <3>3. sent \in Seq([key : Key, obj : Object, at : 0 .. Len(buf')])
      BY <3>1, <3>2, SentGrows DEF TypeOK
    <3>4. [key |-> Head(todo), obj |-> o, at |-> Len(buf)] \in [key : Key, obj : Object, at : 0 .. Len(buf')]
      BY <3>1, <3>2
    <3>5. sent' \in Seq([key : Key, obj : Object, at : 0 .. Len(buf')])
      BY <2>1, <2>4, <3>3, <3>4, OneMore
    <3>6. todo' = Tail(todo) /\ phase' = "writing"
      BY <2>1, <2>2, <2>4
    <3>7. pos' \in 0 .. Len(buf') /\ bytes_read' \in 0 .. Len(buf')
      BY <2>2, <3>2
    <3>8. outgoing' \in Message /\ incoming' \in Message /\ size' \in Nat /\ errlist' \in BOOLEAN
      BY <2>2 DEF TypeOK
    <3>9. parsed' \in Seq(Object)
      BY <2>2 DEF TypeOK
    <3> QED BY <3>1, <3>5, <3>6, <3>7, <3>8, <3>9 DEF TypeOK
  <2> QED BY <2>3, <2>4
<1>6. CASE RunOffTheEnd
    BY <1>6 DEF RunOffTheEnd, MissesObject, TypeOK
<1>7. CASE WriteNothing
    BY <1>7 DEF WriteNothing, MissesObject, TypeOK
<1>8. CASE Transmit
  <2>1. pos = 0 /\ bytes_read = 0 /\ buf \in Seq(Nat) /\ size - Len(buf) \in Int
    BY <1>8 DEF Transmit, ParserInv, ParserIdle, TypeOK
  <2>2. buf' \in Seq(Nat) /\ Len(buf) <= Len(buf') /\ Len(buf) \in Nat /\ Len(buf') \in Nat
    <3>1. Zeros(size - Len(buf)) \in Seq(Nat) /\ buf' = buf \o Zeros(size - Len(buf))
      BY <1>8, <2>1, ZerosType DEF Transmit
    <3>2. buf' \in Seq(Nat) /\ Len(buf) <= Len(buf')
      BY <2>1, <3>1, BufferGrows
    <3> QED BY <2>1, <3>2
  <2>3. sent' \in Seq([key : Key, obj : Object, at : 0 .. Len(buf')])
    BY <1>8, <2>2, SentGrows DEF Transmit, TypeOK
  <2> QED BY <1>8, <2>1, <2>2, <2>3 DEF Transmit, TypeOK
<1>9. CASE ReceiveForeign
  <2>1. pos = 0 /\ bytes_read = 0 /\ sent = <<>>
    BY <1>9 DEF ReceiveForeign, ParserInv, ParserIdle, EncoderInv, Composition
  <2>2. buf' \in Seq(Nat)
    BY <1>9, ForeignAssumption DEF ReceiveForeign
  <2>3. sent' \in Seq([key : Key, obj : Object, at : 0 .. Len(buf')])
    BY <1>9, <2>1 DEF ReceiveForeign
  <2> QED BY <1>9, <2>1, <2>2, <2>3 DEF ReceiveForeign, TypeOK
<1>10. CASE deserialize_msg
  <2>1. CASE Reject(TRUE)
    BY <1>10, <2>1 DEF Reject, deserialize_msg, TypeOK
  <2>2. CASE ~ Reject(TRUE)
    <3>1. /\ Len(buf) >= HEADER_LENGTH /\ \E c \in RegisteredMessages : c.type = buf[1]
          /\ phase = "received" /\ phase' = "objects"
          /\ incoming' = [type |-> buf[1], store |-> {}]
          /\ pos' = HEADER_LENGTH /\ bytes_read' = HEADER_LENGTH
          /\ UNCHANGED <<buf, encoder, errlist, parsed>>
      <4>1. ~ (Len(buf) < HEADER_LENGTH)
        BY <1>10, <2>2 DEF deserialize_msg
      <4>2. Len(buf) >= HEADER_LENGTH
        <5>1. buf \in Seq(Nat)
          BY DEF TypeOK
        <5> QED BY <4>1, <5>1, Words
      <4> QED BY <1>10, <2>2, <4>2 DEF deserialize_msg
    <3>2. incoming' \in Message
      BY <3>1 DEF Message
    <3>3. pos' \in 0 .. Len(buf) /\ bytes_read' \in 0 .. Len(buf)
      BY <3>1, Words DEF TypeOK
    <3> QED BY <3>1, <3>2, <3>3 DEF TypeOK
  <2> QED BY <2>1, <2>2
<1>11. CASE ReadObject
  <2> DEFINE o == deserialize_object.obj
             p == deserialize_object.pos
  <2>1. /\ buf \in Seq(Nat) /\ pos \in 0 .. Len(buf) /\ bytes_left > 0
        /\ deserialize_object.outcome = "ok" /\ phase = "objects"
    BY <1>11 DEF TypeOK, ReadObject
  <2>2. o \in Object /\ p \in pos + 1 .. Len(buf)
    BY <2>1, ObjectRead
  <2>3. CASE Reject(TRUE)
    BY <2>1, <2>3 DEF Reject, TypeOK
  <2>4. CASE ~ Reject(TRUE)
    <3>1. /\ ~ (is_unique(o) /\ get(incoming.store, ie_object_key(o.type, 1)) # {})
          /\ incoming' = [incoming EXCEPT !.store = set_object(@, o)]
          /\ bytes_read' = bytes_read + (p - pos)
          /\ pos' = p
          /\ parsed' = Append(parsed, o)
          /\ UNCHANGED <<phase, buf, encoder, errlist>>
      BY <1>11, <2>4 DEF ReadObject
    <3> HIDE DEF o, p
    <3>2. StoreOK(set_object(incoming.store, o))
      BY <2>2, <3>1, SetObjectAdds DEF ParserInv
    <3>3. incoming' \in Message
      BY <3>1, <3>2, StoreOKType DEF TypeOK
    <3>4. pos' \in 0 .. Len(buf) /\ bytes_read' \in 0 .. Len(buf)
      BY <2>1, <2>2, <3>1 DEF ParserInv
    <3>5. parsed' \in Seq(Object)
      <4>1. parsed \in Seq(Object)
        BY DEF TypeOK
      <4> QED BY <2>2, <3>1, <4>1, OneMore
    <3> QED BY <2>1, <3>1, <3>3, <3>4, <3>5 DEF TypeOK
  <2> QED BY <2>3, <2>4
<1>12. CASE RejectObject
  <2>1. errlist' \in BOOLEAN
    BY <1>12 DEF RejectObject, Reject
  <2> QED BY <1>12, <2>1 DEF RejectObject, Reject, TypeOK
<1>13. CASE ObjectThrows
    BY <1>13 DEF ObjectThrows, TypeOK
<1>14. CASE EndMessage
    BY <1>14 DEF EndMessage, Reject, TypeOK
<1>15. CASE UNCHANGED vars
    BY <1>15 DEF vars, TypeOK
<1> QED
    BY <1>1, <1>2, <1>3, <1>4, <1>5, <1>6, <1>7, <1>8, <1>9, <1>10, <1>11, <1>12, <1>13,
       <1>14, <1>15 DEF Next, Parse

-----------------------------------------------------------------------------
(* The message composed *)

LEMMA EncoderUntouched ==
    ASSUME EncoderInv, UNCHANGED <<buf, encoder>>,
           \/ phase' = phase
           \/ phase' \in {"undefined", "assert failed"}
           \/ /\ phase \in {"received", "objects", "accepted", "rejected", "thrown"}
              /\ phase' \in {"objects", "accepted", "rejected", "thrown"}
    PROVE  EncoderInv'
<1> USE DEF encoder
<1>1. Composition'
    BY DEF EncoderInv, Composition
<1>2. ToBeSet'
    BY DEF EncoderInv, ToBeSet
<1>3. SentInBuffer'
    BY DEF EncoderInv, SentInBuffer
<1>4. ToBeWritten'
    BY DEF EncoderInv, ToBeWritten
<1>5. PayloadComplete'
    BY DEF EncoderInv, PayloadComplete
<1> QED
    BY <1>1, <1>2, <1>3, <1>4, <1>5 DEF EncoderInv

LEMMA NothingSent == sent = <<>> => EntriesOf(sent) = {} /\ SentInBuffer
BY DEF EntriesOf, SentInBuffer

LEMMA NothingSentNext == sent' = <<>> => EntriesOf(sent') = {} /\ SentInBuffer'
BY DEF EntriesOf, SentInBuffer

LEMMA WritableOfType ==
    ASSUME NEW m, NEW x, m.type = x.type
    PROVE  Writable(m) = Writable(x)
BY DEF Writable, Class

LEMMA ComposeStep ==
    ASSUME TypeOK, EncoderInv, Compose
    PROVE  EncoderInv'
<1>1. PICK m \in Composed : outgoing' = [type |-> m.type, store |-> {}] /\ todo' = m.objects
    BY DEF Compose
<1>2. outgoing'.type = m.type /\ outgoing'.store = {}
    BY <1>1
<1>3. m.type \in {c.type : c \in RegisteredMessages} /\ Settable(m.objects, Writable(outgoing'))
    BY <1>2, ComposedSettable
<1>4. m.type # 0
    BY <1>3, MessageTypes DEF RegisteredMessages
<1>5. phase' = "composing" /\ sent' = <<>>
    BY DEF Compose, EncoderInv, Composition
<1>6. outgoing' # NoMessage
    BY <1>2, <1>4 DEF NoMessage
<1>7. Composition'
    BY <1>2, <1>4, <1>5, <1>6, EmptyStore DEF Composition
<1>8. ToBeSet'
  <2>1. Types(outgoing'.store) = {}
    BY <1>2 DEF Types
  <2> QED BY <1>1, <1>3, <1>5, <2>1 DEF ToBeSet, Settable
<1>9. SentInBuffer'
    BY <1>5, NothingSentNext
<1> QED
    BY <1>5, <1>7, <1>8, <1>9 DEF EncoderInv, ToBeWritten, PayloadComplete

LEMMA SetObjectStep ==
    ASSUME TypeOK, EncoderInv, SetObject
    PROVE  EncoderInv'
<1> DEFINE o == Head(todo)
           s == outgoing.store
           t == outgoing'.store
<1>1. /\ o \in Object /\ WellFormed(o) /\ todo \in Seq(Object) /\ StoreOK(s)
      /\ is_unique(o) => get(s, ie_object_key(o.type, 1)) = {}
      /\ t = set_object(s, o) /\ outgoing'.type = outgoing.type
    BY SetObjectType DEF EncoderInv, Composition
<1>2. /\ phase = "composing" /\ phase' = "composing" /\ sent' = <<>> /\ todo # <<>>
      /\ todo' = Tail(todo) /\ outgoing.type # 0
    BY DEF SetObject, EncoderInv, Composition
<1>3. StoreOK(t) /\ t = s \cup {NewEntry(s, o)}
    BY <1>1, SetObjectAdds
<1>4. NewEntry(s, o).key.type = o.type /\ NewEntry(s, o).obj = o
    BY DEF NewEntry, NewKey, ie_object_key
<1>5. Writable(outgoing') = Writable(outgoing)
    BY <1>1, WritableOfType
<1>6. o = todo[1] /\ 1 \in DOMAIN todo
    BY <1>1, <1>2
<1>7. o.type \in Writable(outgoing)
    BY <1>2, <1>6 DEF EncoderInv, ToBeSet
<1>8. Composition'
  <2>1. outgoing' # NoMessage /\ outgoing'.type # 0
    BY <1>1, <1>2 DEF NoMessage
  <2>2. \A e \in t : WellFormed(e.obj) /\ e.obj.type \in Writable(outgoing')
    BY <1>1, <1>3, <1>4, <1>5, <1>7 DEF EncoderInv, Composition
  <2> QED BY <1>2, <1>3, <2>1, <2>2 DEF Composition
<1>9. ToBeSet'
  <2>1. t # {}
    BY <1>3
  <2>2. \A i \in DOMAIN todo' : i \in Nat /\ i + 1 \in DOMAIN todo /\ todo'[i] = todo[i + 1]
    BY <1>1, <1>2
  <2>3. Types(t) = Types(s) \cup {o.type}
    BY <1>3, <1>4 DEF Types
  <2>4. ASSUME NEW i \in DOMAIN todo' 
        PROVE  /\ WellFormed(todo'[i]) /\ todo'[i].type \in Writable(outgoing')
               /\ is_unique(todo'[i]) =>
                     /\ todo'[i].type \notin Types(t)
                     /\ \A j \in DOMAIN todo' : todo'[j].type = todo'[i].type => i = j
    <3>1. i \in Nat /\ i + 1 \in DOMAIN todo /\ todo'[i] = todo[i + 1] /\ i + 1 # 1
      <4>1. i # 0
        BY <1>1, <1>2
      <4> QED BY <2>2, <4>1
    <3>2. WellFormed(todo'[i]) /\ todo'[i].type \in Writable(outgoing')
      BY <1>2, <1>5, <3>1 DEF EncoderInv, ToBeSet
    <3>3. ASSUME is_unique(todo'[i])
          PROVE  /\ todo'[i].type \notin Types(t)
                 /\ \A j \in DOMAIN todo' : todo'[j].type = todo'[i].type => i = j
      <4>1. /\ todo[i + 1].type \notin Types(s)
            /\ \A j \in DOMAIN todo : todo[j].type = todo[i + 1].type => i + 1 = j
        BY <1>2, <3>1, <3>3 DEF EncoderInv, ToBeSet
      <4>2. o.type # todo'[i].type
        BY <1>6, <3>1, <4>1
      <4>3. ASSUME NEW j \in DOMAIN todo', todo'[j].type = todo'[i].type PROVE i = j
        <5>1. j \in Nat /\ i + 1 = j + 1
          BY <2>2, <3>1, <4>1, <4>3
        <5> QED BY <3>1, <5>1
      <4> QED BY <2>3, <3>1, <4>1, <4>2, <4>3
    <3> QED BY <3>2, <3>3
  <2> QED BY <2>1, <2>4 DEF ToBeSet
<1>10. SentInBuffer'
    BY <1>2, NothingSentNext
<1> QED
    BY <1>2, <1>8, <1>9, <1>10 DEF EncoderInv, ToBeWritten, PayloadComplete

LEMMA EmptyBytes == Bytes({}) = {} /\ Cardinality(Bytes({})) = 0
BY FS_EmptySet DEF Bytes

LEMMA BeginSerializeStep ==
    ASSUME TypeOK, EncoderInv, BeginSerialize
    PROVE  EncoderInv'
<1>1. /\ phase = "composing" /\ todo = <<>> /\ phase' = "writing" /\ sent' = <<>>
      /\ size' = get_serialized_size(outgoing) /\ buf' = <<outgoing.type, 0>>
      /\ todo' = WriteOrder(outgoing) /\ outgoing' = outgoing
    BY DEF BeginSerialize, EncoderInv, Composition
<1>2. outgoing.store # {} /\ outgoing # NoMessage /\ outgoing.type # 0
    BY <1>1 DEF EncoderInv, ToBeSet, Composition
<1>3. outgoing.type \in {c.type : c \in RegisteredMessages} /\ StoreOK(outgoing.store)
    BY <1>2 DEF TypeOK, Message, EncoderInv, Composition
<1>4. Composition'
    BY <1>1, <1>2 DEF EncoderInv, Composition
<1>5. SentInBuffer' /\ EntriesOf(sent') = {}
    BY <1>1, NothingSentNext
<1>6. ToBeWritten'
  <2>1. buf'[1] = outgoing.type /\ Len(buf') = 2
    BY <1>1
  <2>2. Len(buf') = EndOf(sent', Len(sent'))
    BY <1>1, <2>1, Words DEF EndOf
  <2>3. Len(buf') = HEADER_LENGTH + Cardinality(Bytes(EntriesOf(sent')))
    BY <1>5, <2>1, EmptyBytes, Words
  <2>4. \A e \in outgoing.store : \E i \in DOMAIN todo' : todo'[i] = e.key
    BY <1>1, <1>3, WriteOrderLists DEF EncoderInv, Composition
  <2>5. ASSUME NEW i \in DOMAIN todo' PROVE Pending(todo', sent', outgoing'.store, i)
    <3>1. DOMAIN sent' = {}
      BY <1>1
    <3> DEFINE w == WriteOrder(outgoing)
    <3>2. \A k \in DOMAIN w :
            /\ MadeKey(w[k])
            /\ \A j \in DOMAIN w : w[k] = w[j] => k = j
            /\ w[k].type = ANSLP_IPAP_MESSAGE =>
                 /\ get(outgoing.store, w[k]) # {}
                 /\ \A q \in 1 .. w[k].seq - 1 : \E j \in 1 .. k - 1 :
                      w[j] = ie_object_key(ANSLP_IPAP_MESSAGE, q)
      BY <1>3, WriteOrderLists
    <3>3. todo' = w /\ outgoing' = outgoing
      BY <1>1
    <3> HIDE DEF w
    <3>4. MadeKey(todo'[i]) /\ \A j \in DOMAIN todo' : todo'[i] = todo'[j] => i = j
      BY <3>2, <3>3
    <3>5. ASSUME todo'[i].type = ANSLP_IPAP_MESSAGE
          PROVE  /\ get(outgoing'.store, todo'[i]) # {}
                 /\ \A q \in 1 .. todo'[i].seq - 1 :
                       \E j \in 1 .. i - 1 : todo'[j] = ie_object_key(ANSLP_IPAP_MESSAGE, q)
      BY <3>2, <3>3, <3>5
    <3> QED BY <3>1, <3>4, <3>5 DEF Pending
  <2>6. get_serialized_size(outgoing)' = size'
    BY <1>1
  <2> QED BY <1>1, <1>2, <2>1, <2>2, <2>3, <2>4, <2>5, <2>6 DEF ToBeWritten, Bytes
<1> QED
    BY <1>1, <1>4, <1>5, <1>6 DEF EncoderInv, ToBeSet, PayloadComplete

-----------------------------------------------------------------------------
(* The objects written *)

LEMMA Appended ==
    ASSUME NEW S, NEW w \in Seq(S), NEW x
    PROVE  /\ Len(Append(w, x)) = Len(w) + 1 /\ Len(w) \in Nat
           /\ DOMAIN w = 1 .. Len(w)
           /\ DOMAIN Append(w, x) = 1 .. Len(w) + 1
           /\ \A i \in DOMAIN w : Append(w, x)[i] = w[i]
           /\ Append(w, x)[Len(w) + 1] = x
OBVIOUS

LEMMA ElementOf ==
    ASSUME NEW S, NEW s \in Seq(S), NEW i \in DOMAIN s
    PROVE  s[i] \in S
OBVIOUS

LEMMA EntriesAppended ==
    ASSUME NEW S, NEW w \in Seq(S), NEW x
    PROVE  EntriesOf(Append(w, x)) = EntriesOf(w) \cup {EntryOf(x)}
<1> DEFINE n == Len(w)
           v == Append(w, x)
<1>1. /\ n \in Nat /\ DOMAIN w = 1 .. n /\ DOMAIN v = 1 .. n + 1
      /\ (\A i \in DOMAIN w : v[i] = w[i]) /\ v[n + 1] = x
    BY Appended
<1> HIDE DEF n, v
<1>2. DOMAIN v = DOMAIN w \cup {n + 1}
    BY <1>1
<1> QED
    BY <1>1, <1>2 DEF EntriesOf, v

LEMMA PlacedAppended ==
    ASSUME NEW b \in Seq(Nat), NEW s \in Seq(Nat), NEW x,
           NEW w \in Seq([key : Key, obj : Object, at : 0 .. Len(b)]),
           NEW i \in DOMAIN w, Placed(w, b, i)
    PROVE  Placed(Append(w, x), b \o s, i)
<1> DEFINE n == Len(w)
           v == Append(w, x)
           c == b \o s
<1>1. /\ n \in Nat /\ DOMAIN w = 1 .. n /\ DOMAIN v = 1 .. n + 1
      /\ \A j \in DOMAIN w : v[j] = w[j]
    BY Appended
<1>2. /\ Len(b) <= Len(c) /\ Len(b) \in Nat /\ Len(c) \in Nat
      /\ \A j \in 1 .. Len(b) : c[j] = b[j]
    BY Concat
<1>3. w[i] \in [key : Key, obj : Object, at : 0 .. Len(b)]
    BY ElementOf
<1> HIDE DEF n, v, c
<1>4. v[i] = w[i] /\ i \in 1 .. n
    BY <1>1
<1>5. EndOf(v, i) = EndOf(w, i) /\ EndOf(v, i - 1) = EndOf(w, i - 1)
  <2>1. i - 1 # 0 => i - 1 \in DOMAIN w
    BY <1>1, <1>4
  <2> QED BY <1>1, <1>4, <2>1 DEF EndOf
<1>6. w[i].at \in Nat /\ ObjectSize(w[i].obj) \in Nat
    BY <1>2, <1>3, Serialized
<1>7. EndOf(w, i) = w[i].at + ObjectSize(w[i].obj)
    BY <1>4 DEF EndOf
<1>8. EndOf(w, i) <= Len(c)
    BY <1>2, <1>6, <1>7 DEF Placed
<1>9. ASSUME NEW j \in 1 .. ObjectSize(w[i].obj)
      PROVE  c[w[i].at + j] = serialize(w[i].obj)[j]
  <2> DEFINE a == w[i].at
             z == ObjectSize(w[i].obj)
  <2>1. EndOf(w, i) <= Len(b) /\ b[a + j] = serialize(w[i].obj)[j]
    BY <1>9 DEF Placed
  <2>2. a \in Nat /\ z \in Nat /\ j \in 1 .. z /\ a + z <= Len(b) /\ Len(b) \in Nat
    BY <1>2, <1>6, <1>7, <2>1
  <2> HIDE DEF a, z
  <2>3. a + j \in 1 .. Len(b)
    BY <2>2
  <2> QED BY <1>2, <2>1, <2>3 DEF a
<1>10. Placed(v, c, i)
    BY <1>4, <1>5, <1>8, <1>9 DEF Placed
<1> QED
    BY <1>10 DEF v, c

LEMMA LastPlaced ==
    ASSUME NEW b \in Seq(Nat), NEW x, x.obj \in Object, x.at = Len(b),
           NEW w \in Seq([key : Key, obj : Object, at : 0 .. Len(b)]),
           Len(b) = EndOf(w, Len(w))
    PROVE  /\ Placed(Append(w, x), b \o serialize(x.obj), Len(w) + 1)
           /\ EndOf(Append(w, x), Len(w) + 1) = Len(b \o serialize(x.obj))
<1> DEFINE n == Len(w)
           v == Append(w, x)
           s == serialize(x.obj)
           c == b \o s
<1>1. /\ n \in Nat /\ DOMAIN w = 1 .. n /\ DOMAIN v = 1 .. n + 1
      /\ (\A j \in DOMAIN w : v[j] = w[j]) /\ v[n + 1] = x
    BY Appended
<1>2. s \in Seq(Nat) /\ Len(s) = ObjectSize(x.obj) /\ ObjectSize(x.obj) \in Nat
    BY Serialized
<1>3. Len(c) = Len(b) + Len(s) /\ Len(b) \in Nat /\ \A j \in 1 .. Len(s) : c[Len(b) + j] = s[j]
  <2>1. s \in Seq(Nat) /\ b \in Seq(Nat)
    BY <1>2
  <2>2. Len(c) = Len(b) + Len(s)
    BY <2>1, Concat
  <2>3. \A j \in 1 .. Len(s) : c[Len(b) + j] = s[j]
    BY <2>1, Concat
  <2>4. Len(b) \in Nat
    OBVIOUS
  <2> QED BY <2>2, <2>3, <2>4
<1> HIDE DEF n, v, s, c
<1>4. EndOf(v, n) = EndOf(w, n)
  <2>1. n # 0 => n \in DOMAIN w
    BY <1>1
  <2> QED BY <1>1, <2>1 DEF EndOf
<1>5. EndOf(v, n + 1) = Len(b) + ObjectSize(x.obj)
    BY <1>1 DEF EndOf
<1>6. EndOf(v, n + 1) = Len(c)
    BY <1>2, <1>3, <1>5
<1>7. v[n + 1].at = EndOf(v, n + 1 - 1)
  <2>1. n + 1 - 1 = n
    BY <1>1
  <2> QED BY <1>1, <1>4, <2>1 DEF n
<1>8. Placed(v, c, n + 1)
  <2>1. EndOf(v, n + 1) <= Len(c)
    BY <1>2, <1>3, <1>6
  <2>2. \A j \in 1 .. ObjectSize(x.obj) : c[Len(b) + j] = s[j]
    BY <1>2, <1>3
  <2> QED BY <1>1, <1>7, <2>1, <2>2 DEF Placed, s
<1> QED
    BY <1>6, <1>8 DEF n, v, s, c

\* An object with a key that was not written yet is written in order.
LEMMA OrderAppended ==
    ASSUME NEW S, NEW w \in Seq(S), NEW x, \A i \in DOMAIN w : InOrder(w, i) /\ w[i].key # x.key,
           ~ is_unique(x.obj) => \A q \in 1 .. x.key.seq - 1 :
                \E j \in DOMAIN w : w[j].key = ie_object_key(ANSLP_IPAP_MESSAGE, q)
    PROVE  \A i \in DOMAIN Append(w, x) : InOrder(Append(w, x), i)
<1> DEFINE n == Len(w)
           v == Append(w, x)
<1>1. /\ n \in Nat /\ DOMAIN w = 1 .. n /\ DOMAIN v = 1 .. n + 1
      /\ (\A j \in DOMAIN w : v[j] = w[j]) /\ v[n + 1] = x
    BY Appended
<1> HIDE DEF n, v
<1>2. ASSUME NEW i \in DOMAIN v PROVE InOrder(v, i)
  <2>1. CASE i \in DOMAIN w
    <3>1. v[i] = w[i] /\ i \in 1 .. n /\ v[i].key # x.key
      BY <1>1, <2>1
    <3>2. ASSUME NEW j \in DOMAIN v, v[i].key = v[j].key PROVE i = j
      <4>1. j \in DOMAIN w
        BY <1>1, <3>1, <3>2
      <4> QED BY <1>1, <2>1, <3>1, <3>2, <4>1 DEF InOrder
    <3>3. ASSUME ~ is_unique(v[i].obj), NEW q \in 1 .. v[i].key.seq - 1
          PROVE  \E j \in 1 .. i - 1 : v[j].key = ie_object_key(ANSLP_IPAP_MESSAGE, q)
      <4>1. PICK j \in 1 .. i - 1 : w[j].key = ie_object_key(ANSLP_IPAP_MESSAGE, q)
        BY <2>1, <3>1, <3>3 DEF InOrder
      <4>2. j \in DOMAIN w
        BY <1>1, <3>1, <4>1
      <4> QED BY <1>1, <4>1, <4>2
    <3> QED BY <3>2, <3>3 DEF InOrder
  <2>2. CASE i = n + 1
    <3>1. v[i] = x
      BY <1>1, <2>2
    <3>2. ASSUME NEW j \in DOMAIN v, v[i].key = v[j].key PROVE i = j
      BY <1>1, <2>2, <3>1, <3>2
    <3>3. ASSUME ~ is_unique(v[i].obj), NEW q \in 1 .. v[i].key.seq - 1
          PROVE  \E j \in 1 .. i - 1 : v[j].key = ie_object_key(ANSLP_IPAP_MESSAGE, q)
      <4>1. PICK j \in DOMAIN w : w[j].key = ie_object_key(ANSLP_IPAP_MESSAGE, q)
        BY <3>1, <3>3
      <4>2. j \in 1 .. i - 1 /\ v[j] = w[j]
        BY <1>1, <2>2
      <4> QED BY <4>1, <4>2
    <3> QED BY <3>2, <3>3 DEF InOrder
  <2> QED BY <1>1, <2>1, <2>2
<1> QED
    BY <1>2 DEF v

LEMMA Popped ==
    ASSUME NEW S, NEW q \in Seq(S), q # <<>>
    PROVE  /\ Head(q) = q[1] /\ 1 \in DOMAIN q
           /\ \A i \in DOMAIN Tail(q) : /\ i \in Nat \ {0} /\ i + 1 \in DOMAIN q
                                        /\ Tail(q)[i] = q[i + 1]
           /\ \A i \in DOMAIN q : i # 1 => /\ i \in Nat \ {0} /\ i - 1 \in DOMAIN Tail(q)
                                           /\ Tail(q)[i - 1] = q[i]
<1> DEFINE n == Len(q)
           r == Tail(q)
<1>1. n \in Nat \ {0} /\ DOMAIN q = 1 .. n /\ DOMAIN r = 1 .. n - 1 /\ Head(q) = q[1]
      /\ \A i \in 1 .. n - 1 : r[i] = q[i + 1]
    OBVIOUS
<1> HIDE DEF n, r
<1>2. ASSUME NEW i \in DOMAIN r PROVE i \in Nat \ {0} /\ i + 1 \in DOMAIN q /\ r[i] = q[i + 1]
    BY <1>1
<1>3. ASSUME NEW i \in DOMAIN q, i # 1
      PROVE  i \in Nat \ {0} /\ i - 1 \in DOMAIN r /\ r[i - 1] = q[i]
  <2>1. i - 1 \in 1 .. n - 1 /\ i - 1 + 1 = i /\ i \in Nat \ {0}
    BY <1>1, <1>3
  <2>2. r[i - 1] = q[i - 1 + 1]
    BY <1>1, <2>1
  <2> QED BY <1>1, <2>1, <2>2
<1>4. 1 \in DOMAIN q
    BY <1>1
<1> QED
    BY <1>1, <1>2, <1>3, <1>4 DEF r

\* The keys after the first are pending when the first was looked up: v has the
\* objects of w and, if it was found, the one under the first key.
LEMMA PendingTail ==
    ASSUME NEW q \in Seq(Key), q # <<>>, NEW w, NEW v, NEW s,
           \A i \in DOMAIN q : Pending(q, w, s, i),
           \A j \in DOMAIN v : v[j].key = Head(q) \/ \E k \in DOMAIN w : v[j].key = w[k].key,
           \A k \in DOMAIN w : \E j \in DOMAIN v : v[j].key = w[k].key,
           Head(q).type = ANSLP_IPAP_MESSAGE => \E j \in DOMAIN v : v[j].key = Head(q)
    PROVE  \A i \in DOMAIN Tail(q) : Pending(Tail(q), v, s, i)
<1> DEFINE r == Tail(q)
<1>1. /\ Head(q) = q[1] /\ 1 \in DOMAIN q
      /\ \A i \in DOMAIN r : i \in Nat \ {0} /\ i + 1 \in DOMAIN q /\ r[i] = q[i + 1]
      /\ \A i \in DOMAIN q : i # 1 => i \in Nat \ {0} /\ i - 1 \in DOMAIN r /\ r[i - 1] = q[i]
    BY Popped
<1> HIDE DEF r
<1>2. ASSUME NEW i \in DOMAIN r PROVE Pending(r, v, s, i)
  <2>1. i \in Nat \ {0} /\ i + 1 \in DOMAIN q /\ r[i] = q[i + 1] /\ Pending(q, w, s, i + 1)
    BY <1>1
  <2>2. MadeKey(r[i])
    BY <2>1 DEF Pending
  <2>3. ASSUME NEW j \in DOMAIN r, r[i] = r[j] PROVE i = j
    <3>1. j \in Nat \ {0} /\ j + 1 \in DOMAIN q /\ r[j] = q[j + 1]
      BY <1>1
    <3>2. i + 1 = j + 1
      BY <2>1, <2>3, <3>1 DEF Pending
    <3> QED BY <2>1, <3>1, <3>2
  <2>4. Head(q) # r[i]
    <3>1. i + 1 # 1
      BY <2>1
    <3> QED BY <1>1, <2>1, <3>1 DEF Pending
  <2>5. ASSUME NEW j \in DOMAIN v PROVE v[j].key # r[i]
    BY <2>1, <2>4 DEF Pending
  <2>6. ASSUME r[i].type = ANSLP_IPAP_MESSAGE
        PROVE  get(s, r[i]) # {}
    BY <2>1, <2>6 DEF Pending
  <2>7. ASSUME r[i].type = ANSLP_IPAP_MESSAGE, NEW n \in 1 .. r[i].seq - 1
        PROVE  \/ \E j \in DOMAIN v : v[j].key = ie_object_key(ANSLP_IPAP_MESSAGE, n)
               \/ \E j \in 1 .. i - 1 : r[j] = ie_object_key(ANSLP_IPAP_MESSAGE, n)
    <3>1. CASE \E k \in DOMAIN w : w[k].key = ie_object_key(ANSLP_IPAP_MESSAGE, n)
      BY <3>1
    <3>2. CASE \E j \in 1 .. i + 1 - 1 : q[j] = ie_object_key(ANSLP_IPAP_MESSAGE, n)
      <4>1. PICK j \in 1 .. i + 1 - 1 : q[j] = ie_object_key(ANSLP_IPAP_MESSAGE, n)
        BY <3>2
      <4>2. CASE j = 1
        <5>1. Head(q) = ie_object_key(ANSLP_IPAP_MESSAGE, n)
          BY <1>1, <4>1, <4>2
        <5> QED BY <5>1 DEF ie_object_key
      <4>3. CASE j # 1
        <5>1. j \in DOMAIN q
          <6>1. i + 1 \in 1 .. Len(q) /\ DOMAIN q = 1 .. Len(q) /\ Len(q) \in Nat
            BY <2>1
          <6> QED BY <2>1, <6>1
        <5>2. r[j - 1] = q[j]
          BY <1>1, <4>3, <5>1
        <5>3. j - 1 \in 1 .. i - 1
          BY <2>1, <4>3
        <5> QED BY <4>1, <5>2, <5>3
      <4> QED BY <4>2, <4>3
    <3> QED BY <2>1, <2>7, <3>1, <3>2 DEF Pending
  <2> QED BY <2>2, <2>3, <2>5, <2>6, <2>7 DEF Pending
<1> QED
    BY <1>2 DEF r

\* The object looked up was not written yet, and get_serialized_size left room for it.
LEMMA RoomForObject ==
    ASSUME TypeOK, EncoderInv, phase = "writing", todo # <<>>,
           NEW o \in get(outgoing.store, Head(todo))
    PROVE  /\ [key |-> Head(todo), obj |-> o] \in outgoing.store
           /\ \A j \in DOMAIN sent : sent[j].key # Head(todo)
           /\ Len(buf) + ObjectSize(o) <= size
           /\ Len(buf) + ObjectSize(o)
                = 2 + Cardinality(Bytes(EntriesOf(sent) \cup {[key |-> Head(todo), obj |-> o]}))
<1> DEFINE e == [key |-> Head(todo), obj |-> o]
           s == outgoing.store
           t == EntriesOf(sent)
<1>1. /\ StoreOK(s) /\ s \subseteq Entry /\ IsFiniteSet(s) /\ t \subseteq s
      /\ size = 2 + Cardinality(Bytes(s)) /\ Len(buf) = 2 + Cardinality(Bytes(t))
    BY SizeIsBytes, Words DEF EncoderInv, Composition, StoreOK, SentInBuffer, ToBeWritten
<1>2. todo \in Seq(Key)
    BY DEF TypeOK
<1>3. Pending(todo, sent, s, 1) /\ todo[1] = Head(todo)
    BY <1>2, Popped DEF EncoderInv, ToBeWritten
<1>4. MadeKey(Head(todo)) /\ \A j \in DOMAIN sent : sent[j].key # Head(todo)
    BY <1>3 DEF Pending
<1>5. e \in s
    BY <1>1, <1>4, GetFinds
<1>6. e \notin t
    BY <1>4 DEF EntriesOf, EntryOf
<1> HIDE DEF e, s, t
<1>7. IsFiniteSet(t) /\ t \in SUBSET Entry /\ e \in Entry
    BY <1>1, <1>5, FS_Subset
<1>8. Cardinality(Bytes(t \cup {e})) = Cardinality(Bytes(t)) + ObjectSize(e.obj)
    BY <1>6, <1>7, BytesAdded
<1>9. Cardinality(Bytes(t \cup {e})) <= Cardinality(Bytes(s))
    BY <1>1, <1>5, BytesMonotone
<1>10. Cardinality(Bytes(t)) \in Nat /\ Cardinality(Bytes(s)) \in Nat
    BY <1>1, <1>7, BytesFinite
<1>11. ObjectSize(e.obj) \in Nat /\ e.obj = o
    BY <1>7, Serialized DEF Entry, e
<1>12. Len(buf) + ObjectSize(o) <= size
    BY <1>1, <1>8, <1>9, <1>10, <1>11
<1>13. Len(buf) + ObjectSize(o) = 2 + Cardinality(Bytes(t \cup {e}))
    BY <1>1, <1>8, <1>10, <1>11
<1> QED
    BY <1>4, <1>5, <1>12, <1>13 DEF e, s, t

LEMMA WriteObjectStep ==
    ASSUME TypeOK, EncoderInv, WriteObject
    PROVE  EncoderInv' /\ phase' = "writing"
<1>1. /\ phase = "writing" /\ todo # <<>> /\ UNCHANGED <<outgoing, size, parser>>
    BY DEF WriteObject
<1>2. PICK o \in get(outgoing.store, Head(todo)) :
          IF Len(buf) + ObjectSize(o) > size
          THEN /\ phase' = "assert failed"
               /\ UNCHANGED <<buf, todo, sent>>
          ELSE /\ buf' = buf \o serialize(o)
               /\ todo' = Tail(todo)
               /\ sent' = Append(sent, [key |-> Head(todo), obj |-> o, at |-> Len(buf)])
               /\ UNCHANGED phase
    BY DEF WriteObject
<1> DEFINE k == Head(todo)
           x == [key |-> k, obj |-> o, at |-> Len(buf)]
           e == [key |-> k, obj |-> o]
           R == [key : Key, obj : Object, at : 0 .. Len(buf)]
<1>3. /\ todo \in Seq(Key) /\ k \in Key /\ o \in Object /\ serialize(o) \in Seq(Nat)
      /\ Len(buf \o serialize(o)) = Len(buf) + ObjectSize(o)
      /\ ObjectSize(o) \in Nat /\ Len(buf) \in Nat /\ size \in Nat
  <2>1. size \in Nat
    BY DEF TypeOK
  <2> QED BY <1>1, <2>1, WriteObjectType
<1>4. buf \in Seq(Nat) /\ sent \in Seq(R)
    BY DEF TypeOK
<1>5. /\ e \in outgoing.store /\ \A j \in DOMAIN sent : sent[j].key # k
      /\ Len(buf) + ObjectSize(o) <= size
      /\ Len(buf) + ObjectSize(o) = 2 + Cardinality(Bytes(EntriesOf(sent) \cup {e}))
    BY <1>1, RoomForObject
<1>6. ~ (Len(buf) + ObjectSize(o) > size)
    BY <1>3, <1>5
<1>7. /\ buf' = buf \o serialize(o) /\ todo' = Tail(todo) /\ sent' = Append(sent, x)
      /\ phase' = "writing"
    BY <1>1, <1>2, <1>6
<1>8. EntryOf(x) = e /\ x.obj = o /\ x.key = k /\ x.at = Len(buf)
    BY DEF EntryOf
<1> HIDE DEF x, R, e
<1>9. EntriesOf(sent') = EntriesOf(sent) \cup {e}
    BY <1>4, <1>7, <1>8, EntriesAppended
<1>10. Pending(todo, sent, outgoing.store, 1) /\ todo[1] = k
    BY <1>1, <1>3, Popped DEF EncoderInv, ToBeWritten
<1>11. Len(sent') = Len(sent) + 1 /\ DOMAIN sent' = 1 .. Len(sent) + 1 /\ Len(sent) \in Nat
       /\ DOMAIN sent = 1 .. Len(sent) /\ sent'[Len(sent) + 1] = x
       /\ \A i \in DOMAIN sent : sent'[i] = sent[i]
    BY <1>4, <1>7, Appended
<1>12. SentInBuffer'
  <2>1. Len(buf') >= HEADER_LENGTH
    <3>1. Cardinality(Bytes(EntriesOf(sent) \cup {e})) \in Nat
      <4>1. EntriesOf(sent) \cup {e} \subseteq outgoing.store
        BY <1>5 DEF EncoderInv, SentInBuffer
      <4>2. /\ IsFiniteSet(EntriesOf(sent) \cup {e})
            /\ EntriesOf(sent) \cup {e} \in SUBSET Entry
        BY <4>1, FS_Subset DEF EncoderInv, Composition, StoreOK
      <4> QED BY <4>2, BytesFinite
    <3>2. Len(buf') = 2 + Cardinality(Bytes(EntriesOf(sent) \cup {e}))
      BY <1>3, <1>5, <1>7
    <3> QED BY <3>1, <3>2, Words
  <2>2. EntriesOf(sent') \subseteq outgoing'.store
    BY <1>1, <1>5, <1>9 DEF EncoderInv, SentInBuffer
  <2>3. Len(buf) = EndOf(sent, Len(sent))
    BY <1>1 DEF EncoderInv, ToBeWritten
  <2>4. \A i \in DOMAIN sent : Placed(sent, buf, i)
    BY DEF EncoderInv, SentInBuffer
  <2>5. \A i \in DOMAIN sent : Placed(sent', buf', i)
    BY <1>3, <1>4, <1>7, <2>4, PlacedAppended DEF R
  <2>6. Placed(sent', buf', Len(sent) + 1)
    BY <1>3, <1>4, <1>7, <1>8, <2>3, LastPlaced DEF R
  <2>7. \A i \in DOMAIN sent' : Placed(sent', buf', i)
    <3>1. \A i \in DOMAIN sent' : i \in DOMAIN sent \/ i = Len(sent) + 1
      BY <1>11
    <3> QED BY <2>5, <2>6, <3>1
  <2>8. \A i \in DOMAIN sent' : InOrder(sent', i)
    <3>1. \A i \in DOMAIN sent : InOrder(sent, i) /\ sent[i].key # x.key
      BY <1>5, <1>8 DEF EncoderInv, SentInBuffer
    <3>2. ASSUME ~ is_unique(x.obj), NEW q \in 1 .. x.key.seq - 1
          PROVE  \E j \in DOMAIN sent : sent[j].key = ie_object_key(ANSLP_IPAP_MESSAGE, q)
      <4>1. k.type = ANSLP_IPAP_MESSAGE
        <5>1. e.key.type = e.obj.type
          BY <1>5 DEF EncoderInv, Composition, StoreOK, Entry
        <5> QED BY <1>8, <3>2, <5>1 DEF is_unique, e
      <4>2. ~ \E j \in 1 .. 1 - 1 : todo[j] = ie_object_key(ANSLP_IPAP_MESSAGE, q)
        OBVIOUS
      <4> QED BY <1>8, <1>10, <3>2, <4>1, <4>2 DEF Pending
    <3> QED BY <1>4, <1>7, <3>1, <3>2, OrderAppended
  <2> QED BY <2>1, <2>2, <2>7, <2>8 DEF SentInBuffer
<1>13. ToBeWritten'
  <2>1. Len(buf') = EndOf(sent', Len(sent'))
    <3>1. Len(buf) = EndOf(sent, Len(sent))
      BY <1>1 DEF EncoderInv, ToBeWritten
    <3> QED BY <1>3, <1>4, <1>7, <1>8, <1>11, <3>1, LastPlaced DEF R
  <2>2. Len(buf') = HEADER_LENGTH + Cardinality(Bytes(EntriesOf(sent')))
    BY <1>3, <1>5, <1>7, <1>9, Words
  <2>3. buf'[1] = outgoing'.type
    <3>1. buf[1] = outgoing.type
      BY <1>1 DEF EncoderInv, ToBeWritten
    <3>2. Len(buf) = 2 + Cardinality(Bytes(EntriesOf(sent)))
      BY <1>1, Words DEF EncoderInv, ToBeWritten
    <3>3. Cardinality(Bytes(EntriesOf(sent))) \in Nat
      <4>1. IsFiniteSet(EntriesOf(sent)) /\ EntriesOf(sent) \in SUBSET Entry
        BY FS_Subset DEF EncoderInv, Composition, StoreOK, SentInBuffer
      <4> QED BY <4>1, BytesFinite
    <3>4. 1 \in 1 .. Len(buf)
      BY <3>2, <3>3
    <3>5. buf'[1] = buf[1]
      BY <1>3, <1>4, <1>7, <3>4, Concat
    <3> QED BY <1>1, <3>1, <3>5
  <2>4. ASSUME NEW f \in outgoing.store
        PROVE  f \in EntriesOf(sent') \/ \E i \in DOMAIN todo' : todo'[i] = f.key
    <3>1. CASE f \in EntriesOf(sent)
      BY <1>9, <3>1
    <3>2. CASE f.key = k
      <4>1. f = e
        BY <1>5, <1>8, <3>2 DEF EncoderInv, Composition, StoreOK, e
      <4> QED BY <1>9, <4>1
    <3>3. ASSUME NEW i \in DOMAIN todo, todo[i] = f.key, f.key # k
          PROVE \E j \in DOMAIN todo' : todo'[j] = f.key
      <4>1. i # 1
        BY <1>10, <3>3
      <4>2. i - 1 \in DOMAIN todo' /\ todo'[i - 1] = todo[i]
        BY <1>1, <1>3, <1>7, <4>1, Popped
      <4> QED BY <3>3, <4>2
    <3> QED BY <1>1, <3>1, <3>2, <3>3 DEF EncoderInv, ToBeWritten
  <2>5. \A i \in DOMAIN todo' : Pending(todo', sent', outgoing.store, i)
    <3>1. \A i \in DOMAIN todo : Pending(todo, sent, outgoing.store, i)
      BY <1>1 DEF EncoderInv, ToBeWritten
    <3>2. \A j \in DOMAIN sent' : sent'[j].key = k \/ \E i \in DOMAIN sent : sent'[j].key = sent[i].key
      <4>1. \A j \in DOMAIN sent' : j \in DOMAIN sent \/ j = Len(sent) + 1
        BY <1>11
      <4> QED BY <1>8, <1>11, <4>1
    <3>3. \A i \in DOMAIN sent : i \in DOMAIN sent' /\ sent'[i].key = sent[i].key
      BY <1>11
    <3>4. Len(sent) + 1 \in DOMAIN sent' /\ sent'[Len(sent) + 1].key = k
      BY <1>8, <1>11
    <3>5. \A i \in DOMAIN sent : \E j \in DOMAIN sent' : sent'[j].key = sent[i].key
      BY <3>3
    <3>6. \E j \in DOMAIN sent' : sent'[j].key = k
      BY <3>4
    <3>7. todo \in Seq(Key) /\ todo # <<>>
      BY <1>1, <1>3
    <3>8. \A i \in DOMAIN Tail(todo) : Pending(Tail(todo), sent', outgoing.store, i)
      <4> DEFINE v == sent'
      <4> HIDE DEF v
      <4> QED BY <3>1, <3>2, <3>5, <3>6, <3>7, PendingTail DEF v
    <3> QED BY <1>7, <3>8
  <2>6. outgoing.store # {} /\ size = get_serialized_size(outgoing)
    BY <1>1 DEF EncoderInv, ToBeWritten
  <2>7. size' = get_serialized_size(outgoing)'
    BY <1>1, <2>6
  <2>8. outgoing'.store # {}
    BY <1>1, <2>6
  <2>9. \A f \in outgoing'.store : f \in EntriesOf(sent') \/ \E i \in DOMAIN todo' : todo'[i] = f.key
    BY <1>1, <2>4
  <2>10. \A i \in DOMAIN todo' : Pending(todo', sent', outgoing'.store, i)
    BY <1>1, <2>5
  <2> QED BY <2>1, <2>2, <2>3, <2>7, <2>8, <2>9, <2>10 DEF ToBeWritten, Bytes
<1>14. Composition'
    BY <1>1, <1>7 DEF EncoderInv, Composition
<1> QED
    BY <1>7, <1>12, <1>13, <1>14 DEF EncoderInv, ToBeSet, PayloadComplete

LEMMA WriteNothingStep ==
    ASSUME TypeOK, EncoderInv, WriteNothing
    PROVE  EncoderInv'
<1> DEFINE k == Head(todo)
<1>1. /\ phase = "writing" /\ phase' = "writing" /\ todo # <<>> /\ todo' = Tail(todo)
      /\ get(outgoing.store, k) = {} /\ UNCHANGED <<buf, outgoing, size, sent>>
    BY DEF WriteNothing, MissesObject
<1>2. todo \in Seq(Key)
    BY <1>1 DEF TypeOK
<1>3. todo[1] = k /\ \A i \in DOMAIN todo : Pending(todo, sent, outgoing.store, i)
    BY <1>1, <1>2, Popped DEF EncoderInv, ToBeWritten
<1>4. Pending(todo, sent, outgoing.store, 1)
    BY <1>1, <1>2, <1>3, Popped
<1>5. k.type # ANSLP_IPAP_MESSAGE /\ MadeKey(k)
    BY <1>1, <1>3, <1>4 DEF Pending
<1>6. \A e \in outgoing.store : e.key # k
    BY <1>1, <1>5, GetFinds DEF EncoderInv, Composition
<1>7. ToBeWritten'
  <2>1. ASSUME NEW f \in outgoing.store
        PROVE  f \in EntriesOf(sent) \/ \E i \in DOMAIN todo' : todo'[i] = f.key
    <3>1. ASSUME NEW i \in DOMAIN todo, todo[i] = f.key
          PROVE \E j \in DOMAIN todo' : todo'[j] = f.key
      <4>1. i # 1
        BY <1>3, <1>6, <3>1
      <4>2. i - 1 \in DOMAIN todo' /\ todo'[i - 1] = todo[i]
        BY <1>1, <1>2, <4>1, Popped
      <4> QED BY <3>1, <4>2
    <3> QED BY <1>1, <3>1 DEF EncoderInv, ToBeWritten
  <2>2. \A i \in DOMAIN Tail(todo) : Pending(Tail(todo), sent, outgoing.store, i)
    BY <1>1, <1>2, <1>3, <1>5, PendingTail
  <2>3. \A i \in DOMAIN todo' : Pending(todo', sent', outgoing'.store, i)
    BY <1>1, <2>2
  <2>4. \A f \in outgoing'.store : f \in EntriesOf(sent') \/ \E i \in DOMAIN todo' : todo'[i] = f.key
    BY <1>1, <2>1
  <2> QED BY <1>1, <2>3, <2>4 DEF EncoderInv, ToBeWritten
<1>8. Composition' /\ SentInBuffer'
    BY <1>1 DEF EncoderInv, Composition, SentInBuffer
<1> QED
    BY <1>1, <1>7, <1>8 DEF EncoderInv, ToBeSet, PayloadComplete

\* At the end of serialize every object is written and the payload is full.
LEMMA TransmitStep ==
    ASSUME TypeOK, EncoderInv, Transmit
    PROVE  EncoderInv' /\ buf' = buf
<1>1. /\ phase = "writing" /\ phase' = "received" /\ todo = <<>>
      /\ buf' = buf \o Zeros(size - Len(buf)) /\ UNCHANGED <<outgoing, todo, size, sent>>
    BY DEF Transmit, encoder
<1>2. outgoing.store = EntriesOf(sent)
  <2>1. DOMAIN todo = {}
    BY <1>1
  <2> QED BY <1>1, <2>1 DEF EncoderInv, ToBeWritten, SentInBuffer
<1>3. Len(buf) = size /\ buf \in Seq(Nat)
    BY <1>1, <1>2, SizeIsBytes, Words DEF EncoderInv, ToBeWritten, TypeOK
<1>4. buf' = buf
  <2>1. Len(buf) \in Nat
    BY <1>3
  <2>2. size - Len(buf) = 0
    BY <1>3, <2>1
  <2>3. Zeros(size - Len(buf)) = <<>>
    BY <2>2, ZerosType
  <2>4. buf \o <<>> = buf
    BY <1>3
  <2> QED BY <1>1, <2>3, <2>4
<1>5. Composition' /\ SentInBuffer'
    BY <1>1, <1>4 DEF EncoderInv, Composition, SentInBuffer
<1>6. PayloadComplete'
    BY <1>1, <1>2, <1>4 DEF EncoderInv, ToBeWritten, PayloadComplete
<1> QED
    BY <1>1, <1>4, <1>5, <1>6 DEF EncoderInv, ToBeSet, ToBeWritten

LEMMA ReceiveForeignStep ==
    ASSUME TypeOK, EncoderInv, ReceiveForeign
    PROVE  EncoderInv'
<1>1. /\ phase = "idle" /\ phase' = "received" /\ UNCHANGED encoder /\ sent = <<>>
      /\ outgoing = NoMessage
    BY DEF ReceiveForeign, EncoderInv, Composition
<1>2. sent' = <<>> /\ outgoing' = NoMessage
    BY <1>1 DEF encoder
<1>3. SentInBuffer'
    BY <1>2, NothingSentNext
<1>4. Composition'
    BY <1>1, <1>2 DEF EncoderInv, Composition
<1> QED
    BY <1>1, <1>2, <1>3, <1>4 DEF EncoderInv, ToBeSet, ToBeWritten, PayloadComplete

LEMMA EncoderStep == TypeOK /\ EncoderInv /\ [Next]_vars => EncoderInv'
<1> SUFFICES ASSUME TypeOK, EncoderInv, [Next]_vars PROVE EncoderInv'
    OBVIOUS
<1>1. CASE CheckFails \/ RunOffTheEnd
  <2>1. UNCHANGED <<buf, encoder>> /\ phase' \in {"undefined", "assert failed"}
    BY <1>1 DEF CheckFails, RunOffTheEnd
  <2> QED BY <2>1, EncoderUntouched
<1>2. CASE Parse
  <2>1. /\ UNCHANGED <<buf, encoder>>
        /\ phase \in {"received", "objects", "accepted", "rejected", "thrown"}
        /\ phase' \in {"objects", "accepted", "rejected", "thrown"}
    BY <1>2 DEF Parse, deserialize_msg, ReadObject, RejectObject, ObjectThrows, EndMessage, Reject
  <2> QED BY <2>1, EncoderUntouched
<1>3. CASE UNCHANGED vars
  <2>1. UNCHANGED <<buf, encoder>> /\ phase' = phase
    BY <1>3 DEF vars
  <2> QED BY <2>1, EncoderUntouched
<1> QED
    BY <1>1, <1>2, <1>3, ComposeStep, SetObjectStep, BeginSerializeStep, WriteObjectStep,
       WriteNothingStep, TransmitStep, ReceiveForeignStep DEF Next

-----------------------------------------------------------------------------
(* The parser follows *)

\* A message of a session that fits and whose payload arrived.
Arrived == outgoing # NoMessage /\ Fits(outgoing)

\* What the object at place i of those sent is.
LEMMA SentObject ==
    ASSUME TypeOK, EncoderInv, NEW i \in DOMAIN sent
    PROVE  /\ EntryOf(sent[i]) \in outgoing.store
           /\ sent[i].obj \in Object /\ WellFormed(sent[i].obj)
           /\ MadeKey(sent[i].key) /\ sent[i].key.type = sent[i].obj.type
           /\ ObjectSize(sent[i].obj) \in Nat /\ ObjectSize(sent[i].obj) >= 2
           /\ sent[i].at \in Nat /\ EndOf(sent, i) = sent[i].at + ObjectSize(sent[i].obj)
           /\ Placed(sent, buf, i) /\ InOrder(sent, i) /\ i \in Nat \ {0}
<1> DEFINE e == EntryOf(sent[i])
           R == [key : Key, obj : Object, at : 0 .. Len(buf)]
<1>1. e \in EntriesOf(sent) /\ e.key = sent[i].key /\ e.obj = sent[i].obj
    BY DEF EntriesOf, EntryOf
<1>2. e \in outgoing.store /\ Placed(sent, buf, i) /\ InOrder(sent, i)
    BY <1>1 DEF EncoderInv, SentInBuffer
<1>3. WellFormed(e.obj) /\ e.obj \in Object /\ MadeKey(e.key) /\ e.key.type = e.obj.type
    BY <1>2 DEF EncoderInv, Composition, StoreOK, Entry, WellFormed
<1>4. ObjectSize(e.obj) \in Nat /\ ObjectSize(e.obj) >= 2
    BY <1>3, Serialized, Words
<1>5. sent \in Seq(R) /\ buf \in Seq(Nat)
    BY DEF TypeOK
<1>6. sent[i] \in R /\ i \in Nat \ {0}
  <2> HIDE DEF R
  <2> QED BY <1>5, ElementOf
<1>7. sent[i].at \in Nat
    BY <1>5, <1>6
<1>8. EndOf(sent, i) = sent[i].at + ObjectSize(sent[i].obj)
    BY <1>6 DEF EndOf
<1> HIDE DEF e
<1> QED
    BY <1>1, <1>2, <1>3, <1>4, <1>6, <1>7, <1>8 DEF e

\* The store of the message received gives the next object the key it was sent with.
LEMMA NextKey ==
    ASSUME TypeOK, ParserInv, EncoderInv, ParserFollows, phase = "objects", Arrived,
           Len(parsed) + 1 \in DOMAIN sent
    PROVE  /\ NewEntry(incoming.store, sent[Len(parsed) + 1].obj) = EntryOf(sent[Len(parsed) + 1])
           /\ is_unique(sent[Len(parsed) + 1].obj) =>
                get(incoming.store, ie_object_key(sent[Len(parsed) + 1].obj.type, 1)) = {}
<1> DEFINE n == Len(parsed)
           x == sent[n + 1]
           s == incoming.store
           k == x.key
           m == getMaxSequence(s, ANSLP_IPAP_MESSAGE)
<1>1. /\ x.obj \in Object /\ MadeKey(k) /\ k.type = x.obj.type /\ InOrder(sent, n + 1)
    BY SentObject
<1>2. n \in Nat /\ n + 1 \in DOMAIN sent
    BY DEF TypeOK
<1>3. StoreOK(s) /\ s = {EntryOf(sent[i]) : i \in 1 .. n}
    BY DEF ParserInv, ParserFollows, Arrived
<1>4. 1 .. n \subseteq DOMAIN sent
  <2>1. DOMAIN sent = 1 .. Len(sent) /\ Len(sent) \in Nat
    BY DEF TypeOK
  <2> HIDE DEF n
  <2> QED BY <1>2, <2>1
<1> HIDE DEF n
<1>5. ASSUME NEW e \in s PROVE e.key # k
  <2>1. PICK i \in 1 .. n : e = EntryOf(sent[i])
    BY <1>3
  <2>2. e.key = sent[i].key /\ i \in DOMAIN sent /\ n + 1 # i
    BY <1>2, <1>4, <2>1 DEF EntryOf
  <2> QED BY <1>1, <1>2, <2>2 DEF InOrder
<1>6. x.obj.type = ANSLP_IPAP_MESSAGE <=> ~ is_unique(x.obj)
    BY DEF is_unique
<1> HIDE DEF x, s, m
<1>7. CASE is_unique(x.obj)
  <2>1. k = ie_object_key(x.obj.type, 1)
    BY <1>1, <1>6, <1>7 DEF MadeKey, Key, ie_object_key
  <2>2. get(s, k) = {}
    BY <1>1, <1>3, <1>5, GetFinds
  <2>3. NewEntry(s, x.obj) = [key |-> k, obj |-> x.obj]
    BY <1>7, <2>1 DEF NewEntry, NewKey
  <2> QED BY <2>1, <2>2, <2>3 DEF EntryOf, x, s, n
<1>8. CASE ~ is_unique(x.obj)
  <2>1. k \in Key /\ k.type = ANSLP_IPAP_MESSAGE /\ k.seq \in Nat \ {0}
    BY <1>1, <1>6, <1>8 DEF MadeKey, Key
  <2>2. m \in Nat /\ IpapNumbers(s) = 1 .. m
    BY <1>3 DEF StoreOK, m
  <2>3. k.seq \notin IpapNumbers(s)
    <3> SUFFICES ASSUME NEW e \in s, e.key.type = ANSLP_IPAP_MESSAGE, e.key.seq = k.seq
                 PROVE  FALSE
      BY DEF IpapNumbers
    <3>1. e.key \in Key
      BY <1>3 DEF StoreOK, Entry
    <3>2. e.key = k
      BY <2>1, <3>1 DEF Key
    <3> QED BY <1>5, <3>2
  <2>4. ASSUME NEW q \in 1 .. k.seq - 1 PROVE q \in IpapNumbers(s)
    <3>1. PICK j \in 1 .. (n + 1) - 1 : sent[j].key = ie_object_key(ANSLP_IPAP_MESSAGE, q)
      <4>1. InOrder(sent, n + 1) /\ x = sent[n + 1]
        BY <1>1 DEF x
      <4>2. \A r \in 1 .. x.key.seq - 1 :
              \E j \in 1 .. (n + 1) - 1 : sent[j].key = ie_object_key(ANSLP_IPAP_MESSAGE, r)
        BY <1>8, <4>1 DEF InOrder
      <4> QED BY <2>4, <4>2
    <3>2. j \in 1 .. n
      BY <1>2
    <3>3. EntryOf(sent[j]) \in s
      BY <1>3, <3>2
    <3>4. EntryOf(sent[j]).key.type = ANSLP_IPAP_MESSAGE /\ EntryOf(sent[j]).key.seq = q
      BY <3>1 DEF EntryOf, ie_object_key
    <3> QED BY <3>3, <3>4 DEF IpapNumbers
  <2>5. k.seq = m + 1
    <3> DEFINE a == k.seq
    <3>1. a \in Nat \ {0} /\ a \notin 1 .. m /\ \A q \in 1 .. a - 1 : q \in 1 .. m
      BY <2>1, <2>2, <2>3, <2>4
    <3> HIDE DEF a
    <3>2. a > m
      BY <2>2, <3>1
    <3>3. a - 1 = 0 \/ a - 1 \in 1 .. a - 1
      BY <3>1
    <3>4. a - 1 <= m
      BY <2>2, <3>1, <3>3
    <3>5. a = m + 1
      BY <2>2, <3>1, <3>2, <3>4
    <3> QED BY <3>5 DEF a
  <2>6. k = ie_object_key(ANSLP_IPAP_MESSAGE, m + 1)
    BY <2>1, <2>5 DEF Key, ie_object_key
  <2>7. NewEntry(s, x.obj) = [key |-> k, obj |-> x.obj]
    BY <1>6, <1>8, <2>6 DEF NewEntry, NewKey, m
  <2> QED BY <1>8, <2>7 DEF EntryOf, x, s, n
<1> QED
    BY <1>7, <1>8

\* While bytes are left, the parser reads the next of the objects sent.
LEMMA NextRead ==
    ASSUME TypeOK, ParserInv, EncoderInv, ParserFollows, phase = "objects", Arrived
    PROVE  /\ Len(parsed) \in Nat /\ Len(sent) \in Nat
           /\ bytes_left = 0 => Len(parsed) = Len(sent)
           /\ bytes_left > 0 =>
                /\ Len(parsed) + 1 \in DOMAIN sent
                /\ deserialize_object = Success(sent[Len(parsed) + 1].obj.type,
                                                sent[Len(parsed) + 1].obj.body,
                                                EndOf(sent, Len(parsed) + 1))
<1> DEFINE n == Len(parsed)
           x == sent[n + 1]
<1>1. n \in Nat /\ Len(sent) \in Nat /\ DOMAIN sent = 1 .. Len(sent)
    BY DEF TypeOK
<1>2. /\ n <= Len(sent) /\ pos = EndOf(sent, n) /\ outgoing # NoMessage
      /\ Len(buf) = EndOf(sent, Len(sent))
    BY DEF ParserFollows, Arrived, EncoderInv, PayloadComplete
<1>3. buf \in Seq(Nat) /\ pos \in 0 .. Len(buf) /\ Len(buf) \in Nat
    BY DEF TypeOK
<1> HIDE DEF n, x
<1>4. n + 1 \in DOMAIN sent \/ n = Len(sent)
  <2> DEFINE l == Len(sent)
  <2>1. n \in Nat /\ l \in Nat /\ n <= l
    BY <1>1, <1>2
  <2> HIDE DEF l
  <2>2. n + 1 \in 1 .. l \/ n = l
    BY <2>1
  <2> QED BY <1>1, <2>2 DEF l
<1>5. n = Len(sent) => bytes_left = 0
    BY <1>2, <1>3 DEF bytes_left
<1>6. ASSUME n + 1 \in DOMAIN sent
      PROVE  /\ x.obj \in Object /\ WellFormed(x.obj) /\ x.at = pos
             /\ ObjectSize(x.obj) \in Nat /\ ObjectSize(x.obj) >= 2
             /\ pos + ObjectSize(x.obj) = EndOf(sent, n + 1)
             /\ EndOf(sent, n + 1) <= Len(buf)
             /\ \A j \in 1 .. ObjectSize(x.obj) : buf[pos + j] = serialize(x.obj)[j]
             /\ ObjectSize(x.obj) - HEADER_LENGTH < LenSpace * WORD
  <2>1. /\ x.obj \in Object /\ WellFormed(x.obj)
        /\ ObjectSize(x.obj) \in Nat /\ ObjectSize(x.obj) >= 2
        /\ EndOf(sent, n + 1) = x.at + ObjectSize(x.obj)
        /\ Placed(sent, buf, n + 1) /\ EntryOf(x) \in outgoing.store
    BY <1>6, SentObject DEF x
  <2>2. (n + 1) - 1 = n
    BY <1>1
  <2>3. x.at = pos
    <3>1. x.at = EndOf(sent, (n + 1) - 1)
      BY <2>1 DEF Placed, x
    <3> QED BY <1>2, <2>2, <3>1
  <2>4. EntryOf(x).obj = x.obj
    BY DEF EntryOf
  <2>5. ObjectSize(x.obj) - HEADER_LENGTH < LenSpace * WORD
    BY <2>1, <2>4 DEF Arrived, Fits
  <2>6. /\ EndOf(sent, n + 1) <= Len(buf)
        /\ \A j \in 1 .. ObjectSize(x.obj) : buf[pos + j] = serialize(x.obj)[j]
    BY <2>1, <2>3 DEF Placed, x
  <2> QED BY <2>1, <2>3, <2>5, <2>6
<1>7. n + 1 \in DOMAIN sent => bytes_left > 0
    BY <1>3, <1>6 DEF bytes_left
<1>8. ASSUME bytes_left > 0
      PROVE  /\ n + 1 \in DOMAIN sent
             /\ deserialize_object = Success(x.obj.type, x.obj.body, EndOf(sent, n + 1))
  <2>1. n + 1 \in DOMAIN sent
    BY <1>4, <1>5, <1>8
  <2>2. pos + ObjectSize(x.obj) <= Len(buf)
    BY <1>6, <2>1
  <2>3. deserialize_object = Success(x.obj.type, x.obj.body, pos + ObjectSize(x.obj))
    BY <1>3, <1>6, <2>1, <2>2, ReadBack
  <2> QED BY <1>6, <2>1, <2>3
<1>9. bytes_left = 0 => n = Len(sent)
    BY <1>4, <1>7
<1> QED
    BY <1>1, <1>8, <1>9 DEF n, x

LEMMA FollowUnchanged ==
    ASSUME TypeOK, EncoderInv, ParserFollows, ArrivesUnchanged, UNCHANGED vars
    PROVE  ParserFollows' /\ ArrivesUnchanged'
<1> USE DEF vars, encoder, parser
<1>1. ParserFollows'
    BY DEF ParserFollows, Fits
<1>2. ArrivesUnchanged'
    BY DEF ArrivesUnchanged, Fits, check
<1> QED
    BY <1>1, <1>2

\* The header of the payload names the type the message was composed with.
LEMMA HeaderStep ==
    ASSUME TypeOK, ParserInv, EncoderInv, deserialize_msg
    PROVE  ParserFollows' /\ ArrivesUnchanged'
<1>1. phase = "received" /\ UNCHANGED <<outgoing, sent, buf>>
    BY DEF deserialize_msg, Reject, encoder
<1> SUFFICES ASSUME outgoing # NoMessage
             PROVE  ParserFollows' /\ ArrivesUnchanged'
    BY <1>1 DEF ParserFollows, ArrivesUnchanged
<1>2. /\ outgoing.store # {} /\ outgoing.store = EntriesOf(sent) /\ buf[1] = outgoing.type
    BY <1>1 DEF EncoderInv, PayloadComplete
<1>3. sent # <<>>
    BY <1>2 DEF EntriesOf
<1>4. ~ (Len(buf) < HEADER_LENGTH)
  <2>1. Len(buf) >= HEADER_LENGTH
    BY <1>3 DEF EncoderInv, SentInBuffer
  <2>2. buf \in Seq(Nat)
    BY DEF TypeOK
  <2> QED BY <2>1, <2>2, Words
<1>5. outgoing.type # 0
    BY DEF EncoderInv, Composition
<1>6. \E c \in RegisteredMessages : c.type = buf[1]
    BY <1>2, <1>5 DEF TypeOK, Message
<1>7. /\ phase' = "objects" /\ incoming' = [type |-> buf[1], store |-> {}]
      /\ pos' = HEADER_LENGTH /\ parsed' = parsed
    BY <1>4, <1>6 DEF deserialize_msg
<1>8. parsed' = <<>>
    BY <1>1, <1>7 DEF ParserInv, ParserIdle
<1>9. Len(parsed') = 0 /\ DOMAIN parsed' = {} /\ 1 .. Len(parsed') = {}
    BY <1>8
<1>10. Len(sent') \in Nat
  <2>1. sent \in Seq([key : Key, obj : Object, at : 0 .. Len(buf)])
    BY DEF TypeOK
  <2> QED BY <1>1, <2>1
<1>11. incoming'.type = outgoing'.type /\ incoming'.store = {}
    BY <1>1, <1>2, <1>7
<1>12. pos' = EndOf(sent', Len(parsed'))
    BY <1>7, <1>9 DEF EndOf
<1>13. Len(parsed') <= Len(sent')
    BY <1>9, <1>10
<1>14. incoming'.store = {EntryOf(sent'[i]) : i \in 1 .. Len(parsed')}
    BY <1>9, <1>11
<1>15. ParserFollows'
    BY <1>9, <1>11, <1>12, <1>13, <1>14 DEF ParserFollows
<1> QED
    BY <1>7, <1>15 DEF ArrivesUnchanged

LEMMA OutcomeOfSuccess ==
    ASSUME NEW o \in Object, NEW p
    PROVE  /\ Success(o.type, o.body, p).outcome = "ok"
           /\ Success(o.type, o.body, p).obj = o
           /\ Success(o.type, o.body, p).pos = p
BY DEF Success, Object

LEMMA ReadStep ==
    ASSUME TypeOK, ParserInv, EncoderInv, ParserFollows, ArrivesUnchanged,
           ReadObject \/ RejectObject \/ ObjectThrows \/ EndMessage
    PROVE  ParserFollows' /\ ArrivesUnchanged'
<1> DEFINE n == Len(parsed)
           x == sent[n + 1]
           o == x.obj
<1>1. phase = "objects" /\ UNCHANGED <<outgoing, todo, size, sent, buf>>
    BY DEF ReadObject, RejectObject, ObjectThrows, EndMessage, Reject, encoder
<1>2. Fits(outgoing)' <=> Fits(outgoing)
    BY <1>1 DEF Fits
<1> SUFFICES ASSUME Arrived PROVE ParserFollows' /\ ArrivesUnchanged'
    BY <1>1, <1>2 DEF ParserFollows, ArrivesUnchanged, Arrived
<1>3. /\ n \in Nat /\ Len(sent) \in Nat /\ (bytes_left = 0 => n = Len(sent))
      /\ bytes_left > 0 => /\ n + 1 \in DOMAIN sent
                           /\ deserialize_object = Success(o.type, o.body, EndOf(sent, n + 1))
    BY <1>1, NextRead
<1>4. /\ incoming.type = outgoing.type
      /\ \A i \in DOMAIN parsed : parsed[i] = sent[i].obj
      /\ incoming.store = {EntryOf(sent[i]) : i \in 1 .. n}
    BY <1>1 DEF ParserFollows, Arrived
<1>5. CASE bytes_left > 0
  <2>1. n + 1 \in DOMAIN sent /\ o \in Object
    BY <1>3, <1>5, SentObject
  <2>2. /\ deserialize_object.outcome = "ok" /\ deserialize_object.obj = o
        /\ deserialize_object.pos = EndOf(sent, n + 1)
    <3> DEFINE p == EndOf(sent, n + 1)
    <3>1. o \in Object /\ deserialize_object = Success(o.type, o.body, p)
      BY <1>3, <1>5, <2>1
    <3> HIDE DEF o, p
    <3>2. deserialize_object.outcome = "ok" /\ deserialize_object.obj = o /\ deserialize_object.pos = p
      BY <3>1, OutcomeOfSuccess
    <3> QED BY <3>2 DEF o, p
  <2>3. /\ NewEntry(incoming.store, o) = EntryOf(x)
        /\ is_unique(o) => get(incoming.store, ie_object_key(o.type, 1)) = {}
    BY <1>1, <2>1, NextKey
  <2>4. bytes_left # 0
    <3>1. buf \in Seq(Nat) /\ pos \in 0 .. Len(buf)
      BY DEF TypeOK
    <3> QED BY <1>5, <3>1 DEF bytes_left
  <2>5. ReadObject
    BY <2>2, <2>4 DEF RejectObject, ObjectThrows, EndMessage
  <2>6. /\ incoming' = [incoming EXCEPT !.store = set_object(@, o)]
        /\ pos' = EndOf(sent, n + 1) /\ parsed' = Append(parsed, o) /\ phase' = "objects"
    BY <1>1, <2>2, <2>3, <2>5 DEF ReadObject
  <2>7. set_object(incoming.store, o) = incoming.store \cup {EntryOf(x)}
    BY <2>1, <2>3, SetObjectAdds DEF ParserInv
  <2>8. incoming'.type = incoming.type /\ incoming'.store = incoming.store \cup {EntryOf(x)}
    BY <2>6, <2>7 DEF TypeOK, Message
  <2>9. parsed \in Seq(Object)
    BY DEF TypeOK
  <2> HIDE DEF x
  <2>10. /\ Len(parsed') = n + 1 /\ DOMAIN parsed = 1 .. n /\ DOMAIN parsed' = 1 .. n + 1
         /\ (\A i \in DOMAIN parsed : parsed'[i] = parsed[i]) /\ parsed'[n + 1] = o
    BY <2>6, <2>9, Appended
  <2> HIDE DEF n
  <2>11. 1 .. n + 1 = 1 .. n \cup {n + 1}
    BY <1>3
  <2>12. \A i \in DOMAIN parsed' : parsed'[i] = sent'[i].obj
    BY <1>1, <1>4, <2>10, <2>11 DEF x
  <2>13. incoming'.store = {EntryOf(sent'[i]) : i \in 1 .. Len(parsed')}
    BY <1>1, <1>4, <2>8, <2>10, <2>11 DEF x
  <2>14. Len(parsed') <= Len(sent')
    <3>1. n + 1 \in 1 .. Len(sent)
      <4>1. sent \in Seq([key : Key, obj : Object, at : 0 .. Len(buf)])
        BY DEF TypeOK
      <4> QED BY <2>1, <4>1
    <3>2. n + 1 <= Len(sent)
      BY <1>3, <3>1
    <3> QED BY <1>1, <2>10, <3>2
  <2>15. incoming'.type = outgoing'.type
    BY <1>1, <1>4, <2>8
  <2>16. pos' = EndOf(sent', Len(parsed'))
    BY <1>1, <2>6, <2>10
  <2>17. ParserFollows'
    BY <2>12, <2>13, <2>14, <2>15, <2>16 DEF ParserFollows
  <2> QED BY <2>6, <2>17 DEF ArrivesUnchanged
<1>6. CASE ~ (bytes_left > 0)
  <2>1. EndMessage /\ bytes_left = 0
    BY <1>6 DEF ReadObject, RejectObject, ObjectThrows, EndMessage
  <2>2. n = Len(sent)
    BY <1>3, <2>1
  <2>3. outgoing.store # {} /\ outgoing.store = EntriesOf(sent)
    BY <1>1 DEF EncoderInv, PayloadComplete, Arrived
  <2>4. incoming.store = outgoing.store
    <3>1. DOMAIN sent = 1 .. Len(sent)
      BY DEF TypeOK
    <3> QED BY <1>4, <2>2, <2>3, <3>1 DEF EntriesOf
  <2>5. phase' = "accepted" /\ incoming' = incoming
    BY <2>1, <2>3, <2>4 DEF EndMessage, parser
  <2>6. incoming = outgoing
    BY <1>4, <2>4 DEF TypeOK, Message
  <2>7. incoming' = outgoing'
    BY <1>1, <2>5, <2>6
  <2> QED BY <2>5, <2>7 DEF ParserFollows, ArrivesUnchanged
<1> QED
    BY <1>5, <1>6

LEMMA FollowStep ==
    ASSUME TypeOK, ParserInv, EncoderInv, ParserFollows, ArrivesUnchanged, [Next]_vars
    PROVE  ParserFollows' /\ ArrivesUnchanged'
<1>1. CASE Compose \/ SetObject \/ BeginSerialize \/ RunOffTheEnd \/ WriteNothing
           \/ Transmit \/ ReceiveForeign
  <2>1. phase' \in {"composing", "writing", "undefined", "received"}
    BY <1>1 DEF Compose, SetObject, BeginSerialize, RunOffTheEnd, WriteNothing, MissesObject,
                Transmit, ReceiveForeign
  <2> QED BY <2>1 DEF ParserFollows, ArrivesUnchanged
<1>2. CASE WriteObject
    BY <1>2, WriteObjectStep DEF ParserFollows, ArrivesUnchanged
<1>3. CASE CheckFails
  <2>1. phase' = "assert failed" /\ outgoing' = outgoing /\ ~ check(outgoing)
    BY <1>3 DEF CheckFails, encoder
  <2>2. ~ check(outgoing)'
    BY <2>1 DEF check
  <2> QED BY <2>1, <2>2 DEF ParserFollows, ArrivesUnchanged
<1> QED
    BY <1>1, <1>2, <1>3, HeaderStep, ReadStep, FollowUnchanged DEF Next, Parse

-----------------------------------------------------------------------------
(* The invariants *)

LEMMA Initially == Init => IInv
<1> SUFFICES ASSUME Init PROVE IInv
    OBVIOUS
<1>1. NoMessage.type = 0 /\ NoMessage.store = {} /\ NoMessage \in Message
    BY DEF NoMessage, Message
<1>2. TypeOK
  <2>1. /\ <<>> \in Seq(Key) /\ <<>> \in Seq(Nat) /\ <<>> \in Seq(Object) /\ Len(<<>>) = 0
        /\ <<>> \in Seq([key : Key, obj : Object, at : 0 .. Len(<<>>)])
    OBVIOUS
  <2>2. /\ phase = "idle" /\ outgoing = NoMessage /\ incoming = NoMessage /\ todo = <<>>
        /\ size = 0 /\ sent = <<>> /\ buf = <<>> /\ pos = 0 /\ bytes_read = 0
        /\ errlist = FALSE /\ parsed = <<>>
    BY DEF Init
  <2>3. pos \in 0 .. Len(buf) /\ bytes_read \in 0 .. Len(buf)
    BY <2>1, <2>2
  <2>4. sent \in Seq([key : Key, obj : Object, at : 0 .. Len(buf)])
    BY <2>1, <2>2, Zenon
  <2>5. todo \in Seq(Key) /\ parsed \in Seq(Object) /\ buf \in Seq(Nat)
    BY <2>1, <2>2, Zenon
  <2>6. errlist \in BOOLEAN /\ size \in Nat /\ phase \in Phases /\ phase # "composing"
    BY <2>2 DEF Phases
  <2> QED BY <1>1, <2>2, <2>3, <2>4, <2>5, <2>6, Zenon DEF TypeOK
<1>3. ParserInv
  <2>1. Keeps(incoming.store, parsed)
    BY <1>1, EmptyKeeps DEF Init
  <2>2. StoreKeepsObjects /\ IpapsCounted
    BY <2>1, KeepsMeans
  <2> QED BY <1>1, <2>2, EmptyStore DEF Init, ParserInv, ParserIdle
<1>4. EncoderInv
    BY <1>1, NothingSent, EmptyStore
    DEF Init, EncoderInv, Composition, ToBeSet, ToBeWritten, PayloadComplete
<1>5. ParserFollows /\ ArrivesUnchanged
    BY DEF Init, ParserFollows, ArrivesUnchanged
<1> QED
    BY <1>2, <1>3, <1>4, <1>5 DEF IInv

\* The store numbers its objects without gaps, the payload holds what was written
\* object after object, and the parser's position is between two of them: this is
\* preserved by every step of the sender, the peer's parser and other software.
THEOREM Invariance == Spec => []IInv
<1>1. IInv /\ [Next]_vars => IInv'
  <2> SUFFICES ASSUME IInv, [Next]_vars PROVE IInv'
    OBVIOUS
  <2>1. TypeOK /\ ParserInv /\ EncoderInv /\ ParserFollows /\ ArrivesUnchanged
    BY DEF IInv
  <2>2. TypeOK'
    BY <2>1, TypeStep
  <2>3. ParserInv'
    BY <2>1, ParserStep
  <2>4. EncoderInv'
    BY <2>1, EncoderStep
  <2>5. ParserFollows' /\ ArrivesUnchanged'
    BY <2>1, FollowStep
  <2> QED BY <2>2, <2>3, <2>4, <2>5 DEF IInv
<1> QED
    BY <1>1, Initially, PTL DEF Spec

\* The parser never reads past the payload, whatever a peer sent, and makes only
\* messages and objects of registered types.
THEOREM TypeCorrect == Spec => []TypeOK
<1>1. IInv => TypeOK
    BY DEF IInv
<1> QED
    BY <1>1, Invariance, PTL

\* The store of a received message loses none of the objects parsed and merges no
\* two of them, and the IPAP objects are numbered in their order in the payload.
THEOREM ObjectsKept == Spec => []StoreKeepsObjects
<1>1. IInv => StoreKeepsObjects
    BY DEF IInv, ParserInv
<1> QED
    BY <1>1, Invariance, PTL

\* A message of a session that passes check is serialized without an exception,
\* is not refused by the peer, and is accepted as it was composed, if every object
\* fits its length field.
THEOREM MessagesArriveUnchanged == Spec => []ArrivesUnchanged
<1>1. IInv => ArrivesUnchanged
    BY DEF IInv
<1> QED
    BY <1>1, Invariance, PTL
=============================================================================
