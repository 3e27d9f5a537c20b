------------------------------ MODULE WireCodec ------------------------------
(***************************************************************************)
(* The protobuf codec that ts-proto generated for the client               *)
(* (gen/message.ts, gen/rendezvous.ts): fromPartial, encode and decode.    *)
(*                                                                         *)
(* Every message type has code of the same shape: fromPartial fills in the *)
(* defaults, encode writes the fields in order and skips the ones at their *)
(* default, decode loops over the tags, assigns what it knows and skips    *)
(* the rest.  A type is therefore given by its table of fields             *)
(* (MessageSchema, RendezvousSchema), and the code by the operators below. *)
(*                                                                         *)
(* A message is a function from fields to nonempty sequences of values:    *)
(* a field that is absent is at its default, a field that is no list has   *)
(* one value.  The wire is a sequence of records, one per tag; a nested    *)
(* message is a record that holds the records of its body.  The reader and *)
(* writer of @bufbuild/protobuf are external.                              *)
(*                                                                         *)
(* A behaviour carries one or two messages of one type through the codec:  *)
(* Build, Encode, something that happens on the way, Decode.               *)
(***************************************************************************)
EXTENDS Naturals, Sequences, SequencesExt, FieldKinds

CONSTANTS
    Schema,     \* the fields of each message type
    Roots       \* the types that are encoded and decoded

\* Within a type the field numbers differ, and nested types are in the schema.
ASSUME SchemaAssumption ==
    /\ Roots \subseteq DOMAIN Schema
    /\ \A T \in DOMAIN Schema : \A f, g \in DOMAIN Schema[T] :
          /\ Schema[T][f].no = Schema[T][g].no => f = g
          /\ Schema[T][f].of \in DOMAIN Schema \cup {Scalar}

VARIABLES
    type,       \* the root type
    partials,   \* the objects that fromPartial is given, one or two
    phase,      \* "partial", "built", "sent", "arrived", "decoded", "threw"
    messages,   \* what fromPartial made of them
    foreign,    \* whether another implementation encoded them
    wire,       \* the records
    fault,      \* what happened to the records on the way
    result      \* what decode returned

\* The table of the root type.
Fields == Schema[type]

vars == <<type, partials, phase, messages, foreign, wire, fault, result>>

-----------------------------------------------------------------------------
(* Fields.  T is the table of a type: Schema of its name.                  *)

IsList(fd) == fd.card \in {"repeated", "packed"}
Union(T) == {f \in DOMAIN T : T[f].card = "oneof"}
Packs(T) == {f \in DOMAIN T : T[f].card = "packed"}

Empty == [f \in {} |-> <<>>]
Only(f, vs) == [g \in {f} |-> vs]
Without(m, F) == [g \in DOMAIN m \ F |-> m[g]]
With(m, f, vs) == [g \in DOMAIN m \cup {f} |-> IF g = f THEN vs ELSE m[g]]

\* Scalars: the default, another value, a bigint that 64 bits do not hold.
Zero == "0"
Some == "a"
Over == "over"

AtDefault(fd, vs) == vs = <<>> \/ (fd.card = "implicit" /\ vs = <<Zero>>)

-----------------------------------------------------------------------------
(* fromPartial: undefined becomes the default, nested objects are built in *)
(* turn, and a union whose member is undefined is left undefined.          *)

RECURSIVE FromPartial(_, _)
FromPartial(T, p) ==
    LET Built(fd, v) == IF fd.of = Scalar THEN v ELSE FromPartial(Schema[fd.of], v)
    IN  [f \in {g \in DOMAIN p : ~AtDefault(T[g], p[g])} |->
            [i \in DOMAIN p[f] |-> Built(T[f], p[f][i])]]

-----------------------------------------------------------------------------
(* encode.                                                                 *)

Record(no, wt, body) == [no |-> no, wt |-> wt, body |-> body]

\* The fields are written by number; the switch over a union stands where
\* its first member would.
Order(T, f) ==
    IF f \notin Union(T) THEN T[f].no
    ELSE CHOOSE n \in {T[g].no : g \in Union(T)} :
            \A g \in Union(T) : n <= T[g].no

\* mutant: no check
TooBigNever(fd, v) == FALSE

\* BigInt.asUintN(64, v) !== v (or asIntN): the value would be truncated.
TooBig(fd, v) == fd.big /\ v = Over

\* encode throws, here or in a nested call.
RECURSIVE Throws(_, _)
Throws(T, m) ==
    \E f \in DOMAIN m : \E i \in DOMAIN m[f] :
        IF T[f].of = Scalar THEN TooBig(T[f], m[f][i]) ELSE Throws(Schema[T[f].of], m[f][i])

\* A value of 64 bits or fewer is written as it is, one beyond them loses
\* its high bits.
OnWire(v) == IF v = Over THEN Some ELSE v

\* The records of fields F of m, in order.  A list of enums is written in
\* one packed record even when it is empty; a foreign encoder may write one
\* record for each element, and writes nothing for no element.
RECURSIVE Encoded(_, _, _), EncodeFields(_, _, _, _)
EncodeFields(T, m, F, packing) ==
    IF F = {} THEN <<>>
    ELSE LET f == CHOOSE g \in F : \A h \in F : Order(T, g) <= Order(T, h)
             fd == T[f]
             vs == IF f \in DOMAIN m THEN m[f] ELSE <<>>
             body(v) == IF fd.of = Scalar THEN <<OnWire(v)>> ELSE Encoded(Schema[fd.of], v, packing)
             records == IF fd.card = "packed" /\ packing
                        THEN <<Record(fd.no, Delimited, vs)>>
                        ELSE [i \in DOMAIN vs |->
                                Record(fd.no, IF fd.card = "packed" THEN Varint ELSE fd.wt,
                                       body(vs[i]))]
         IN  records \o EncodeFields(T, m, F \ {f}, packing)

Encoded(T, m, packing) ==
    EncodeFields(T, m, DOMAIN m \cup IF packing THEN Packs(T) ELSE {}, packing)

-----------------------------------------------------------------------------
(* decode.                                                                 *)

\* The case of the switch whose tag this is.
WireTypesOf(fd) == IF fd.card = "packed" THEN {Varint, Delimited} ELSE {fd.wt}
Matches(fd, r) == fd.no = r.no /\ r.wt \in WireTypesOf(fd)

\* mutant: the other member stays
PutKeepsUnion(T, m, f, vs) ==
    LET fd == T[f]
        old == IF f \in DOMAIN m THEN m[f] ELSE <<>>
        new == IF IsList(fd) THEN old \o vs ELSE vs
    IN  IF AtDefault(fd, new) THEN Without(m, {f}) ELSE With(m, f, new)

\* The assignment of a case: a list grows, a union is replaced with its
\* member, a nested message is replaced and not merged.
Put(T, m, f, vs) ==
    LET fd == T[f]
        old == IF f \in DOMAIN m THEN m[f] ELSE <<>>
        others == IF f \in Union(T) THEN Without(m, Union(T)) ELSE Without(m, {f})
        new == IF IsList(fd) THEN old \o vs ELSE vs
    IN  IF AtDefault(fd, new) THEN others ELSE With(others, f, new)

\* mutant: an unknown field ends the call
StopsAtUnknown(r) == TRUE

\* mutant: no tag ends the call
StopsNever(r) == FALSE

\* (tag & 7) === 4 || tag === 0, after the switch: this call of decode ends.
Stops(r) == r.wt = EndGroup \/ (r.no = 0 /\ r.wt = 0)

\* One call of decode, from message m on: the message it returns and the
\* records it leaves to its caller.  A nested call that stops early leaves the
\* rest of its body to the caller's loop.
RECURSIVE Decode(_, _, _)
Decode(T, m, w) ==
    IF w = <<>> THEN [msg |-> m, rest |-> <<>>]
    ELSE LET r == Head(w)
             known == {f \in DOMAIN T : Matches(T[f], r)}
             f == CHOOSE g \in known : TRUE
             of == T[f].of
             inner == Decode(Schema[of], Empty, r.body)
         IN  IF known = {} /\ Stops(r) THEN [msg |-> m, rest |-> Tail(w)]
             ELSE IF known = {} THEN Decode(T, m, Tail(w))
             ELSE IF of = Scalar THEN Decode(T, Put(T, m, f, r.body), Tail(w))
             ELSE Decode(T, Put(T, m, f, <<inner.msg>>), inner.rest \o Tail(w))

-----------------------------------------------------------------------------
(* The objects given to fromPartial.                                       *)

\* The values of a field, nested objects being empty.
ValuesOf(fd) ==
    LET one == IF fd.of # Scalar THEN {Empty}
               ELSE {Zero, Some} \cup IF fd.big THEN {Over} ELSE {}
        typical == IF fd.of # Scalar THEN Empty ELSE Some
    IN  {<<>>} \cup {<<v>> : v \in one} \cup IF IsList(fd) THEN {<<typical, typical>>} ELSE {}

\* At most one field set.
Small(T) ==
    {Empty} \cup UNION {{Only(f, vs) : vs \in ValuesOf(T[f])} : f \in DOMAIN T}
\* One nested object with at most one field set.
Deep(T) ==
    UNION {{Only(f, <<v>>) : v \in Small(Schema[T[f].of])} :
              f \in {g \in DOMAIN T : T[g].of # Scalar}}
\* One field with an ordinary value.
Plain(T) ==
    {Only(f, <<IF T[f].of = Scalar THEN Some ELSE Empty>>) : f \in DOMAIN T}
\* Two fields with an ordinary value, at most one of the union.
Wide(T) ==
    {With(Only(f, <<IF T[f].of = Scalar THEN Some ELSE Empty>>),
          g, <<IF T[g].of = Scalar THEN Some ELSE Empty>>) :
        <<f, g>> \in {h \in (DOMAIN T) \X (DOMAIN T) :
                        /\ T[h[1]].no < T[h[2]].no
                        /\ ~({h[1], h[2]} \subseteq Union(T))}}

Inputs(T) ==
    {<<p>> : p \in Small(T) \cup Deep(T) \cup Wide(T)} \cup (Plain(T) \X (Plain(T) \cup {Empty}))

-----------------------------------------------------------------------------
Init ==
    /\ type \in Roots
    /\ partials \in Inputs(Fields)
    /\ foreign \in BOOLEAN
    /\ phase = "partial" /\ fault = "none"
    /\ messages = <<>> /\ wire = <<>> /\ result = Empty

Build ==
    /\ phase = "partial"
    /\ messages' = [i \in DOMAIN partials |-> FromPartial(Fields, partials[i])]
    /\ phase' = "built"
    /\ UNCHANGED <<type, partials, foreign, wire, fault, result>>

\* The client's own encoder.  Two messages encoded after one another are
\* what a sender makes that adds to a message it has already written.
Encode ==
    /\ phase = "built" /\ ~foreign
    /\ IF \E i \in DOMAIN messages : Throws(Fields, messages[i])
       THEN phase' = "threw" /\ UNCHANGED wire
       ELSE /\ phase' = "sent"
            /\ wire' = FlattenSeq([i \in DOMAIN messages |-> Encoded(Fields, messages[i], TRUE)])
    /\ UNCHANGED <<type, partials, foreign, messages, fault, result>>

\* The encoder of the peer: it does not pack its lists and does not skip
\* fields at their default.  It has no value beyond 64 bits to write.
EncodeForeign ==
    /\ phase = "built" /\ foreign
    /\ \A i \in DOMAIN messages : ~Throws(Fields, messages[i])
    /\ phase' = "sent"
    /\ wire' = FlattenSeq([i \in DOMAIN partials |-> Encoded(Fields, partials[i], FALSE)])
    /\ UNCHANGED <<type, partials, foreign, messages, fault, result>>

Arrives == phase = "sent" /\ phase' = "arrived"
           /\ UNCHANGED <<type, partials, foreign, messages, result>>

Deliver == Arrives /\ UNCHANGED <<wire, fault>>

\* A newer peer: a record with a number this schema does not have, or with
\* a number it has and another wire type, at the top or in a nested body.
Unknown == 4095
WireTypes == {0, 1, 2, 5}
Aliens(T, w) ==
    {Record(Unknown, wt, <<Some>>) : wt \in WireTypes}
      \cup {r \in {Record(w[i].no, wt, <<Some>>) : i \in DOMAIN w, wt \in WireTypes} :
              \A f \in DOMAIN T : ~Matches(T[f], r)}
Nests(T, r) == \E f \in DOMAIN T : T[f].of # Scalar /\ Matches(T[f], r)
NewFields ==
    /\ Arrives /\ Len(partials) = 1 /\ foreign
    /\ \/ \E i \in 0 .. Len(wire), r \in Aliens(Fields, wire) : wire' = InsertAt(wire, i + 1, r)
       \/ \E i \in DOMAIN wire : \E j \in 0 .. Len(wire[i].body) :
             /\ Nests(Fields, wire[i])
             /\ wire' = [wire EXCEPT ![i].body = InsertAt(@, j + 1, Record(Unknown, 0, <<Some>>))]
    /\ fault' = "alien"

\* An end-group tag or a zero tag stands before a record, at the top or in a
\* nested body.  Left out: a rest of a body whose records would be read there as
\* another kind of field (text as a message, a message as text), which depends on
\* single bytes.
StopTags == {Record(0, 0, <<>>), Record(Unknown, EndGroup, <<>>)}
SameKind(fd, gd) == (fd.of = Scalar) = (gd.of = Scalar) /\ (fd.card = "packed") = (gd.card = "packed")
Readable(T, r) ==
    \A f \in DOMAIN Fields : Matches(Fields[f], r) =>
        \A g \in DOMAIN T : Matches(T[g], r) => SameKind(Fields[f], T[g])
StopTag ==
    /\ Arrives /\ Len(partials) = 1
    /\ \E r \in StopTags : \E i \in DOMAIN wire :
          \/ wire' = InsertAt(wire, i, r)
          \/ \E f \in DOMAIN Fields : \E j \in 1 .. Len(wire[i].body) + 1 :
                /\ Fields[f].of # Scalar /\ Matches(Fields[f], wire[i])
                /\ \A k \in j .. Len(wire[i].body) : Readable(Schema[Fields[f].of], wire[i].body[k])
                /\ wire' = [wire EXCEPT ![i].body = InsertAt(@, j, r)]
    /\ fault' = "stop"

\* The receiver's decode.  Frames arrive whole (WebSocket), so its reader does
\* not run out of bytes.
DecodeFrame ==
    /\ phase = "arrived"
    /\ phase' = "decoded"
    /\ result' = Decode(Fields, Empty, wire).msg
    /\ UNCHANGED <<type, partials, foreign, messages, wire, fault>>

Next == Build \/ Encode \/ EncodeForeign \/ Deliver \/ NewFields \/ StopTag \/ DecodeFrame

Spec == Init /\ [][Next]_vars

-----------------------------------------------------------------------------
(* Properties.                                                             *)

\* What one message of the type is made of, whatever decode does: no field is
\* at its default and the union has one member at most.
RECURSIVE WellFormed(_, _)
WellFormed(T, m) ==
    /\ \A f \in DOMAIN m :
          /\ ~AtDefault(T[f], m[f])
          /\ IsList(T[f]) \/ Len(m[f]) = 1
          /\ T[f].of = Scalar \/ \A i \in DOMAIN m[f] : WellFormed(Schema[T[f].of], m[f][i])
    /\ \A f, g \in DOMAIN m : {f, g} \subseteq Union(T) => f = g

HasOver(T, m) ==
    \E f \in DOMAIN m : T[f].of = Scalar /\ Over \in Range(m[f])

\* A message that is encoded is decoded to itself, by whichever encoder, and
\* the client's encoder refuses exactly the bigints that 64 bits do not hold:
\* it never sends another value in their place (encode and decode of every
\* type of gen/message.ts and gen/rendezvous.ts).
RoundTrip ==
    /\ phase = "decoded" /\ fault = "none" /\ Len(partials) = 1 => result = messages[1]
    /\ phase = "threw" /\ fault = "none" =>
          \/ HasOver(Fields, messages[1])
          \/ \E f \in DOMAIN messages[1] : \E i \in DOMAIN messages[1][f] :
                Fields[f].of # Scalar /\ HasOver(Schema[Fields[f].of], messages[1][f][i])

\* A peer of a later version is understood: fields this client does not know,
\* at the top or inside a nested message, leave every field it knows as sent
\* (the default branch of every decode, reader.skip).
NewerPeer ==
    fault = "alien" /\ phase # "arrived" => phase = "decoded" /\ result = messages[1]

\* Two messages written one after the other decode to the later value of each
\* field: lists are joined, a union holds only the member written last, and a
\* nested message is replaced as a whole.
LastWins ==
    phase = "decoded" /\ Len(partials) = 2 =>
        LET m == messages[1]
            n == messages[2]
            hidden == IF DOMAIN n \cap Union(Fields) # {} THEN Union(Fields) \ DOMAIN n ELSE {}
        IN  /\ WellFormed(Fields, result)
            /\ DOMAIN result = (DOMAIN m \ hidden) \cup DOMAIN n
            /\ \A f \in DOMAIN result :
                  result[f] = IF f \notin DOMAIN n THEN m[f]
                              ELSE IF f \in DOMAIN m /\ IsList(Fields[f]) THEN m[f] \o n[f]
                              ELSE n[f]

\* The records of w that are field f of table T.
RecordsOf(T, f, w) == SelectSeq(w, LAMBDA r : Matches(T[f], r))
\* The records in front of the stop tag of w, and those behind it.
Ahead(w) == SubSeq(w, 1, SelectInSeq(w \o <<Record(0, 0, <<>>)>>, LAMBDA r : r \in StopTags) - 1)
Behind(w) == SubSeq(w, Len(Ahead(w)) + 2, Len(w))
\* What w holds of field f of message m once it ends at its stop tag.
UpToStop(T, f, m, w) ==
    LET n == Len(RecordsOf(T, f, Ahead(w)))
        vs == IF f \in DOMAIN m THEN m[f] ELSE <<>>
    IN  IF n = Len(RecordsOf(T, f, w)) THEN vs ELSE SubSeq(vs, 1, n)
\* Field f of a decoded message.
Got(m, f) == IF f \in DOMAIN m THEN m[f] ELSE <<>>
\* The nested bodies of the frame, and the records behind a stop tag in one.
Bodies == {i \in DOMAIN wire : Nests(Fields, wire[i])}
Spilt == UNION {Range(Behind(wire[i].body)) : i \in Bodies}
\* Field f may come from such a record, or give way to one.
Disturbed(f) ==
    \E r \in Spilt, g \in DOMAIN Fields :
        Matches(Fields[g], r) /\ (g = f \/ {f, g} \subseteq Union(Fields))

\* A stop tag ends the message it stands in and no other: at the top, what stands
\* before it is decoded as sent and what follows is not; in a nested message the
\* same holds of that message, and every other field is as sent, but for this:
\* decode returns into the middle of the nested body, so that its caller takes
\* the rest for fields of its own, which are the only ones not sent as such
\* (the break behind the switch of every decode).
StopTagEnds ==
    fault = "stop" /\ phase = "decoded" =>
        /\ WellFormed(Fields, result)
        /\ \A f \in DOMAIN Fields :
              \/ Disturbed(f)
              \/ Fields[f].of = Scalar /\ Got(result, f) = UpToStop(Fields, f, messages[1], wire)
              \/ /\ Fields[f].of # Scalar
                 /\ Len(Got(result, f)) = Len(UpToStop(Fields, f, messages[1], wire))
                 /\ \A i \in DOMAIN Got(result, f) :
                       LET N == Schema[Fields[f].of]
                       IN  \A g \in DOMAIN N :
                             Got(result[f][i], g) =
                               UpToStop(N, g, messages[1][f][i], RecordsOf(Fields, f, wire)[i].body)

=============================================================================
