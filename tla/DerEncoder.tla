----------------------------- MODULE DerEncoder -----------------------------
(***************************************************************************)
(* The DER encoder (DerEncoder.java, DerOutputStream.java, DerWriter.java, *)
(* RDN.java).  A stream in measuring mode counts bytes instead of writing  *)
(* them, so that the length of a box is known before its contents are      *)
(* written; boxes nest, and so do measurements.                            *)
(*                                                                         *)
(* The calls in progress are a stack of instructions.  Bytes are written   *)
(* in runs [v, n] of n bytes v: content is a run, whatever its size.       *)
(***************************************************************************)
EXTENDS Oid, SequencesExt

CONSTANT INITIAL_LENGTHS_STACK_SIZE  \* 16 in the code

ASSUME StackAssumption == INITIAL_LENGTHS_STACK_SIZE \in Nat \ {0}

Run(v, n) == [v |-> v, n |-> n]
Byte(v) == Run(v, 1)
Runs(bytes) == <<>> \o [i \in DOMAIN bytes |-> Byte(bytes[i])]
Content(v, n) == IF n = 0 THEN <<>> ELSE <<Run(v, n)>>
\* By halves, as there may be many runs.
Size(out) ==
    LET size[i, j \in DOMAIN out] ==
            IF i = j THEN out[i].n
            ELSE LET mid == (i + j) \div 2 IN size[i, mid] + size[mid + 1, j]
    IN  IF out = <<>> THEN 0 ELSE size[1, Len(out)]
Bytes(out) == FlattenSeq([i \in DOMAIN out |-> [j \in 1 .. out[i].n |-> out[i].v]])

-----------------------------------------------------------------------------
(* What can be encoded.                                                    *)
TAG_BOOLEAN == 1
TAG_INTEGER == 2
TAG_BIT_STRING == 3
TAG_OCTET_STRING == 4
TAG_NULL == 5
TAG_OBJECT_ID == 6
TAG_UTF_8_STRING == 12
TAG_UTC_TIME == 23
TAG_GENERALIZED_TIME == 24
TAG_SEQUENCE == 48
TAG_SET == 49
TAG_TBS_CERTIFICATE == 160
EXTENSIONS_TAG == 163

Model(kind, tag, content, parts) ==
    [kind |-> kind, tag |-> tag, content |-> content, parts |-> parts]

\* A value written by DerWriter with its tag and its length.
Value(tag, content) == Model("value", tag, content, <<>>)

\* Bytes that are encoded already.
Encoded(content) == Model("encoded", 0, content, <<>>)

\* An object identifier: its content is the list of its components.
OID(oid) == Model("oid", TAG_OBJECT_ID, oid, <<>>)

\* A model boxed in a tag by DerEncoder.encode.
Boxed(tag, parts) == Model("boxed", tag, <<>>, parts)
wrap(tag, encoder) == Boxed(tag, <<encoder>>)

\* The parts of an RDN are encoded apart, and sorted.
RDN(avas) == Model("rdn", TAG_SET, <<>>, avas)

-----------------------------------------------------------------------------
VARIABLES
    todo,     \* the calls in progress, the innermost first
    streams,  \* the streams in use, the innermost last
    taken,    \* the encodings an RDN has collected
    emitted   \* values emitted so far, measured or written

encoderVars == <<todo, streams, taken, emitted>>

NewStream == [out |-> <<>>, lengths |-> <<>>, index |-> 0]
os == Last(streams)
OtherStreams == Front(streams)

Do(op, m, index) == [op |-> op, m |-> m, index |-> index]
Encode(m) == Do("encode", m, 0)

\* lengthsIndex is index - 1.
isMeasuringLength(s) == s.index > 0

startMeasuringLength(s) ==
    LET room == IF s.lengths = <<>> THEN [i \in 1 .. INITIAL_LENGTHS_STACK_SIZE |-> 0]
                ELSE IF Len(s.lengths) <= s.index
                THEN s.lengths \o [i \in 1 .. Len(s.lengths) |-> 0]
                ELSE s.lengths
    IN  [s EXCEPT !.index = @ + 1, !.lengths = [room EXCEPT ![s.index + 1] = 0]]

addLength(s, length) == [s EXCEPT !.lengths[s.index] = @ + length]

write(s, bytes) ==
    IF isMeasuringLength(s) THEN addLength(s, Size(bytes))
    ELSE [s EXCEPT !.out = @ \o bytes]

putLength(len) ==
    LET octet(k) == Byte((len \div 2 ^ (8 * k)) % 256)
    IN  IF len < 128 THEN <<octet(0)>>
        ELSE IF len < 2 ^ 8 THEN <<Byte(129), octet(0)>>
        ELSE IF len < 2 ^ 16 THEN <<Byte(130), octet(1), octet(0)>>
        ELSE IF len < 2 ^ 24 THEN <<Byte(131), octet(2), octet(1), octet(0)>>
        ELSE <<Byte(132), octet(3), octet(2), octet(1), octet(0)>>

put(tag, content) == <<Byte(tag)>> \o putLength(Size(content)) \o content

\* ByteArrayLexOrder.
compare(a, b) ==
    LET n == IF Len(a) < Len(b) THEN Len(a) ELSE Len(b)
        diff == {i \in 1 .. n : a[i] # b[i]}
        i == CHOOSE j \in diff : \A k \in diff : j <= k
    IN  IF diff = {} THEN Len(a) - Len(b) ELSE a[i] - b[i]

-----------------------------------------------------------------------------
(* The steps.  Call replaces the innermost call by others.                 *)
Call(calls) == todo' = calls \o Tail(todo)
Write(s) == streams' = Append(OtherStreams, s)

\* What a value, an identifier or something encoded already writes, {} if its
\* encoder throws.
Written(m) ==
    CASE m.kind = "value" -> {put(m.tag, m.content)}
      [] m.kind = "encoded" -> {m.content}
      [] m.kind = "oid" -> {put(m.tag, Runs(tmp)) : tmp \in emit(m.content)}

Leaves == {"value", "encoded", "oid"}

EncodeValue ==
    /\ todo # <<>> /\ Head(todo).op = "encode" /\ Head(todo).m.kind \in Leaves
    /\ \E bytes \in Written(Head(todo).m) : Write(write(os, bytes))
    /\ emitted' = emitted + 1
    /\ Call(<<>>)
    /\ UNCHANGED taken

\* DerEncoder.encode, up to the end of the first emit.
EncodeBox ==
    /\ todo # <<>> /\ Head(todo).op = "encode" /\ Head(todo).m.kind \in {"boxed", "rdn"}
    /\ LET m == Head(todo).m
       IN  Call(<<Do("emit", m, 0), Do("finish", m, os.index + 1)>>)
    /\ Write(startMeasuringLength(os))
    /\ UNCHANGED <<taken, emitted>>

\* emit of a model with parts; each AVA of an RDN has a stream of its own.
Emit ==
    /\ todo # <<>> /\ Head(todo).op = "emit"
    /\ LET m == Head(todo).m
       IN  IF m.kind = "rdn"
           THEN /\ Call(FlattenSeq([i \in DOMAIN m.parts |->
                           <<Do("tmp", m, 0), Encode(m.parts[i]), Do("take", m, 0)>>])
                        \o <<Do("sorted", m, 0)>>)
                /\ taken' = <<>>
           ELSE /\ Call([i \in DOMAIN m.parts |-> Encode(m.parts[i])])
                /\ UNCHANGED taken
    /\ UNCHANGED <<streams, emitted>>

Tmp ==
    /\ todo # <<>> /\ Head(todo).op = "tmp"
    /\ streams' = Append(streams, NewStream)
    /\ Call(<<>>)
    /\ UNCHANGED <<taken, emitted>>

Take ==
    /\ todo # <<>> /\ Head(todo).op = "take"
    /\ taken' = Append(taken, os.out)
    /\ streams' = OtherStreams
    /\ Call(<<>>)
    /\ UNCHANGED emitted

\* A mutant: the encodings are written in the order of the list.
Unsorted ==
    /\ todo # <<>> /\ Head(todo).op = "sorted"
    /\ Write(write(os, FlattenSeq(taken)))
    /\ Call(<<>>)
    /\ UNCHANGED <<taken, emitted>>

Sorted ==
    /\ todo # <<>> /\ Head(todo).op = "sorted"
    /\ LET sorted == SortSeq(taken, LAMBDA a, b : compare(Bytes(a), Bytes(b)) < 0)
       IN  Write(write(os, FlattenSeq(sorted)))
    /\ Call(<<>>)
    /\ UNCHANGED <<taken, emitted>>

\* A mutant: the contents are emitted again while an outer box is measured.
FinishByEmitting ==
    /\ todo # <<>> /\ Head(todo).op = "finish"
    /\ Head(todo).index = os.index
    /\ LET m == Head(todo).m
           length == os.lengths[os.index]
       IN  /\ Write(write([os EXCEPT !.index = @ - 1], <<Byte(m.tag)>> \o putLength(length)))
           /\ Call(<<Do("emit", m, 0)>>)
    /\ UNCHANGED <<taken, emitted>>

\* The rest of DerEncoder.encode: the second emit only if this one is written.
Finish ==
    /\ todo # <<>> /\ Head(todo).op = "finish"
    /\ Head(todo).index = os.index
    /\ LET m == Head(todo).m
           length == os.lengths[os.index]
           s == write([os EXCEPT !.index = @ - 1], <<Byte(m.tag)>> \o putLength(length))
       IN  IF isMeasuringLength(s)
           THEN Write(addLength(s, length)) /\ Call(<<>>)
           ELSE Write(s) /\ Call(<<Do("emit", m, 0)>>)
    /\ UNCHANGED <<taken, emitted>>

EncoderStep == EncodeValue \/ EncodeBox \/ Emit \/ Tmp \/ Take \/ Sorted \/ Finish

\* An encoder throws, or finishMeasuringLength finds another measurement.
EncoderThrows ==
    /\ todo # <<>>
    /\ \/ /\ Head(todo).op = "encode" /\ Head(todo).m.kind \in Leaves
          /\ Written(Head(todo).m) = {}
       \/ Head(todo).op = "finish" /\ Head(todo).index # os.index
=============================================================================
