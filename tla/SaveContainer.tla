--------------------------- MODULE SaveContainer ---------------------------
(***************************************************************************)
(* Saved games: the writer that grows a payload item by item               *)
(* (save_writer.c), the codec (save_codec.c), the container around the     *)
(* payload (save_container.c), what may happen to it on its way, and the   *)
(* reader (save_reader.c).                                                 *)
(*                                                                         *)
(* A byte has Base values.  A container is a record of its fields, and a   *)
(* checksum stands for what it was computed from: CRC-32 is taken to tell  *)
(* any two contents apart.                                                 *)
(***************************************************************************)
EXTENDS Integers, Sequences, SequencesExt

CONSTANTS
  Base,           \* the values of a byte, 256
  Items,          \* the items written: [type, value], the value a sequence
  Schemas,        \* the versions of the callers' schemas
  PayloadLimits,  \* the limits of writers and readers
  FirstPayload,   \* the size of the first block of a writer, 64
  ReadSizes,      \* the sizes of the bytes that are read
  MaxItems        \* bound: items written, and items read

-----------------------------------------------------------------------------
(* The codec.                                                                *)

Byte   == 0..Base - 1
Signed == {"i32", "i64"}
Number == {"u8", "u16", "u32", "u64"} \cup Signed
Width(type) == IF type = "u8" THEN 1 ELSE IF type = "u16" THEN 2
               ELSE IF type \in {"u32", "i32"} THEN 4 ELSE 8

\* What each byte of a value weighs, and how many values there are of a width.
Weight[i \in 0..8] == IF i = 0 THEN 1 ELSE Base * Weight[i - 1]
Values(width) == Weight[width]

Stored(value, width) == [i \in 1..width |-> (value \div Weight[i - 1]) % Base]

Loaded(bytes) ==
  LET sum[i \in 0..Len(bytes)] ==
        IF i = 0 THEN 0 ELSE sum[i - 1] + (bytes[i] * Weight[i - 1])
  IN sum[Len(bytes)]

\* Two's complement by the magnitude, without a cast out of range.
SignedBits(value, width) ==
  IF value >= 0 THEN value ELSE ((Values(width) - 1) - (-value)) + 1

SignedValue(bits, width) ==
  IF bits < Values(width) \div 2 THEN bits ELSE -(((Values(width) - 1) - bits) + 1)

Encoded(item) ==
  LET width == Width(item.type)
  IN IF item.type = "bytes" THEN item.value
     ELSE IF item.type = "string" THEN Stored(Len(item.value), 4) \o item.value
     ELSE IF item.type \in Signed THEN Stored(SignedBits(item.value[1], width), width)
     ELSE Stored(item.value[1], width)

AllEncoded(items) ==
  LET bytes[n \in 0..Len(items)] ==
        IF n = 0 THEN <<>> ELSE bytes[n - 1] \o Encoded(items[n])
  IN bytes[Len(items)]

\* What the types of C can hold, and strings up to the largest size of 32 bits.
Numbers(type) ==
  IF type \in Signed
  THEN (Values(Width(type)) \div 2) - Values(Width(type))..(Values(Width(type)) \div 2) - 1
  ELSE 0..Values(Width(type)) - 1

NumberItems == UNION {[type : {type}, value : {<<v>> : v \in Numbers(type)}] : type \in Number}
Texts == {text \in Seq(Byte) : Len(text) < Values(4)}
ValidItems ==
  NumberItems \cup [type : {"bytes"}, value : Seq(Byte)] \cup [type : {"string"}, value : Texts]

ASSUME SaveConstants ==
  /\ Base \in Nat \ {0, 1} /\ FirstPayload \in Nat \ {0} /\ MaxItems \in Nat
  /\ Items \subseteq ValidItems
  /\ PayloadLimits \subseteq Nat /\ Schemas \subseteq Nat /\ ReadSizes \subseteq Nat

-----------------------------------------------------------------------------
VARIABLES
  writer,     \* [initialized, schema, max, capacity, payload]
  written,    \* the items it accepted; not in the code
  container,  \* what it finished, as it comes to the reader
  reader,     \* [initialized, schema, payload, cursor] and, not in the code, [minimum, maximum]
  taken       \* the items that were read; not in the code

saveVars == <<writer, written, container, reader, taken>>

NoWriter == [initialized |-> FALSE, schema |-> 0, max |-> 0, capacity |-> 0, payload |-> <<>>]
NoReader == [initialized |-> FALSE, schema |-> 0, minimum |-> 0, maximum |-> 0,
             payload |-> <<>>, cursor |-> 0]
NoContainer == [present |-> FALSE]

SaveStart ==
  /\ writer = NoWriter /\ written = <<>>
  /\ container = NoContainer
  /\ reader = NoReader /\ taken = <<>>

-----------------------------------------------------------------------------
(* The writer.                                                               *)

WriterInit(schema, max) ==
  /\ ~writer.initialized
  /\ writer' = [NoWriter EXCEPT !.initialized = TRUE, !.schema = schema, !.max = max]
  /\ written' = <<>>
  /\ UNCHANGED <<container, reader, taken>>

WriterRelease ==
  /\ writer.initialized
  /\ writer' = NoWriter /\ written' = <<>>
  /\ UNCHANGED <<container, reader, taken>>

\* aforc_assets_growth_capacity: by half and one more, up to the maximum.
Roomier(size, required, max) ==
  IF size >= required THEN size
  ELSE IF (size \div 2) + 1 > max - size THEN max
  ELSE size + ((size \div 2) + 1)

RoomFor(first, required, max) ==
  LET size[n \in 0..required] ==
        IF n = 0 THEN first ELSE Roomier(size[n - 1], required, max)
  IN size[required]

Capacity(required) ==
  LET first == IF writer.capacity = 0 THEN FirstPayload ELSE writer.capacity
  IN IF required <= writer.capacity THEN writer.capacity
     ELSE RoomFor(IF first > writer.max THEN writer.max ELSE first, required, writer.max)

\* aforc_save_writer_take makes room, and the item is stored in it; a limit or a failing
\* allocation leaves the writer as it was, and so does a string beyond its size.
Take(item, bytes, allocates) ==
  LET required == Len(writer.payload) + Len(bytes)
  IN /\ writer.initialized /\ ~container.present /\ Len(written) < MaxItems
     /\ IF required > writer.max \/ (required > writer.capacity /\ ~allocates)
           \/ (item.type = "string" /\ Len(item.value) >= Values(4))
        THEN UNCHANGED <<writer, written>>
        ELSE /\ writer' = [writer EXCEPT !.payload = @ \o bytes, !.capacity = Capacity(required)]
             /\ written' = Append(written, item)
     /\ UNCHANGED <<container, reader, taken>>

WriteItem(item, allocates) == Take(item, Encoded(item), allocates)

\* An item's bytes read after the block has moved: what is there now is anybody's.
WriteOwn_Stale(type, offset, size, allocates) ==
  LET item == [type |-> type, value |-> SubSeq(writer.payload, offset + 1, offset + size)]
      moved == Len(writer.payload) + Len(Encoded(item)) > writer.capacity
  IN /\ offset + size <= Len(writer.payload)
     /\ Take(item, Encoded(IF moved THEN [item EXCEPT !.value = [i \in DOMAIN @ |-> Base - 1]]
                           ELSE item), allocates)

\* Bytes or a string that lie in the payload itself: their source moves with the block.
WriteOwn(type, offset, size, allocates) ==
  /\ offset + size <= Len(writer.payload)
  /\ LET item == [type |-> type, value |-> SubSeq(writer.payload, offset + 1, offset + size)]
     IN Take(item, Encoded(item), allocates)

-----------------------------------------------------------------------------
(* The container.                                                            *)

Header(c) == <<c.magic, c.version, c.flags, c.schema, c.size, c.payload_sum>>

Sealed(c) == [c EXCEPT !.header_sum = Header(c)]

\* aforc_save_writer_finish; `saved' is what the reader should find, not in the code.
WriterFinish(allocates) ==
  /\ writer.initialized /\ ~container.present /\ allocates
  /\ container' =
       Sealed([present |-> TRUE, whole |-> TRUE, magic |-> TRUE, version |-> 1, flags |-> 0,
               schema |-> writer.schema, size |-> Len(writer.payload),
               payload_sum |-> writer.payload, header_sum |-> <<>>,
               payload |-> writer.payload, touched |-> FALSE, saved |-> written])
  /\ UNCHANGED <<writer, written, reader, taken>>

\* On its way: a field is changed, the file cut or something put behind it.
Damages(c) ==
  {[c EXCEPT !.whole = FALSE], [c EXCEPT !.magic = FALSE], [c EXCEPT !.version = 2],
   [c EXCEPT !.flags = 1], [c EXCEPT !.schema = @ + 1], [c EXCEPT !.size = @ + 1],
   [c EXCEPT !.payload_sum = <<Base>>], [c EXCEPT !.header_sum = <<Base>>],
   [c EXCEPT !.payload = Append(@, 0)]}
  \cup {[c EXCEPT !.payload = Front(c.payload)] : i \in 1..(IF c.payload = <<>> THEN 0 ELSE 1)}
  \cup {[c EXCEPT !.payload[i] = (@ + 1) % Base] : i \in DOMAIN c.payload}

\* Or another program wrote it, with a header that holds together: of a later version,
\* of another schema, or with a size that is not the file's.
Foreign(c) ==
  {Sealed(d) : d \in {[c EXCEPT !.version = 2], [c EXCEPT !.flags = 1],
                      [c EXCEPT !.schema = @ + 1], [c EXCEPT !.size = @ + 1],
                      [c EXCEPT !.payload_sum = <<Base>>]}}

Deliver ==
  /\ container.present /\ ~container.touched /\ ~reader.initialized
  /\ \E c \in Damages(container) \cup Foreign(container) :
       container' = [c EXCEPT !.touched = TRUE]
  /\ UNCHANGED <<writer, written, reader, taken>>

-----------------------------------------------------------------------------
(* The reader.                                                               *)

\* The checks of aforc_save_reader_init, in their order.
OpenStatus(c, limit, minimum, maximum) ==
  IF ~c.whole \/ ~c.magic THEN "format"
  ELSE IF c.header_sum # Header(c) THEN "checksum"
  ELSE IF c.version # 1 THEN "unsupported"
  ELSE IF c.flags # 0 THEN "format"
  ELSE IF c.schema < minimum \/ c.schema > maximum THEN "unsupported"
  ELSE IF c.size > limit THEN "limit"
  ELSE IF c.size # Len(c.payload) THEN "format"
  ELSE IF c.payload_sum # c.payload THEN "checksum"
  ELSE "ok"

ReaderInit(limit, minimum, maximum) ==
  /\ container.present /\ ~reader.initialized /\ minimum <= maximum
  /\ reader' = IF OpenStatus(container, limit, minimum, maximum) # "ok" THEN NoReader
               ELSE [initialized |-> TRUE, schema |-> container.schema,
                     minimum |-> minimum, maximum |-> maximum,
                     payload |-> container.payload, cursor |-> 0]
  /\ taken' = <<>>
  /\ UNCHANGED <<writer, written, container>>

Rest == SubSeq(reader.payload, reader.cursor + 1, Len(reader.payload))
Ahead(size) == SubSeq(Rest, 1, size)

\* aforc_save_reader_take, and the item made of the bytes.
TakeRead(size, item) ==
  /\ reader.initialized /\ Len(taken) < MaxItems
  /\ size <= Len(Rest)
  /\ reader' = [reader EXCEPT !.cursor = @ + size]
  /\ taken' = Append(taken, item)
  /\ UNCHANGED <<writer, written, container>>

\* Too little is left: nothing is read.
ReadNumber(type) ==
  LET bits  == Loaded(Ahead(Width(type)))
      value == IF type \in Signed THEN SignedValue(bits, Width(type)) ELSE bits
  IN TakeRead(Width(type), [type |-> type, value |-> <<value>>])

ReadBytes(size) == TakeRead(size, [type |-> "bytes", value |-> Ahead(size)])

\* A size that is not followed by as many bytes puts the cursor back before the size.
ReadString ==
  LET size == Loaded(Ahead(4))
  IN /\ Len(Rest) >= 4
     /\ \/ TakeRead(4 + size, [type |-> "string", value |-> SubSeq(Rest, 5, 4 + size)])
        \/ /\ reader.initialized /\ Len(Rest) < 4 + size
           /\ UNCHANGED saveVars

SaveNext ==
  \/ \E schema \in Schemas, max \in PayloadLimits : WriterInit(schema, max)
  \/ WriterRelease
  \/ \E allocates \in BOOLEAN :
       \/ \E item \in Items : WriteItem(item, allocates)
       \/ \E type \in {"bytes", "string"}, size \in ReadSizes :
            \E offset \in 0..Len(writer.payload) : WriteOwn(type, offset, size, allocates)
       \/ WriterFinish(allocates)
  \/ Deliver
  \/ \E limit \in PayloadLimits, minimum, maximum \in Schemas :
       ReaderInit(limit, minimum, maximum)
  \/ \E type \in Number : ReadNumber(type)
  \/ \E size \in ReadSizes : ReadBytes(size)
  \/ ReadString

-----------------------------------------------------------------------------
\* A reader is open on the format it knows and on a schema that it asked for.
Understood(c, opened) ==
  /\ c.version = 1 /\ c.flags = 0 /\ opened.schema = c.schema
  /\ opened.minimum <= opened.schema /\ opened.schema <= opened.maximum

(* What is saved comes back: the payload is the encoding of the items that   *)
(* were accepted, own bytes and moved blocks included; a reader accepts a    *)
(* container only with that payload, in a format that it knows and a schema  *)
(* that it asked for, whatever happened to it on its way and whoever wrote   *)
(* it; at any point what was read and what is left make up the payload,      *)
(* failed reads included; and items read by the types they were written with *)
(* are the items.                                                            *)
SaveRoundTrips ==
  /\ writer.initialized =>
       /\ writer.payload = AllEncoded(written)
       /\ Len(writer.payload) <= writer.capacity /\ writer.capacity <= writer.max
  /\ reader.initialized =>
       /\ reader.payload = AllEncoded(container.saved) /\ Understood(container, reader)
       /\ AllEncoded(taken) \o Rest = reader.payload
       /\ (\A i \in DOMAIN taken :
             /\ i \in DOMAIN container.saved
             /\ taken[i].type = container.saved[i].type
             /\ Len(taken[i].value) = Len(container.saved[i].value))
            => IsPrefix(taken, container.saved)
=============================================================================
