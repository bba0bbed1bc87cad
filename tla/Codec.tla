-------------------------------- MODULE Codec --------------------------------
(***************************************************************************)
(* can_codec: encode() and decode() of the fields of a CAN message, over   *)
(* the MessageDefinition that sender and receiver share.                   *)
(*                                                                         *)
(* A payload is the set of its bits that are 1; an integer is the set of   *)
(* its bits in two's complement, as Dart holds it in 64 bits, and counts   *)
(* steps of the field's resolution.  Physical values are left out, and     *)
(* with them the steps that a double cannot tell apart: the properties     *)
(* speak of fields narrow enough for it (Exact).                           *)
(***************************************************************************)
EXTENDS Integers, Sequences

CONSTANTS
  Case,      (* what an application begins with: [message, values] to be   *)
             (* sent, or [message, data, length] that another device sent  *)
  MaxTrips   (* bound: how often values are encoded and decoded again      *)

Word == 0 .. 63
Byte == 0 .. 7

FieldType ==
  {"unsigned", "signed", "float32", "float64", "string", "lookup", "reserved"}

FieldDefinition ==
  [name : STRING, bitOffset : Nat, bitLength : Nat \ {0}, type : FieldType]

(* transport: 0 single, 1 fast_packet, 2 iso_tp; no definition repeats. *)
MessageDefinition ==
  [pgn : Nat, transport : 0 .. 2, dataLength : Nat, fields : Seq(FieldDefinition)]

Number(bits) == [kind |-> "number", bits |-> bits]
(* A text is the sequence of its code units; only their low bytes matter. *)
Text(units) == [kind |-> "text", units |-> units]
NaN == [kind |-> "nan"]

Value ==
  [kind : {"number"}, bits : SUBSET Word]
    \cup [kind : {"text"}, units : Seq(SUBSET Nat)] \cup {NaN}

(* The fields that encode() and decode() do not skip, by their index. *)
Named(m) == {i \in DOMAIN m.fields : m.fields[i].type # "reserved"}

NameOf(m, i) == m.fields[i].name

(* The names of a definition are keys of a Dart map. *)
NamesDiffer(m) ==
  \A i, j \in Named(m) : NameOf(m, i) = NameOf(m, j) => i = j

Suits(f, v) == IF f.type = "string" THEN v.kind = "text" ELSE v.kind # "text"

ValuesFor(m, values) ==
  /\ DOMAIN values \subseteq {NameOf(m, i) : i \in Named(m)}
  /\ \A i \in Named(m) :
       NameOf(m, i) \in DOMAIN values =>
         /\ values[NameOf(m, i)] \in Value
         /\ Suits(m.fields[i], values[NameOf(m, i)])

ASSUME CaseAssumption ==
  \A c \in Case :
    /\ c.message \in MessageDefinition /\ NamesDiffer(c.message)
    /\ \/ /\ DOMAIN c = {"message", "values"}
          /\ ValuesFor(c.message, c.values)
       \/ /\ DOMAIN c = {"message", "data", "length"}
          /\ c.length \in Nat /\ c.data \subseteq 0 .. 8 * c.length - 1

ASSUME MaxTripsAssumption == MaxTrips \in Nat \ {0}

-----------------------------------------------------------------------------
(* Sentinels. *)

Low(n) == 0 .. n - 1

isNa_OrOor(raw, n) == n < 64 /\ Low(n) \ {0} \subseteq raw

isNa(raw, n) == n < 64 /\ raw = Low(n)

(* All bits but the lowest. *)
isOor(raw, n) == n < 64 /\ raw = Low(n) \ {0}

-----------------------------------------------------------------------------
(* encode() *)

(* A string is written and read by whole bytes. *)
Base(f) == 8 * (f.bitOffset \div 8)
Chars(f) == f.bitLength \div 8

(* The bits of the payload, if it is long enough, that a field is kept in. *)
Cells(f) ==
  IF f.type = "string" THEN Base(f) .. Base(f) + 8 * Chars(f) - 1
  ELSE f.bitOffset .. f.bitOffset + f.bitLength - 1

(* _writeString() pads with 0xFF. *)
CharBits(f, units, i) == IF i < Len(units) THEN units[i + 1] ELSE Byte

Padded(f, units) ==
  {b \in Cells(f) : b % 8 \in CharBits(f, units, (b - Base(f)) \div 8)}

WriteBits_Shifted(f, bits) ==
  {b \in Cells(f) : b - f.bitOffset + 1 \in bits}

(* _writeBits() *)
WriteBits(f, bits) == {b \in Cells(f) : b - f.bitOffset \in bits}

Written(f, v) ==
  IF f.type = "string" THEN Padded(f, v.units) ELSE WriteBits(f, v.bits)

(* The fields whose value is written to bit b. *)
Writers(m, values, b) ==
  {i \in Named(m) : NameOf(m, i) \in DOMAIN values /\ b \in Cells(m.fields[i])}

Encoded_Zeroed(m, values) ==
  {b \in 0 .. 8 * m.dataLength - 1 :
     \E i \in Writers(m, values, b) : b \in Written(m.fields[i], values[NameOf(m, i)])}

(* All bits begin as 1; of two fields at one bit the later one is kept. *)
Encoded(m, values) ==
  {b \in 0 .. 8 * m.dataLength - 1 :
     \A i \in Writers(m, values, b) :
       \/ b \in Written(m.fields[i], values[NameOf(m, i)])
       \/ \E j \in Writers(m, values, b) : j > i}

-----------------------------------------------------------------------------
(* decode() *)

(* _extractBits(): bits past the end of the payload are 0. *)
Extracted(f, data) == {i \in Low(f.bitLength) \cap Word : f.bitOffset + i \in data}

ToSigned_Never(raw, n) == raw

(* _toSigned(); an integer of 64 bits is signed as it is. *)
ToSigned(raw, n) == IF n < 64 /\ n - 1 \in raw THEN raw \cup (n .. 63) ELSE raw

CharAt(f, data, i) == {b \in Byte : Base(f) + 8 * i + b \in data}

(* Trailing 0xFF and 0x00 are cut off. *)
Blank == {Byte, {}}

TextEnd(f, data) ==
  CHOOSE n \in 0 .. Chars(f) :
    /\ n > 0 => CharAt(f, data, n - 1) \notin Blank
    /\ \A i \in n .. Chars(f) - 1 : CharAt(f, data, i) \in Blank

ExtractString(f, data, length) ==
  IF Base(f) + 8 * Chars(f) > 8 * length THEN <<>>
  ELSE [i \in 1 .. TextEnd(f, data) |-> CharAt(f, data, i - 1)]

Omitted(f, data) == isNa(Extracted(f, data), f.bitLength)

DecodedField(f, data, length) ==
  LET raw == Extracted(f, data)
  IN  IF isOor(raw, f.bitLength) THEN NaN
      ELSE CASE f.type = "string" -> Text(ExtractString(f, data, length))
             [] f.type = "signed" -> Number(ToSigned(raw, f.bitLength))
             [] OTHER -> Number(raw)

Present(m, data) == {i \in Named(m) : ~Omitted(m.fields[i], data)}

IndexOf(m, name) == CHOOSE i \in Named(m) : NameOf(m, i) = name

Decoded(m, data, length) ==
  [name \in {NameOf(m, i) : i \in Present(m, data)} |->
     DecodedField(m.fields[IndexOf(m, name)], data, length)]

-----------------------------------------------------------------------------
VARIABLES
  case,     (* what it began with                                          *)
  turn,     (* what is done next, or how it ended: see Turns               *)
  values,   (* the values last decoded, or to be sent                      *)
  data,     (* the payload last encoded, or received                       *)
  length,   (* its bytes                                                   *)
  trips     (* how often values were decoded                               *)

codecVars == <<case, turn, values, data, length, trips>>

Turns == {"encode", "decode", "thrown", "null"}

message == case.message
FromValues == "values" \in DOMAIN case

CodecInit ==
  /\ case \in Case
  /\ turn = IF FromValues THEN "encode" ELSE "decode"
  /\ values = IF FromValues THEN case.values ELSE <<>>
  /\ data = IF FromValues THEN {} ELSE case.data
  /\ length = IF FromValues THEN 0 ELSE case.length
  /\ trips = 0

(* round() throws on NaN, which decode() returns for a value out of range. *)
Encodable == \A name \in DOMAIN values : values[name] # NaN

Encode ==
  /\ turn = "encode" /\ trips < MaxTrips /\ Encodable
  /\ data' = Encoded(message, values)
  /\ length' = message.dataLength
  /\ turn' = "decode"
  /\ UNCHANGED <<case, values, trips>>

EncodeThrows ==
  /\ turn = "encode" /\ trips < MaxTrips /\ ~Encodable
  /\ turn' = "thrown"
  /\ UNCHANGED <<case, values, data, length, trips>>

DecodeShort ==
  /\ turn = "decode" /\ length < message.dataLength
  /\ turn' = "null"
  /\ UNCHANGED <<case, values, data, length, trips>>

Decode ==
  /\ turn = "decode" /\ length >= message.dataLength
  /\ values' = Decoded(message, data, length)
  /\ trips' = trips + 1
  /\ turn' = "encode"
  /\ UNCHANGED <<case, data, length>>

CodecNext == Encode \/ EncodeThrows \/ DecodeShort \/ Decode

CodecSpec == CodecInit /\ [][CodecNext]_codecVars

-----------------------------------------------------------------------------
(* Values have the type of their field, and a payload that was encoded its *)
(* message's length.                                                       *)
CodecTypeOK ==
  /\ turn \in Turns
  /\ ValuesFor(message, values)
  /\ data \subseteq 0 .. 8 * length - 1
  /\ length \in Nat /\ (FromValues => length \in {0, message.dataLength})
  /\ trips \in 0 .. MaxTrips

(* The field lies in the payload, and nothing else does where it lies. *)
Placed(m, i) ==
  /\ Cells(m.fields[i]) \subseteq 0 .. 8 * m.dataLength - 1
  /\ \A j \in Named(m) \ {i} : Cells(m.fields[j]) \cap Cells(m.fields[i]) = {}

(* A double counts the steps of the field one by one. *)
Exact(f) == f.type = "string" \/ f.bitLength <= 48

(* Reserved to say something else, by the code or by the comment it comes  *)
(* with, which differ in signed fields: sentinels.dart:12 reserves the     *)
(* most positive values there, the code the same bits as in an unsigned    *)
(* one, -1 and -2.  All bits but the second are reserved by the comment.   *)
Reserved(f, raw) ==
  LET n == f.bitLength
  IN  \/ isNa(raw, n) \/ isOor(raw, n) \/ raw = Low(n) \ {1}
      \/ f.type = "signed" /\ raw \in {Low(n - 1), Low(n - 1) \ {0}}

(* The value is one that the field is wide enough for, and not reserved.   *)
Speakable(f, v) ==
  LET raw == v.bits \cap Low(f.bitLength)
      top == f.bitLength - 1
  IN  CASE f.type = "string" ->
             /\ f.bitLength >= 64
             /\ Len(v.units) <= Chars(f)
             /\ \A i \in DOMAIN v.units : v.units[i] \subseteq Byte
             /\ v.units # <<>> => v.units[Len(v.units)] \notin Blank
        [] f.type = "signed" ->
             /\ ~Reserved(f, raw)
             /\ v.bits \cap (top .. 63) \in {{}, top .. 63}
        [] OTHER ->
             /\ ~Reserved(f, raw)
             /\ v.bits \subseteq Low(f.bitLength)

(* What encode() was given and could be said is what decode() returns, and *)
(* a number that was not given is not returned, whatever the other fields  *)
(* hold.                                                                   *)
RoundTrip ==
  FromValues /\ trips > 0 =>
    \A i \in Named(message) :
      LET f == message.fields[i]
          name == NameOf(message, i)
      IN  Placed(message, i) /\ Exact(f) =>
            IF name \in DOMAIN case.values
            THEN case.values[name] # NaN /\ Speakable(f, case.values[name])
                   => /\ name \in DOMAIN values
                      /\ values[name] = case.values[name]
            ELSE f.type # "string" => name \notin DOMAIN values

(* A payload that was decoded and is encoded again keeps its numbers, also *)
(* those that are not available, whoever encoded it first.                 *)
NumbersSurvive ==
  [][turn = "encode" /\ turn' = "decode" /\ trips > 0 =>
       \A i \in Named(message) :
         LET f == message.fields[i]
         IN  f.type # "string" /\ Placed(message, i) /\ Exact(f)
               => data' \cap Cells(f) = data \cap Cells(f)]_codecVars
=============================================================================
