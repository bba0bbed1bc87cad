------------------------------- MODULE MCCodec -------------------------------
(***************************************************************************)
(* Codec over every message of the two registries: each field at the edges *)
(* of its width, alone and among others, and payloads of other devices.    *)
(***************************************************************************)
EXTENDS Codec, Messages

Registered == Range(Nmea2000Registry) \cup Range(RvcRegistry)

(* The integers of n bits, and those just outside, that matter. *)
EdgesUnsigned(n) ==
  {{}, {0}, {n - 1}, Low(n - 1), Low(n), Low(n) \ {0}, Low(n) \ {1},
   Low(n) \ {0, 1}, (0 .. n) \cap Word}
EdgesSigned(n) ==
  {{}, {0}, Low(n - 1), Low(n - 1) \ {1}, Word, Word \ {0}, Word \ {1}, Word \ {0, 1},
   n - 1 .. 63, {n - 1} \cap Word}

Letter == {0, 6}
LastLetter == {1, 3, 4, 6}
Letters(n) == [i \in 1 .. n |-> IF i = n THEN LastLetter ELSE Letter]

(* Texts: empty, short, full, too long, and with blanks inside and at the  *)
(* end.                                                                    *)
Texts(n) ==
  {<<>>, <<Letter>>, Letters(n), Letters(n + 1), <<{}, Letter>>,
   <<Letter, Byte>>, <<Letter, {}>>, <<Byte>>}

Edges(f) ==
  CASE f.type = "string" -> {Text(t) : t \in Texts(Chars(f))}
    [] f.type = "signed" -> {Number(b) : b \in EdgesSigned(f.bitLength)}
    [] OTHER -> {Number(b) : b \in EdgesUnsigned(f.bitLength)}

Ordinary(f) == IF f.type = "string" THEN Text(<<Letter>>) ELSE Number({})

AmongOthers(m, i, v) ==
  [name \in {NameOf(m, j) : j \in Named(m)} |->
     IF name = NameOf(m, i) THEN v ELSE Ordinary(m.fields[IndexOf(m, name)])]

ToSend(m) ==
  UNION {
    {[message |-> m, values |-> NameOf(m, i) :> v] : v \in Edges(m.fields[i])}
      \cup {[message |-> m, values |-> AmongOthers(m, i, v)] : v \in Edges(m.fields[i])}
    : i \in Named(m)}

(* Payloads as long as the message, one byte shorter, and a whole frame. *)
Lengths(m) == {m.dataLength, m.dataLength - 1, IF m.dataLength < 8 THEN 8 ELSE m.dataLength}

Patterns(bits) ==
  {{}, bits, {b \in bits : b % 2 = 0}, {b \in bits : b % 3 = 0},
   {b \in bits : b % 8 # 0}, {b \in bits : b % 16 < 8}}

Received(m) ==
  UNION {
    {[message |-> m, data |-> p, length |-> n] : p \in Patterns(0 .. 8 * n - 1)}
    : n \in Lengths(m)}

Cases == UNION {ToSend(m) \cup Received(m) : m \in Registered}
=============================================================================
