------------------------------ MODULE PacketCodec --------------------------------
(***************************************************************************)
(* DEMOCLEPacket and BinaryStream (lib/democle: packet.cpp,                *)
(* binary_stream.h): the bytes in which send_message puts a message and    *)
(* from which the TCP thread gets it.  Writer and reader are two sequences *)
(* of calls that have to agree without any mark in the stream but the      *)
(* lengths, the counts and the tags of types.                              *)
(*                                                                         *)
(* The bytes of a number are its tagged parts: the reader gets a number    *)
(* back from all of its bytes in their order and from nothing else.        *)
(* Characters and doubles are integers here.                               *)
(***************************************************************************)
EXTENDS Integers, Sequences

CONSTANTS
  STREAM_SIZE,  \* the bytes of BinaryStream::buffer
  READ_SIZE     \* what TCPProtocol::run reads at most: the bytes of its own buffer

ASSUME StreamAssumption == STREAM_SIZE \in Nat /\ READ_SIZE \in Nat

\* What the reader makes of bytes that are no number, as a length or a count.
Garbage == -1

\* flexi_type's enum.
_int == 1
_float == 2
_string == 3

(***************************************************************************)
(* Writing: what operator<< and put append to a stream.                    *)
(***************************************************************************)
Bytes(tag, v, n) == [k \in 1 .. n |-> <<tag, v, k>>]

IntBytes(v) == Bytes("int", v, 4)

DoubleBytes(v) == Bytes("double", v, 8)

\* Fault: strings end in a zero.
StrBytesZero(s) == IntBytes(Len(s)) \o [k \in DOMAIN s |-> <<"char", s[k], 1>>] \o Bytes("char", 0, 1)

StrBytes(s) == IntBytes(Len(s)) \o [k \in DOMAIN s |-> <<"char", s[k], 1>>]

TermBytes(t) ==
  IntBytes(t.type) \o
    CASE t.type = _int    -> IntBytes(t.val[1])
      [] t.type = _float  -> DoubleBytes(t.val[1])
      [] t.type = _string -> StrBytes(t.val)

TermsBytes(terms) ==
  LET bytes[n \in 0 .. Len(terms)] ==
        IF n = 0 THEN <<>> ELSE bytes[n - 1] \o TermBytes(terms[n])
  IN  bytes[Len(terms)]

\* The kind of a formula is written as one bit only.
FormulaBytes(a) ==
  StrBytes(a.name) \o IntBytes(IF a.kind = "reactor" THEN 1 ELSE 0)
    \o IntBytes(Len(a.terms)) \o TermsBytes(a.terms)

\* The packet of send_message, before any limit.
Packet(source, dest, a) ==
  Bytes("magic", 0, 4) \o StrBytes(source) \o StrBytes(dest) \o FormulaBytes(a)

\* buffer[len++] does not look at the end of the buffer.
Fits(source, dest, a) == Len(Packet(source, dest, a)) <= STREAM_SIZE

\* Fault: fill is given the size of the buffer instead of the number of bytes read.
BytesReadAll(b) == READ_SIZE

\* The number of bytes that one read gets of a packet.
BytesRead(b) == IF Len(b) <= READ_SIZE THEN Len(b) ELSE READ_SIZE

\* fill copies them, and does not look at the end of its buffer either.
FillFits(b) == BytesRead(b) <= STREAM_SIZE

\* The characters of all the strings of a message.
Characters(source, dest, a) ==
  LET letters[n \in 0 .. Len(a.terms)] ==
        IF n = 0 THEN Len(source) + Len(dest) + Len(a.name)
        ELSE letters[n - 1]
               + (IF a.terms[n].type = _string THEN Len(a.terms[n].val) ELSE 0)
  IN  letters[Len(a.terms)]

(***************************************************************************)
(* Reading: a value and the place in the stream that follows it.           *)
(***************************************************************************)
At(b, i) == IF i \in DOMAIN b THEN b[i] ELSE <<"unset", 0, 0>>

NumberAt(b, i, tag, n) ==
  [val  |-> IF \A k \in 1 .. n : At(b, i + k - 1) = <<tag, At(b, i)[2], k>>
            THEN At(b, i)[2] ELSE Garbage,
   next |-> i + n]

IntAt(b, i) == NumberAt(b, i, "int", 4)

DoubleAt(b, i) == NumberAt(b, i, "double", 8)

StrAt(b, i) ==
  LET length == IntAt(b, i).val IN
    [val  |-> [k \in 1 .. length |-> At(b, i + 3 + k)[2]],
     next |-> i + 4 + (IF length > 0 THEN length ELSE 0)]

\* Fault: a double is read as an integer.
TermAtInts(b, i) ==
  LET type  == IntAt(b, i).val
      value == CASE type = _string -> StrAt(b, i + 4)
                 [] OTHER          -> IntAt(b, i + 4)
  IN  [val  |-> [type |-> type, val |-> IF type = _string THEN value.val ELSE <<value.val>>],
       next |-> value.next]

\* A tag that is none of the three leaves the term as it was made, the number 0.
TermAt(b, i) ==
  LET type  == IntAt(b, i).val
      value == CASE type = _int    -> IntAt(b, i + 4)
                 [] type = _float  -> DoubleAt(b, i + 4)
                 [] type = _string -> StrAt(b, i + 4)
                 [] OTHER          -> [val |-> 0, next |-> i + 4]
  IN  [val  |-> CASE type = _string          -> [type |-> _string, val |-> value.val]
                  [] type \in {_int, _float} -> [type |-> type, val |-> <<value.val>>]
                  [] OTHER                   -> [type |-> _int, val |-> <<value.val>>],
       next |-> value.next]

\* count terms, one after the other.
TermsAt(b, i, count) ==
  LET read[n \in 0 .. count] ==
        IF n = 0 THEN [val |-> <<>>, next |-> i]
        ELSE LET before == read[n - 1]
                 t      == TermAt(b, before.next)
             IN  [val |-> Append(before.val, t.val), next |-> t.next]
  IN  IF count >= 0 THEN read[count] ELSE [val |-> <<>>, next |-> i]

\* A formula that is no reactor is made a belief.
FormulaAt(b, i) ==
  LET name  == StrAt(b, i)
      r     == IntAt(b, name.next)
      count == IntAt(b, r.next)
      terms == TermsAt(b, count.next, count.val)
  IN  [val  |-> [name |-> name.val, kind |-> IF r.val # 0 THEN "reactor" ELSE "belief",
                 terms |-> terms.val],
       next |-> terms.next]

\* The constructor takes the magic number; then the calls of TCPProtocol::run.
Message(b) ==
  LET source == StrAt(b, 5)
      dest   == StrAt(b, source.next)
      a      == FormulaAt(b, dest.next)
  IN  [good   |-> NumberAt(b, 1, "magic", 4).val = 0,
       source |-> source.val, dest |-> dest.val, formula |-> a.val, next |-> a.next]
===============================================================================
