----------------------------------- MODULE Wire -----------------------------------
(***************************************************************************)
(* A message on its way from one process to another                        *)
(* (TCPProtocol::send_message and TCPProtocol::run): the URL of its sender *)
(* and the packet that carries the URL, the name of the addressee and the  *)
(* formula.  The name of the sender and the formula may grow without end,  *)
(* one character and one term at a time.                                   *)
(***************************************************************************)
EXTENDS UrlParse, PacketCodec

CONSTANT Numbers  \* integers and doubles in the terms of a message

VARIABLES
  sender,  \* the process of the sender, as [protocol, host, port], and its name
  dest,    \* the name of the addressee
  formula

wireVars == <<sender, dest, formula>>

\* An object of flexi_type, reduced to the member of its type.
Term ==
  [type : {_int, _float}, val : {<<n>> : n \in Numbers}]
  \cup [type : {_string}, val : Seq(Chars)]

Formula ==
  [name : Seq(Chars), kind : {"belief", "reactor", "procedure"}, terms : Seq(Term)]

Sender ==
  [protocol : Seq(Letters), host : Seq(Letters), port : Seq(Letters), name : Seq(Chars)]

WireInit ==
  /\ sender \in Sender /\ sender.name = <<>>
  /\ dest \in Seq(Chars)
  /\ formula \in Formula /\ formula.terms = <<>>

NameGrows(c) ==
  /\ sender' = [sender EXCEPT !.name = Append(@, c)]
  /\ UNCHANGED <<dest, formula>>

FormulaGrows(t) ==
  /\ formula' = [formula EXCEPT !.terms = Append(@, t)]
  /\ UNCHANGED <<sender, dest>>

WireNext == (\E c \in Chars : NameGrows(c)) \/ (\E t \in Term : FormulaGrows(t))

WireSpec == WireInit /\ [][WireNext]_wireVars

-------------------------------------------------------------------------------
source == SourceUrl(sender.protocol, sender.host, sender.port, sender.name)

packet == Packet(source, dest, formula)

\* The reader gets what the writer put, for terms of any types in any order, and
\* stops where the packet ends: nothing of a packet is taken for a part of the next
\* field.  Of the kinds of formulas only beliefs and reactors come back; a procedure
\* comes back as a belief (packet.cpp:28-97, tcp_protocol.cpp:118-126, 158-162).
MessageReturns ==
  LET kind == IF formula.kind = "reactor" THEN "reactor" ELSE "belief" IN
    Message(packet) =
      [good |-> TRUE, source |-> source, dest |-> dest,
       formula |-> [formula EXCEPT !.kind = kind], next |-> Len(packet) + 1]

\* c.sender() of a received message, used as the destination of the answer, is parsed
\* into the process and the agent that sent it (tcp_protocol.cpp:119-129, 158,
\* url.cpp:14-53): SourceUrlParses after the way through the packet.
AnswerFindsSender ==
  LET url_ == Parse(Message(packet).source) IN
    /\ url_.is_good
    /\ url_.host = LowerCase(sender.host) /\ url_.port = sender.port /\ url_.path = sender.name

\* How long a message may be: 24 bytes, at most 12 for each term, and the characters
\* of all strings.  Nothing looks at the end of the buffer when a packet is written, or
\* when the receiver, which may read more bytes than the buffer has, fills its own; so
\* this is what an agent has to keep to, and it keeps the receiver safe as well
\* (binary_stream.h:13-71, tcp_protocol.cpp:112-118).
ShortMessagesFit ==
  24 + 12 * Len(formula.terms) + Characters(source, dest, formula) <= STREAM_SIZE
    => Fits(source, dest, formula) /\ FillFits(packet)

\* A URL without a port is taken apart in the same way, but only if the name of the
\* agent has no colon, which would be taken for that of a port (url.cpp:31-40).
PortlessUrlIsParsed ==
  PortlessUrlParses(sender.protocol, sender.host, sender.name)
    <=> \A i \in DOMAIN sender.name : sender.name[i] # ":"
===============================================================================
