-------------------------------- MODULE UrlParse ---------------------------------
(***************************************************************************)
(* url::parse (lib/democle/url.cpp): a destination of a message is either  *)
(* the plain name of an agent or the URL of an agent of some process.      *)
(* TCPProtocol::send_message writes such a URL as the sender of a message, *)
(* and a plan answers by giving it back as a destination: Messaging takes  *)
(* the two as inverses, which is what this module is about.                *)
(*                                                                         *)
(* A string is a sequence of characters.                                   *)
(***************************************************************************)
EXTENDS Integers, Sequences

CONSTANTS
  Chars,  \* characters
  Lower   \* tolower, a function on Chars

ASSUME CharAssumption == {":", "/"} \subseteq Chars /\ Lower \in [Chars -> Chars]

ProtEnd == <<":", "/", "/">>

\* A part that the code computes from an iterator past the end of the string.
Undefined == "undefined"

\* The place of the first c in s from place i on, or the place past the end.
Find(s, i, c) ==
  LET places == {j \in i .. Len(s) : s[j] = c}
  IN  IF places = {} THEN Len(s) + 1 ELSE CHOOSE j \in places : \A k \in places : j <= k

\* The place of the first "://", or 0 (std::search).
FindProtEnd(s) ==
  LET places == {i \in 1 .. Len(s) - 2 : SubSeq(s, i, i + 2) = ProtEnd}
  IN  IF places = {} THEN 0 ELSE CHOOSE i \in places : \A j \in places : i <= j

LowerCase(s) == [i \in DOMAIN s |-> Lower[s[i]]]

\* Fault: the slash is not skipped.
PathWithSlash(s, path_i) == IF path_i > Len(s) THEN Undefined ELSE SubSeq(s, path_i, Len(s))

\* advance(path_i, 1) and path.assign(path_i, end).
PathFrom(s, path_i) == IF path_i > Len(s) THEN Undefined ELSE SubSeq(s, path_i + 1, Len(s))

NotAUrl == [is_good |-> FALSE, protocol |-> <<>>, host |-> <<>>, port |-> <<>>, path |-> <<>>]

\* Fault: the colon is not skipped.
ParseColon(s) ==
  LET prot_i == FindProtEnd(s)
      host_i == prot_i + 3
      port_i == Find(s, host_i, ":")
      \* Without a port, port_i is the end of the string.
      noPort == port_i > Len(s)
      path_i == Find(s, IF noPort THEN host_i ELSE port_i + 1, "/")
  IN  IF prot_i = 0 THEN NotAUrl
      ELSE [is_good  |-> TRUE,
            protocol |-> LowerCase(SubSeq(s, 1, prot_i - 1)),
            host     |-> LowerCase(SubSeq(s, host_i, (IF noPort THEN path_i ELSE port_i) - 1)),
            port     |-> IF noPort THEN <<>> ELSE SubSeq(s, port_i, path_i - 1),
            path     |-> PathFrom(s, path_i)]

Parse(s) ==
  LET prot_i == FindProtEnd(s)
      host_i == prot_i + 3
      port_i == Find(s, host_i, ":")
      \* Without a port, port_i is the end of the string.
      noPort == port_i > Len(s)
      path_i == Find(s, IF noPort THEN host_i ELSE port_i + 1, "/")
  IN  IF prot_i = 0 THEN NotAUrl
      ELSE [is_good  |-> TRUE,
            protocol |-> LowerCase(SubSeq(s, 1, prot_i - 1)),
            host     |-> LowerCase(SubSeq(s, host_i, (IF noPort THEN path_i ELSE port_i) - 1)),
            port     |-> IF noPort THEN <<>> ELSE SubSeq(s, port_i + 1, path_i - 1),
            path     |-> PathFrom(s, path_i)]

\* send_message: "tcp://" + host + ":" + port + "/" + name.
SourceUrl(protocol, host, port, name) ==
  protocol \o ProtEnd \o host \o <<":">> \o port \o <<"/">> \o name

-------------------------------------------------------------------------------
Letters == Chars \ {":", "/"}

\* A sender's URL, given back as a destination, leads to the process and the agent
\* that sent the message, whatever characters the name of the agent has and even if
\* it is empty; the case of the protocol and of the host is lost and that of the name
\* is kept (url.cpp:27-51, tcp_protocol.cpp:158).
SourceUrlParses(protocol, host, port, name) ==
  Parse(SourceUrl(protocol, host, port, name)) =
    [is_good |-> TRUE, protocol |-> LowerCase(protocol), host |-> LowerCase(host),
     port |-> port, path |-> name]

\* So does a URL without a port, protocol://host/name, if nothing in it is taken for one
\* (url.cpp:31-40).
PortlessUrlParses(protocol, host, name) ==
  LET parts == Parse(protocol \o ProtEnd \o host \o <<"/">> \o name) IN
    parts.host = LowerCase(host) /\ parts.port = <<>> /\ parts.path = name
===============================================================================
