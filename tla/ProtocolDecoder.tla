-------------------------- MODULE ProtocolDecoder --------------------------
(***************************************************************************)
(* synthesize_protocol_events: the DNS and HTTP events made from the first *)
(* bytes of a payload, which the probe cuts off wherever its buffer ends.  *)
(* The payloads are well-formed messages (a DNS message may also arrive    *)
(* with the length prefix of TCP), cut after any number of bytes; what is  *)
(* decoded is compared with what the message says.                         *)
(*                                                                         *)
(* A DNS payload is a sequence of bytes.  An HTTP payload is a sequence of *)
(* tokens, the pieces of text the decoder looks for; a cut inside a token  *)
(* leaves nothing of it that the decoder would find.                       *)
(***************************************************************************)
EXTENDS Integers, Sequences, FiniteSets, SequencesExt

CONSTANTS
  HostLabels,    \* the labels that names are made of, each the sequence of its bytes
  MaxLabels,     \* bound on the labels of a name, besides those it points to
  MaxAnswers,    \* bound on the answers of a DNS message
  PrefixLen,     \* VISHAYA_NET_PAYLOAD_LEN: bytes of a payload that are captured
  Letters,       \* characters that are no space and no end of a line
  Paths,         \* the paths of requests, their hosts, and the phrases of responses,
  HostNames,
  Phrases,
  HeaderFields,  \* what a header may hold before the line of the host,
  Rests          \* and what a message may hold after that line, or after its first

(* The other tokens of an HTTP message.  Those in LineEnds begin with the  *)
(* end of a line; OtherSpelling is a spelling of Host that is not looked   *)
(* for.                                                                    *)
Methods == {"GET ", "POST ", "PUT ", "DELETE ", "HEAD ", "PATCH ", "OPTIONS ", "CONNECT ", "TRACE "}
Space == " "
Version == << "HTTP/", "1.", "1" >>
HostSpellings == << "crlf Host: ", "crlf host: ", "crlf HOST: " >>
OtherSpelling == "crlf hOST: "
LineEnd == "crlf"
LineEnds == {LineEnd, OtherSpelling} \union Range(HostSpellings)
Tokens == Methods \union {Space, "200"} \union Range(Version) \union LineEnds \union Letters

(* Names of hosts have no zero byte in their labels.                       *)
ASSUME DecoderAssumption ==
  /\ MaxLabels \in Nat \ {0} /\ MaxAnswers \in 0 .. 255 /\ PrefixLen \in 1 .. 128
  /\ \A label \in HostLabels : label \in Seq(1 .. 255) /\ Len(label) \in 1 .. 63

(* A header's other fields have each a line of their own.                  *)
ASSUME HttpAssumption ==
  /\ Letters \cap (Methods \union {Space, "200"} \union Range(Version) \union LineEnds) = {}
  /\ Paths \subseteq Seq(Letters) \ {<< >>}
  /\ HostNames \subseteq Seq(Letters) /\ Phrases \subseteq Seq(Letters \union {Space})
  /\ Rests \subseteq Seq(Tokens)
  /\ \A field \in HeaderFields :
       /\ field \in Seq(Tokens \ Range(HostSpellings))
       /\ field # << >> => field[1] \in LineEnds

VARIABLES
  packet,    \* the message: its flow, its payload, and what it says
  captured   \* payload_len: how much of the payload the probe copied

decoderVars == << packet, captured >>

-----------------------------------------------------------------------------
(* DNS, as the decoder reads it; offsets are from 0.  Beyond the captured  *)
(* bytes the buffer holds none of the message.                             *)
Beyond == -1
At(p, i) == IF i < Len(p) THEN p[i + 1] ELSE Beyond
Word(p, i) == 256 * At(p, i) + At(p, i + 1)
Slice(p, from, length) == [i \in 1 .. length |-> At(p, from + i - 1)]
Dot == 46
Joined(name, more) ==
  IF name = << >> \/ more = << >> THEN name \o more ELSE Append(name, Dot) \o more

(* What the parser makes of a name: the name, and the position after it;   *)
(* or no name, and the position where the parsing stopped.                 *)
Parsed(name, pos) == [ok |-> TRUE, name |-> name, pos |-> pos]
Malformed(pos) == [ok |-> FALSE, name |-> << >>, pos |-> pos]

(* What a position makes of a name, given what the positions after it do:  *)
(* the name ends, one more label, a pointer, whose name is in tails, or      *)
(* nothing that can be read.                                               *)
LabelAt(p, tails, labels, pos) ==
  LET byte == At(p, pos)
      after == pos + 1 + byte IN
  CASE byte = 0 -> Parsed(<< >>, pos + 1)
    [] byte \in 1 .. 63 /\ after <= Len(p) ->
         IF labels[after].ok
         THEN Parsed(Joined(Slice(p, pos + 1, byte), labels[after].name), labels[after].pos)
         ELSE labels[after]
    [] byte \in 1 .. 63 /\ after > Len(p) -> Malformed(pos + 1)
    [] byte >= 192 /\ pos + 1 < Len(p) -> Parsed(tails[Word(p, pos) % 16384], pos + 2)
    [] OTHER -> Malformed(pos)

LabelsFrom(p, tails) ==
  LET Labels[pos \in Nat] == LabelAt(p, tails, Labels, pos) IN Labels

(* A name whose pointers may lead to pointers, `left` times more.          *)
NamesFrom(p) ==
  LET Names[left \in 0 .. 16] ==
        IF left = 0 THEN LabelsFrom(p, [pos \in Nat |-> << >>])
        ELSE LabelsFrom(p, [pos \in Nat |-> Names[left - 1][pos].name])
  IN  Names

dns_parse_name(p, pos) == NamesFrom(p)[16][pos]

A == 1
CNAME == 5
TXT == 16

dns_format_rdata(p, type, pos, length) ==
  CASE type = A /\ length = 4 -> Slice(p, pos, 4)
    [] type = CNAME /\ pos < Len(p) -> dns_parse_name(p, pos).name
    [] OTHER -> << >>

Answer(name, type, rdata) == [name |-> name, type |-> type, rdata |-> rdata]

(* The turns of the loop over the answers, which ends where one is cut.    *)
Stopped(read) == [going |-> FALSE, pos |-> read.pos, answers |-> read.answers]
ReadTo(read, pos, answer) ==
  [going |-> TRUE, pos |-> pos, answers |-> Append(read.answers, answer)]
RecordAt(p, owner) ==
  Answer(owner.name, Word(p, owner.pos),
         dns_format_rdata(p, Word(p, owner.pos), owner.pos + 10, Word(p, owner.pos + 8)))

(* Variant of the next definition that lets the data of a record reach     *)
(* past what was captured.  Never used.                                    *)
ReadAnswerReachingPast(p, read) ==
  IF ~ read.going \/ read.pos + 10 > Len(p) THEN Stopped(read)
  ELSE LET owner == dns_parse_name(p, read.pos) IN
       IF owner.pos + 10 > Len(p) THEN Stopped(read)
       ELSE ReadTo(read, owner.pos + 10 + Word(p, owner.pos + 8), RecordAt(p, owner))

ReadAnswer(p, read) ==
  IF ~ read.going \/ read.pos + 10 > Len(p) THEN Stopped(read)
  ELSE LET owner == dns_parse_name(p, read.pos)
           end == owner.pos + 10 + Word(p, owner.pos + 8) IN
       IF owner.pos + 10 > Len(p) \/ end > Len(p) THEN Stopped(read)
       ELSE ReadTo(read, end, RecordAt(p, owner))

Answers(p, pos, n) ==
  LET Turns[k \in 0 .. n] ==
        IF k = 0 THEN [going |-> TRUE, pos |-> pos, answers |-> << >>]
        ELSE ReadAnswer(p, Turns[k - 1])
  IN  Turns[n].answers

Nothing == [kind |-> "none"]

try_decode_dns(flow, p) ==
  IF \/ Len(p) < 12 \/ flow.call \notin {"send", "recv"} \/ flow.transport = "tcp"
     \/ flow.remote # 53 /\ ~(flow.call = "recv" /\ flow.local = 53)
  THEN Nothing
  ELSE LET question == IF Word(p, 4) >= 1 THEN dns_parse_name(p, 12) ELSE Malformed(12) IN
       IF question.name = << >> \/ question.pos + 4 > Len(p) THEN Nothing
       ELSE IF At(p, 2) < 128
            THEN [kind |-> "dns-query", qname |-> question.name, qtype |-> Word(p, question.pos)]
            ELSE [kind |-> "dns-answer", qname |-> question.name, qtype |-> Word(p, question.pos),
                  answers |-> Answers(p, question.pos + 4, Word(p, 6))]

-----------------------------------------------------------------------------
(* HTTP.  find is the first position from `from` on at which a token of    *)
(* the set begins; 0: there is none.                                       *)
find(t, tokens, from) ==
  LET at == { i \in from .. Len(t) : t[i] \in tokens }
  IN  IF at = {} THEN 0 ELSE CHOOSE i \in at : \A j \in at : i <= j

WidthOf(token) ==
  CASE token \in Letters \union {Space, "1"} -> 1
    [] token \in {"1.", LineEnd} -> 2
    [] token = "200" -> 3
    [] token \in {"GET ", "PUT "} -> 4
    [] token \in {"POST ", "HEAD ", "HTTP/"} -> 5
    [] token \in {"PATCH ", "TRACE "} -> 6
    [] token = "DELETE " -> 7
    [] OTHER -> 8
Width(t) == FoldSeq(LAMBDA token, sum : WidthOf(token) + sum, 0, t)

UntilLineEnd(t, from) ==
  LET eol == find(t, LineEnds, from) IN SubSeq(t, from, IF eol = 0 THEN Len(t) ELSE eol - 1)

(* Variant of the next definition that takes a header line of any          *)
(* spelling, the last there is.  Never used.                               *)
HostLast(t) ==
  LET at == { i \in 1 .. Len(t) : t[i] \in Range(HostSpellings) }
  IN  IF at = {} THEN << >>
      ELSE UntilLineEnd(t, 1 + CHOOSE i \in at : \A j \in at : j <= i)

(* The first line that spells it Host, else host, else HOST.               *)
Host(t) ==
  LET spelled == { s \in DOMAIN HostSpellings : find(t, {HostSpellings[s]}, 1) # 0 } IN
  IF spelled = {} THEN << >>
  ELSE LET s == CHOOSE s \in spelled : \A other \in spelled : s <= other
       IN  UntilLineEnd(t, 1 + find(t, {HostSpellings[s]}, 1))

Response(t) ==
  LET sp1 == find(t, {Space}, 1)
      sp2 == IF sp1 = 0 THEN 0 ELSE find(t, {Space}, sp1 + 1) IN
  IF sp2 # sp1 + 2 \/ t[sp1 + 1] # "200" THEN Nothing
  ELSE [kind |-> "http-response", version |-> SubSeq(t, 1, sp1 - 1),
        reason |-> UntilLineEnd(t, sp2 + 1)]

Request(t) ==
  LET space == find(t, {Space}, 2)
      version == UntilLineEnd(t, space + 1) IN
  IF \/ t[1] \notin Methods \/ space \in {0, 2}
     \/ version = << >> \/ version[1] # "HTTP/"
  THEN Nothing
  ELSE [kind |-> "http-request", method |-> t[1], path |-> SubSeq(t, 2, space - 1),
        version |-> version, host |-> Host(t)]

try_decode_http(flow, t) ==
  IF \/ flow.call \notin {"send", "recv"} \/ flow.remote = 53 \/ flow.local = 53
     \/ Width(t) < 12
  THEN Nothing
  ELSE IF t[1] = "HTTP/" /\ t[2] = "1." THEN Response(t) ELSE Request(t)

Synthesized(flow, payload) ==
  LET dns == try_decode_dns(flow, payload)
  IN  IF dns # Nothing THEN dns ELSE try_decode_http(flow, payload)

-----------------------------------------------------------------------------
(* The DNS messages, with what they say and where each part ends.          *)
Written(bytes, says) == [bytes |-> bytes, says |-> says]
Labelled(label, name) ==
  Written(<< Len(label) >> \o label \o name.bytes, Joined(label, name.says))

(* The names of so many labels at most, before one of the ends.            *)
Spelled(ends) ==
  LET Upto[n \in 0 .. MaxLabels] ==
        IF n = 0 THEN ends
        ELSE Upto[n - 1] \union { Labelled(label, name) : label \in HostLabels, name \in Upto[n - 1] }
  IN  Upto[MaxLabels]

NameEnd == Written(<< 0 >>, << >>)
Pointer(at, says) == Written(<< 192 + (at \div 256), at % 256 >>, says)

(* A name is written out, or points to the question or to the owner of the *)
(* answer before.                                                          *)
NamesIn(m) == Spelled({NameEnd, Pointer(12, m.qname), Pointer(m.owner.at, m.owner.name)})

Datum(type, data) == [type |-> type, bytes |-> data.bytes, says |-> data.says]
Data(m) ==
  { Datum(A, Written(<< 1, 2, 3, 4 >>, << 1, 2, 3, 4 >>)),
    Datum(TXT, Written(<< 1, 97 >>, << >>)), Datum(TXT, Written(<< >>, << >>)) }
  \union { Datum(CNAME, name) : name \in NamesIn(m) }

WithAnswer(m, owner, data) ==
  LET bytes == m.bytes \o owner.bytes \o << 0, data.type, 0, 1, 0, 0, 0, 60, 0, Len(data.bytes) >>
                 \o data.bytes
  IN  [m EXCEPT !.bytes = bytes, !.ends = Append(@, Len(bytes)),
                !.answers = Append(@, Answer(owner.says, data.type, data.says)),
                !.owner = [at |-> Len(m.bytes), name |-> owner.says]]

Header(flags, answers) == << 0, 7, flags, 0, 0, 1, 0, answers, 0, 0, 0, 1 >>
Question(flags, count, name) ==
  LET bytes == Header(flags, count) \o name.bytes \o << 0, A, 0, 1 >>
  IN  [bytes |-> bytes, qname |-> name.says, count |-> count, asked |-> Len(bytes),
       answers |-> << >>, ends |-> << >>, owner |-> [at |-> 12, name |-> name.says]]

(* Over TCP a message follows its length; the transport of the flow may    *)
(* not be known yet.                                                       *)
DnsFlow(call, transport) ==
  [call |-> call, remote |-> 53, local |-> 4000, transport |-> transport]
DnsPackets ==
  LET names == Spelled({NameEnd}) \ {NameEnd} IN
  { [is |-> "query", framed |-> framed, flow |-> DnsFlow("send", transport),
     says |-> Question(1, 0, name)] :
      name \in names, framed \in BOOLEAN, transport \in {"udp", "unknown", "tcp"} }
  \union
  { [is |-> "answer", framed |-> framed, flow |-> DnsFlow("recv", transport),
     says |-> Question(129, count, name)] :
      name \in names, framed \in BOOLEAN, transport \in {"udp", "unknown", "tcp"},
      count \in 0 .. MaxAnswers }

IsDns == packet.is \in {"query", "answer"}
Payload ==
  CASE IsDns /\ ~ packet.framed -> packet.says.bytes
    [] IsDns /\ packet.framed ->
         LET length == Len(packet.says.bytes)
         IN  << length \div 256, length % 256 >> \o packet.says.bytes
    [] OTHER -> packet.payload

(* The HTTP messages.                                                      *)
Web == [call |-> "send", remote |-> 80, local |-> 4000, transport |-> "tcp"]
NoHost == "none"
HostField(spelled, host) == IF spelled = NoHost THEN << >> ELSE << spelled >> \o host
RequestText(r) ==
  << r.method >> \o r.path \o << Space >> \o Version
    \o r.before \o HostField(r.spelled, r.host) \o << LineEnd >> \o r.rest
ResponseText(r) == Version \o << Space, "200", Space >> \o r.phrase \o << LineEnd >> \o r.rest

Requests ==
  [method : Methods, path : Paths, before : HeaderFields,
   spelled : Range(HostSpellings) \union {OtherSpelling, NoHost}, host : HostNames, rest : Rests]
Responses == [phrase : Phrases, rest : Rests]
HttpPackets ==
  { [is |-> "request", flow |-> Web, payload |-> RequestText(r), says |-> r] : r \in Requests }
  \union
  { [is |-> "response", flow |-> Web, payload |-> ResponseText(r), says |-> r] : r \in Responses }

DecoderInit ==
  /\ packet \in { dns \in DnsPackets : dns.framed => dns.flow.transport # "udp" } \union HttpPackets
  /\ captured = 0

(* The sender puts one more of the answers it has counted in the header.   *)
Incomplete == packet.is = "answer" /\ Len(packet.says.answers) < packet.says.count
AddAnswer ==
  /\ Incomplete
  /\ \E owner \in NamesIn(packet.says), data \in Data(packet.says) :
       packet' = [packet EXCEPT !.says = WithAnswer(@, owner, data)]
  /\ UNCHANGED captured

CaptureMore ==
  /\ ~ Incomplete
  /\ captured < Len(Payload) /\ (IsDns => captured < PrefixLen)
  /\ captured' = captured + 1
  /\ UNCHANGED packet

DecoderNext == AddAnswer \/ CaptureMore
DecoderSpec == DecoderInit /\ [][DecoderNext]_decoderVars

Synthetic == Synthesized(packet.flow, SubSeq(Payload, 1, captured))

-----------------------------------------------------------------------------
WholeAnswers ==
  Cardinality({ i \in DOMAIN packet.says.ends : packet.says.ends[i] <= captured })

(* However much of a DNS message was captured, the event says exactly what *)
(* is whole in it: nothing before the question is whole, the question, and *)
(* the answers that are whole, names expanded; and nothing is made of a    *)
(* message framed for TCP, even while the transport is not known           *)
(* (protocol_decoder.cpp:175-179).                                         *)
DnsEventIsWhatWasCaptured ==
  IsDns =>
    Synthetic =
      IF packet.framed \/ packet.flow.transport = "tcp" \/ captured < packet.says.asked
      THEN Nothing
      ELSE IF packet.is = "query"
      THEN [kind |-> "dns-query", qname |-> packet.says.qname, qtype |-> A]
      ELSE [kind |-> "dns-answer", qname |-> packet.says.qname, qtype |-> A,
            answers |-> SubSeq(packet.says.answers, 1, WholeAnswers)]

(* The spellings that are looked for before another.                       *)
LookedForBefore(spelled) ==
  { HostSpellings[i] : i \in { i \in 1 .. 3 : \A j \in 1 .. 3 : HostSpellings[j] = spelled => i < j } }

(* A request of which twelve bytes and the beginning of its version were   *)
(* captured is reported with its path whole; its host is the header's, or  *)
(* the part of it that was captured (nothing tells the two apart), or,     *)
(* where the header is not spelled Host, what follows, further on, a       *)
(* spelling that is looked for earlier.  A response is reported once its   *)
(* phrase begins, with as much of the phrase as was captured.              *)
HttpEventExplained ==
  LET t == SubSeq(Payload, 1, captured)
      says == packet.says IN
  /\ packet.is = "request" =>
      LET host == IF says.spelled \in Range(HostSpellings) THEN says.host ELSE << >> IN
      IF captured < 1 + Len(says.path) + 2 \/ Width(t) < 12 THEN Synthetic = Nothing
      ELSE /\ Synthetic.kind = "http-request" /\ Synthetic.method = says.method
           /\ Synthetic.path = says.path /\ IsPrefix(Synthetic.version, Version)
           /\ \/ IsPrefix(Synthetic.host, host)
              \/ \E i \in DOMAIN says.rest : /\ says.rest[i] \in LookedForBefore(says.spelled)
                                             /\ IsPrefix(Synthetic.host, UntilLineEnd(says.rest, i + 1))
           /\ captured = Len(Payload) /\ Range(says.rest) \cap LookedForBefore(says.spelled) = {} =>
                Synthetic.host = host
  /\ packet.is = "response" =>
      IF captured < Len(Version) + 3 \/ Width(t) < 12 THEN Synthetic = Nothing
      ELSE Synthetic.kind = "http-response" /\ Synthetic.version = Version
           /\ IsPrefix(Synthetic.reason, says.phrase)
=============================================================================
