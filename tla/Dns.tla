-------------------------------- MODULE Dns --------------------------------
(***************************************************************************)
(* The DNS client (dns.c): the conversion of names, the parsing of answers *)
(* and the course of a query.                                              *)
(*                                                                         *)
(* A message is a sequence of cells, the first being at offset HdrLen from *)
(* its start: a byte of a name, or a whole number field.                   *)
(***************************************************************************)
EXTENDS Integers, Sequences, SequencesExt

CONSTANTS
    Hosts,          \* host names: sequences of characters, without empty labels
    AnswerLists,    \* lists of answers: [type, ip, alias]
    HdrLen,         \* 12
    SignBit,        \* 128: from here on a char is negative
    FirstSize       \* the first size of a decoded name's buffer: 32

DNS_T_A == 1
DNS_T_CNAME == 5
PTR == 192          \* 0xc0
DOT == 46
NULL == 0
Undefined == 1

ASSUME DnsAssumption ==
    /\ FirstSize \in Nat \ {0} /\ HdrLen \in Nat /\ SignBit \in Nat /\ HdrLen < SignBit
    /\ \A l \in AnswerLists : \A i \in 1..Len(l) : l[i].ip \notin {NULL, Undefined}

VARIABLES
    dnsPc,      \* "idle", "recv": waiting in dns_recv
    dnsHost,    \* the host of the query
    dnsQuery,   \* the message sent
    dnsReply,   \* the message received
    dnsRes,     \* the result of dns_query
    dnsIp,      \* what dns_hostbyname returned
    dnsSocks    \* sockets that are open

dnsVars == <<dnsPc, dnsHost, dnsQuery, dnsReply, dnsRes, dnsIp, dnsSocks>>

DnsTypeOK ==
    /\ dnsPc \in {"idle", "recv", "parsed"}
    /\ dnsHost \in Hosts \cup {<<>>}
    /\ dnsSocks \in 0..1

DnsInit ==
    /\ dnsPc = "idle" /\ dnsHost = <<>> /\ dnsQuery = <<>> /\ dnsReply = <<>>
    /\ dnsRes = <<>> /\ dnsIp = NULL /\ dnsSocks = 0

-----------------------------------------------------------------------------
(* Names.                                                                   *)

(* The labels of a host name: host2dns_name counts the characters between the
   dots, and writes the count before them.                                  *)
Labels(host) ==
    LET f[n \in 0..Len(host)] ==
            IF n = 0 THEN <<<<>>>>
            ELSE IF host[n] = DOT THEN Append(f[n - 1], <<>>)
            ELSE [f[n - 1] EXCEPT ![Len(f[n - 1])] = Append(@, host[n])]
    IN f[Len(host)]

Host2Dns(host) ==
    FlattenSeq([i \in 1..Len(Labels(host)) |-> <<Len(Labels(host)[i])>> \o Labels(host)[i]])
        \o <<0>>

(* One turn of the loop of dns2host_name: a pointer is followed; a label is
   copied behind a dot, as far as the buffer, doubled once if need be, goes.
   i is Len(buf); out: a dot went behind the buffer.                        *)
DotBefore(d) == d.n > 0

(* The offset in a pointer is a char, which has a sign: at least SignBit, it is a
   place before the message.                                                *)
Offset(c) == IF c < SignBit THEN c ELSE c - 2 * SignBit

NameStep(msg, d) ==
    IF d.s < 1 \/ d.s > Len(msg) THEN d
    ELSE IF msg[d.s] = 0 THEN d
    ELSE LET n == msg[d.s]
             buf == IF DotBefore(d) THEN Append(d.buf, DOT) ELSE d.buf
             out == d.out \/ (DotBefore(d) /\ Len(d.buf) >= d.size)
         IN IF n = PTR
            THEN [d EXCEPT !.s = Offset(msg[d.s + 1]) - HdrLen + 1, !.n = 0, !.buf = buf, !.out = out]
            ELSE LET size == IF n + Len(buf) + 1 >= d.size THEN 2 * d.size ELSE d.size
                     k == IF Len(buf) >= size THEN 0 ELSE IF Len(buf) + n > size THEN size - Len(buf) ELSE n
                 IN [s |-> d.s + 1 + k, n |-> n, size |-> size, out |-> out,
                     buf |-> buf \o SubSeq(msg, d.s + 1, d.s + k)]

(* What is read before the message: anything.                               *)
Wild == <<"anything">>

(* dns2host_name: as many turns as the message has cells are enough for a name
   that does not point to itself.  The 0 at the end may go behind the buffer too. *)
Dns2Host(msg, s) ==
    LET turn[k \in 0..Len(msg)] ==
            IF k = 0 THEN [s |-> s, buf |-> <<>>, n |-> 0, size |-> FirstSize, out |-> FALSE]
            ELSE NameStep(msg, turn[k - 1])
        d == turn[Len(msg)]
    IN [name |-> IF d.s < 1 THEN Wild ELSE d.buf, out |-> d.out \/ Len(d.buf) >= d.size]

-----------------------------------------------------------------------------
(* Answers.  dns_parse_response takes the name of an answer for a pointer.  *)

NameEnd(msg) == CHOOSE i \in 1..Len(msg) : msg[i] = 0 /\ \A j \in 1..(i - 1) : msg[j] # 0

AnswerAt(msg, p) ==
    LET name == Dns2Host(msg, p)
        alias == IF msg[p + 2] = DNS_T_A THEN [name |-> <<>>, out |-> FALSE] ELSE Dns2Host(msg, p + 6)
    IN [name |-> name.name, type |-> msg[p + 2],
        ip |-> IF msg[p + 2] = DNS_T_A THEN msg[p + 6] ELSE NULL,
        alias |-> alias.name, out |-> name.out \/ alias.out]

(* Faulty variant: dlen counts from its own place.                          *)
NextAnswerShort(msg, p) == p + 5 + msg[p + 5]

NextAnswer(msg, p) == p + 6 + msg[p + 5]

ParseResponse(msg, count) ==
    LET at[i \in 1..(count + 1)] ==
            IF i = 1 THEN NameEnd(msg) + 3 ELSE NextAnswer(msg, at[i - 1])
    IN [i \in 1..count |-> AnswerAt(msg, at[i])]

-----------------------------------------------------------------------------
(* A server's reply (external): the question, and answers whose names point to
   the question; the target of an alias ends in a pointer to the question's
   last label.                                                              *)

LastLabel(host) == HdrLen + Len(Host2Dns(host)) - 2 - Len(Labels(host)[Len(Labels(host))])
AliasCells(host, alias) == SubSeq(Host2Dns(alias), 1, Len(Host2Dns(alias)) - 1) \o <<PTR, LastLabel(host)>>
AnswerCells(host, a) ==
    LET data == IF a.type = DNS_T_A THEN <<a.ip>> ELSE AliasCells(host, a.alias)
    IN <<PTR, HdrLen, a.type, 1, 60, Len(data)>> \o data
ReplyCells(host, answers) ==
    Host2Dns(host) \o <<DNS_T_A, 1>>
        \o FlattenSeq([i \in 1..Len(answers) |-> AnswerCells(host, answers[i])])

-----------------------------------------------------------------------------
(* dns_query for an address, and dns_hostbyname.                            *)

DnsSend(host) ==
    /\ dnsPc = "idle" /\ dnsPc' = "recv"
    /\ dnsHost' = host
    /\ dnsQuery' = Host2Dns(host) \o <<DNS_T_A, 1>>
    /\ dnsSocks' = dnsSocks + 1
    /\ dnsRes' = <<>> /\ dnsIp' = NULL /\ dnsReply' = <<>>

(* A message that is short, has another id, a return code, not one question or
   the wrong type or class, or too many answers, ends the query.            *)
DnsRefuses ==
    /\ dnsPc = "recv" /\ dnsPc' = "idle"
    /\ dnsRes' = <<>> /\ dnsIp' = NULL
    /\ dnsHost' = <<>> /\ dnsQuery' = <<>> /\ dnsReply' = <<>>
    /\ dnsSocks' = dnsSocks - 1

DnsRecv(answers) ==
    /\ dnsPc = "recv" /\ dnsPc' = "parsed"
    /\ dnsReply' = answers
    /\ dnsRes' = ParseResponse(ReplyCells(dnsHost, answers), Len(answers))
    /\ dnsSocks' = dnsSocks - 1
    /\ UNCHANGED <<dnsHost, dnsQuery, dnsIp>>

(* The first address; without any, ip is not initialised.                   *)
FirstAddress(res) ==
    LET S == SelectSeq(res, LAMBDA a : a.type = DNS_T_A) IN IF S = <<>> THEN Undefined ELSE S[1].ip

DnsHostByName ==
    /\ dnsPc = "parsed" /\ dnsPc' = "idle"
    /\ dnsIp' = FirstAddress(dnsRes)
    /\ UNCHANGED <<dnsHost, dnsQuery, dnsReply, dnsRes, dnsSocks>>

DnsNext ==
    \/ \E host \in Hosts : DnsSend(host)
    \/ DnsRefuses
    \/ \E answers \in AnswerLists : DnsRecv(answers)
    \/ DnsHostByName

DnsSpec == DnsInit /\ [][DnsNext]_dnsVars

-----------------------------------------------------------------------------
(* How a name server reads a name: labels up to an empty one.               *)
ServerReads(cells) ==
    LET f[p \in 1..(Len(cells) + 64)] ==
            IF p > Len(cells) THEN <<<<>>>>
            ELSE IF cells[p] = 0 THEN <<<<p>>>>
            ELSE <<SubSeq(cells, p + 1, p + cells[p])>> \o f[p + 1 + cells[p]]
    IN f[1]

(* A label that is longer than what the doubled buffer has left.            *)
Outgrows(host) ==
    \E i \in 1..Len(Labels(host)) : Len(Labels(host)[i]) > FirstSize

(* The server reads from the query the labels of the host, followed at once by
   type and class.                                                          *)
DnsQueryRight ==
    dnsPc = "recv" => ServerReads(dnsQuery) = Labels(dnsHost) \o <<<<Len(dnsHost) + 2>>>>

(* The last label of the name that was asked for is too far for a pointer to it. *)
PointsBefore(host) == LastLabel(host) >= SignBit

(* The answers are those that the server sent, names through pointers included;
   the exceptions are a label that does not fit the buffer doubled once, and a
   pointer of 128 or more, as dns.c:190 adds it as a char.                  *)
DnsAnswersRight ==
    dnsRes # <<>> =>
        /\ Len(dnsRes) = Len(dnsReply)
        /\ \A i \in 1..Len(dnsRes) :
               LET a == dnsReply[i]
                   last == Labels(dnsHost)[Len(Labels(dnsHost))]
               IN /\ dnsRes[i].type = a.type
                  /\ Outgrows(dnsHost) \/ dnsRes[i].name = dnsHost
                  /\ IF a.type = DNS_T_A THEN dnsRes[i].ip = a.ip
                     ELSE \/ Outgrows(dnsHost) \/ Outgrows(a.alias) \/ PointsBefore(dnsHost)
                          \/ dnsRes[i].alias = a.alias \o <<DOT>> \o last

(* dns2host_name writes nothing behind its buffer, but for names with a label that
   is as long as the buffer at first: behind one that ends at size - 1, a label of
   size bytes fills the doubled buffer, and the 0 goes behind it (dns.c:205). *)
Overfills(host) ==
    \E i \in 1..Len(Labels(host)) : Len(Labels(host)[i]) >= FirstSize
DnsNamesFit ==
    \A i \in 1..Len(dnsRes) :
        dnsRes[i].out => \/ Overfills(dnsHost) \/ PointsBefore(dnsHost)
                         \/ dnsReply[i].type # DNS_T_A /\ Overfills(dnsReply[i].alias)

(* dns_hostbyname returns an address that the server sent for this host, also
   behind aliases; when it sent none, something undefined.                  *)
DnsHostRight ==
    dnsPc = "idle" /\ dnsReply # <<>> =>
        \/ \E i \in 1..Len(dnsReply) : dnsReply[i].type = DNS_T_A /\ dnsReply[i].ip = dnsIp
        \/ dnsIp = Undefined /\ \A i \in 1..Len(dnsReply) : dnsReply[i].type # DNS_T_A

(* Every query closes its socket, whatever the server answers.              *)
DnsClosesSocket == dnsPc = "idle" => dnsSocks = 0

(* A name is asked for as it is spelled, and its first address is found among
   aliases and compressed names, inside the buffers; the socket is given back.
   Labels of more than 31 bytes and pointers of 128 or more are exceptions. *)
DnsSafety ==
    /\ DnsTypeOK
    /\ DnsQueryRight
    /\ DnsAnswersRight
    /\ DnsNamesFit
    /\ DnsHostRight
    /\ DnsClosesSocket
=============================================================================
