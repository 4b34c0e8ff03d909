----------------------------- MODULE Allowlist ------------------------------
(***************************************************************************)
(* The grammar of the egress allowlist (src/internal/egress/proxy.go):     *)
(* which entries are accepted, which requests an entry admits, and which   *)
(* entry a denial suggests; beside them, what the documentation says that  *)
(* an entry admits.                                                        *)
(*                                                                         *)
(* A text "host:port" is taken apart here as SplitHostPort does: a host is *)
(* the sequence of its labels, where a dot at the start or at the end      *)
(* gives an empty label; a port is a number and whether it is spelled      *)
(* plainly, without sign or leading zero.  Letter case is left out: both   *)
(* sides are lowered.                                                      *)
(***************************************************************************)
EXTENDS Integers, Sequences

CONSTANTS
  Labels,    \* the hostname labels ValidateEntry accepts
  OddLabels, \* labels it refuses, such as "*" and "-x"
  V6         \* IPv6 addresses: one label each, full of colons

Empty == ""

ASSUME LabelsAreApart ==
  /\ Labels \cap V6 = {} /\ OddLabels \cap (Labels \cup V6) = {}
  /\ Empty \notin Labels \cup OddLabels \cup V6

Host ==
  {<<v>> : v \in V6} \cup {h \in Seq(Labels \cup OddLabels \cup {Empty}) : h # <<>>}
\* No colon at all; a colon and nothing; otherwise a number, 0 for "ssh".
NoPort == [n |-> -2, plain |-> TRUE]
EmptyPort == [n |-> -1, plain |-> TRUE]
Port == {NoPort, EmptyPort} \cup [n : Nat, plain : BOOLEAN]
Plain(n) == [n |-> n, plain |-> TRUE]
HttpPort == 80
HttpsPort == 443
DefaultPorts == {HttpPort, HttpsPort}
PortNumbers == 1 .. 65535

IsV6(h) == \E v \in V6 : h = <<v>>

\* br: the host is in brackets.  What follows an IPv6 address without brackets is
\* part of the address.
Text ==
  {t \in [host : Host, br : BOOLEAN, port : Port] : IsV6(t.host) /\ ~t.br => t.port = NoPort}

-----------------------------------------------------------------------------
\* The host begins with a dot, or ends with one.
Dotted(h) == Len(h) > 1 /\ h[1] = Empty
Trim(h) == IF Len(h) > 1 /\ h[Len(h)] = Empty THEN SubSeq(h, 1, Len(h) - 1) ELSE h

\* net.SplitHostPort finds a host and a port.
Splits(t) == t.port # NoPort /\ (IsV6(t.host) => t.br)

\* The host that is compared: brackets stay when the text does not split.
Bracketed(t) == t.br /\ ~Splits(t)

\* Mutant of Asked: a trailing dot stays.
AskedWhole(t) == [host |-> t.host, br |-> Bracketed(t)]

Asked(t) == [host |-> IF Bracketed(t) THEN t.host ELSE Trim(t.host), br |-> Bracketed(t)]
Listed(e) == [host |-> e.host, br |-> Bracketed(e)]

\* strings.HasSuffix: the labels after the dot end the host, behind a dot.
EndsWith(h, suffix) ==
  LET n == Len(suffix) IN
  Len(h) > n /\ SubSeq(h, Len(h) - n + 1, Len(h)) = suffix

\* Mutant of Matches: an entry with a port admits the default ports as well.
MatchesFallingThrough(e, t) ==
  LET port == IF Splits(t) THEN t.port ELSE Plain(HttpsPort)
      host == Asked(t)
  IN \/ Splits(e) /\ e.port # EmptyPort /\ e.port = port /\ host = Listed(e)
     \/ /\ port \in {Plain(n) : n \in DefaultPorts}
        /\ IF Dotted(e.host) /\ ~Bracketed(e)
           THEN ~host.br /\ (host.host = Tail(e.host) \/ EndsWith(host.host, Tail(e.host)))
           ELSE host = Listed(e)

\* Permits, for one entry: a request without a port is taken for port 443.
Matches(e, t) ==
  LET port == IF Splits(t) THEN t.port ELSE Plain(HttpsPort)
      host == Asked(t)
  IN IF Splits(e) /\ e.port # EmptyPort
     THEN e.port = port /\ host = Listed(e)
     ELSE /\ port \in {Plain(n) : n \in DefaultPorts}
          /\ IF Dotted(e.host) /\ ~Bracketed(e)
             THEN ~host.br /\ (host.host = Tail(e.host) \/ EndsWith(host.host, Tail(e.host)))
             ELSE host = Listed(e)

Permits(list, t) == \E e \in list : Matches(e, t)

\* A suffix is judged by what follows its dot.
Bare(h) == IF Dotted(h) THEN Tail(h) ELSE h

\* ValidateEntry accepts the text.
Valid(e) ==
  /\ Splits(e) \/ (e.port = NoPort /\ ~e.br /\ ~IsV6(e.host))
  /\ e.port \in {NoPort, EmptyPort} \/ e.port.n \in PortNumbers
  /\ \/ IsV6(e.host)
     \/ /\ Dotted(e.host) => Len(Bare(e.host)) >= 2
        /\ \A i \in 1 .. Len(Bare(e.host)) : Bare(e.host)[i] \in Labels

\* Mutant of SuggestEntry: the bare host, whatever the port.
SuggestHost(t) == [host |-> Trim(t.host), br |-> FALSE, port |-> NoPort]

SuggestEntry(t) ==
  LET default == t.port \in {Plain(n) : n \in DefaultPorts}
  IN IF Splits(t)
     THEN [host |-> Trim(t.host), br |-> ~default /\ IsV6(t.host),
           port |-> IF default THEN NoPort ELSE t.port]
     ELSE [host |-> Asked(t).host, br |-> t.br, port |-> NoPort]

-----------------------------------------------------------------------------
(* What the documentation says of an entry (proxy.go:26-30, README.md:72). *)

\* The host; or, for a suffix, the host and any subdomain.
Names(e, h) ==
  IF e.host[1] = Empty
  THEN \E k \in 0 .. Len(h) : SubSeq(h, k + 1, Len(h)) = Tail(e.host)
  ELSE h = e.host

\* Ports 80 and 443, or that port only.
Opens(e) == IF e.port \in {NoPort, EmptyPort} THEN DefaultPorts ELSE {e.port.n}

Admits(e, h, n) == Names(e, h) /\ n \in Opens(e)

\* Entries that are accepted and admit nothing: a suffix with a port, which is
\* compared as an exact host, and a port spelled as no request spells it.
Mute(e) ==
  /\ e.port \notin {NoPort, EmptyPort}
  /\ Dotted(e.host) \/ ~e.port.plain

\* Requests whose denial names a remedy that is one.  Not those for an IPv6
\* address on a default port, whose suggestion lacks brackets, nor those with a
\* colon and no port, nor those for a host or a port that no entry may name.
Remediable(t) ==
  /\ t.port = NoPort \/ t.port.n \in PortNumbers
  /\ \/ IsV6(t.host) /\ t.br /\ t.port \notin {NoPort} \cup {Plain(n) : n \in DefaultPorts}
     \/ ~t.br /\ \A i \in 1 .. Len(Trim(t.host)) : Trim(t.host)[i] \in Labels
=============================================================================
