--------------------------- MODULE RequestsProofs ---------------------------
(***************************************************************************)
(* For every vocabulary of labels, every entry, every target and every     *)
(* lifetime: what a run reaches is listed, what is listed is reached, what *)
(* a denial suggests helps, and a lifetime is the one that was asked for.  *)
(*                                                                         *)
(* Most of it is about the grammar alone: Permits against the documented   *)
(* meaning of an entry (MatchesAdmit, AdmittedMatches), and SuggestEntry   *)
(* against both ValidateEntry and Permits (SuggestionsWork).  The          *)
(* invariant carries it to the run that asks: the answer it got was given  *)
(* by its own list.                                                        *)
(***************************************************************************)
EXTENDS Requests, SequenceTheorems, DurationsProofs

-----------------------------------------------------------------------------
(* Hosts.                                                                  *)

Name == Labels \cup OddLabels \cup {Empty}
Label == Name \cup V6

LEMMA HostIs == \A h : h \in Host <=> IsV6(h) \/ (h \in Seq(Name) /\ h # <<>>)
BY DEF Host, Name, IsV6

\* An IPv6 address is one label.
LEMMA AddressesAreWhole ==
  ASSUME NEW h, IsV6(h)
  PROVE  /\ Trim(h) = h /\ h \in Seq(V6) /\ h # <<>>
         /\ Len(h) = 1 /\ h[1] \in V6 /\ h[1] # Empty /\ h[1] \notin Labels
<1>1. PICK v \in V6 : h = <<v>>
  BY DEF IsV6
<1>2. Len(h) = 1 /\ h[1] = v /\ h \in Seq(V6) /\ h # <<>>
  BY <1>1
<1>3. QED
  BY <1>2, LabelsAreApart DEF Trim

LEMMA HostsAre ==
  ASSUME NEW h \in Host
  PROVE  h \in Seq(Label) /\ Len(h) \in Nat \ {0} /\ h # <<>> /\ h[1] \in Label
<1>1. h \in Seq(Label) /\ h # <<>>
  <2>1. CASE IsV6(h)
    BY <2>1, AddressesAreWhole, SeqMonotonic DEF Label
  <2>2. CASE ~IsV6(h)
    BY <2>2, HostIs, SeqMonotonic DEF Label
  <2>3. QED
    BY <2>1, <2>2
<1>2. QED
  BY <1>1, LenProperties, ElementOfSeq

LEMMA TrimIsHost ==
  ASSUME NEW h \in Host
  PROVE  Trim(h) \in Host /\ (IsV6(Trim(h)) <=> IsV6(h))
<1>1. CASE IsV6(h)
  BY <1>1, AddressesAreWhole
<1>2. CASE ~IsV6(h)
  <2>1. h \in Seq(Name) /\ Len(h) \in Nat \ {0}
    BY <1>2, HostIs, HostsAre
  <2>2. CASE Len(h) > 1 /\ h[Len(h)] = Empty
    <3>1. \A i \in 1 .. Len(h) - 1 : h[i] \in Name
      BY <2>1, ElementOfSeq
    <3>2. PICK s : s = SubSeq(h, 1, Len(h) - 1)
      OBVIOUS
    <3>3. s \in Seq(Name) /\ Len(s) = Len(h) - 1 /\ \A i \in 1 .. Len(h) - 1 : s[i] = h[i]
      BY <2>1, <2>2, <3>1, <3>2, SubSeqProperties
    <3>4. s # <<>>
      <4>1. Len(s) # 0
        BY <2>1, <2>2, <3>3
      <4>2. QED
        BY <4>1, EmptySeq
    <3>5. ~IsV6(s)
      <4>1. s[1] \in Name
        BY <2>1, <2>2, <3>1, <3>3
      <4>2. QED
        BY <4>1, AddressesAreWhole, LabelsAreApart DEF Name
    <3>6. Trim(h) = s
      BY <2>2, <3>2 DEF Trim
    <3>7. QED
      BY <1>2, <3>3, <3>4, <3>5, <3>6, HostIs
  <2>3. QED
    BY <1>2, <2>2 DEF Trim
<1>3. QED
  BY <1>1, <1>2

\* An entry that begins with a dot and has nothing behind it is not accepted.
LEMMA DotsAreSuffixes ==
  ASSUME NEW e \in Text, Valid(e), e.host[1] = Empty
  PROVE  Dotted(e.host)
<1>1. e.host \in Host /\ Len(e.host) \in Nat \ {0}
  BY HostsAre DEF Text
<1>2. ~IsV6(e.host)
  BY <1>1, AddressesAreWhole
<1>3. SUFFICES ASSUME ~Dotted(e.host)
               PROVE  FALSE
  OBVIOUS
<1>4. e.host[1] \in Labels
  <2>1. \A i \in 1 .. Len(e.host) : e.host[i] \in Labels
    BY <1>2, <1>3 DEF Valid, Bare
  <2>2. 1 \in 1 .. Len(e.host)
    BY <1>1
  <2>3. QED
    BY <2>1, <2>2
<1>5. QED
  BY <1>4, LabelsAreApart

\* A suffix names its domain and what ends with a dot and the domain.
LEMMA SuffixesName ==
  ASSUME NEW e \in Text, e.host[1] = Empty, NEW h \in Host
  PROVE  Names(e, h) <=> h = Tail(e.host) \/ EndsWith(h, Tail(e.host))
<1>1. e.host \in Host
  BY DEF Text
<1> DEFINE tail == Tail(e.host)
<1>2. h \in Seq(Label) /\ Len(h) \in Nat \ {0}
  BY HostsAre
<1>3. tail \in Seq(Label) /\ Len(tail) \in Nat
  BY <1>1, HostsAre, HeadTailProperties
<1> HIDE DEF tail
<1>4. ASSUME NEW k \in 0 .. Len(h), SubSeq(h, k + 1, Len(h)) = tail
      PROVE  h = tail \/ EndsWith(h, tail)
  <2>1. CASE k = 0
    BY <1>2, <1>4, <2>1, SubSeqFull
  <2>2. CASE k > 0
    <3>1. Len(tail) = Len(h) - k
      BY <1>2, <1>4, <2>2, SubSeqProperties
    <3>2. Len(h) > Len(tail) /\ Len(h) - Len(tail) + 1 = k + 1
      BY <1>2, <1>3, <2>2, <3>1
    <3>3. QED
      BY <1>4, <3>2 DEF EndsWith
  <2>3. QED
    BY <2>1, <2>2
<1>5. ASSUME h = tail
      PROVE  \E k \in 0 .. Len(h) : SubSeq(h, k + 1, Len(h)) = tail
  <2>1. SubSeq(h, 0 + 1, Len(h)) = tail /\ 0 \in 0 .. Len(h)
    BY <1>2, <1>5, SubSeqFull
  <2>2. QED
    BY <2>1
<1>6. ASSUME EndsWith(h, tail)
      PROVE  \E k \in 0 .. Len(h) : SubSeq(h, k + 1, Len(h)) = tail
  <2>1. Len(h) - Len(tail) \in 0 .. Len(h)
    BY <1>2, <1>3, <1>6 DEF EndsWith
  <2>2. SubSeq(h, (Len(h) - Len(tail)) + 1, Len(h)) = tail
    BY <1>6 DEF EndsWith
  <2>3. QED
    BY <2>1, <2>2
<1>7. QED
  BY <1>4, <1>5, <1>6 DEF Names, tail

\* Every entry names its own host, a suffix too.
LEMMA HostsNameThemselves ==
  ASSUME NEW e \in Text
  PROVE  Names(e, e.host)
<1>1. e.host \in Seq(Label) /\ Len(e.host) \in Nat \ {0} /\ e.host # <<>>
  BY HostsAre DEF Text
<1>2. SubSeq(e.host, 1 + 1, Len(e.host)) = Tail(e.host)
  BY <1>1, TailIsSubSeq
<1>3. 1 \in 0 .. Len(e.host)
  BY <1>1
<1>4. QED
  BY <1>2, <1>3 DEF Names

-----------------------------------------------------------------------------
(* Entries and requests.                                                   *)

LEMMA PortsAre ==
  ASSUME NEW p \in Port
  PROVE  p \in [n : Int, plain : BOOLEAN]
<1>1. NoPort \in [n : Int, plain : BOOLEAN] /\ EmptyPort \in [n : Int, plain : BOOLEAN]
  BY DEF NoPort, EmptyPort
<1>2. p \in [n : Nat, plain : BOOLEAN] => p \in [n : Int, plain : BOOLEAN]
  OBVIOUS
<1>3. QED
  BY <1>1, <1>2 DEF Port

LEMMA TextsAre ==
  ASSUME NEW t \in Text
  PROVE  /\ t.host \in Host /\ t.br \in BOOLEAN /\ t.port \in Port
         /\ t = [host |-> t.host, br |-> t.br, port |-> t.port]
         /\ IsV6(t.host) /\ ~t.br => t.port = NoPort
<1>1. t \in [host : Host, br : BOOLEAN, port : Port] /\ (IsV6(t.host) /\ ~t.br => t.port = NoPort)
  BY Zenon DEF Text
<1>2. QED
  BY <1>1

\* A text that is not taken apart has no port, or brackets.
LEMMA TextsSplit ==
  ASSUME NEW t \in Text
  PROVE  /\ Splits(t) <=> t.port # NoPort
         /\ Bracketed(t) <=> t.br /\ t.port = NoPort
<1>1. IsV6(t.host) /\ ~t.br => t.port = NoPort
  BY TextsAre
<1>2. QED
  BY <1>1 DEF Splits, Bracketed

\* What an accepted entry compares a host with: never a host in brackets.
LEMMA EntriesList ==
  ASSUME NEW e \in Text, Valid(e)
  PROVE  /\ ~Bracketed(e) /\ Listed(e) = [host |-> e.host, br |-> FALSE]
         /\ e.port \in {NoPort, EmptyPort} \/ e.port.n \in PortNumbers
<1>1. Splits(e) \/ (e.port = NoPort /\ ~e.br /\ ~IsV6(e.host))
  BY DEF Valid
<1>2. ~Bracketed(e)
  BY <1>1 DEF Bracketed
<1>3. Bracketed(e) = FALSE
  BY <1>2
<1>4. QED
  BY <1>2, <1>3 DEF Listed, Valid

\* A request's host is compared as it is, unless it has brackets and no port.
LEMMA HostsAsked ==
  ASSUME NEW t, NEW h
  PROVE  Asked(t) = [host |-> h, br |-> FALSE] <=> ~Bracketed(t) /\ Trim(t.host) = h
<1>1. CASE Bracketed(t)
  <2>1. Asked(t).br = TRUE
    BY <1>1 DEF Asked
  <2>2. Asked(t) # [host |-> h, br |-> FALSE]
    BY <2>1
  <2>3. QED
    BY <1>1, <2>2
<1>2. CASE ~Bracketed(t)
  <2>1. Bracketed(t) = FALSE
    BY <1>2
  <2>2. Asked(t) = [host |-> Trim(t.host), br |-> FALSE]
    BY <2>1 DEF Asked
  <2>3. [host |-> Trim(t.host), br |-> FALSE] = [host |-> h, br |-> FALSE] <=> Trim(t.host) = h
    OBVIOUS
  <2>4. QED
    BY <1>2, <2>2, <2>3
<1>3. QED
  BY <1>1, <1>2

\* Matches, in the words of the documentation: an accepted entry matches a request
\* if it names its host, and has no port and the request a default one, or has
\* the port of the request and is no suffix.
Judged(t) == IF t.port = NoPort THEN Plain(HttpsPort) ELSE t.port
Hits(e, t) ==
  /\ ~Bracketed(t)
  /\ \/ /\ e.port \in {NoPort, EmptyPort}
        /\ Judged(t) \in {Plain(n) : n \in DefaultPorts}
        /\ Names(e, Trim(t.host))
     \/ /\ e.port \notin {NoPort, EmptyPort} /\ e.port = Judged(t)
        /\ Trim(t.host) = e.host

LEMMA MatchesIsHits ==
  ASSUME NEW e \in Text, Valid(e), NEW t \in Text
  PROVE  Matches(e, t) <=> Hits(e, t)
<1>1. /\ e.host \in Host /\ t.host \in Host
      /\ Splits(t) <=> t.port # NoPort
      /\ Splits(e) <=> e.port # NoPort
  BY TextsAre, TextsSplit
<1>2. Trim(t.host) \in Host
  BY <1>1, TrimIsHost
<1>3. Listed(e) = [host |-> e.host, br |-> FALSE] /\ ~Bracketed(e)
  BY EntriesList
<1> DEFINE host == Asked(t)
           default == Judged(t) \in {Plain(n) : n \in DefaultPorts}
           named == IF Dotted(e.host)
                    THEN ~host.br /\ (host.host = Tail(e.host) \/ EndsWith(host.host, Tail(e.host)))
                    ELSE host = Listed(e)
<1>4. host = Listed(e) <=> ~Bracketed(t) /\ Trim(t.host) = e.host
  BY <1>3, HostsAsked
<1>5. named <=> ~Bracketed(t) /\ Names(e, Trim(t.host))
  <2>1. CASE Dotted(e.host)
    <3>1. Names(e, Trim(t.host)) <=>
            Trim(t.host) = Tail(e.host) \/ EndsWith(Trim(t.host), Tail(e.host))
      BY <1>2, <2>1, SuffixesName DEF Dotted
    <3>2. (host.br <=> Bracketed(t)) /\ (~Bracketed(t) => host.host = Trim(t.host))
      BY DEF Asked
    <3>3. QED
      BY <2>1, <3>1, <3>2
  <2>2. CASE ~Dotted(e.host)
    <3>1. e.host[1] # Empty
      BY <2>2, DotsAreSuffixes
    <3>2. Names(e, Trim(t.host)) <=> Trim(t.host) = e.host
      BY <3>1 DEF Names
    <3>3. QED
      BY <1>4, <2>2, <3>2
  <2>3. QED
    BY <2>1, <2>2
<1>6. (IF Splits(t) THEN t.port ELSE Plain(HttpsPort)) = Judged(t)
  BY <1>1 DEF Judged
<1>7. Matches(e, t) <=>
        IF Splits(e) /\ e.port # EmptyPort
        THEN e.port = Judged(t) /\ host = Listed(e)
        ELSE default /\ named
  BY <1>3, <1>6, Zenon DEF Matches
<1> HIDE DEF default, host, named
<1>8. Matches(e, t) <=>
        IF e.port \notin {NoPort, EmptyPort}
        THEN e.port = Judged(t) /\ ~Bracketed(t) /\ Trim(t.host) = e.host
        ELSE default /\ ~Bracketed(t) /\ Names(e, Trim(t.host))
  BY <1>1, <1>4, <1>5, <1>7
<1>9. QED
  BY <1>8, Zenon DEF Hits, default

LEMMA PortsSent ==
  ASSUME NEW t \in Text, NEW method \in Methods
  PROVE  /\ t.port # NoPort => SentTo(t, method) = t.port.n
         /\ t.port = NoPort => SentTo(t, method) \in {HttpPort, 0}
BY TextsSplit DEF SentTo

\* What an accepted entry lets through is what it admits by the documented grammar.
LEMMA MatchesAdmit ==
  ASSUME NEW e \in Text, Valid(e), NEW t \in Text, NEW method \in Methods,
         Matches(e, t), SentTo(t, method) # 0
  PROVE  \/ Admits(e, Trim(t.host), SentTo(t, method))
         \/ t.port = NoPort /\ Admits(e, Trim(t.host), HttpsPort)
<1>1. Hits(e, t)
  BY MatchesIsHits
<1>2. CASE e.port \in {NoPort, EmptyPort}
  <2>1. Names(e, Trim(t.host)) /\ \E n \in DefaultPorts : Judged(t) = Plain(n)
    BY <1>1, <1>2 DEF Hits
  <2>2. SentTo(t, method) \in DefaultPorts
    <3>1. CASE t.port = NoPort
      BY <3>1, PortsSent DEF DefaultPorts
    <3>2. CASE t.port # NoPort
      <4>1. PICK n \in DefaultPorts : t.port = Plain(n)
        BY <2>1, <3>2 DEF Judged
      <4>2. t.port.n = n
        BY <4>1 DEF Plain
      <4>3. QED
        BY <3>2, <4>2, PortsSent
    <3>3. QED
      BY <3>1, <3>2
  <2>3. QED
    BY <1>2, <2>1, <2>2 DEF Admits, Opens
<1>3. CASE e.port \notin {NoPort, EmptyPort}
  <2>1. e.port = Judged(t) /\ Trim(t.host) = e.host
    BY <1>1, <1>3 DEF Hits
  <2>2. Names(e, Trim(t.host))
    BY <2>1, HostsNameThemselves
  <2>3. Admits(e, Trim(t.host), e.port.n)
    BY <1>3, <2>2 DEF Admits, Opens
  <2>4. CASE t.port = NoPort
    <3>1. e.port.n = HttpsPort
      BY <2>1, <2>4 DEF Judged, Plain
    <3>2. QED
      BY <2>3, <2>4, <3>1
  <2>5. CASE t.port # NoPort
    <3>1. e.port.n = t.port.n
      BY <2>1, <2>5 DEF Judged
    <3>2. QED
      BY <2>3, <2>5, <3>1, PortsSent
  <2>6. QED
    BY <2>4, <2>5
<1>4. QED
  BY <1>2, <1>3

\* What an accepted entry admits by the documented grammar is let through, unless
\* the entry is mute, or the request is for an address without a port, or spells
\* its port oddly.
LEMMA AdmittedMatches ==
  ASSUME NEW e \in Text, Valid(e), ~Mute(e), NEW t \in Text, NEW method \in Methods,
         ~Bracketed(t), t.port.plain,
         Admits(e, Trim(t.host), IF t.port = NoPort THEN HttpsPort ELSE SentTo(t, method))
  PROVE  Matches(e, t)
<1>1. PICK n : n = Judged(t).n
  OBVIOUS
<1>2. Judged(t) = Plain(n)
  <2>1. CASE t.port = NoPort
    BY <1>1, <2>1 DEF Judged, Plain
  <2>2. CASE t.port # NoPort
    <3>1. t.port \in [n : Int, plain : BOOLEAN]
      BY TextsAre, PortsAre
    <3>2. t.port.plain = TRUE
      BY <3>1
    <3>3. t.port = [n |-> t.port.n, plain |-> TRUE]
      BY <3>1, <3>2
    <3>4. QED
      BY <1>1, <2>2, <3>3 DEF Judged, Plain
  <2>3. QED
    BY <2>1, <2>2
<1>3. Names(e, Trim(t.host)) /\ n \in Opens(e)
  <2>1. (IF t.port = NoPort THEN HttpsPort ELSE SentTo(t, method)) = n
    BY <1>1, PortsSent DEF Judged, Plain
  <2>2. QED
    BY <2>1 DEF Admits
<1>4. CASE e.port \in {NoPort, EmptyPort}
  <2>1. Judged(t) \in {Plain(m) : m \in DefaultPorts}
    BY <1>2, <1>3, <1>4 DEF Opens
  <2>2. QED
    BY <1>3, <1>4, <2>1, MatchesIsHits DEF Hits
<1>5. CASE e.port \notin {NoPort, EmptyPort}
  <2>1. ~Dotted(e.host) /\ e.port.plain /\ e.port.n = n
    BY <1>3, <1>5 DEF Mute, Opens
  <2>2. e.port = Plain(n)
    <3>1. e.port \in [n : Int, plain : BOOLEAN]
      BY TextsAre, PortsAre
    <3>2. e.port.plain = TRUE
      BY <2>1, <3>1
    <3>3. QED
      BY <2>1, <3>1, <3>2 DEF Plain
  <2>3. Trim(t.host) = e.host
    <3>1. e.host[1] # Empty
      BY <2>1, DotsAreSuffixes
    <3>2. QED
      BY <1>3, <3>1 DEF Names
  <2>4. QED
    BY <1>2, <1>5, <2>2, <2>3, MatchesIsHits DEF Hits
<1>6. QED
  BY <1>4, <1>5

\* What a denial suggests is a text.
Default(t) == t.port \in {Plain(n) : n \in DefaultPorts}

LEMMA SuggestionsAre ==
  ASSUME NEW t \in Text
  PROVE  /\ t.port # NoPort /\ Default(t) =>
              SuggestEntry(t) = [host |-> Trim(t.host), br |-> FALSE, port |-> NoPort]
         /\ t.port # NoPort /\ ~Default(t) =>
              SuggestEntry(t) = [host |-> Trim(t.host), br |-> IsV6(t.host), port |-> t.port]
         /\ t.port = NoPort =>
              SuggestEntry(t) = [host |-> Asked(t).host, br |-> t.br, port |-> NoPort]
<1>1. Splits(t) <=> t.port # NoPort
  BY TextsSplit
<1>2. CASE t.port = NoPort
  BY <1>1, <1>2, Zenon DEF SuggestEntry
<1>3. CASE t.port # NoPort /\ Default(t)
  <2>1. Default(t) = TRUE
    BY <1>3, Zenon DEF Default
  <2>2. (~Default(t) /\ IsV6(t.host)) = FALSE
    BY <1>3
  <2>3. SuggestEntry(t) = [host |-> Trim(t.host), br |-> ~Default(t) /\ IsV6(t.host),
                           port |-> NoPort]
    BY <1>1, <1>3, Zenon DEF SuggestEntry, Default
  <2>4. QED
    BY <1>3, <2>2, <2>3
<1>4. CASE t.port # NoPort /\ ~Default(t)
  <2>1. (~Default(t) /\ IsV6(t.host)) = IsV6(t.host)
    BY <1>4 DEF IsV6
  <2>2. SuggestEntry(t) = [host |-> Trim(t.host), br |-> ~Default(t) /\ IsV6(t.host),
                           port |-> t.port]
    BY <1>1, <1>4, Zenon DEF SuggestEntry, Default
  <2>3. QED
    BY <1>4, <2>1, <2>2
<1>5. QED
  BY <1>2, <1>3, <1>4

LEMMA TextIs ==
  ASSUME NEW h \in Host, NEW br \in BOOLEAN, NEW p \in Port, IsV6(h) /\ ~br => p = NoPort
  PROVE  [host |-> h, br |-> br, port |-> p] \in Text
BY Zenon DEF Text

LEMMA SuggestionIsText ==
  ASSUME NEW t \in Text
  PROVE  SuggestEntry(t) \in Text
<1>1. /\ t.host \in Host /\ t.br \in BOOLEAN /\ t.port \in Port
      /\ IsV6(t.host) /\ ~t.br => t.port = NoPort
  BY TextsAre
<1>2. Trim(t.host) \in Host /\ (IsV6(Trim(t.host)) <=> IsV6(t.host))
  BY <1>1, TrimIsHost
<1>3. NoPort \in Port
  BY DEF Port
<1>4. Asked(t).host \in Host
  BY <1>1, <1>2 DEF Asked
<1>5. IsV6(t.host) \in BOOLEAN
  BY DEF IsV6
<1>6. CASE t.port = NoPort
  BY <1>1, <1>3, <1>4, <1>6, TextIs, SuggestionsAre
<1>7. CASE t.port # NoPort /\ Default(t)
  BY <1>2, <1>3, <1>7, TextIs, SuggestionsAre
<1>8. CASE t.port # NoPort /\ ~Default(t)
  BY <1>1, <1>2, <1>5, <1>8, TextIs, SuggestionsAre
<1>9. QED
  BY <1>6, <1>7, <1>8

\* Hosts of acceptable labels are no addresses and no suffixes.
LEMMA NamesAre ==
  ASSUME NEW h \in Host, \A i \in 1 .. Len(h) : h[i] \in Labels
  PROVE  ~IsV6(h) /\ ~Dotted(h) /\ h[1] # Empty /\ Bare(h) = h
<1>1. 1 \in 1 .. Len(h)
  BY HostsAre
<1>2. h[1] \in Labels
  BY <1>1
<1>3. h[1] # Empty /\ ~IsV6(h)
  BY <1>2, AddressesAreWhole, LabelsAreApart
<1>4. ~Dotted(h)
  BY <1>3 DEF Dotted
<1>5. QED
  BY <1>3, <1>4 DEF Bare

\* The entry that a denial suggests is accepted, and admits the request.
LEMMA SuggestionsWork ==
  ASSUME NEW t \in Text, Remediable(t)
  PROVE  Valid(SuggestEntry(t)) /\ Matches(SuggestEntry(t), t)
<1>1. PICK e : e = SuggestEntry(t)
  OBVIOUS
<1>2. e \in Text
  BY <1>1, SuggestionIsText
<1>3. t.host \in Host /\ Trim(t.host) \in Host /\ (IsV6(Trim(t.host)) <=> IsV6(t.host))
  BY TextsAre, TrimIsHost
<1>4. Splits(e) <=> e.port # NoPort
  BY <1>2, TextsSplit
<1>5. t.port = NoPort \/ t.port.n \in PortNumbers
  BY Zenon DEF Remediable
<1>6. SUFFICES Valid(e) /\ Hits(e, t)
  BY <1>1, <1>2, MatchesIsHits
<1>7. CASE IsV6(t.host) /\ t.br /\ t.port # NoPort /\ ~Default(t)
  <2>1. e = [host |-> Trim(t.host), br |-> IsV6(t.host), port |-> t.port]
    BY <1>1, <1>7, SuggestionsAre
  <2>2. e.host = Trim(t.host) /\ e.port = t.port
    BY <2>1
  <2>3. Valid(e)
    BY <1>3, <1>4, <1>5, <1>7, <2>2, Zenon DEF Valid
  <2>4. t.port # EmptyPort
    <3>1. -1 \notin PortNumbers /\ EmptyPort.n = -1
      BY SMT DEF PortNumbers, EmptyPort
    <3>2. QED
      BY <1>5, <1>7, <3>1
  <2>5. ~Bracketed(t)
    BY <1>7, TextsSplit
  <2>6. QED
    BY <1>7, <2>2, <2>3, <2>4, <2>5 DEF Hits, Judged
<1>8. CASE ~t.br /\ \A i \in 1 .. Len(Trim(t.host)) : Trim(t.host)[i] \in Labels
  <2>1. ~IsV6(t.host) /\ ~Dotted(Trim(t.host)) /\ Bare(Trim(t.host)) = Trim(t.host)
    BY <1>3, <1>8, NamesAre
  <2>2. ~Bracketed(t) /\ Asked(t).host = Trim(t.host) /\ t.br = FALSE /\ IsV6(t.host) = FALSE
    <3>1. ~Bracketed(t)
      BY <1>8, TextsSplit
    <3>2. t.br = FALSE /\ IsV6(t.host) = FALSE
      BY <1>8, <2>1, TextsAre
    <3>3. QED
      BY <3>1, <3>2 DEF Asked
  <2>3. e.host = Trim(t.host) /\ e.br = FALSE
    BY <1>1, <2>2, SuggestionsAre
  <2>4. e.port = IF t.port = NoPort \/ Default(t) THEN NoPort ELSE t.port
    BY <1>1, SuggestionsAre
  <2>5. Valid(e)
    <3>1. Splits(e) \/ (e.port = NoPort /\ ~e.br /\ ~IsV6(e.host))
      BY <1>3, <1>4, <2>1, <2>3
    <3>2. e.port \in {NoPort, EmptyPort} \/ e.port.n \in PortNumbers
      BY <1>5, <2>4
    <3>3. QED
      BY <1>8, <2>1, <2>3, <3>1, <3>2 DEF Valid
  <2>6. CASE t.port = NoPort \/ Default(t)
    <3>1. e.port = NoPort
      BY <2>4, <2>6
    <3>2. Judged(t) \in {Plain(n) : n \in DefaultPorts}
      <4>1. HttpsPort \in DefaultPorts
        BY DEF DefaultPorts
      <4>2. QED
        BY <2>6, <4>1 DEF Judged, Default
    <3>3. Names(e, Trim(t.host))
      BY <1>2, <2>3, HostsNameThemselves
    <3>4. QED
      BY <2>2, <2>5, <3>1, <3>2, <3>3 DEF Hits
  <2>7. CASE t.port # NoPort /\ ~Default(t)
    <3>1. e.port = t.port
      BY <2>4, <2>7
    <3>2. CASE t.port = EmptyPort
      <4>1. -1 \notin PortNumbers /\ EmptyPort.n = -1
        BY SMT DEF PortNumbers, EmptyPort
      <4>2. QED
        BY <1>5, <2>7, <3>2, <4>1
    <3>3. CASE t.port # EmptyPort
      BY <2>2, <2>3, <2>5, <2>7, <3>1, <3>3 DEF Hits, Judged
    <3>4. QED
      BY <3>2, <3>3
  <2>8. QED
    BY <2>6, <2>7
<1>9. QED
  BY <1>5, <1>7, <1>8, Zenon DEF Remediable, Default

-----------------------------------------------------------------------------
(* The inductive invariant.                                                *)

\* The list of a run is the deployment's and its own, of accepted entries, and its
\* lifetime is the one computed from what it asked for.
RunFits ==
  run # NoRun =>
    /\ \A e \in run.extra : Valid(e)
    /\ run.allow = Base \cup run.extra
    /\ run.life = Life(run.asked)

LeaseFits == lease # NoLease => lease.life = Seconds(lease.asked)

\* What an answer says besides permission.
AnswerFits ==
  answer # NoAnswer =>
    /\ answer.remedy = SuggestEntry(answer.target)
    /\ answer.host = Trim(answer.target.host)
    /\ answer.port = SentTo(answer.target, answer.method)
    /\ answer.is = "reached" => answer.port # 0
    /\ answer.is = "refused" => ~Valid(answer.remedy)

\* An answer is the one of the list of the run that is there.
AnswerIsOfRun ==
  run # NoRun /\ answer # NoAnswer =>
    /\ answer.is # "refused"
    /\ answer.is = "denied" <=> ~Permits(run.allow, answer.target)

CallerInv ==
  TypeOK /\ shared = Base /\ RunFits /\ LeaseFits /\ AnswerFits /\ AnswerIsOfRun

LEMMA ConstantsAre ==
  /\ Unit \in Nat \ {0} /\ HalfRange \in Nat \ {0} /\ MaxSecs \in Nat /\ TTLs \subseteq Int
  /\ DefaultSecs \in Nat \ {0} /\ MaxSecs * Unit \in Nat /\ DefaultSecs * Unit \in Nat
  /\ DefaultSecs * Unit < HalfRange
  /\ Entries \subseteq Text /\ Targets \subseteq Text /\ Base \subseteq Text
  /\ \A e \in Base : Valid(e)
<1>1. /\ Unit \in Nat \ {0} /\ HalfRange \in Nat \ {0} /\ MaxSecs \in Nat /\ TTLs \subseteq Int
      /\ DefaultSecs \in 1 .. MaxSecs /\ MaxSecs * Unit < HalfRange
  BY DurationsAreWide, TimesAreNumbers, DefaultsFit
<1>2. DefaultSecs * Unit <= MaxSecs * Unit
  BY <1>1, SecondsAreMonotonic
<1>3. MaxSecs * Unit \in Nat /\ DefaultSecs * Unit \in Nat
  BY <1>1
<1>4. /\ Entries \subseteq Text /\ Targets \subseteq Text
      /\ Base \subseteq {e \in Text : Valid(e)}
  BY Zenon, ListsAreTexts
<1>5. QED
  BY <1>1, <1>2, <1>3, <1>4

LEMMA SecondsAreDurations ==
  ASSUME NEW n \in Int
  PROVE  Seconds(n) \in -HalfRange .. HalfRange - 1
<1>1. n * Unit \in Int
  BY ConstantsAre
<1>2. QED
  BY <1>1, WrapIsDuration DEF Seconds

LEMMA LivesAreDurations ==
  ASSUME NEW n \in Int
  PROVE  Life(n) \in -HalfRange .. HalfRange - 1
BY ConstantsAre, SecondsAreDurations DEF Life

LEMMA AnswersAre ==
  ASSUME NEW t \in Targets, NEW method \in Methods,
         NEW is \in {"reached", "unreachable", "denied", "refused"}
  PROVE  /\ Answers(t, method, is) \in Answer /\ Answers(t, method, is) # NoAnswer
         /\ Answers(t, method, is).is = is /\ Answers(t, method, is).target = t
         /\ Answers(t, method, is).method = method
         /\ Answers(t, method, is).remedy = SuggestEntry(t)
         /\ Answers(t, method, is).host = Trim(t.host)
         /\ Answers(t, method, is).port = SentTo(t, method)
<1>1. t \in Text /\ SuggestEntry(t) \in Text
  BY ConstantsAre, SuggestionIsText
<1>2. Trim(t.host) \in Host
  BY <1>1, TextsAre, TrimIsHost
<1>3. SentTo(t, method) \in Int
  <2>1. t.port \in [n : Int, plain : BOOLEAN]
    BY <1>1, TextsAre, PortsAre
  <2>2. HttpPort \in Int
    BY DEF HttpPort
  <2>3. QED
    BY <2>1, <2>2 DEF SentTo
<1>4. Answers(t, method, is) =
        [is |-> is, target |-> t, method |-> method, remedy |-> SuggestEntry(t),
         host |-> Trim(t.host), port |-> SentTo(t, method)]
  BY Zenon DEF Answers
<1>5. Answers(t, method, is) \in Answer
  BY <1>1, <1>2, <1>3, <1>4 DEF Answer
<1>6. Answers(t, method, is).is = is
  BY <1>4
<1>7. QED
  BY <1>4, <1>5, <1>6 DEF NoAnswer

LEMMA RunsAre ==
  /\ NoRun \notin Run /\ NoAnswer \notin Answer
  /\ \A r \in Run : r.tier \in Tiers
<1>1. \A r \in Run : r.tier \in Tiers
  BY DEF Run
<1>2. NoRun.tier \notin Tiers
  BY DEF NoRun, Tiers
<1>3. \A a \in Answer : a.is # "none"
  BY DEF Answer
<1>4. NoAnswer.is = "none"
  BY DEF NoAnswer
<1>5. QED
  BY <1>1, <1>2, <1>3, <1>4

LEMMA InitCaller == Init => CallerInv
<1> SUFFICES ASSUME Init PROVE CallerInv
  OBVIOUS
<1>1. lease \in [asked : TTLs \cup {0}, life : 0 .. MaxSecs * Unit]
  BY ConstantsAre DEF Init, NoLease
<1>2. TypeOK
  BY <1>1, ConstantsAre DEF Init, TypeOK
<1>3. QED
  BY <1>2 DEF Init, CallerInv, RunFits, LeaseFits, AnswerFits, AnswerIsOfRun

LEMMA CreateFits ==
  ASSUME CallerInv, NEW tier \in Tiers, NEW extra \in SUBSET Text, NEW secs \in TTLs,
         Create(tier, extra, secs)
  PROVE  CallerInv'
<1> DEFINE new == [tier |-> tier, extra |-> extra, private |-> extra # {},
                   allow |-> Opened(extra), asked |-> secs, life |-> Life(secs)]
<1>1. /\ run' = new /\ answer' = NoAnswer /\ UNCHANGED <<proxied, lease, shared>>
      /\ \A e \in extra : Valid(e)
      /\ Life(secs) <= MaxSecs * Unit
  BY Zenon DEF Create, Creates
<1>2. Opened(extra) = Base \cup extra /\ Opened(extra) \in SUBSET Text
  BY ConstantsAre DEF Opened, CallerInv
<1>3. Life(secs) \in -HalfRange .. MaxSecs * Unit
  <2>1. Life(secs) \in -HalfRange .. HalfRange - 1
    BY ConstantsAre, LivesAreDurations
  <2>2. QED
    BY <1>1, <2>1, ConstantsAre
<1>4. new \in Run
  BY <1>2, <1>3 DEF Run
<1>5. TypeOK'
  BY <1>1, <1>4 DEF CallerInv, TypeOK
<1>6. new.extra = extra /\ new.allow = Base \cup extra /\ new.asked = secs /\ new.life = Life(secs)
  BY <1>2
<1> HIDE DEF new
<1>7. RunFits'
  BY <1>1, <1>6 DEF RunFits, Life
<1>8. LeaseFits' /\ AnswerFits' /\ AnswerIsOfRun'
  BY <1>1 DEF CallerInv, LeaseFits, AnswerFits, AnswerIsOfRun
<1>9. QED
  BY <1>1, <1>5, <1>7, <1>8 DEF CallerInv

LEMMA DestroyFits ==
  ASSUME CallerInv, Destroy
  PROVE  CallerInv'
<1>1. run' = NoRun /\ lease' = NoLease /\ UNCHANGED <<proxied, shared, answer>>
  BY DEF Destroy
<1>2. NoLease \in [asked : TTLs \cup {0}, life : 0 .. MaxSecs * Unit]
  BY ConstantsAre DEF NoLease
<1>3. TypeOK'
  BY <1>1, <1>2 DEF CallerInv, TypeOK
<1>4. RunFits' /\ LeaseFits' /\ AnswerIsOfRun'
  BY <1>1 DEF RunFits, LeaseFits, AnswerIsOfRun
<1>5. AnswerFits'
  BY <1>1 DEF CallerInv, AnswerFits
<1>6. QED
  BY <1>1, <1>3, <1>4, <1>5 DEF CallerInv

LEMMA LeaseKept ==
  ASSUME CallerInv, NEW secs \in TTLs, AcquireLease(secs)
  PROVE  CallerInv'
<1>1. /\ lease' = [asked |-> secs, life |-> Seconds(secs)]
      /\ Seconds(secs) > 0 /\ Seconds(secs) <= MaxSecs * Unit
      /\ UNCHANGED <<proxied, run, shared, answer>>
  BY DEF AcquireLease
<1>2. Seconds(secs) \in 0 .. MaxSecs * Unit
  <2>1. Seconds(secs) \in -HalfRange .. HalfRange - 1
    BY ConstantsAre, SecondsAreDurations
  <2>2. QED
    BY <1>1, <2>1, ConstantsAre
<1>3. lease' \in [asked : TTLs \cup {0}, life : 0 .. MaxSecs * Unit]
  BY <1>1, <1>2
<1>4. TypeOK'
  BY <1>1, <1>3 DEF CallerInv, TypeOK
<1>5. LeaseFits'
  BY <1>1 DEF LeaseFits, Seconds
<1>6. RunFits' /\ AnswerFits' /\ AnswerIsOfRun'
  BY <1>1 DEF CallerInv, RunFits, AnswerFits, AnswerIsOfRun, Life
<1>7. QED
  BY <1>1, <1>4, <1>5, <1>6 DEF CallerInv

LEMMA AskFits ==
  ASSUME CallerInv, NEW t \in Targets, NEW method \in Methods, Ask(t, method)
  PROVE  CallerInv'
<1>1. run # NoRun /\ UNCHANGED <<proxied, run, lease, shared>>
  BY DEF Ask
<1>2. PICK is \in {"reached", "unreachable", "denied"} :
        /\ answer' = Answers(t, method, is)
        /\ is = "denied" <=> ~Permits(run.allow, t)
        /\ is = "reached" => SentTo(t, method) # 0
  <2>1. CASE Permits(run.allow, t) /\ SentTo(t, method) = 0
    BY <2>1, Zenon DEF Ask
  <2>2. CASE Permits(run.allow, t) /\ SentTo(t, method) # 0
    BY <2>2, Zenon DEF Ask
  <2>3. CASE ~Permits(run.allow, t)
    BY <2>3, Zenon DEF Ask
  <2>4. QED
    BY <2>1, <2>2, <2>3
<1>3. /\ answer' \in Answer /\ answer' # NoAnswer
      /\ answer'.is = is /\ answer'.target = t /\ answer'.method = method
      /\ answer'.remedy = SuggestEntry(t)
      /\ answer'.host = Trim(t.host) /\ answer'.port = SentTo(t, method)
  BY <1>2, AnswersAre
<1>4. TypeOK'
  BY <1>1, <1>3 DEF CallerInv, TypeOK
<1>5. RunFits' /\ LeaseFits'
  BY <1>1 DEF CallerInv, RunFits, LeaseFits, Life, Seconds
<1>6. AnswerFits' /\ AnswerIsOfRun'
  BY <1>1, <1>2, <1>3 DEF AnswerFits, AnswerIsOfRun
<1>7. QED
  BY <1>1, <1>4, <1>5, <1>6 DEF CallerInv

LEMMA RetryFits ==
  ASSUME CallerInv, NEW secs \in TTLs, Retry(secs)
  PROVE  CallerInv'
<1>1. answer \in Answer /\ answer # NoAnswer /\ run = NoRun
  BY DEF Retry, CallerInv, TypeOK
<1>2. answer.remedy \in Text
  BY <1>1 DEF Answer
<1>3. CASE Create("allowlist", {answer.remedy}, secs)
  BY <1>2, <1>3, CreateFits DEF Tiers
<1>4. CASE /\ ~Valid(answer.remedy) /\ answer' = [answer EXCEPT !.is = "refused"]
           /\ UNCHANGED <<proxied, run, lease, shared>>
  <2>1. /\ answer' \in Answer /\ answer'.is = "refused"
        /\ answer'.target = answer.target /\ answer'.method = answer.method
        /\ answer'.remedy = answer.remedy /\ answer'.host = answer.host
        /\ answer'.port = answer.port
    BY <1>1, <1>4 DEF Answer
  <2>2. TypeOK'
    BY <1>4, <2>1 DEF CallerInv, TypeOK
  <2>3. RunFits' /\ LeaseFits' /\ AnswerIsOfRun'
    BY <1>1, <1>4 DEF CallerInv, RunFits, LeaseFits, AnswerIsOfRun, Seconds
  <2>4. AnswerFits'
    BY <1>1, <1>4, <2>1 DEF CallerInv, AnswerFits
  <2>5. QED
    BY <1>4, <2>2, <2>3, <2>4 DEF CallerInv
<1>5. QED
  BY <1>3, <1>4 DEF Retry

LEMMA NextCaller == CallerInv /\ [Next]_vars => CallerInv'
<1> SUFFICES ASSUME CallerInv, [Next]_vars PROVE CallerInv'
  OBVIOUS
<1>1. ASSUME NEW tier \in Tiers, NEW extra \in {{}} \cup {{e} : e \in Entries}, NEW secs \in TTLs,
             Create(tier, extra, secs)
      PROVE  CallerInv'
  <2>1. extra \in SUBSET Text
    BY ConstantsAre
  <2>2. QED
    BY <1>1, <2>1, CreateFits
<1>2. CASE UNCHANGED vars
  BY <1>2 DEF vars, CallerInv, TypeOK, RunFits, LeaseFits, AnswerFits, AnswerIsOfRun, Seconds, Life
<1>3. QED
  BY <1>1, <1>2, DestroyFits, LeaseKept, AskFits, RetryFits DEF Next

\* Type correctness.
THEOREM TypeCorrect == Spec => []TypeOK
<1>1. CallerInv => TypeOK
  BY DEF CallerInv
<1>2. QED
  BY InitCaller, NextCaller, <1>1, PTL DEF Spec

-----------------------------------------------------------------------------
(* What a caller gets.                                                     *)

\* The entries that a run is judged by are accepted ones.
LEMMA ListsAreValid ==
  ASSUME CallerInv, run # NoRun
  PROVE  /\ run.allow = Base \cup run.extra
         /\ \A e \in run.allow : e \in Text /\ Valid(e)
<1>1. run.allow = Base \cup run.extra /\ \A e \in run.extra : Valid(e)
  BY DEF CallerInv, RunFits
<1>2. run.extra \subseteq Text
  BY DEF CallerInv, TypeOK, Run
<1>3. QED
  BY <1>1, <1>2, ConstantsAre

LEMMA AnswersTell ==
  ASSUME CallerInv, run # NoRun, answer # NoAnswer
  PROVE  /\ answer.target \in Text /\ answer.method \in Methods
         /\ answer.host = Trim(answer.target.host)
         /\ answer.port = SentTo(answer.target, answer.method)
         /\ answer.is = "denied" <=> \A e \in run.allow : ~Matches(e, answer.target)
<1>1. answer.target \in Text /\ answer.method \in Methods
  BY ConstantsAre DEF CallerInv, TypeOK, Answer
<1>2. answer.is = "denied" <=> ~Permits(run.allow, answer.target)
  BY DEF CallerInv, AnswerIsOfRun
<1>3. QED
  BY <1>1, <1>2 DEF CallerInv, AnswerFits, Permits

\* Whatever the entries and the targets, a run reaches only what the deployment's
\* list or its own admits by the documented grammar, or port 80 where 443 is
\* admitted and no port was named (Permits, OpenFor).
THEOREM ListsCorrect == Spec => []OnlyWhatIsListed
<1>1. CallerInv => OnlyWhatIsListed
  <2>1. SUFFICES ASSUME CallerInv, Answered("reached")
                 PROVE  \E e \in Base \cup run.extra :
                          \/ Admits(e, answer.host, answer.port)
                          \/ answer.target.port = NoPort /\ Admits(e, answer.host, HttpsPort)
    BY DEF OnlyWhatIsListed
  <2>2. run # NoRun /\ answer # NoAnswer /\ answer.is = "reached"
    BY <2>1 DEF Answered
  <2>3. answer.port # 0
    BY <2>1, <2>2 DEF CallerInv, AnswerFits
  <2>4. PICK e \in run.allow : Matches(e, answer.target)
    BY <2>1, <2>2, AnswersTell
  <2>5. e \in Base \cup run.extra /\ e \in Text /\ Valid(e)
    BY <2>1, <2>2, ListsAreValid
  <2>6. \/ Admits(e, answer.host, answer.port)
        \/ answer.target.port = NoPort /\ Admits(e, answer.host, HttpsPort)
    BY <2>1, <2>2, <2>3, <2>4, <2>5, AnswersTell, MatchesAdmit
  <2>7. QED
    BY <2>5, <2>6
<1>2. QED
  BY InitCaller, NextCaller, <1>1, PTL DEF Spec

\* Whatever the entries and the targets, what an accepted entry admits by the
\* documented grammar is not denied, but for the exceptions that the property names
\* (ValidateEntry, Permits).
THEOREM EntriesCorrect == Spec => []AcceptedEntriesWork
<1>1. CallerInv => AcceptedEntriesWork
  <2>1. SUFFICES ASSUME CallerInv, Answered("denied"), ~Bracketed(answer.target),
                        answer.target.port.plain, NEW e \in Base \cup run.extra,
                        Admits(e, answer.host, IF answer.target.port = NoPort THEN HttpsPort
                                               ELSE answer.port),
                        ~Mute(e)
                 PROVE  FALSE
    BY DEF AcceptedEntriesWork
  <2>2. run # NoRun /\ answer # NoAnswer /\ answer.is = "denied"
    BY <2>1 DEF Answered
  <2>3. e \in run.allow /\ e \in Text /\ Valid(e)
    BY <2>1, <2>2, ListsAreValid
  <2>4. ~Matches(e, answer.target)
    BY <2>1, <2>2, <2>3, AnswersTell
  <2>5. QED
    BY <2>1, <2>2, <2>3, <2>4, AnswersTell, AdmittedMatches
<1>2. QED
  BY InitCaller, NextCaller, <1>1, PTL DEF Spec

\* Whatever the request, the entry that its denial names is accepted and admits it,
\* when the request is one that an entry can admit (SuggestEntry, ValidateEntry).
THEOREM RemediesCorrect == Spec => []RemediesWork
<1>1. CallerInv => RemediesWork
  <2>1. SUFFICES ASSUME CallerInv, answer # NoAnswer, Remediable(answer.target)
                 PROVE  /\ ~(Answered("denied") /\ answer.remedy \in run.extra)
                        /\ answer.is # "refused"
    BY DEF RemediesWork, Answered
  <2>2. answer.target \in Text /\ answer.remedy = SuggestEntry(answer.target)
    BY <2>1, ConstantsAre DEF CallerInv, TypeOK, Answer, AnswerFits
  <2>3. Valid(answer.remedy) /\ Matches(answer.remedy, answer.target)
    BY <2>1, <2>2, SuggestionsWork
  <2>4. answer.is # "refused"
    BY <2>1, <2>3 DEF CallerInv, AnswerFits
  <2>5. ASSUME Answered("denied"), answer.remedy \in run.extra
        PROVE  FALSE
    <3>1. run # NoRun /\ answer.is = "denied"
      BY <2>5 DEF Answered
    <3>2. answer.remedy \in run.allow
      BY <2>1, <2>5, <3>1, ListsAreValid
    <3>3. QED
      BY <2>1, <2>3, <3>1, <3>2, AnswersTell
  <2>6. QED
    BY <2>4, <2>5
<1>2. QED
  BY InitCaller, NextCaller, <1>1, PTL DEF Spec

\* A lifetime that a Duration holds is granted as it was asked for, whatever the
\* width of a Duration and the maximum (Create, AcquireLease).
THEOREM LifetimesCorrect == Spec => []LifetimesAreAsAsked
<1>1. CallerInv => LifetimesAreAsAsked
  <2> SUFFICES ASSUME CallerInv PROVE LifetimesAreAsAsked
    OBVIOUS
  <2>1. ASSUME NEW n \in Int, n * Unit \in -HalfRange .. HalfRange - 1
        PROVE  Seconds(n) = n * Unit
    BY <2>1, DurationIsExact DEF Seconds
  <2>2. ASSUME run # NoRun, run.asked \in Held
        PROVE  run.life = (IF run.asked > 0 THEN run.asked ELSE DefaultSecs) * Unit
    <3>1. run.life = Life(run.asked)
      BY <2>2 DEF CallerInv, RunFits
    <3>2. run.asked \in Int /\ run.asked * Unit \in -HalfRange .. HalfRange - 1
      BY <2>2, ConstantsAre DEF Held
    <3>3. Seconds(DefaultSecs) = DefaultSecs * Unit
      BY <2>1, ConstantsAre
    <3>4. Seconds(run.asked) = run.asked * Unit
      BY <2>1, <3>2
    <3>5. QED
      BY <3>1, <3>3, <3>4 DEF Life
  <2>3. ASSUME lease.asked \in Held
        PROVE  lease.life = lease.asked * Unit
    <3>1. lease.asked \in Int /\ lease.asked * Unit \in -HalfRange .. HalfRange - 1
      BY <2>3, ConstantsAre DEF Held
    <3>2. CASE lease = NoLease
      BY <3>2, ConstantsAre DEF NoLease
    <3>3. CASE lease # NoLease
      BY <2>1, <3>1, <3>3 DEF CallerInv, LeaseFits
    <3>4. QED
      BY <3>2, <3>3
  <2>4. QED
    BY <2>2, <2>3 DEF LifetimesAreAsAsked
<1>2. QED
  BY InitCaller, NextCaller, <1>1, PTL DEF Spec
=============================================================================
