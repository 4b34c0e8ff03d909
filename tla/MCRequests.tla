----------------------------- MODULE MCRequests -----------------------------
EXTENDS Requests

Hosts == {<<"x", "com">>, <<"a", "x", "com">>, <<"", "x", "com">>, <<"x", "com", "">>,
          <<"", "com">>, <<"*", "com">>, <<"::1">>}
Numbers == {80, 443, 8443}

\* A caller may spell an entry in any way, a client sends what is a URL's host.
Odd(n) == [n |-> n, plain |-> FALSE]
Spelled(hosts, ports) == {t \in [host : hosts, br : BOOLEAN, port : ports] : t \in Text}
MCEntries == Spelled(Hosts, {NoPort, EmptyPort, Odd(8443)} \cup {Plain(n) : n \in {0, 443, 8443}})
MCTargets ==
  {t \in Spelled(Hosts, {NoPort, EmptyPort, Odd(8443)} \cup {Plain(n) : n \in Numbers}) :
     t.br = IsV6(t.host)}
MCTTLs == {-9, 0, 1, 5, 6, 11}
MCBase == {[host |-> <<"x", "com">>, br |-> FALSE, port |-> Plain(443)]}
=============================================================================
