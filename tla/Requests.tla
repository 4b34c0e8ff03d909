------------------------------ MODULE Requests ------------------------------
(***************************************************************************)
(* A caller against the limits of the daemon: POST /v1/runs with its       *)
(* network tier, egressAllow and ttlSec (Manager.Create in                 *)
(* src/internal/run/manager.go), POST .../lease with its ttlSec, requests  *)
(* of the run through its proxy (src/internal/egress/proxy.go, pool.go),   *)
(* and a caller that does as a denial tells it.                            *)
(***************************************************************************)
EXTENDS Allowlist, Durations

CONSTANTS
  Entries,     \* texts a caller passes as egressAllow
  Targets,     \* texts a run asks its proxy for
  Base,        \* the deployment's list
  TTLs,        \* ttlSec of requests; 0: none is given
  DefaultSecs, \* DefaultTTL
  MaxSecs      \* MaxTTL

ASSUME ListsAreTexts ==
  /\ Entries \subseteq Text /\ Targets \subseteq Text
  /\ Base \subseteq {e \in Text : Valid(e)}
ASSUME TimesAreNumbers == TTLs \subseteq Int /\ MaxSecs \in Nat
ASSUME DefaultsFit == DefaultSecs \in 1 .. MaxSecs /\ MaxSecs * Unit < HalfRange

Tiers == {"none", "allowlist", "open"}
Methods == {"CONNECT", "plain"}

VARIABLES
  proxied,  \* the daemon has an egress proxy
  run,      \* the run, or NoRun
  lease,    \* what was granted of a lease: asked for, and given
  shared,   \* the list of the shared proxy
  answer    \* the last answer of the proxy
vars == <<proxied, run, lease, shared, answer>>

NoRun == [tier |-> "gone"]
NoLease == [asked |-> 0, life |-> 0]
NoAnswer == [is |-> "none"]

Init ==
  /\ proxied \in BOOLEAN
  /\ run = NoRun /\ lease = NoLease
  /\ shared = Base
  /\ answer = NoAnswer

-----------------------------------------------------------------------------
\* Mutant of Life: the number itself is taken for a Duration.
LifeRaw(secs) == IF secs > 0 THEN secs ELSE DefaultSecs * Unit

\* Create's lifetime of a run.
Life(secs) == Seconds(IF secs > 0 THEN secs ELSE DefaultSecs)

\* OpenFor: the private proxy of a run with entries of its own has a list of its
\* own; a run of the allowlist tier without entries gets the shared one.
Opened(extra) == shared \cup extra

Creates(tier, extra, secs) ==
  /\ run = NoRun
  /\ \A e \in extra : Valid(e)
  /\ extra # {} => proxied /\ tier = "allowlist"
  /\ run' = [tier |-> tier, extra |-> extra, private |-> extra # {},
             allow |-> Opened(extra), asked |-> secs, life |-> Life(secs)]
  /\ answer' = NoAnswer
  /\ UNCHANGED <<proxied, lease>>

\* Mutants of Create: the entries are added to the list all proxies share; the
\* lifetime is not compared with the maximum.
CreateShares(tier, extra, secs) ==
  Life(secs) <= MaxSecs * Unit /\ Creates(tier, extra, secs) /\ shared' = Opened(extra)
CreateUnbounded(tier, extra, secs) == Creates(tier, extra, secs) /\ UNCHANGED shared

\* A request that Create accepts; a lifetime that has wrapped below zero is below
\* the maximum.
Create(tier, extra, secs) ==
  Life(secs) <= MaxSecs * Unit /\ Creates(tier, extra, secs) /\ UNCHANGED shared

Destroy ==
  /\ run # NoRun
  /\ run' = NoRun /\ lease' = NoLease
  /\ UNCHANGED <<proxied, shared, answer>>

AcquireLease(secs) ==
  /\ run # NoRun
  /\ Seconds(secs) > 0 /\ Seconds(secs) <= MaxSecs * Unit
  /\ lease' = [asked |-> secs, life |-> Seconds(secs)]
  /\ UNCHANGED <<proxied, run, shared, answer>>

-----------------------------------------------------------------------------
\* The port that a permitted request is sent to.  The dial of a CONNECT without
\* a port fails.
SentTo(t, method) ==
  IF Splits(t) THEN t.port.n ELSE IF method = "plain" THEN HttpPort ELSE 0

Answers(t, method, is) ==
  [is |-> is, target |-> t, method |-> method, remedy |-> SuggestEntry(t),
   host |-> Trim(t.host), port |-> SentTo(t, method)]

\* ServeHTTP and tunnel, of the proxy that Create told the run.
Ask(t, method) ==
  /\ run # NoRun /\ run.tier = "allowlist" /\ proxied
  /\ \/ /\ Permits(run.allow, t)
        /\ answer' = Answers(t, method,
             IF SentTo(t, method) = 0 THEN "unreachable" ELSE "reached")
     \/ ~Permits(run.allow, t) /\ answer' = Answers(t, method, "denied")
  /\ UNCHANGED <<proxied, run, lease, shared>>

\* The caller does what the denial says: the entry goes into egressAllow of a new
\* run, or the request is refused and the entry was no use.
Retry(secs) ==
  /\ run = NoRun /\ answer # NoAnswer /\ answer.is = "denied"
  /\ \/ Create("allowlist", {answer.remedy}, secs)
     \/ /\ ~Valid(answer.remedy)
        /\ answer' = [answer EXCEPT !.is = "refused"]
        /\ UNCHANGED <<proxied, run, lease, shared>>

-----------------------------------------------------------------------------
Next ==
  \/ \E tier \in Tiers, extra \in {{}} \cup {{e} : e \in Entries}, secs \in TTLs : Create(tier, extra, secs)
  \/ \E secs \in TTLs : AcquireLease(secs)
  \/ \E t \in Targets, method \in Methods : Ask(t, method)
  \/ \E secs \in TTLs : Retry(secs)
  \/ Destroy

Spec == Init /\ [][Next]_vars
-----------------------------------------------------------------------------
Run ==
  [tier : Tiers, extra : SUBSET Text, private : BOOLEAN, allow : SUBSET Text,
   asked : TTLs, life : -HalfRange .. MaxSecs * Unit]

Answer ==
  [is : {"reached", "unreachable", "denied", "refused"}, target : Targets, method : Methods,
   remedy : Text, host : Host, port : Int]

\* Type correctness.
TypeOK ==
  /\ proxied \in BOOLEAN
  /\ run \in {NoRun} \cup Run
  /\ lease \in [asked : TTLs \cup {0}, life : 0 .. MaxSecs * Unit]
  /\ shared \subseteq Text
  /\ answer \in {NoAnswer} \cup Answer

Answered(is) == run # NoRun /\ answer # NoAnswer /\ answer.is = is

\* A run reaches only what an entry of the deployment or one of its own request
\* admits by the documented grammar, whatever entries other runs came with.  One
\* thing is let through besides: a plain request without a port goes to port 80,
\* and is judged as one for port 443 (Permits, OpenFor; README.md:125 "A
\* port-scoped entry opens that port and nothing else").
OnlyWhatIsListed ==
  Answered("reached") =>
    \E e \in Base \cup run.extra :
      \/ Admits(e, answer.host, answer.port)
      \/ answer.target.port = NoPort /\ Admits(e, answer.host, HttpsPort)

\* What an accepted entry admits by the documented grammar is not denied, except
\* by the entries that are accepted and mute, and except a request for an IPv6
\* address without a port or one that spells its port with a leading zero, which no
\* entry need admit (ValidateEntry against Permits).
AcceptedEntriesWork ==
  Answered("denied") /\ ~Bracketed(answer.target) /\ answer.target.port.plain =>
    \A e \in Base \cup run.extra :
      Admits(e, answer.host, IF answer.target.port = NoPort THEN HttpsPort ELSE answer.port)
        => Mute(e)

\* A caller who passes on the entry that a denial names is not refused, and is
\* not denied the same request again, for every target but those named in
\* Remediable (SuggestEntry; README.md:127 "the body names the exact egressAllow
\* entry ... that would have admitted the host").
RemediesWork ==
  /\ Answered("denied") /\ answer.remedy \in run.extra => ~Remediable(answer.target)
  /\ answer # NoAnswer /\ answer.is = "refused" => ~Remediable(answer.target)

Held == {secs \in TTLs : secs * Unit \in -HalfRange .. HalfRange - 1}

\* A run or a lease that is granted lasts as long as was asked for, and no longer
\* than the maximum, unless more was asked for than a Duration holds: then it may
\* be granted for some other time, even one that is over (Create, AcquireLease).
LifetimesAreAsAsked ==
  /\ run # NoRun /\ run.asked \in Held =>
       run.life = (IF run.asked > 0 THEN run.asked ELSE DefaultSecs) * Unit
  /\ lease.asked \in Held => lease.life = lease.asked * Unit
=============================================================================
