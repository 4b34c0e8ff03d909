-------------------------- MODULE ExclusiveWriter --------------------------
(***************************************************************************)
(* What the writable lease promises, without clocks, deadlines or          *)
(* in-flight counters: at any time a run has at most one holder, known by  *)
(* the epoch of its grant; a writer enters a held run only as its holder;  *)
(* the run changes hands only when it has no writer; and an epoch, once    *)
(* vacated, is never held again.                                           *)
(***************************************************************************)
EXTENDS Naturals

CONSTANTS
  Runs,
  Owners,
  Writers,
  Credentials,  \* what a caller may present: any owner, any generation
  Nobody,       \* a run without a holder
  Idle          \* a writer outside every run

VARIABLES
  epoch,    \* the number of grants made on a run
  holder,   \* its holder, or Nobody
  writing   \* the run a writer is in and the credential it entered with

vars == <<epoch, holder, writing>>

In(r) == {w \in Writers : writing[w] # Idle /\ writing[w].run = r}

Held(r) == holder[r] # Nobody
Title(r) == [owner |-> holder[r], generation |-> epoch[r]]

Init ==
  /\ epoch = [r \in Runs |-> 0]
  /\ holder = [r \in Runs |-> Nobody]
  /\ writing = [w \in Writers |-> Idle]

Grant(r, o) ==
  /\ holder[r] \in {Nobody, o}
  /\ In(r) = {}
  /\ epoch' = [epoch EXCEPT ![r] = @ + 1]
  /\ holder' = [holder EXCEPT ![r] = o]
  /\ UNCHANGED writing

\* Leases lapse with time, several at once, or are given back.
Vacate(R) ==
  /\ holder' = [r \in Runs |-> IF r \in R THEN Nobody ELSE holder[r]]
  /\ UNCHANGED <<epoch, writing>>

Enter(w, r, c) ==
  /\ writing[w] = Idle
  /\ Held(r) => c = Title(r)
  /\ writing' = [writing EXCEPT ![w] = [run |-> r, cred |-> c]]
  /\ UNCHANGED <<epoch, holder>>

Leave(w) ==
  /\ writing[w] # Idle
  /\ writing' = [writing EXCEPT ![w] = Idle]
  /\ UNCHANGED <<epoch, holder>>

Next ==
  \/ \E r \in Runs, o \in Owners : Grant(r, o)
  \/ \E R \in SUBSET Runs : Vacate(R)
  \/ \E w \in Writers, r \in Runs, c \in Credentials : Enter(w, r, c)
  \/ \E w \in Writers : Leave(w)

Spec == Init /\ [][Next]_vars

=============================================================================
