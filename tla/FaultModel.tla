------------------------------ MODULE FaultModel ------------------------------
(***************************************************************************)
(* What may go wrong around the commands.  A behaviour holds at most       *)
(* MaxFaults faults, each of a kind in Faults; the kinds that have struck  *)
(* are remembered, so that a property can say what it withstands.          *)
(***************************************************************************)
EXTENDS Naturals

CONSTANTS
  Faults,     \* the kinds of fault that may strike, a subset of FaultKinds
  MaxFaults   \* how many of them may strike in one behaviour

VARIABLE
  faults      \* how many may still strike, and the kinds that have struck

FaultKinds == {
  "crash",      \* the process dies between two steps
  "interrupt",  \* KeyboardInterrupt is raised between two steps
  "io",         \* a rename, a write or a new directory raises and has no effect
  "read",       \* a file that is there cannot be read or looked at
  "look",       \* a file that is there is taken for absent
  "append",     \* a journal append raises, nothing was written
  "fsync",      \* a journal append raises after its line was written
  "torn",       \* a journal append raises after a part of its line was written
  "meddle",     \* another program changes the library
  "vanish",     \* somebody deletes a duplicate from the library
  "evict",      \* somebody deletes a file from the quarantine root
  "unwind",     \* the apply that organized a winner is rolled back
  "outage",     \* a provider does not answer, or not as expected
  "damage"}     \* a cache file is damaged

ASSUME FaultAssumption == Faults \subseteq FaultKinds /\ MaxFaults \in Nat

FaultRecords == [left : Nat, struck : SUBSET FaultKinds]

NoneYet == [left |-> MaxFaults, struck |-> {}]

\* Faults of these kinds strike at once, and count as one.
Strike(kinds) ==
  /\ kinds \subseteq Faults /\ faults.left > 0
  /\ faults' = [left |-> faults.left - 1, struck |-> faults.struck \cup kinds]

Fault(kind) == Strike({kind})

\* The process dies in the middle of an append.
DiesWriting == Strike({"torn", "crash"})

NoFault == UNCHANGED faults

\* No other kind of fault has struck so far.
Only(kinds) == faults.struck \subseteq kinds

FaultsCeased == faults.left = 0
===============================================================================
