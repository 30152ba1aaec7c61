------------------------- MODULE LifecycleContract --------------------------
(***************************************************************************)
(* The lifecycle implements the ticket contract: the contract's state is   *)
(* read off the attempts and the run record.                               *)
(***************************************************************************)
EXTENDS LifecycleProperties

\* w is the write whose source is under consideration: the latest writable
\* attempt, when it completed.
LastWrite(w) ==
    /\ ledger[w].phase \in WritablePhases
    /\ \A j \in w + 1 .. Len(ledger) : ledger[j].phase \notin WritablePhases
CurrentWrite(w) == ledger[w].status = "COMPLETED" /\ LastWrite(w)

CurrentSource ==
    IF \E w \in DOMAIN ledger : CurrentWrite(w)
    THEN ledger[CHOOSE w \in DOMAIN ledger : CurrentWrite(w)].after
    ELSE NoFingerprint

\* i is an attempt of this phase that passed and found its source as it left it.
Passed(i, phase) ==
    /\ ledger[i].phase = phase
    /\ ledger[i].verdict = "PASS"
    /\ ledger[i].status = "COMPLETED"
    /\ ledger[i].before = ledger[i].after
    /\ ledger[i].after # NoFingerprint

\* v is such a verification, the latest, of the current source.
Verification(v) ==
    /\ Passed(v, "VERIFYING")
    /\ \A j \in v + 1 .. Len(ledger) : ledger[j].phase \notin WritablePhases \cup {"VERIFYING"}
    /\ \E w \in 1 .. v - 1 : ledger[w].after = ledger[v].after /\ CurrentWrite(w)

SourceVerified == \E v \in DOMAIN ledger : Verification(v)

SourceReviewed ==
    \E r \in DOMAIN ledger :
       /\ Passed(r, "REVIEWING")
       /\ \A j \in r + 1 .. Len(ledger) : ledger[j].phase # "REVIEWING"
       /\ \E v \in 1 .. r - 1 : ledger[v].after = ledger[r].after /\ Verification(v)

Contract == INSTANCE TicketContract WITH
    Sources   <- Workspaces,
    NoSource  <- NoFingerprint,
    source    <- CurrentSource,
    verified  <- SourceVerified,
    reviewed  <- SourceReviewed,
    delivered <- IF disk.state = "READY_FOR_HUMAN" THEN patch ELSE NoFingerprint,
    outcome   <- IF disk.state \in TerminalStates THEN disk.state ELSE "OPEN"

\* One run, driven by one controller at a time, implements the contract: what it
\* delivers is the current source, verified and then reviewed, and an outcome is
\* final (workflow.py with application/handoff_acceptance.py).
ContractImplemented == Contract!Spec
=============================================================================
