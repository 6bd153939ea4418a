------------------------------ MODULE MCHooks ------------------------------
(***************************************************************************)
(* The components of the hooks for TLC. They share no state, so one moves  *)
(* in a behaviour, the one that `part` names, and the others stay as they  *)
(* start: the state spaces add up and do not multiply.                     *)
(***************************************************************************)
EXTENDS DetachedJobs, StateFiles, ReadGuards, StopReminder, CommitGate, SessionLedger,
        TranscriptLink, LogRotation

CONSTANTS Parts,
          r1, r2, c1, i1,  \* jobs
          main, a1, a2     \* agents

VARIABLE part

hookVars == <<part, jobVars, stateVars, readVars, stopVars, gateVars, ledgerVars, linkVars, logVars>>

\* Two records that compete for the seen-set, a consolidation alone, an index
\* run alone.
MCPlans == {{r1, r2}, {c1}, {i1}}

\* The main agent and a subagent, and two subagents.
MCCrews == {{main, a1}, {a1, a2}}

HooksInit ==
  /\ part \in Parts
  /\ JobInit /\ (part = "jobs" \/ due = {c1})
  /\ StateInit /\ (part = "state" \/ (lockPath = NoInode /\ lockOld = {}))
  /\ ReadInit
  /\ StopInit /\ (part = "stop" \/ (work.text = "" /\ ~digest))
  /\ GateInit /\ (part = "gate" \/ tracking = "wip")
  /\ LedgerInit /\ (part = "ledger" \/ crew = {a1, a2})
  /\ LinkInit /\ RotationInit

HooksNext ==
  \/ /\ part = "jobs" /\ JobNext
     /\ UNCHANGED <<part, stateVars, readVars, stopVars, gateVars, ledgerVars, linkVars, logVars>>
  \/ /\ part = "state" /\ StateNext
     /\ UNCHANGED <<part, jobVars, readVars, stopVars, gateVars, ledgerVars, linkVars, logVars>>
  \/ /\ part = "read" /\ ReadNext
     /\ UNCHANGED <<part, jobVars, stateVars, stopVars, gateVars, ledgerVars, linkVars, logVars>>
  \/ /\ part = "stop" /\ StopNext
     /\ UNCHANGED <<part, jobVars, stateVars, readVars, gateVars, ledgerVars, linkVars, logVars>>
  \/ /\ part = "gate" /\ GateNext
     /\ UNCHANGED <<part, jobVars, stateVars, readVars, stopVars, ledgerVars, linkVars, logVars>>
  \/ /\ part = "ledger" /\ LedgerNext
     /\ UNCHANGED <<part, jobVars, stateVars, readVars, stopVars, gateVars, linkVars, logVars>>
  \/ /\ part = "link" /\ LinkNext
     /\ UNCHANGED <<part, jobVars, stateVars, readVars, stopVars, gateVars, ledgerVars, logVars>>
  \/ /\ part = "log" /\ RotationNext
     /\ UNCHANGED <<part, jobVars, stateVars, readVars, stopVars, gateVars, ledgerVars, linkVars>>

HooksSpec == HooksInit /\ [][HooksNext]_hookVars

-----------------------------------------------------------------------------
\* Every state file, hook, child and log of the hooks has its type.
HooksTypeOK ==
  /\ JobTypeOK /\ StateTypeOK /\ ReadTypeOK /\ StopTypeOK
  /\ GateTypeOK /\ LedgerTypeOK /\ LinkTypeOK /\ RotationTypeOK
=============================================================================
