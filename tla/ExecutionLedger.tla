-------------------------- MODULE ExecutionLedger --------------------------
(***************************************************************************)
(* What an Agent Desk session promises about its executions, with every    *)
(* mechanism left out: no locks, no registry, no links, no processes.      *)
(*                                                                         *)
(* A session is a ledger of executions.  An entry is opened once, is live  *)
(* or settled, and at any time at most one entry is live: the current one. *)
(* A settled entry may be reopened only while it is still the current one  *)
(* (a late event of the newest run); a superseded entry is history.        *)
(*                                                                         *)
(* AgentExecution implements this specification (its property              *)
(* ImplementsLedger and the theorem of the same name).                     *)
(***************************************************************************)
CONSTANTS
  Executions,   (* durable execution identifiers                          *)
  None          (* "no current execution"                                 *)

VARIABLES
  ledger,       (* ledger[e]: "Absent", "Live" or "Settled"               *)
  current       (* the newest execution, or None after a recovery         *)

ledgerVars == <<ledger, current>>

Status == {"Absent", "Live", "Settled"}

NobodyLive == \A e \in Executions : ledger[e] # "Live"

LedgerInit ==
  /\ ledger = [e \in Executions |-> "Absent"]
  /\ current = None

(* A new execution may only be opened while no other one is live.          *)
Open(e) ==
  /\ ledger[e] = "Absent"
  /\ NobodyLive
  /\ ledger' = [ledger EXCEPT ![e] = "Live"]
  /\ current' = e

(* Executions settle: they finish, fail, are stopped or are found orphaned. *)
(* A recovery that settles the current execution also forgets that it was   *)
(* current.                                                                 *)
Settle ==
  /\ ledger' = [e \in Executions |->
                  IF ledger[e] = "Live" THEN "Settled" ELSE ledger[e]]
  /\ current' \in {current, None}
  /\ ~NobodyLive

(* Only the current execution can come back to life.                        *)
Reopen(e) ==
  /\ e = current
  /\ ledger[e] = "Settled"
  /\ ledger' = [ledger EXCEPT ![e] = "Live"]
  /\ UNCHANGED current

LedgerNext ==
  \/ \E e \in Executions : Open(e) \/ Reopen(e)
  \/ Settle

LedgerSpec == LedgerInit /\ [][LedgerNext]_ledgerVars
=============================================================================
