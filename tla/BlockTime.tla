----------------------------- MODULE BlockTime -----------------------------
(***************************************************************************)
(* What the contracts see of the chain: the clock, and the organizations   *)
(* and accounts behind its identifiers and addresses.                      *)
(*                                                                         *)
(* Every contract reads the clock as block.timestamp.  All transactions of *)
(* a block see one value and the value only grows, so a transaction is one *)
(* step and the clock advances between steps.  Deadlines are uint64 in the *)
(* contracts; MaxTimestamp is the largest value of that width, scaled down *)
(* in the finite instances so that the clock can reach it.                 *)
(***************************************************************************)
EXTENDS Naturals

CONSTANTS
    MaxTimestamp,      \* type(uint64).max
    OrganizationIds,   \* bytes32 identifiers of organizations
    Accounts,          \* externally owned accounts
    Zero               \* bytes32(0) and address(0)

ASSUME MaxTimestampAssumption == MaxTimestamp \in Nat

VARIABLE now              \* uint64(block.timestamp)

Timestamps == 0 .. MaxTimestamp

(* A later block.                                                          *)
Tick ==
    /\ now < MaxTimestamp
    /\ now' = now + 1

(* Solidity 0.8 addition: a sum wider than uint64 reverts the call.        *)
AddFits(x, y) == x + y <= MaxTimestamp
============================================================================
