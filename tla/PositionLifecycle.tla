-------------------------- MODULE PositionLifecycle -------------------------
(***************************************************************************)
(* What the trading core promises of one trading_intend row: money leaves  *)
(* the wallet at most once to enter and comes back at most once to exit,   *)
(* each swap happens while the row says it is being taken, the row goes    *)
(* back only when nothing was swapped, and a row that ended as TP or SL is *)
(* never opened again.  The statuses are those of enum TradingIntendStatus *)
(* in prisma/schema.prisma.                                                *)
(***************************************************************************)
EXTENDS Naturals

CONSTANT Positions

VARIABLES
  status,  \* the status of each position, "Absent" before it is opened
  bought,  \* swaps that entered it
  sold     \* swaps that exited it

lifecycleVars == <<status, bought, sold>>

Init ==
  /\ status = [i \in Positions |-> "Absent"]
  /\ bought = [i \in Positions |-> 0]
  /\ sold = [i \in Positions |-> 0]

Move(i, from, to) ==
  /\ status[i] = from
  /\ status' = [status EXCEPT ![i] = to]
  /\ UNCHANGED <<bought, sold>>

Open(i) == Move(i, "Absent", "FindingEntry")

Lock(i) ==
  \/ Move(i, "FindingEntry", "TakingEntry")
  \/ Move(i, "FindingExit", "TakingExit")

Buy(i) ==
  /\ status[i] = "TakingEntry" /\ bought[i] = 0
  /\ bought' = [bought EXCEPT ![i] = 1]
  /\ UNCHANGED <<status, sold>>

Sell(i) ==
  /\ status[i] = "TakingExit" /\ sold[i] = 0
  /\ sold' = [sold EXCEPT ![i] = 1]
  /\ UNCHANGED <<status, bought>>

Release(i) ==
  \/ bought[i] = 0 /\ Move(i, "TakingEntry", "FindingEntry")
  \/ sold[i] = 0 /\ Move(i, "TakingExit", "FindingExit")

Settle(i) ==
  \/ bought[i] = 1 /\ Move(i, "TakingEntry", "FindingExit")
  \/ sold[i] = 1 /\ Move(i, "TakingExit", "TP")
  \/ sold[i] = 1 /\ Move(i, "TakingExit", "SL")

Next ==
  \E i \in Positions :
    Open(i) \/ Lock(i) \/ Buy(i) \/ Sell(i) \/ Release(i) \/ Settle(i)

Spec == Init /\ [][Next]_lifecycleVars
=============================================================================
