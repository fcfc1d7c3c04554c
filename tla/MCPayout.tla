------------------------------ MODULE MCPayout -------------------------------
(***************************************************************************)
(* Small instances of Payout for TLC: one host whose first booking passes  *)
(* and later a second, and withdrawals that compete for what it earned.    *)
(***************************************************************************)
EXTENDS Payout, TLC

CONSTANTS m1, m2,         \* keys of withdrawals the host asks for
          week,           \* the weekly run's key
          c1, c2,         \* clerks
          w1, w2          \* couriers

\* Each withdrawal takes the first booking's whole earning.
WholeEarning == [k \in Keys \ Weeks |-> 2]

SwapHandlers == Permutations({c1, c2}) \cup Permutations({w1, w2})

==============================================================================
