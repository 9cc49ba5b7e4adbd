----------------------------- MODULE BalanceDeltas -----------------------------
(***************************************************************************)
(* The comparison of what a simulation observed with what an intent        *)
(* expects: compareEvmBalanceDeltas and compareSolanaBalanceDeltas.  A     *)
(* change is [holder, asset, delta]; an expectation bounds the delta of    *)
(* one asset of one holder by [min, max].                                  *)
(***************************************************************************)
EXTENDS Integers, FiniteSets, FiniteSetsExt

concerns(expectation, change) ==
  expectation.holder = change.holder /\ expectation.asset = change.asset

\* A change nobody expects is tolerated when it is none.
unexpected(changes, expected) ==
  {c \in changes : c.delta # 0 /\ \A e \in expected : ~concerns(e, c)}

\* An expectation needs an observation, of no change too.
unmet(changes, expected) ==
  {e \in expected :
     LET observed == {c \in changes : concerns(e, c)}
         delta == MapThenSumSet(LAMBDA c : c.delta, observed)
     IN  observed = {} \/ delta < e.min \/ delta > e.max}

matches(changes, expected) ==
  unexpected(changes, expected) = {} /\ unmet(changes, expected) = {}
================================================================================
