----------------------------- MODULE LockAndMint -----------------------------
(***************************************************************************)
(* What a lock-and-mint bridge promises, whatever it does about time locks,  *)
(* retries and freezes: a transaction is minted at most once, and then the   *)
(* amount minted is one that a trusted party named for it, or nothing.       *)
(***************************************************************************)
EXTENDS Integers

CONSTANTS Txs, MintAmounts

VARIABLES named,      \* the amounts trusted parties named for a transaction
          minted      \* per transaction, how often it was minted and how much

lockAndMintVars == <<named, minted>>

LMInit ==
    /\ named = [t \in Txs |-> {}]
    /\ minted = [t \in Txs |-> [times |-> 0, amount |-> 0]]

\* Naming and minting may happen in the same step: a bridge without a time lock.
LMStep(t, a, m) ==
    /\ named' = [named EXCEPT ![t] = @ \cup a]
    /\ \/ minted' = minted
       \/ /\ minted[t].times = 0
          /\ m \in named'[t] \cup {0}
          /\ minted' = [minted EXCEPT ![t] = [times |-> 1, amount |-> m]]

LMNext == \E t \in Txs, a \in SUBSET MintAmounts, m \in MintAmounts \cup {0} : LMStep(t, a, m)

LMSpec == LMInit /\ [][LMNext]_lockAndMintVars
=============================================================================
