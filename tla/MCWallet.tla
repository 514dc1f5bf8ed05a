------------------------------ MODULE MCWallet -------------------------------
(* Two forks.  a1 and b1 mine the same transaction, so that coin x sits at  *)
(* the same leaf of both; a2 spends the premine coin p and coin y, which    *)
(* the wallet is told of off-chain; a3 has nothing for the wallet.          *)
(* Each table is a definition of its own: TLC then evaluates it only once.  *)
EXTENDS Wallet, TLC

CONSTANTS g, a1, a2, a3, b1, p, x, y, z, f

Forks == (g  :> << g >>) @@ (b1 :> << g, b1 >>) @@
         (a1 :> << g, a1 >>) @@ (a2 :> << g, a1, a2 >>) @@ (a3 :> << g, a1, a2, a3 >>)

OutputTable == (g  :> << p >>) @@ (b1 :> << x, z >>) @@
               (a1 :> << x, f, y >>) @@ (a2 :> << >>) @@ (a3 :> << >>)

SpentCoins == {<< p, 0 >>, << y, 3 >>}
SpendTable == [b \in Blocks |-> IF b = a2 THEN SpentCoins ELSE {}]
WorkTable == [b \in Blocks |-> Len(Forks[b])]
KeyTable == (x :> 0) @@ (z :> 1)

MCChain == Forks
MCOutputs == OutputTable
MCUtxos == SpentCoins
MCSpends == SpendTable
MCWork == WorkTable
MCAnnouncedTo == KeyTable
==============================================================================
