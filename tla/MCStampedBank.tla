--------------------------- MODULE MCStampedBank ---------------------------
(***************************************************************************)
(* Workloads for checking StampedBank, and what precedes a history.        *)
(***************************************************************************)
EXTENDS StampedBankProperties, MCBankSystem

\* Two accounts pay a third one; with two shards one of them is in the shard
\* of the third and the other is not.
MCShared == << [src |-> 3, dst |-> 1, amount |-> 1],
               [src |-> 2, dst |-> 1, amount |-> 2] >>

\* Each account pays the next one, around and around, until the clocks are
\* past 255.
MCLong == [i \in 1 .. 15 * N |->
             [src |-> ((i - 1) % N) + 1, dst |-> (i % N) + 1, amount |-> 1]]

\* Memory that happens to be clear.
MCBefore == { State(0, 0, 0) }

\* Memory that holds anything: two balances stand for what is not the account's.
MCAnyBefore == { State(0, b, 0) : b \in {0, 1} }
=============================================================================
