--------------------------- MODULE BalanceHistory ---------------------------
(***************************************************************************)
(* BalanceHistory of labs_headers/banking.h and the functions that read    *)
(* and extend it (src/common/utils.cpp).  An entry is written behind the   *)
(* last one, whatever its time is; the length is a byte, so that the       *)
(* buffer is full when the length comes back to 0.                         *)
(***************************************************************************)
EXTENDS Integers, Sequences

CONSTANT MAX_T   \* 255 in banking.h, where uint8_t counts 0 .. MAX_T

ASSUME MaxTAssumption == MAX_T \in Nat \ {0}

HistoryLen == MAX_T + 1

\* The value a 16-bit balance_t keeps of an integer.
ToBalance(x) == ((x + 32768) % 65536) - 32768

State(time, bal, pending) ==
  [s_time |-> time, s_balance |-> bal, s_balance_pending_in |-> pending]

\* init_history: one entry, and every other one cleared but for its time;
\* the loop over the times stops before the last.  before is what precedes
\* the buffer in memory.
InitHistory(initial, before) ==
  [s_history_len |-> 1,
   s_history |-> [i \in 0 .. MAX_T |->
                    State(IF i < MAX_T THEN i ELSE 0,
                          IF i = 0 THEN initial ELSE 0, 0)],
   before |-> before]

\* s_history[s_history_len - 1], which for length 0 is outside the buffer.
LastState(h) ==
  IF h.s_history_len = 0 THEN h.before ELSE h.s_history[h.s_history_len - 1]

NowBalance(h) == LastState(h).s_balance

\* The times first, first + 1, ..., end - 1, all with one balance.
Steady(first, end, bal, pending) ==
  [k \in 1 .. (IF first < end THEN end - first ELSE 0) |->
     State(first + k - 1, bal, pending)]

\* Write the entries new one after the other behind the last one, around the
\* end of the buffer and over what is there.
WriteBehind(h, new) ==
  LET offset(k) == (k - h.s_history_len) % HistoryLen
      last(k) == offset(k)
                   + ((Len(new) - 1 - offset(k)) \div HistoryLen) * HistoryLen
  IN [h EXCEPT !.s_history_len = (@ + Len(new)) % HistoryLen,
               !.s_history = [k \in 0 .. MAX_T |->
                 IF offset(k) < Len(new) THEN new[last(k) + 1] ELSE @[k]]]

\* Mutant: the gap is filled from the time of the last entry on.
UpdateHistoryRepeats(h, start, end, amount, pending) ==
  LET last == LastState(h) IN
  WriteBehind(h, Steady(last.s_time, start, last.s_balance, 0)
                   \o Steady(start, end, last.s_balance, pending)
                   \o << State(end, ToBalance(amount), 0) >>)

\* Mutant: the new balance is written before what is pending.
UpdateHistoryEntryFirst(h, start, end, amount, pending) ==
  LET last == LastState(h) IN
  WriteBehind(h, Steady(last.s_time + 1, start, last.s_balance, 0)
                   \o << State(end, ToBalance(amount), 0) >>
                   \o Steady(start, end, last.s_balance, pending))

\* update_history: the times up to start with the old balance, those from
\* start on with the old balance and what is pending, and end with the new
\* balance.
UpdateHistory(h, start, end, amount, pending) ==
  LET last == LastState(h) IN
  WriteBehind(h, Steady(last.s_time + 1, start, last.s_balance, 0)
                   \o Steady(start, end, last.s_balance, pending)
                   \o << State(end, ToBalance(amount), 0) >>)
=============================================================================
