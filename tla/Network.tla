------------------------------ MODULE Network ------------------------------
(***************************************************************************)
(* The transport of labs_headers/message.h, which is not implemented in    *)
(* this repository.  As the code uses it: every ordered pair of processes  *)
(* has a reliable FIFO channel, send does not block, receive blocks until  *)
(* the channel from a given process has a message, and receive_any takes   *)
(* the oldest message of some non-empty channel.                           *)
(***************************************************************************)
EXTENDS Transfers

VARIABLE chan     \* chan[p][q]: messages from p to q, oldest first

Parent == 0
Procs == 0 .. N

MessageTypes == {"STARTED", "DONE", "ACK", "STOP", "TRANSFER", "BALANCE_HISTORY"}

\* val is the index of the order in a TRANSFER, the last balance in a
\* BALANCE_HISTORY and 0 in the others.
Message ==
  [type : {"TRANSFER"}, val : Orders]
    \cup [type : {"BALANCE_HISTORY"}, val : Int]
    \cup [type : MessageTypes \ {"TRANSFER", "BALANCE_HISTORY"}, val : {0}]
Msg(type, val) == [type |-> type, val |-> val]

NetworkInit == chan = [p \in Procs |-> [q \in Procs |-> << >>]]

Send(c, p, q, m) == [c EXCEPT ![p][q] = Append(@, m)]

\* To every other process, parent included.  The sends of one multicast are
\* one step: a recipient that reads late sees what it would see had its copy
\* been sent late.
SendMulticast(c, p, m) ==
  [c EXCEPT ![p] = [q \in Procs |-> IF q = p THEN c[p][q]
                                             ELSE Append(c[p][q], m)]]

HasMessage(p, q) == chan[p][q] # << >>
Oldest(p, q) == Head(chan[p][q])
Receive(c, p, q) == [c EXCEPT ![p][q] = Tail(@)]
=============================================================================
