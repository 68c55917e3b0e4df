--------------------------- MODULE MCMessageList ---------------------------
(* Small instances of MessageList: a heartbeat, and an order that every    *)
(* sort key but Natural puts before it.                                    *)
EXTENDS MessageList

heartbeat == [heartbeat |-> TRUE, MsgSeqNum |-> 2, TransactTime |-> Absent, SendingTime |-> 2]
order     == [heartbeat |-> FALSE, MsgSeqNum |-> 1, TransactTime |-> 1, SendingTime |-> 1]

MCMessages == {heartbeat, order}
MCFilters == {{heartbeat}}

(* One kind of message is enough to tell two files apart by their lengths. *)
MCHeartbeats == {heartbeat}
MCNone == {{}}
=============================================================================
