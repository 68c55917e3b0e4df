------------------------------ MODULE MCScreen ------------------------------
(* Screen for two messages, the second of which does not parse, in the      *)
(* order of the file or in the opposite one; a filter passes the first, and *)
(* another one none.                                                        *)
EXTENDS Screen

MCLog == <<[parses |-> TRUE, common |-> 1, own |-> 1],
           [parses |-> FALSE, common |-> 0, own |-> 0]>>
MCFilters == {{0}, {}}
MCOrders == {[o \in Ordinals |-> o], [o \in Ordinals |-> 2 - o]}

(* Two rows of messages and one field; one row and no field, or no pane at  *)
(* all under a command; four rows of messages and a pane that is too narrow.*)
MCSizes == {[height |-> 5, detail |-> TRUE, table |-> 1],
            [height |-> 4, detail |-> TRUE, table |-> 1],
            [height |-> 7, detail |-> FALSE, table |-> 3]}
=============================================================================
