----------------------------- MODULE IndexedLog -----------------------------
(***************************************************************************)
(* What the analyses read: the messages of the index, each the list of its *)
(* fields, and the secondary index, of which a lookup is the set of its     *)
(* answers.  That the index has the messages, and that a lookup answers the *)
(* ordinals that mention the pair, in increasing order, is the subject of   *)
(* LogIndex and ParallelBuild.                                             *)
(***************************************************************************)
EXTENDS Order

CONSTANTS None

MsgType      == 35
SenderCompID == 49
TargetCompID == 56
MsgSeqNum    == 34
ClOrdID      == 11
OrderID      == 37
OrigClOrdID  == 41

HotTags == {MsgType, SenderCompID, TargetCompID, ClOrdID, MsgSeqNum, OrderID, OrigClOrdID}

OrdinalsOf(index) == 0 .. Len(index) - 1

message(index, ordinal) == index[ordinal + 1]

(* Each message mentions a pair in any of its fields ...                   *)
Mentions(msg, tag, value) == \E i \in DOMAIN msg : msg[i] = <<tag, value>>

lookup(index, tag, value) ==
  IF tag \notin HotTags THEN {}
  ELSE {o \in OrdinalsOf(index) : Mentions(message(index, o), tag, value)}

(* ... but its value of a tag is the first one.                            *)
find_tag(msg, tag) ==
  LET i == SelectInSeq(msg, LAMBDA field : field[1] = tag)
  IN IF i = 0 THEN None ELSE msg[i][2]
=============================================================================
