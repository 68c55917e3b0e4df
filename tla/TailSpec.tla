------------------------------ MODULE TailSpec ------------------------------
(***************************************************************************)
(* What grep --follow promises: a log that a producer extends and replaces,*)
(* and an output that only ever grows, by complete matching messages, each *)
(* of them printed once and, for each file, in file order.                 *)
(***************************************************************************)
EXTENDS FixBuffer, FiniteSets

CONSTANTS
  FilterLength, (* the filter: the BodyLength field has this value         *)
  Cells         (* the cells the producer writes                           *)

VARIABLES
  logs,     (* the files that have been at the path, the live one last     *)
  printed   (* the output: the file and the offset of each printed message *)

Matching(b) == {o \in CompleteIn(b) : b[o + 1].arg = FilterLength}

Init ==
  /\ logs \in Seq(Seq(Cell))
  /\ printed = << >>

(* The producer appends a cell to the live file, or puts a new file there. *)
Produce ==
  /\ \/ \E c \in Cells :
          logs # << >> /\ logs' = [logs EXCEPT ![Len(logs)] = Append(@, c)]
     \/ logs' = Append(logs, << >>)
  /\ UNCHANGED printed

(* The next messages of one file, beyond those of it already printed.      *)
Emit ==
  /\ Len(printed) < Len(printed')
  /\ SubSeq(printed', 1, Len(printed)) = printed
  /\ \A i \in Len(printed) + 1 .. Len(printed') :
       /\ printed'[i].gen \in 1 .. Len(logs)
       /\ printed'[i].at \in Matching(logs[printed'[i].gen])
       /\ \A j \in 1 .. i - 1 :
            printed'[j].gen = printed'[i].gen =>
              EndOf(logs[printed'[j].gen], printed'[j].at) <= printed'[i].at
  /\ UNCHANGED logs

Next == Produce \/ Emit

Spec == Init /\ [][Next]_<<logs, printed>>
=============================================================================
