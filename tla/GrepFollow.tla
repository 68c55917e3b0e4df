----------------------------- MODULE GrepFollow -----------------------------
(***************************************************************************)
(* fixlog-cli: grep --follow.  A pass over the file as it is, then a loop  *)
(* that waits for file events and catches up with what was appended, while *)
(* a producer writes to the path, removes it and creates it again.         *)
(*                                                                         *)
(* A mapping keeps the inode it was made from: a file that replaces another*)
(* has a new number, and the old content stays readable through the mapping*)
(***************************************************************************)
EXTENDS FixBuffer, FiniteSets, SequencesExt

CONSTANTS
  FilterLength, (* the filter: the BodyLength field has this value         *)
  Cells,        (* the cells the producer writes                           *)
  MaxLen,       (* bound on the length of a file, in cells                 *)
  MaxCells,     (* bound on the length of all files together               *)
  MaxFiles,     (* bound on the number of files the path ever has          *)
  OthersChange  (* other files of the watched directory change             *)

ASSUME ConstantsAssumption ==
  /\ FilterLength \in Nat
  /\ Cells \subseteq Cell
  /\ MaxLen \in Nat /\ MaxCells \in Nat /\ MaxFiles \in Nat \ {0}
  /\ OthersChange \in BOOLEAN

VARIABLES
  logs,      (* the files that have been at the path, the newest last      *)
  present,   (* the path exists                                            *)
  events,    (* the notify channel, equal events merged                    *)
  pc,        (* what the process does                                      *)
  mmap,      (* FollowState.mmap: the file it maps, and how much of it     *)
  consumed,  (* FollowState.consumed                                       *)
  stat,      (* current_len in catch_up                                    *)
  printed,   (* what has been written to out                               *)
  base       (* history: the file and offset that following started from   *)

vars == <<logs, present, events, pc, mmap, consumed, stat, printed, base>>

live == logs[Len(logs)]

Matching(b) == {o \in CompleteIn(b) : b[o + 1].arg = FilterLength}

-----------------------------------------------------------------------------
(* stream_matches, on a mapping that nothing can change any more: the      *)
(* messages that one parse of buf[from..] yields.                          *)
Scan(b, from) ==
  CHOOSE S \in SUBSET {o \in CompleteIn(b) : from <= o} :
    S = {o \in CompleteIn(b) :
           from <= o /\ ~ \E p \in S : p < o /\ o < EndOf(b, p)}

(* The matches are written in file order.                                  *)
InOrder(S) ==
  CHOOSE w \in [1 .. Cardinality(S) -> S] : \A i, j \in DOMAIN w : i < j => w[i] < w[j]

Output(g, b, from) ==
  LET offsets == InOrder(Scan(b, from) \cap Matching(b))
  IN [i \in DOMAIN offsets |-> [gen |-> g, at |-> offsets[i]]]

(* Mutant of last_end: the whole buffer is claimed.                        *)
last_end_of_buffer(b, from) == IF from < Len(b) THEN Len(b) ELSE from

(* The offset past the last message parsed, matching or not.               *)
last_end(b, from) ==
  LET S == Scan(b, from)
  IN IF S = {} THEN from ELSE EndOf(b, CHOOSE o \in S : \A p \in S : p <= o)

Mapped(g, n) == SubSeq(logs[g], 1, n)

(* FollowState::process_from, the end of a catch-up.                       *)
process_from(g, n, from) ==
  /\ mmap' = [gen |-> g, len |-> n]
  /\ stat' = 0
  /\ printed' = printed \o Output(g, Mapped(g, n), from)
  /\ consumed' = last_end(Mapped(g, n), from)

-----------------------------------------------------------------------------
Init ==
  /\ logs = << << >> >>
  /\ present = TRUE
  /\ events = << >>
  /\ pc = "start"
  /\ mmap = [gen |-> 1, len |-> 0]
  /\ consumed = 0
  /\ stat = 0
  /\ printed = << >>
  /\ base = [gen |-> 1, at |-> 0]

Send(e) ==
  events' = IF e \in Range(events) THEN events ELSE Append(events, e)

(* The watcher reports a change of the path once it is installed; the      *)
(* system may also miss it.                                                *)
Notify ==
  \/ UNCHANGED events
  \/ pc # "start" /\ Send("target")

Write(c) ==
  /\ present
  /\ Len(live) < MaxLen /\ Len(FlattenSeq(logs)) < MaxCells
  /\ logs' = [logs EXCEPT ![Len(logs)] = Append(@, c)]
  /\ Notify
  /\ UNCHANGED <<present, pc, mmap, consumed, stat, printed, base>>

(* logrotate moves the file away, and later creates the new one.           *)
MoveAway ==
  /\ present
  /\ Len(logs) < MaxFiles
  /\ present' = FALSE
  /\ Notify
  /\ UNCHANGED <<logs, pc, mmap, consumed, stat, printed, base>>

Create ==
  /\ ~ present
  /\ present' = TRUE
  /\ logs' = Append(logs, << >>)
  /\ Notify
  /\ UNCHANGED <<pc, mmap, consumed, stat, printed, base>>

(* Another file of the watched directory changes.                          *)
OtherEvent ==
  /\ OthersChange
  /\ pc # "start"
  /\ Send("other")
  /\ UNCHANGED <<logs, present, pc, mmap, consumed, stat, printed, base>>

Producer == (\E c \in Cells : Write(c)) \/ MoveAway \/ Create

-----------------------------------------------------------------------------
(* run: the initial pass, then the watcher is installed.  A file that sniff*)
(* does not recognise ends the program before that; the offset the pass    *)
(* returns is dropped.                                                     *)
InitialPass ==
  /\ pc = "start"
  /\ present
  /\ ~ NoBeginIn(live, 0, Len(live))
  /\ printed' = Output(Len(logs), live, 0)
  /\ pc' = "open"
  /\ UNCHANGED <<logs, present, events, mmap, consumed, stat, base>>

(* FollowState::open, and the seed of consumed.                            *)
OpenState ==
  /\ pc = "open"
  /\ present
  /\ mmap' = [gen |-> Len(logs), len |-> Len(live)]
  /\ consumed' = Len(live)
  /\ base' = [gen |-> Len(logs), at |-> Len(live)]
  /\ pc' = "wait"
  /\ UNCHANGED <<logs, present, events, stat, printed>>

(* A path that cannot be opened ends the program with an error.            *)
Exit ==
  /\ ~ present
  /\ \/ pc = "open"
     \/ pc = "catch_up" /\ (stat < consumed \/ mmap.len < stat)
  /\ pc' = "exited"
  /\ UNCHANGED <<logs, present, events, mmap, consumed, stat, printed, base>>

(* rx.recv_timeout answers with an event, or after the fallback interval   *)
(* (the mutant takes the latter for an event that is not relevant).        *)
Receive ==
  /\ pc = "wait"
  /\ events # << >>
  /\ events' = Tail(events)
  /\ pc' = IF Head(events) = "target" THEN "stat" ELSE "wait"
  /\ UNCHANGED <<logs, present, mmap, consumed, stat, printed, base>>

TimeoutIgnored ==
  /\ pc = "wait"
  /\ events = << >>
  /\ UNCHANGED vars

Timeout ==
  /\ pc = "wait"
  /\ events = << >>
  /\ pc' = "stat"
  /\ UNCHANGED <<logs, present, events, mmap, consumed, stat, printed, base>>

(* catch_up: the size at the path, 0 when there is none.                   *)
Stat ==
  /\ pc = "stat"
  /\ stat' = IF present THEN Len(live) ELSE 0
  /\ pc' = "catch_up"
  /\ UNCHANGED <<logs, present, events, mmap, consumed, printed, base>>

(* The file shrank: it is opened again and parsed from its start.          *)
Reopen ==
  /\ pc = "catch_up"
  /\ stat < consumed
  /\ present
  /\ process_from(Len(logs), Len(live), 0)
  /\ base' = [gen |-> Len(logs), at |-> 0]
  /\ pc' = "wait"
  /\ UNCHANGED <<logs, present, events>>

(* The file grew: it is mapped again, whatever is at the path by now.      *)
Remap ==
  /\ pc = "catch_up"
  /\ consumed <= stat /\ mmap.len < stat
  /\ present
  /\ process_from(Len(logs), Len(live), consumed)
  /\ pc' = "wait"
  /\ UNCHANGED <<logs, present, events, base>>

(* Mutant of KeepMap: the mapping is parsed from its start again.          *)
KeepMapFromStart ==
  /\ pc = "catch_up"
  /\ consumed <= stat /\ stat <= mmap.len
  /\ process_from(mmap.gen, mmap.len, 0)
  /\ pc' = "wait"
  /\ UNCHANGED <<logs, present, events, base>>

(* The size has not changed: what is mapped is parsed from consumed again. *)
KeepMap ==
  /\ pc = "catch_up"
  /\ consumed <= stat /\ stat <= mmap.len
  /\ process_from(mmap.gen, mmap.len, consumed)
  /\ pc' = "wait"
  /\ UNCHANGED <<logs, present, events, base>>

CatchUp == Stat \/ Reopen \/ Remap \/ KeepMap \/ Exit

Grep == InitialPass \/ OpenState \/ Receive \/ CatchUp

Next == Producer \/ OtherEvent \/ Grep \/ Timeout

Spec == Init /\ [][Next]_vars

(* The process runs whenever it can.  The fallback fires only when nothing *)
(* has arrived for the whole interval.                                     *)
FairSpec == Spec /\ WF_vars(Grep) /\ WF_vars(Timeout)

(* The directory is quiet for the fallback interval again and again.       *)
QuietSpec == Spec /\ WF_vars(Grep) /\ SF_vars(Timeout)
-----------------------------------------------------------------------------
Position == [gen : Nat, at : Nat]

TypeOK ==
  /\ logs \in Seq(Seq(Cell)) /\ logs # << >>
  /\ present \in BOOLEAN
  /\ events \in {<< >>, <<"target">>, <<"other">>, <<"target", "other">>, <<"other", "target">>}
  /\ pc \in {"start", "open", "wait", "stat", "catch_up", "exited"}
  /\ mmap \in [gen : 1 .. Len(logs), len : Nat] /\ mmap.len <= Len(logs[mmap.gen])
  /\ consumed \in Nat
  /\ stat \in Nat
  /\ printed \in Seq(Position)
  /\ base \in Position

Printed(g) == {printed[i].at : i \in {j \in 1 .. Len(printed) : printed[j].gen = g}}

(* The follow loop prints every match of the file it maps from the offset   *)
(* it started at: a message half written at one catch-up is found by a      *)
(* later one, since consumed stays at the end of the last complete message. *)
NothingLostSinceBase ==
  LET b == Mapped(mmap.gen, mmap.len)
  IN pc = "wait" /\ mmap.gen = base.gen /\ NoNesting(b) =>
       \A o \in Matching(b) : base.at <= o => o \in Printed(mmap.gen)

(* Grep implements a tail: the output only grows, by complete matches, each *)
(* printed once and in file order, through every rotation and restart.      *)
Abstract ==
  INSTANCE TailSpec WITH FilterLength <- FilterLength, Cells <- Cells,
                         logs <- logs, printed <- printed

ImplementsTail == Abstract!Spec

(* A match of the live file, behind the start of following, not printed yet.*)
Waiting ==
  /\ pc \notin {"start", "open", "exited"}
  /\ present /\ Len(logs) = base.gen /\ NoNesting(live)
  /\ \E o \in Matching(live) : base.at <= o /\ o \notin Printed(base.gen)

(* Matches do not wait for ever, and need no event for it: the fallback     *)
(* interval finds what the events have missed.                              *)
CatchesUp == Waiting ~> ~ Waiting

-----------------------------------------------------------------------------
(* query-grep-tailing.md:5: grep "streams matches live as the file grows    *)
(* (tail -f style)": of a file that is only ever appended to, every match   *)
(* that is mapped has been printed.                                         *)
StreamsEveryMatch ==
  LET b == Mapped(mmap.gen, mmap.len)
  IN pc = "wait" /\ Len(logs) = 1 /\ NoNesting(b) => Matching(b) \subseteq Printed(1)

(* query-grep-tailing.md:52: "a shrinking or replaced file triggers a full  *)
(* re-bootstrap": between catch-ups, the mapped file is the one that        *)
(* following started on.                                                    *)
ReplacedFileIsReopened == pc = "wait" => mmap.gen = base.gen

(* grep.rs:29, on the fallback interval: "Catches the case where the OS     *)
(* collapsed events or the watcher missed a write".                         *)
MissedWriteIsCaught == Waiting ~> ~ Waiting
=============================================================================
