----------------------------- MODULE LogStream -----------------------------
(***************************************************************************)
(* A client follows the log of a run while it is written (api/runs.py,     *)
(* stream_log; services/runner.py, _execute_run).  The process group of    *)
(* the transfer writes whenever it likes; the run's own coroutine and the  *)
(* stream take turns on the event loop.  A line stands for a piece of the  *)
(* file that one read returns: what the transfer has written so far of a   *)
(* line is sent as a line.                                                 *)
(***************************************************************************)
EXTENDS Integers

CONSTANTS
  Polls,       \* how often the stream looks for the file before it gives up
  Lines        \* bound: the length of a log

StreamAssumption == Polls \in Nat /\ Lines \in Nat \ {0}

VARIABLES
  row,         \* the run's state, or "deleted"
  log,         \* how many lines the file has, or Absent
  writer,      \* who may write: nobody yet, the process group, the coroutine, nobody
  stream       \* where the stream stands, what it sent and what it ended with

vars == <<row, log, writer, stream>>

Absent   == -1
Terminal == {"success", "failed", "cancelled"}
Silent   == "nothing"         \* the end event without a state

NoStream == [at |-> "none", polls |-> 0, sent |-> 0, told |-> Silent]

Init ==
  /\ row = "pending" /\ log = Absent
  /\ writer = "none"
  /\ stream = NoStream

\* Seeded fault: the stream lets others run between its last read and its look at
\* the row.
LoopHeld_Never == FALSE
\* The stream has met the end of the file and looks at the row in the same step of
\* the event loop.
LoopHeld == stream.at = "ask"
-----------------------------------------------------------------------------
(* The run.                                                                *)

\* It has what it waited for: the row, the file with its heading and the process.
Start ==
  /\ ~LoopHeld /\ row = "pending" /\ writer = "none"
  /\ row' = "running" /\ log' = 1 /\ writer' = "process"
  /\ UNCHANGED stream

\* It fails before that, or is cancelled while it waits, or the watchdog finds it.
NeverStarts ==
  /\ ~LoopHeld /\ row = "pending"
  /\ row' \in {"failed", "cancelled"} /\ writer' = "over"
  /\ UNCHANGED <<log, stream>>

Write ==
  /\ writer = "process" /\ log < Lines
  /\ log' = log + 1
  /\ UNCHANGED <<row, writer, stream>>

\* The process group is gone, by itself or killed.
ProcessEnds ==
  /\ writer = "process" /\ writer' = "coroutine"
  /\ UNCHANGED <<row, log, stream>>

\* A remark on the deadline, the cancellation or the error, and those of the prune.
Remark ==
  /\ ~LoopHeld /\ writer = "coroutine" /\ log < Lines
  /\ log' = log + 1
  /\ UNCHANGED <<row, writer, stream>>

\* The terminal commit.
Finish ==
  /\ ~LoopHeld /\ writer = "coroutine"
  /\ row' \in Terminal /\ writer' = "over"
  /\ UNCHANGED <<log, stream>>

\* delete_task removes the rows of its runs, none of them active, and their files.
Delete ==
  /\ ~LoopHeld /\ row \in Terminal
  /\ row' = "deleted" /\ log' = Absent
  /\ UNCHANGED <<writer, stream>>

\* The process ends with everything it runs, and the next one fails the row.
Restart ==
  /\ row' = IF row \in {"pending", "running"} THEN "failed" ELSE row
  /\ writer' = "over"
  /\ stream' = NoStream
  /\ UNCHANGED log
-----------------------------------------------------------------------------
(* The stream.                                                             *)

Connect ==
  /\ stream.at = "none" /\ row # "deleted"
  /\ stream' = [NoStream EXCEPT !.at = "wait", !.polls = Polls]
  /\ UNCHANGED <<row, log, writer>>

\* A look at the path, and the last one when all polls are used up.
Look ==
  /\ stream.at = "wait"
  /\ stream' = IF log # Absent THEN [stream EXCEPT !.at = "tail"]
               ELSE IF stream.polls > 0 THEN [stream EXCEPT !.polls = @ - 1]
               ELSE [stream EXCEPT !.at = "ended"]
  /\ UNCHANGED <<row, log, writer>>

\* An unlinked file stays open and does not grow.
Rest == IF log = Absent THEN 0 ELSE log - stream.sent

ReadLine ==
  /\ stream.at = "tail"
  /\ stream' = IF Rest > 0 THEN [stream EXCEPT !.sent = @ + 1]
               ELSE [stream EXCEPT !.at = "ask"]
  /\ UNCHANGED <<row, log, writer>>

\* It ends on a terminal row, and sleeps otherwise, also when the row is gone.
Ask ==
  /\ stream.at = "ask"
  /\ stream' = IF row \in Terminal THEN [stream EXCEPT !.at = "ended", !.told = row]
               ELSE [stream EXCEPT !.at = "tail"]
  /\ UNCHANGED <<row, log, writer>>

Next ==
  \/ Start \/ NeverStarts \/ Write \/ ProcessEnds \/ Remark \/ Finish
  \/ Delete \/ Restart
  \/ Connect \/ Look \/ ReadLine \/ Ask

Spec == Init /\ [][Next]_vars
-----------------------------------------------------------------------------
TypeOK ==
  /\ row \in {"pending", "running", "deleted"} \cup Terminal
  /\ log \in {Absent} \cup 1..Lines
  /\ writer \in {"none", "process", "coroutine", "over"}
  /\ stream \in [at : {"none", "wait", "tail", "ask", "ended"}, polls : 0..Polls,
                 sent : 0..Lines, told : {Silent} \cup Terminal]

\* A stream that ends with a state has sent the whole log of a run that ended in it,
\* the remarks written after its process was killed included, however the writing,
\* the commit and the reading interleave.
EndIsComplete ==
  stream.told # Silent /\ row # "deleted" => stream.told = row /\ stream.sent = log
=============================================================================
