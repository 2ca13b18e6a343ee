----------------------------- MODULE RequestLine -----------------------------
(***************************************************************************)
(* What the server on standard input promises, without pipes, framings or  *)
(* a program counter: messages queue up, one at a time is taken up, and    *)
(* what asks for an answer gets exactly one before the next is taken up.   *)
(*                                                                         *)
(* Only one thing is passed over: a batch, and the bare lines that come    *)
(* between it and the next message with headers of its own.                *)
(***************************************************************************)
EXTENDS Naturals, Sequences

CONSTANT Sendable   \* the messages there are: [kind, frame]

VARIABLES
  queue,      \* the messages sent, in order
  taken,      \* the places of those taken up, in order
  answers,    \* the answers given: [msg, type]
  cancelled,  \* the server was told to stop
  closing     \* it takes up nothing more

lineVars == <<queue, taken, answers, cancelled, closing>>

LineInit ==
  /\ queue = <<>> /\ taken = <<>> /\ answers = <<>>
  /\ cancelled = FALSE /\ closing = FALSE

LastTaken == IF taken = <<>> THEN 0 ELSE taken[Len(taken)]

PassedOver(n) ==
  \/ queue[n].frame = "batch"
  \/ queue[n].frame = "line" /\ n > LastTaken + 1

\* The message to be taken up next.
IsNext(m) ==
  /\ m > LastTaken /\ ~PassedOver(m)
  /\ \A n \in (LastTaken + 1) .. (m - 1) : PassedOver(n)

\* The message taken up last, when it still waits for its answer.
Owed(m) ==
  /\ taken # <<>> /\ m = LastTaken
  /\ queue[m].kind \in {"quick", "call"}
  /\ \A i \in DOMAIN answers : answers[i].msg # m

Send ==
  /\ \E message \in Sendable : queue' = Append(queue, message)
  /\ UNCHANGED <<taken, answers, cancelled, closing>>

\* Of the messages taken up after the signal there is but one.
TakeUp(m) ==
  /\ ~closing /\ IsNext(m) /\ ~Owed(LastTaken)
  /\ taken' = Append(taken, m)
  /\ closing' = cancelled
  /\ UNCHANGED <<queue, answers, cancelled>>

\* Only a call may fail, and only after the signal may it be turned away; then
\* nothing more is taken up.
Answer(m, type) ==
  /\ Owed(m)
  /\ type # "result" => queue[m].kind = "call"
  /\ type = "busy" => cancelled
  /\ answers' = Append(answers, [msg |-> m, type |-> type])
  /\ closing' = (closing \/ type = "busy")
  /\ UNCHANGED <<queue, taken, cancelled>>

Cancel ==
  /\ ~cancelled /\ cancelled' = TRUE
  /\ UNCHANGED <<queue, taken, answers, closing>>

LineNext ==
  \/ Send \/ Cancel
  \/ \E m \in DOMAIN queue :
       TakeUp(m) \/ \E type \in {"result", "tool error", "busy"} : Answer(m, type)

LineSpec == LineInit /\ [][LineNext]_lineVars
=============================================================================
