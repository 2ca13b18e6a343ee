------------------------------ MODULE MCPServer ------------------------------
(***************************************************************************)
(* The stdio server of src/cmd/awareness-mcp/main.go: serveStdio reads one *)
(* message at a time from standard input, handleRequest answers it, and    *)
(* the loop looks at the signal context only between two messages.         *)
(*                                                                         *)
(* The byte streams are pipes of bounded capacity.  A message travels as   *)
(* the units readStdioMessage tells apart: a line of JSON, or header lines *)
(* closed by a blank line and followed by a body.  The client may write a  *)
(* message in pieces, close the pipe in the middle of one, and signal the  *)
(* process whenever it likes.                                              *)
(***************************************************************************)
EXTENDS Naturals, Sequences

CONSTANTS
  Kinds,         \* the kinds of message the client sends
  Frames,        \* how it frames them: "line", "lsp" or "batch"
  MaxMessages,   \* bound on the messages sent
  PipeSize,      \* units each pipe holds
  Slots          \* capacity of the semaphore

\* quick stands for every request answered at once: the methods that are known,
\* the ones that are not, and a tools/call with bad parameters or an unknown
\* tool.  call stands for a tools/call of a registered tool, notice for the two
\* notifications that are recognised, garbage for text that does not parse.
\* Whether a request carries an id makes no difference to the server.
AllKinds == {"quick", "call", "notice", "garbage"}

ASSUME ServerAssumption ==
  /\ Kinds \subseteq AllKinds
  /\ Frames \subseteq {"line", "lsp", "batch"}
  /\ MaxMessages \in Nat /\ PipeSize \in Nat \ {0} /\ Slots \in Nat \ {0}

VARIABLES
  sent,      \* kinds of the messages the client has begun to write, in order
  pending,   \* units of the current message not written yet
  stdin,     \* the pipe to the server
  eof,       \* whether it is closed, and whether in the middle of a unit
  stdout,    \* the pipe back
  received,  \* responses the client has read
  cancelled, \* whether SIGINT or SIGTERM has cancelled the context
  pc,        \* where the server's only goroutine is
  sized,     \* whether the headers read so far include Content-Length
  current,   \* the message being handled, by its place in sent
  reply,     \* the response to be written
  handled,   \* messages handled so far, by their places in sent
  late,      \* how many of them were taken up after the cancellation
  sem        \* slots taken in the semaphore

client == <<sent, pending, eof, received>>
server == <<pc, sized, current, reply, handled, late, sem>>
vars   == <<client, stdin, stdout, cancelled, server>>

Unit(type, m) == [type |-> type, msg |-> m]

\* A batch is a JSON array on one line: not a line that starts with a brace.
Units(frame, m) ==
  CASE frame = "line"  -> <<Unit("json", m)>>
    [] frame = "lsp"   -> <<Unit("length", m), Unit("blank", m), Unit("body", m)>>
    [] frame = "batch" -> <<Unit("array", m)>>

\* What a client may send: a batch is of no single kind.
SendMessages ==
  {msg \in [kind : Kinds \cup {"several"}, frame : Frames] :
     msg.kind = "several" <=> msg.frame = "batch"}

Answer(m, type) == [msg |-> m, type |-> type]
NoReply == Answer(0, "none")

Init ==
  /\ sent = << >> /\ pending = << >> /\ stdin = << >> /\ eof = "open"
  /\ stdout = << >> /\ received = << >> /\ cancelled = FALSE
  /\ pc = "top" /\ sized = FALSE /\ current = 0 /\ reply = NoReply
  /\ handled = << >> /\ late = 0 /\ sem = 0

-----------------------------------------------------------------------------
(* The client, and the operating system                                    *)

BeginMessage ==
  /\ eof = "open" /\ pending = << >> /\ Len(sent) < MaxMessages
  /\ \E message \in SendMessages :
       /\ sent' = Append(sent, message)
       /\ pending' = Units(message.frame, Len(sent) + 1)
  /\ UNCHANGED <<eof, received, stdin, stdout, cancelled, server>>

WriteUnit ==
  /\ eof = "open" /\ pending # << >> /\ Len(stdin) < PipeSize
  /\ stdin' = Append(stdin, Head(pending))
  /\ pending' = Tail(pending)
  /\ UNCHANGED <<sent, eof, received, stdout, cancelled, server>>

\* The client closes the pipe, perhaps after the first bytes of a unit.
CloseStdin ==
  /\ eof = "open"
  /\ eof' \in {"closed"} \cup {e \in {"cut"} : pending # << >>}
  /\ UNCHANGED <<sent, pending, received, stdin, stdout, cancelled, server>>

ReadResponse ==
  /\ stdout # << >>
  /\ received' = Append(received, Head(stdout))
  /\ stdout' = Tail(stdout)
  /\ UNCHANGED <<sent, pending, eof, stdin, cancelled, server>>

Signal ==
  /\ ~cancelled
  /\ cancelled' = TRUE
  /\ UNCHANGED <<client, stdin, stdout, server>>

-----------------------------------------------------------------------------
(* serveStdio and readStdioMessage                                         *)

Goto(label) == pc' = label

\* Mutant: the context is not looked at.
TopIgnoresSignal ==
  /\ pc = "top"
  /\ Goto("line")
  /\ sized' = FALSE /\ current' = 0 /\ reply' = NoReply
  /\ UNCHANGED <<client, stdin, stdout, cancelled, handled, late, sem>>

\* The head of the loop: the only place the context is looked at.
Top ==
  /\ pc = "top"
  /\ Goto(IF cancelled THEN "returned" ELSE "line")
  /\ sized' = FALSE /\ current' = 0 /\ reply' = NoReply
  /\ UNCHANGED <<client, stdin, stdout, cancelled, handled, late, sem>>

\* Mutant: a message is taken for a header unless it was framed as one.
ReadLineHeadersOnly ==
  /\ pc = "line" /\ stdin # << >>
  /\ Goto(IF Head(stdin).type = "blank" THEN "line" ELSE "headers")
  /\ sized' = (Head(stdin).type = "length")
  /\ stdin' = Tail(stdin)
  /\ UNCHANGED <<client, stdout, cancelled, current, reply, handled, late, sem>>

\* The first line of a message.  Blank lines are skipped, a line that starts
\* with a brace is the message, anything else begins the headers.
ReadLine ==
  /\ pc = "line" /\ stdin # << >>
  /\ LET u == Head(stdin) IN
       /\ Goto(CASE u.type = "blank" -> "line"
                 [] u.type = "json"  -> "parse"
                 [] u.type \in {"length", "array"} -> "headers")
       /\ sized' = (u.type = "length")
       /\ current' = IF u.type = "json" THEN u.msg ELSE current
  /\ stdin' = Tail(stdin)
  /\ UNCHANGED <<client, stdout, cancelled, reply, handled, late, sem>>

\* Header lines up to a blank one; a line that is no header is passed over, a
\* missing Content-Length ends the server.
ReadHeader ==
  /\ pc = "headers" /\ stdin # << >>
  /\ LET u == Head(stdin) IN
       IF u.type = "blank"
       THEN Goto(IF sized THEN "body" ELSE "failed") /\ UNCHANGED sized
       ELSE sized' = (sized \/ u.type = "length") /\ UNCHANGED pc
  /\ stdin' = Tail(stdin)
  /\ UNCHANGED <<client, stdout, cancelled, current, reply, handled, late, sem>>

ReadBody ==
  /\ pc = "body" /\ stdin # << >>
  /\ current' = Head(stdin).msg
  /\ stdin' = Tail(stdin)
  /\ Goto("parse")
  /\ UNCHANGED <<client, stdout, cancelled, sized, reply, handled, late, sem>>

\* Mutant: an error while reading header lines is not looked at.
ReadEOFNotInHeaders ==
  /\ pc \in {"line", "body"} /\ stdin = << >> /\ eof # "open"
  /\ Goto(IF pc = "body" /\ eof = "cut" THEN "failed" ELSE "returned")
  /\ UNCHANGED <<client, stdin, stdout, cancelled, sized, current, reply, handled, late, sem>>

\* The end of the input: a clean return, except in the middle of a body.  What
\* there was of a line is dropped.
ReadEOF ==
  /\ pc \in {"line", "headers", "body"} /\ stdin = << >> /\ eof # "open"
  /\ Goto(IF pc = "body" /\ eof = "cut" THEN "failed" ELSE "returned")
  /\ UNCHANGED <<client, stdin, stdout, cancelled, sized, current, reply, handled, late, sem>>

\* Mutant: after text that does not parse, the reader looks for a blank line.
ParseResynchronises ==
  /\ pc = "parse"
  /\ handled' = Append(handled, current)
  /\ late' = IF cancelled THEN late + 1 ELSE late
  /\ Goto(IF sent[current].kind = "garbage" THEN "headers" ELSE "handle")
  /\ UNCHANGED <<client, stdin, stdout, cancelled, sized, current, reply, sem>>

\* json.Unmarshal: what does not parse is logged and passed over.
Parse ==
  /\ pc = "parse"
  /\ handled' = Append(handled, current)
  /\ late' = IF cancelled THEN late + 1 ELSE late
  /\ Goto(IF sent[current].kind = "garbage" THEN "top" ELSE "handle")
  /\ UNCHANGED <<client, stdin, stdout, cancelled, sized, current, reply, sem>>

-----------------------------------------------------------------------------
(* handleRequest and handleToolsCall                                       *)

Handle ==
  /\ pc = "handle"
  /\ LET kind == sent[current].kind IN
       /\ Goto(CASE kind = "notice" -> "top"
                 [] kind = "call"   -> "acquire"
                 [] kind = "quick"  -> "write")
       /\ reply' = IF kind = "quick" THEN Answer(current, "result") ELSE NoReply
  /\ UNCHANGED <<client, stdin, stdout, cancelled, sized, current, handled, late, sem>>

\* Mutant: the busy branch leaves without a response of its own.
AcquireBusyUnanswered ==
  /\ pc = "acquire"
  /\ \/ /\ sem < Slots
        /\ sem' = sem + 1
        /\ Goto("tool")
     \/ /\ cancelled
        /\ Goto("write") /\ UNCHANGED sem
  /\ UNCHANGED <<client, stdin, stdout, cancelled, sized, current, reply, handled, late>>

\* The select of handleToolsCall: when a slot is free and the context is
\* cancelled, either branch may be taken.
Acquire ==
  /\ pc = "acquire"
  /\ \/ /\ sem < Slots
        /\ sem' = sem + 1
        /\ Goto("tool") /\ UNCHANGED reply
     \/ /\ cancelled
        /\ reply' = Answer(current, "busy")
        /\ Goto("write") /\ UNCHANGED sem
  /\ UNCHANGED <<client, stdin, stdout, cancelled, sized, current, handled, late>>

\* The tool returns, with a result or with an error that is an answer too; the
\* deferred release gives the slot back.
Tool ==
  /\ pc = "tool"
  /\ \E type \in {"result", "tool error"} : reply' = Answer(current, type)
  /\ sem' = sem - 1
  /\ Goto("write")
  /\ UNCHANGED <<client, stdin, stdout, cancelled, sized, current, handled, late>>

\* Mutant: a full pipe loses the answer.
WriteReplyDrops ==
  /\ pc = "write"
  /\ stdout' = IF Len(stdout) < PipeSize THEN Append(stdout, reply) ELSE stdout
  /\ Goto("top")
  /\ UNCHANGED <<client, stdin, cancelled, sized, current, reply, handled, late, sem>>

WriteReply ==
  /\ pc = "write" /\ Len(stdout) < PipeSize
  /\ stdout' = Append(stdout, reply)
  /\ Goto("top")
  /\ UNCHANGED <<client, stdin, cancelled, sized, current, reply, handled, late, sem>>

ServerStep ==
  \/ Top \/ ReadLine \/ ReadHeader \/ ReadBody \/ ReadEOF \/ Parse
  \/ Handle \/ Acquire \/ Tool \/ WriteReply

ClientStep == BeginMessage \/ WriteUnit \/ CloseStdin \/ ReadResponse

Next == ClientStep \/ Signal \/ ServerStep

Spec == Init /\ [][Next]_vars

\* The goroutine runs when it can and every tool returns; the client finishes
\* the message it began, unless it closes the pipe, and reads its answers.
FairSpec ==
  /\ Spec
  /\ WF_vars(ServerStep)
  /\ WF_vars(WriteUnit) /\ WF_vars(ReadResponse)

-----------------------------------------------------------------------------
(* Properties                                                              *)

PcLabels == {"top", "line", "headers", "body", "parse", "handle", "acquire",
             "tool", "write", "returned", "failed"}

Messages == 1 .. Len(sent)
Replies  == received \o stdout
Stopped  == pc \in {"returned", "failed"}

TypeOK ==
  /\ sent \in Seq(SendMessages) /\ Len(sent) <= MaxMessages
  /\ eof \in {"open", "closed", "cut"} /\ cancelled \in BOOLEAN
  /\ Len(stdin) <= PipeSize /\ Len(stdout) <= PipeSize
  /\ \A i \in DOMAIN stdin : stdin[i].msg \in Messages
  /\ \A i \in DOMAIN Replies :
       Replies[i] \in [msg : Messages, type : {"result", "tool error", "busy"}]
  /\ pc \in PcLabels /\ sized \in BOOLEAN /\ current \in {0} \cup Messages
  /\ pc \in {"parse", "handle", "acquire", "tool", "write"} => current \in Messages
  /\ pc = "write" => reply.msg = current
  /\ sem \in 0 .. Slots

HandledSet == {handled[i] : i \in DOMAIN handled}

\* The two framings may be mixed freely.  Messages are handled once each and in
\* order; one is passed over only if it was a batch, or a bare line right after
\* a message that was passed over, whose headers it then looks like.
MessagesInOrder ==
  /\ \A i, j \in DOMAIN handled : i < j => handled[i] < handled[j]
  /\ \A m \in Messages : (\E h \in HandledSet : m < h) =>
       (m \notin HandledSet <=>
          \/ sent[m].frame = "batch"
          \/ sent[m].frame = "line" /\ m > 1 /\ m - 1 \notin HandledSet)

Wants(m) == sent[m].kind \in {"quick", "call"}

\* What has been answered: everything handled but the message in hand.
Done ==
  HandledSet \ {m \in {current} : pc \in {"handle", "acquire", "tool", "write"}}

\* The answers on the way to the client and those it has read are in the order
\* of the requests, one for each that was handled so far and none for anything
\* else, however often the pipe was full and whether or not a signal arrived
\* meanwhile.
AnswersFollowRequests ==
  /\ \A i, j \in DOMAIN Replies : i < j => Replies[i].msg < Replies[j].msg
  /\ {Replies[i].msg : i \in DOMAIN Replies} = {m \in Done : Wants(m)}

\* After the signal the server takes up at most one more message, and a request
\* turned away as busy is the last one answered.
OneMessageAfterSignal ==
  /\ late <= 1
  /\ \A i \in DOMAIN Replies : Replies[i].type = "busy" => cancelled /\ i = Len(Replies)

\* Nothing more is taken up: something was after the signal, or turned away.
TurnsAway == late > 0 \/ \E i \in DOMAIN Replies : Replies[i].type = "busy"

Line == INSTANCE RequestLine WITH
          Sendable <- SendMessages, queue <- sent, taken <- handled,
          answers <- Replies, closing <- TurnsAway

\* However messages are framed and cut up, and whichever pipe is full when the
\* signal comes, the server is a line of requests served one after the other.
ImplementsRequestLine == Line!LineSpec

\* A slot is held exactly while a tool runs, so the eight slots never run out.
SlotsBalanced == sem = IF pc = "tool" THEN 1 ELSE 0

Batched(m) == \E b \in 1 .. m : sent[b].frame = "batch"

Answered(m) == \E i \in DOMAIN received : received[i].msg = m

\* The server stands still only where a pipe makes it: every line it reads and
\* every message it takes up belongs to a case of the code, and the semaphore,
\* which one goroutine takes and gives back, never makes it wait.
OnlyPipesBlock ==
  /\ pc = "line" /\ stdin # <<>> => Head(stdin).type \in {"blank", "json", "length", "array"}
  /\ pc = "body" /\ stdin # <<>> => Head(stdin).type = "body"
  /\ pc = "handle" => sent[current].kind \in {"notice", "call", "quick"}
  /\ pc = "acquire" => sem < Slots
  /\ pc = "tool" => sem > 0

\* How far each label is from the next read, or from the end.
Rank ==
  [parse |-> 7, handle |-> 6, acquire |-> 5, tool |-> 4, write |-> 3, top |-> 2,
   line |-> 1, headers |-> 1, body |-> 1, returned |-> 0, failed |-> 0]

\* The steps the server has left at most, once its input is closed.
Effort == 10 * Len(stdin) + Rank[pc]

\* Once its input is closed the server runs down: each of its steps leaves it
\* fewer, and nothing the client or a signal does gives it more.
ClosedServerRunsDown ==
  [][eof # "open" => Effort' <= Effort /\ (ServerStep => Effort' < Effort)]_vars

\* A client that never batches gets an answer to every request it begins, or
\* sees the server gone: neither framing, nor full pipes, nor unparsable
\* messages in between leave it waiting.
EveryRequestAnswered ==
  \A m \in 1 .. MaxMessages :
    (m \in Messages /\ Wants(m) /\ ~Batched(m)) ~> (Stopped \/ Answered(m))

\* Closing the pipe stops the server, wherever in a message it happens.
ClosingStops == (eof # "open") ~> Stopped

=============================================================================
