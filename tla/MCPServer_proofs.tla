-------------------------- MODULE MCPServer_proofs --------------------------
(***************************************************************************)
(* Proofs about MCPServer: for any number of messages, any pipe and any    *)
(* number of slots.                                                        *)
(*                                                                         *)
(* What the server has not read yet, on the pipe or still with the client, *)
(* is one stream of units.  The invariant says how a well-framed stream    *)
(* looks, which unit the reader stands before at every label, and which    *)
(* messages it has decided about: those before the front of the stream.    *)
(***************************************************************************)
EXTENDS MCPServer, TLAPS

Closers == {"json", "array", "body"}
UnitSet == [type : Closers \cup {"length", "blank"}, msg : Nat \ {0}]
AnswerSet == [msg : Nat, type : {"none", "result", "tool error", "busy"}]

Shapes ==
  /\ sent \in Seq(SendMessages) /\ Len(sent) <= MaxMessages
  /\ stdin \in Seq(UnitSet) /\ pending \in Seq(UnitSet)
  /\ Len(stdin) <= PipeSize /\ Len(stdout) <= PipeSize
  /\ received \in Seq(AnswerSet) /\ stdout \in Seq(AnswerSet) /\ reply \in AnswerSet
  /\ handled \in Seq(Nat) /\ HandledSet \subseteq Messages
  /\ eof \in {"open", "closed", "cut"} /\ cancelled \in BOOLEAN
  /\ pc \in PcLabels /\ sized \in BOOLEAN /\ current \in {0} \cup Messages

\* What the server has still to read.
Stream == stdin \o pending

\* A unit belongs to a message of its framing.
UnitFits(u) ==
  /\ u.msg \in Messages
  /\ sent[u.msg].frame = CASE u.type = "json" -> "line" [] u.type = "array" -> "batch"
                           [] u.type \in {"length", "blank", "body"} -> "lsp"

\* One unit comes after another.
Follows(u, v) ==
  /\ u.type = "length" <=> v.type = "blank"
  /\ u.type = "blank" <=> v.type = "body"
  /\ v.msg = IF u.type \in Closers THEN u.msg + 1 ELSE u.msg

WellFramed ==
  /\ \A i \in DOMAIN Stream : UnitFits(Stream[i])
  /\ \A i \in 1..(Len(Stream) - 1) : Follows(Stream[i], Stream[i + 1])
  /\ Stream # <<>> => /\ Stream[Len(Stream)].type \in Closers
                      /\ Stream[Len(Stream)].msg = Len(sent)

\* The reader is inside a framed message.
Inside == pc = "body" \/ (pc = "headers" /\ sized)

HeadFits ==
  /\ Inside => /\ Stream # <<>>
               /\ Stream[1].type = IF pc = "body" THEN "body" ELSE "blank"
  /\ ~Inside /\ ~Stopped /\ Stream # <<>> => Stream[1].type \notin {"blank", "body"}

Front == IF Stream # <<>> THEN Stream[1].msg ELSE Len(sent) + 1

InHand == pc \in {"handle", "acquire", "tool", "write"}

\* The first message nothing is decided about.
Place == IF pc = "parse" THEN current ELSE Front

Skipped(m) ==
  \/ sent[m].frame = "batch"
  \/ sent[m].frame = "line" /\ m > 1 /\ m - 1 \notin HandledSet

Increasing == \A i, j \in DOMAIN handled : i < j => handled[i] < handled[j]

Settled ==
  ~Stopped =>
    /\ \A m \in Messages : m < Place => (m \notin HandledSet <=> Skipped(m))
    /\ \A h \in HandledSet : h < Place
    /\ pc = "parse" => /\ current \in Messages /\ current = Front - 1
                       /\ ~Skipped(current) /\ sent[current].frame # "batch"
    /\ InHand => current \in HandledSet /\ current = Front - 1
    /\ pc = "headers" /\ ~sized => Place > 1 /\ Place - 1 \notin HandledSet
    /\ ~Inside /\ pc \notin {"headers", "parse"} => Place = 1 \/ Place - 1 \in HandledSet

\* What is in hand at each label.
HandInv ==
  /\ pc = "handle" => sent[current].kind \in {"quick", "call", "notice"}
  /\ pc \in {"acquire", "tool"} => sent[current].kind = "call"
  /\ pc = "write" => /\ Wants(current) /\ reply.msg = current /\ reply.type # "none"
                     /\ reply.type = "busy" => cancelled
                     /\ reply.type # "result" => sent[current].kind = "call"

Types == {"result", "tool error", "busy"}

\* After the signal there is no way back to the reader.
LateInv ==
  /\ late \in 0..1
  /\ late = 1 => cancelled /\ (InHand \/ pc = "top" \/ Stopped)
  /\ \A i \in DOMAIN Replies : Replies[i].type \in Types
  /\ \A i \in DOMAIN Replies :
       Replies[i].type = "busy" => cancelled /\ i = Len(Replies) /\ (pc = "top" \/ Stopped)

Inv == /\ Shapes /\ WellFramed /\ HeadFits /\ Increasing /\ Settled /\ MessagesInOrder
       /\ HandInv /\ AnswersFollowRequests /\ LateInv /\ SlotsBalanced
-----------------------------------------------------------------------------
(* Streams.                                                                *)

\* Moving the head of one sequence to the end of another.
LEMMA MoveHead ==
  ASSUME NEW S, NEW a \in Seq(S), NEW b \in Seq(S), b # <<>>
  PROVE  /\ Append(a, Head(b)) \in Seq(S) /\ Tail(b) \in Seq(S)
         /\ Append(a, Head(b)) \o Tail(b) = a \o b
OBVIOUS

\* Taking the head of the first of two.
LEMMA TakeHead ==
  ASSUME NEW S, NEW a \in Seq(S), NEW b \in Seq(S), a # <<>>
  PROVE  /\ Tail(a) \in Seq(S) /\ Len(Tail(a)) = Len(a) - 1
         /\ a \o b \in Seq(S) /\ Len(a \o b) = Len(a) + Len(b) /\ a \o b # <<>>
         /\ Head(a) = (a \o b)[1] /\ Head(a) \in S
         /\ Tail(a) \o b = Tail(a \o b)
OBVIOUS

\* The tail of a sequence, one by one.
LEMMA TailIs ==
  ASSUME NEW S, NEW q \in Seq(S), q # <<>>
  PROVE  /\ Tail(q) \in Seq(S) /\ Len(Tail(q)) = Len(q) - 1
         /\ \A i \in DOMAIN Tail(q) : i + 1 \in DOMAIN q /\ Tail(q)[i] = q[i + 1]
OBVIOUS

LEMMA StreamIs ==
  ASSUME Shapes
  PROVE  Stream \in Seq(UnitSet) /\ Len(Stream) \in Nat /\ (Stream # <<>> => 1 \in DOMAIN Stream)
BY DEF Shapes, Stream

\* Reading a unit takes the head of the stream and leaves a well-framed one.
LEMMA ReadUnit ==
  ASSUME Shapes, WellFramed, stdin # <<>>, stdin' = Tail(stdin), pending' = pending, sent' = sent
  PROVE  /\ Head(stdin) = Stream[1] /\ Stream # <<>> /\ Stream[1] \in UnitSet
         /\ UnitFits(Stream[1]) /\ Front = Stream[1].msg
         /\ stdin' \in Seq(UnitSet) /\ Len(stdin') <= PipeSize
         /\ WellFramed'
         /\ Stream' # <<>> => Follows(Stream[1], Stream'[1])
         /\ Stream' = <<>> => Stream[1].type \in Closers
         /\ Front' = IF Stream[1].type \in Closers THEN Front + 1 ELSE Front
<1>1. stdin \in Seq(UnitSet) /\ pending \in Seq(UnitSet)
  BY DEF Shapes
<1>2. /\ Head(stdin) = Stream[1] /\ Stream # <<>> /\ Stream \in Seq(UnitSet) /\ Stream[1] \in UnitSet
      /\ stdin' \in Seq(UnitSet) /\ Len(stdin') = Len(stdin) - 1
      /\ Stream' = Tail(Stream)
  BY <1>1, TakeHead DEF Stream
<1>3. Len(stdin) \in Nat /\ Len(stdin') <= PipeSize
  BY <1>1, <1>2, ServerAssumption DEF Shapes
<1>4. /\ Stream' \in Seq(UnitSet) /\ Len(Stream') = Len(Stream) - 1
      /\ \A i \in DOMAIN Stream' : i + 1 \in DOMAIN Stream /\ Stream'[i] = Stream[i + 1]
  BY <1>2, TailIs
<1>5. 1 \in DOMAIN Stream /\ UnitFits(Stream[1]) /\ Len(Stream) \in Nat \ {0}
  BY <1>2 DEF WellFramed
<1>6. Stream' # <<>> => Follows(Stream[1], Stream'[1])
  <2>1. Stream' # <<>> => 1 \in DOMAIN Stream' /\ 1 \in 1..(Len(Stream) - 1)
    BY <1>4, <1>5
  <2>. QED BY <2>1, <1>4 DEF WellFramed
<1>7. Stream' = <<>> => Stream[1].type \in Closers /\ Stream[1].msg = Len(sent)
  <2>1. Stream' = <<>> => Len(Stream) = 1
    BY <1>4, <1>5
  <2>. QED BY <1>2, <2>1 DEF WellFramed
<1>8. WellFramed'
  <2>1. ASSUME NEW i \in DOMAIN Stream' PROVE UnitFits(Stream[i])'
    <3>1. UnitFits(Stream'[i])
      BY <1>4, <2>1 DEF WellFramed
    <3>. QED BY <3>1 DEF UnitFits, Messages
  <2>2. ASSUME NEW i \in 1..(Len(Stream') - 1) PROVE Follows(Stream'[i], Stream'[i + 1])
    <3>1. i \in DOMAIN Stream' /\ i + 1 \in DOMAIN Stream' /\ i + 1 \in 1..(Len(Stream) - 1)
      BY <1>4, <1>5, <2>2
    <3>. QED BY <1>4, <3>1 DEF WellFramed
  <2>3. Stream' # <<>> => Len(Stream') \in DOMAIN Stream' /\ Len(Stream') + 1 = Len(Stream)
    BY <1>4, <1>5
  <2>4. Stream' # <<>> => Stream'[Len(Stream')] = Stream[Len(Stream)]
    BY <1>4, <2>3
  <2>. QED BY <1>2, <2>1, <2>2, <2>4 DEF WellFramed, Follows
<1>9. Front' = IF Stream[1].type \in Closers THEN Front + 1 ELSE Front
  BY <1>2, <1>6, <1>7 DEF Front, Follows
<1>. QED BY <1>2, <1>3, <1>5, <1>6, <1>7, <1>8, <1>9 DEF Front

\* The frame a unit belongs to.
FrameOf(u) ==
  CASE u.type = "json" -> "line" [] u.type = "array" -> "batch"
    [] u.type \in {"length", "blank", "body"} -> "lsp"

\* These are the units of one message.
OneMessage(q, frame, m) ==
  /\ q \in Seq(UnitSet) /\ Len(q) \in Nat \ {0}
  /\ \A i \in DOMAIN q : q[i].msg = m /\ FrameOf(q[i]) = frame
  /\ \A i \in 1..(Len(q) - 1) : Follows(q[i], q[i + 1])
  /\ q[Len(q)].type \in Closers /\ q[1].type \notin {"blank", "body"}

LEMMA UnitsAre ==
  ASSUME NEW frame \in {"line", "lsp", "batch"}, NEW m \in Nat \ {0}
  PROVE  OneMessage(Units(frame, m), frame, m)
<1>. DEFINE q == Units(frame, m)
<1>. HIDE DEF q
<1>. SUFFICES OneMessage(q, frame, m)
  BY DEF q
<1>. USE DEF q, OneMessage, Units, Unit, UnitSet, Closers, FrameOf, Follows
<1>1. CASE frame = "line"
  BY <1>1
<1>2. CASE frame = "batch"
  BY <1>2
<1>3. CASE frame = "lsp"
  <2>3. q = <<Unit("length", m), Unit("blank", m), Unit("body", m)>>
    BY <1>3
  <2>1. q \in Seq(UnitSet) /\ Len(q) = 3 /\ DOMAIN q = 1..3
    <3>. DEFINE r == <<Unit("length", m), Unit("blank", m), Unit("body", m)>>
    <3>1. r \in Seq(UnitSet) /\ Len(r) = 3 /\ DOMAIN r = 1..3
      OBVIOUS
    <3>. QED BY <2>3, <3>1
  <2>2. q[1] = Unit("length", m) /\ q[2] = Unit("blank", m) /\ q[3] = Unit("body", m)
    BY <2>3
  <2>4. \A i \in 1..2 : i = 1 \/ i = 2
    OBVIOUS
  <2>5. \A i \in 1..2 : Follows(q[i], q[i + 1])
    BY <2>2, <2>4
  <2>. QED BY <1>3, <2>1, <2>2, <2>5
<1>. QED BY <1>1, <1>2, <1>3

\* Two sequences one after the other, one by one.
LEMMA ConcatIs ==
  ASSUME NEW S, NEW a \in Seq(S), NEW b \in Seq(S)
  PROVE  /\ a \o b \in Seq(S) /\ Len(a \o b) = Len(a) + Len(b)
         /\ \A i \in DOMAIN a : i \in DOMAIN (a \o b) /\ (a \o b)[i] = a[i]
         /\ \A i \in DOMAIN b : Len(a) + i \in DOMAIN (a \o b) /\ (a \o b)[Len(a) + i] = b[i]
         /\ \A i \in DOMAIN (a \o b) : \/ i \in DOMAIN a
                                       \/ i - Len(a) \in DOMAIN b /\ i = Len(a) + (i - Len(a))
OBVIOUS

\* A message the client begins comes after all the others.
LEMMA BeginStream ==
  ASSUME Shapes, WellFramed, BeginMessage
  PROVE  /\ sent' \in Seq(SendMessages) /\ Len(sent') = Len(sent) + 1 /\ Len(sent') <= MaxMessages
         /\ \A m \in Messages : m \in Messages' /\ sent'[m] = sent[m]
         /\ pending' \in Seq(UnitSet)
         /\ WellFramed' /\ Front' = Front /\ Stream' # <<>>
         /\ Stream # <<>> => Stream'[1] = Stream[1]
         /\ Stream = <<>> => Stream'[1].type \notin {"blank", "body"}
<1>1. PICK message \in SendMessages :
        sent' = Append(sent, message) /\ pending' = Units(message.frame, Len(sent) + 1)
  BY DEF BeginMessage
<1>. DEFINE n == Len(sent) + 1
            q == Units(message.frame, n)
<1>2. /\ sent \in Seq(SendMessages) /\ Len(sent) < MaxMessages /\ pending = <<>> /\ stdin' = stdin
      /\ stdin \in Seq(UnitSet) /\ n \in Nat \ {0}
  BY DEF BeginMessage, Shapes
<1>0. message.frame \in {"line", "lsp", "batch"}
  <2>1. message.frame \in Frames
    BY DEF SendMessages
  <2>. QED BY <2>1, ServerAssumption
<1>3. /\ sent' \in Seq(SendMessages) /\ Len(sent') = n /\ n <= MaxMessages
      /\ \A m \in Messages : m \in Messages' /\ sent'[m] = sent[m]
      /\ sent'[n] = message /\ n \in Messages'
  BY <1>1, <1>2, ServerAssumption DEF Messages
<1>q. q = Units(message.frame, n) /\ n = Len(sent) + 1
  OBVIOUS
<1>. HIDE DEF q
<1>4. /\ q \in Seq(UnitSet) /\ Len(q) \in Nat \ {0}
      /\ \A i \in DOMAIN q : q[i].msg = n /\ FrameOf(q[i]) = message.frame
      /\ \A i \in 1..(Len(q) - 1) : Follows(q[i], q[i + 1])
      /\ q[Len(q)].type \in Closers /\ q[1].type \notin {"blank", "body"}
  <2>1. OneMessage(q, message.frame, n)
    BY <1>0, <1>2, <1>q, UnitsAre
  <2>. QED BY <2>1 DEF OneMessage
<1>5. Stream = stdin /\ Stream \in Seq(UnitSet) /\ Stream' = Stream \o q /\ Len(Stream) \in Nat
  BY <1>1, <1>2, <1>q DEF Stream
<1>6. /\ Stream' \in Seq(UnitSet) /\ Len(Stream') = Len(Stream) + Len(q)
      /\ \A i \in DOMAIN Stream : i \in DOMAIN Stream' /\ Stream'[i] = Stream[i]
      /\ \A i \in DOMAIN q : Len(Stream) + i \in DOMAIN Stream' /\ Stream'[Len(Stream) + i] = q[i]
      /\ \A i \in DOMAIN Stream' : \/ i \in DOMAIN Stream
                                   \/ i - Len(Stream) \in DOMAIN q /\ i = Len(Stream) + (i - Len(Stream))
  BY <1>4, <1>5, ConcatIs
<1>7. DOMAIN q = 1..Len(q) /\ DOMAIN Stream = 1..Len(Stream) /\ DOMAIN Stream' = 1..Len(Stream')
  BY <1>4, <1>5, <1>6
<1>8. Stream' # <<>> /\ Len(Stream') = Len(Stream) + Len(q) /\ Stream'[Len(Stream')] = q[Len(q)]
  BY <1>4, <1>5, <1>6, <1>7
<1>9. Stream # <<>> => Stream'[1] = Stream[1]
  BY <1>5, <1>6, <1>7
<1>10. Stream = <<>> => Stream'[1] = q[1]
  BY <1>4, <1>5, <1>6, <1>7
<1>11. \A i \in DOMAIN Stream' : UnitFits(Stream[i])'
  <2>1. ASSUME NEW i \in DOMAIN Stream PROVE UnitFits(Stream[i])'
    BY <1>3, <1>6, <2>1 DEF WellFramed, UnitFits
  <2>2. ASSUME NEW i \in DOMAIN q, NEW j, j = Len(Stream) + i PROVE UnitFits(Stream[j])'
    <3>1. Stream'[j] = q[i]
      BY <1>6, <2>2
    <3>2. FrameOf(q[i]) = message.frame /\ q[i].msg = n
      BY <1>4
    <3>. QED BY <1>3, <3>1, <3>2 DEF UnitFits, FrameOf
  <2>. QED BY <1>6, <2>1, <2>2
<1>12. ASSUME NEW i \in 1..(Len(Stream') - 1) PROVE Follows(Stream'[i], Stream'[i + 1])
  <2>1. CASE i < Len(Stream)
    <3>1. i \in DOMAIN Stream /\ i + 1 \in DOMAIN Stream /\ i \in 1..(Len(Stream) - 1)
      BY <1>5, <1>7, <2>1
    <3>. QED BY <1>6, <3>1 DEF WellFramed
  <2>2. CASE i = Len(Stream)
    <3>0. i \in DOMAIN Stream /\ Stream # <<>> /\ 1 \in DOMAIN q
      BY <1>4, <1>5, <1>7, <2>2
    <3>1. i \in DOMAIN Stream /\ Stream # <<>> /\ Stream'[i + 1] = q[1] /\ q[1].msg = n
      BY <1>4, <1>6, <2>2, <3>0
    <3>2. Stream'[i].type \in Closers /\ Stream'[i].msg + 1 = n
      BY <1>6, <2>2, <3>1 DEF WellFramed
    <3>3. Stream'[i].type # "length" /\ Stream'[i].type # "blank"
      BY <3>2 DEF Closers
    <3>. QED BY <1>4, <3>1, <3>2, <3>3 DEF Follows
  <2>3. CASE i > Len(Stream)
    <3>1. /\ i - Len(Stream) \in 1..(Len(q) - 1)
          /\ i - Len(Stream) \in DOMAIN q /\ i - Len(Stream) + 1 \in DOMAIN q
          /\ Len(Stream) + (i - Len(Stream)) = i /\ Len(Stream) + (i - Len(Stream) + 1) = i + 1
      BY <1>4, <1>5, <1>6, <1>7, <2>3
    <3>2. Stream'[i] = q[i - Len(Stream)] /\ Stream'[i + 1] = q[i - Len(Stream) + 1]
      BY <1>6, <3>1
    <3>. QED BY <1>4, <3>1, <3>2
  <2>. QED BY <1>5, <2>1, <2>2, <2>3
<1>13. Stream'[Len(Stream')].type \in Closers /\ Stream'[Len(Stream')].msg = Len(sent')
  BY <1>3, <1>4, <1>7, <1>8
<1>14. WellFramed'
  BY <1>11, <1>12, <1>13 DEF WellFramed, Follows
<1>15. Front' = Front
  <2>1. q[1].msg = n
    BY <1>4, <1>7
  <2>. QED BY <1>8, <1>9, <1>10, <2>1 DEF Front
<1>16. pending' \in Seq(UnitSet)
  BY <1>1, <1>4, <1>q
<1>. QED BY <1>3, <1>4, <1>8, <1>9, <1>10, <1>14, <1>15, <1>16
\* What writing and everything but reading does to the stream.
LEMMA SameStream ==
  ASSUME Shapes, WellFramed, sent' = sent,
         (stdin' = stdin /\ pending' = pending) \/ WriteUnit
  PROVE  /\ Stream' = Stream /\ WellFramed' /\ Front' = Front
         /\ stdin' \in Seq(UnitSet) /\ pending' \in Seq(UnitSet) /\ Len(stdin') <= PipeSize
<1>1. /\ Stream' = Stream /\ stdin' \in Seq(UnitSet) /\ pending' \in Seq(UnitSet)
      /\ Len(stdin') <= PipeSize
  <2>1. CASE stdin' = stdin /\ pending' = pending
    BY <2>1 DEF Stream, Shapes
  <2>2. CASE WriteUnit
    <3>1. /\ stdin \in Seq(UnitSet) /\ pending \in Seq(UnitSet) /\ pending # <<>>
          /\ stdin' = Append(stdin, Head(pending)) /\ pending' = Tail(pending)
          /\ Len(stdin) < PipeSize
      BY <2>2 DEF WriteUnit, Shapes
    <3>2. stdin' \in Seq(UnitSet) /\ pending' \in Seq(UnitSet) /\ Stream' = Stream
      BY <3>1, MoveHead DEF Stream
    <3>3. Len(stdin') <= PipeSize
      BY <3>1, ServerAssumption
    <3>. QED BY <3>2, <3>3
  <2>. QED BY <2>1, <2>2
<1>. QED BY <1>1 DEF WellFramed, UnitFits, Messages, Front

-----------------------------------------------------------------------------
(* Shapes and streams.                                                     *)

\* One more message is handled.
LEMMA HandledGrows ==
  ASSUME handled \in Seq(Nat), current \in Nat, handled' = Append(handled, current)
  PROVE  /\ handled' \in Seq(Nat) /\ HandledSet' = HandledSet \cup {current}
         /\ Len(handled') = Len(handled) + 1 /\ handled'[Len(handled) + 1] = current
         /\ \A i \in DOMAIN handled : handled'[i] = handled[i]
         /\ DOMAIN handled' = DOMAIN handled \cup {Len(handled) + 1}
         /\ DOMAIN handled = 1..Len(handled)
<1>1. /\ handled' \in Seq(Nat) /\ Len(handled') = Len(handled) + 1
      /\ handled'[Len(handled) + 1] = current
      /\ \A i \in DOMAIN handled : handled'[i] = handled[i]
      /\ DOMAIN handled' = DOMAIN handled \cup {Len(handled) + 1}
      /\ DOMAIN handled = 1..Len(handled)
  OBVIOUS
<1>2. HandledSet' = HandledSet \cup {current}
  BY <1>1 DEF HandledSet
<1>. QED BY <1>1, <1>2

\* What the reader does to the stream.
LEMMA ReadStream ==
  ASSUME Shapes, WellFramed, ReadLine \/ ReadHeader \/ ReadBody
  PROVE  /\ Head(stdin) = Stream[1] /\ Stream # <<>> /\ Stream[1] \in UnitSet
         /\ UnitFits(Stream[1]) /\ Front = Stream[1].msg
         /\ stdin' \in Seq(UnitSet) /\ Len(stdin') <= PipeSize
         /\ WellFramed'
         /\ Stream' # <<>> => Follows(Stream[1], Stream'[1])
         /\ Stream' = <<>> => Stream[1].type \in Closers
         /\ Front' = IF Stream[1].type \in Closers THEN Front + 1 ELSE Front
<1>1. stdin # <<>> /\ stdin' = Tail(stdin) /\ pending' = pending /\ sent' = sent
  BY DEF ReadLine, ReadHeader, ReadBody, client
<1>. QED BY <1>1, ReadUnit

\* The steps that leave the stream as it is.
Still ==
  \/ CloseStdin \/ ReadResponse \/ Signal \/ Top \/ ReadEOF \/ Parse \/ Handle
  \/ Acquire \/ Tool \/ WriteReply \/ UNCHANGED vars

LEMMA StillStays ==
  ASSUME Shapes, WellFramed, Still \/ WriteUnit
  PROVE  /\ Stream' = Stream /\ WellFramed' /\ Front' = Front /\ sent' = sent
         /\ stdin' \in Seq(UnitSet) /\ pending' \in Seq(UnitSet) /\ Len(stdin') <= PipeSize
<1>1. sent' = sent /\ ((stdin' = stdin /\ pending' = pending) \/ WriteUnit)
  BY DEF Still, CloseStdin, ReadResponse, Signal, Top, ReadEOF, Parse, Handle, Acquire, Tool, WriteReply, WriteUnit, vars, client
<1>. QED BY <1>1, SameStream

LEMMA Steps ==
  ASSUME [Next]_vars
  PROVE  BeginMessage \/ WriteUnit \/ ReadLine \/ ReadHeader \/ ReadBody \/ Still
BY DEF Next, ClientStep, ServerStep, Still

LEMMA StreamStep == Inv /\ [Next]_vars => WellFramed' /\ HeadFits'
<1>. SUFFICES ASSUME Inv, [Next]_vars PROVE WellFramed' /\ HeadFits'
  OBVIOUS
<1>. USE DEF Inv
<1>0. pc \in PcLabels /\ sized \in BOOLEAN
  BY DEF Shapes
<1>1. CASE BeginMessage
  BY <1>1, BeginStream DEF BeginMessage, server, HeadFits, Inside, Stopped
<1>2. CASE ReadLine
  <2>1. Stream[1].type \in {"json", "length", "array"} /\ Head(stdin) = Stream[1] /\ WellFramed'
    BY <1>2, ReadStream DEF HeadFits, Inside, Stopped, ReadLine, UnitSet, Closers
  <2>2. pc' = (IF Stream[1].type = "json" THEN "parse" ELSE "headers") /\ sized' = (Stream[1].type = "length")
    BY <1>2, <2>1 DEF ReadLine, Goto
  <2>. QED BY <1>2, <2>1, <2>2, ReadStream DEF HeadFits, Inside, Stopped, Follows, Closers
<1>3. CASE ReadHeader
  <2>0. pc = "headers" /\ Head(stdin) = Stream[1] /\ WellFramed' /\ Stream[1].type \in Closers \cup {"length", "blank"}
    BY <1>3, ReadStream DEF ReadHeader, UnitSet
  <2>1. CASE sized
    <3>1. Stream[1].type = "blank" /\ pc' = "body"
      BY <1>3, <2>0, <2>1 DEF HeadFits, Inside, ReadHeader, Goto
    <3>. QED BY <1>3, <2>0, <3>1, ReadStream DEF HeadFits, Inside, Follows, Closers
  <2>2. CASE ~sized
    <3>1. Stream[1].type \notin {"blank", "body"}
      BY <1>3, <2>0, <2>2, ReadStream DEF HeadFits, Inside, Stopped
    <3>2. pc' = "headers" /\ sized' = (Stream[1].type = "length")
      BY <1>3, <2>0, <2>2, <3>1 DEF ReadHeader, Goto
    <3>. QED BY <1>3, <2>0, <3>1, <3>2, ReadStream DEF HeadFits, Inside, Stopped, Follows, Closers
  <2>. QED BY <1>0, <2>1, <2>2
<1>4. CASE ReadBody
  <2>1. Stream[1].type = "body" /\ pc' = "parse"
    BY <1>4 DEF ReadBody, Goto, HeadFits, Inside
  <2>. QED BY <1>4, <2>1, ReadStream DEF HeadFits, Inside, Stopped, Follows, Closers
<1>5. CASE Still \/ WriteUnit
  <2>1. Stream' = Stream /\ WellFramed'
    BY <1>5, StillStays
  <2>2. \/ pc' = pc /\ sized' = sized
        \/ ~Inside /\ ~Inside' /\ ~Stopped
        \/ Stopped'
    BY <1>5 DEF Still, CloseStdin, ReadResponse, Signal, Top, ReadEOF, Parse, Handle, Acquire, Tool, WriteReply, WriteUnit, vars, client, server, Goto, Inside, Stopped, HandInv
  <2>3. Stopped' => ~Inside'
    BY DEF Stopped, Inside
  <2>. QED BY <2>1, <2>2, <2>3 DEF HeadFits, Inside, Stopped
<1>. QED BY <1>1, <1>2, <1>3, <1>4, <1>5, Steps
LEMMA FrontIs ==
  ASSUME Shapes, WellFramed
  PROVE  /\ Front \in Nat \ {0} /\ Front <= Len(sent) + 1 /\ Len(sent) \in Nat
         /\ \A m \in Nat \ {0} : m < Front => m \in Messages
         /\ Stream # <<>> => UnitFits(Stream[1]) /\ Stream[1] \in UnitSet
<1>1. Stream # <<>> => UnitFits(Stream[1]) /\ Stream[1] \in UnitSet
  BY StreamIs DEF WellFramed
<1>2. Len(sent) \in Nat
  BY DEF Shapes
<1>3. Stream # <<>> => Stream[1].msg \in 1..Len(sent)
  BY <1>1 DEF UnitFits, Messages
<1>4. Front \in 1..(Len(sent) + 1)
  BY <1>2, <1>3 DEF Front
<1>. QED BY <1>1, <1>2, <1>4 DEF Messages

\* What is in hand is a message.
LEMMA HandIs ==
  ASSUME Inv, pc = "parse" \/ InHand
  PROVE  current \in Messages /\ current \in Nat \ {0} /\ sent[current] \in SendMessages
<1>1. current \in Messages
  BY DEF Inv, Settled, Stopped, InHand, Shapes
<1>. QED BY <1>1 DEF Inv, Shapes, Messages

\* A line the reader meets begins a message.
LEMMA LineHead ==
  ASSUME Inv, ReadLine
  PROVE  Head(stdin) = Stream[1] /\ Stream[1].type \in {"json", "length", "array"}
<1>1. Head(stdin) = Stream[1] /\ Stream # <<>> /\ Stream[1] \in UnitSet
  BY ReadStream DEF Inv
<1>2. Stream[1].type \in Closers \cup {"length", "blank"}
  BY <1>1 DEF UnitSet
<1>3. ~Inside /\ ~Stopped
  BY DEF ReadLine, Inside, Stopped
<1>. QED BY <1>1, <1>2, <1>3 DEF Inv, HeadFits, Closers

LEMMA AnswersTyped ==
  ASSUME NEW m \in Nat, NEW type \in {"none", "result", "tool error", "busy"}
  PROVE  Answer(m, type) \in AnswerSet
BY DEF Answer, AnswerSet

LEMMA ShapesStep == Inv /\ [Next]_vars => Shapes'
<1>. SUFFICES ASSUME Inv, [Next]_vars PROVE Shapes'
  OBVIOUS
<1>. USE DEF Inv
<1>. USE DEF Shapes, PcLabels
<1>0. HandledSet' = HandledSet \/ Parse
  BY DEF Next, ClientStep, ServerStep, BeginMessage, WriteUnit, CloseStdin, ReadResponse, Signal, Top, ReadLine, ReadHeader, ReadBody, ReadEOF, Parse, Handle, Acquire, Tool, WriteReply, vars, server, HandledSet
<1>1. CASE BeginMessage
  <2>1. Messages \subseteq Messages'
    BY <1>1, BeginStream
  <2>2. handled' = handled /\ HandledSet' = HandledSet
    BY <1>1 DEF BeginMessage, server, HandledSet
  <2>3. HandledSet' \subseteq Messages' /\ current' \in {0} \cup Messages'
    BY <1>1, <2>1, <2>2 DEF BeginMessage, server
  <2>. QED BY <1>1, <2>2, <2>3, BeginStream DEF BeginMessage, server
<1>2. CASE ReadLine \/ ReadHeader \/ ReadBody
  <2>1. Head(stdin).msg \in Messages /\ sent' = sent /\ Messages' = Messages
    BY <1>2, ReadStream DEF UnitFits, ReadLine, ReadHeader, ReadBody, client, Messages
  <2>2. pc' \in PcLabels
    <3>1. Head(stdin) \in UnitSet
      BY <1>2, ReadStream
    <3>2. CASE ReadLine
      <4>1. Head(stdin).type \in {"json", "length", "array"}
        BY <3>2, LineHead
      <4>. QED BY <3>2, <4>1 DEF ReadLine, Goto
    <3>. QED BY <1>2, <3>2 DEF ReadHeader, ReadBody, Goto
  <2>3. current' \in {0} \cup Messages'
    BY <1>2, <2>1 DEF ReadLine, ReadHeader, ReadBody
  <2>4. sized' \in BOOLEAN
    BY <1>2 DEF ReadLine, ReadHeader, ReadBody
  <2>5. /\ stdin' \in Seq(UnitSet) /\ pending' \in Seq(UnitSet) /\ Len(stdin') <= PipeSize
    BY <1>2, ReadStream DEF ReadLine, ReadHeader, ReadBody, client
  <2>6. handled' = handled /\ HandledSet' = HandledSet
    BY <1>2 DEF ReadLine, ReadHeader, ReadBody, HandledSet
  <2>. QED BY <1>2, <2>1, <2>2, <2>3, <2>4, <2>5, <2>6 DEF ReadLine, ReadHeader, ReadBody, client
<1>3. CASE Still \/ WriteUnit
  <2>1. /\ sent' = sent /\ Messages' = Messages
        /\ stdin' \in Seq(UnitSet) /\ pending' \in Seq(UnitSet) /\ Len(stdin') <= PipeSize
    BY <1>3, StillStays DEF Messages
  <2>2. CASE WriteUnit
    BY <2>1, <2>2 DEF WriteUnit, server, HandledSet
  <2>3. CASE CloseStdin
    BY <2>1, <2>3 DEF CloseStdin, server, HandledSet
  <2>4. CASE ReadResponse
    <3>1. /\ received' \in Seq(AnswerSet) /\ stdout' \in Seq(AnswerSet) /\ Len(stdout') <= PipeSize
      <4>1. received' = Append(received, Head(stdout)) /\ stdout' = Tail(stdout) /\ stdout # <<>>
        BY <2>4 DEF ReadResponse
      <4>2. Len(stdout') = Len(stdout) - 1 /\ Len(stdout) \in Nat /\ received' \in Seq(AnswerSet) /\ stdout' \in Seq(AnswerSet)
        BY <4>1, MoveHead
      <4>. QED BY <4>2, ServerAssumption
    <3>. QED BY <2>1, <2>4, <3>1 DEF ReadResponse, server, HandledSet
  <2>5. CASE Signal \/ UNCHANGED vars
    BY <2>1, <2>5 DEF Signal, vars, client, server, HandledSet
  <2>6. CASE Top
    BY <2>1, <2>6 DEF Top, Goto, client, NoReply, Answer, AnswerSet, HandledSet
  <2>7. CASE ReadEOF
    BY <2>1, <2>7 DEF ReadEOF, Goto, client, HandledSet
  <2>8. CASE Parse
    <3>1. handled' = Append(handled, current) /\ current \in Messages /\ current \in Nat
      BY <2>8, HandIs DEF Parse
    <3>2. handled' \in Seq(Nat) /\ HandledSet' \subseteq Messages
      BY <3>1, HandledGrows
    <3>3. pc' \in PcLabels
      BY <2>8 DEF Parse, Goto
    <3>. QED BY <2>1, <2>8, <3>2, <3>3 DEF Parse, client
  <2>9. CASE Handle
    <3>1. pc' \in PcLabels
      BY <2>9 DEF Handle, Goto, HandInv
    <3>2. reply' \in AnswerSet
      BY <2>9, HandIs DEF Handle, Answer, NoReply, AnswerSet, InHand
    <3>. QED BY <2>1, <2>9, <3>1, <3>2 DEF Handle, client, HandledSet
  <2>10. CASE Acquire
    <3>0. current \in Nat /\ reply \in AnswerSet
      BY <2>10, HandIs DEF Acquire, InHand
    <3>1. reply' \in AnswerSet
      BY <2>10, <3>0, AnswersTyped DEF Acquire
    <3>. QED BY <2>1, <2>10, <3>1 DEF Acquire, Goto, client, HandledSet
  <2>11. CASE Tool
    <3>0. current \in Nat /\ reply \in AnswerSet
      BY <2>11, HandIs DEF Tool, InHand
    <3>1. reply' \in AnswerSet
      <4>1. PICK type \in {"result", "tool error"} : reply' = Answer(current, type)
        BY <2>11 DEF Tool
      <4>. QED BY <3>0, <4>1, AnswersTyped
    <3>. QED BY <2>1, <2>11, <3>1 DEF Tool, Goto, client, HandledSet
  <2>12. CASE WriteReply
    <3>1. stdout' \in Seq(AnswerSet) /\ Len(stdout') <= PipeSize
      BY <2>12, ServerAssumption DEF WriteReply
    <3>. QED BY <2>1, <2>12, <3>1 DEF WriteReply, Goto, client, HandledSet
  <2>. QED BY <1>3, <2>2, <2>3, <2>4, <2>5, <2>6, <2>7, <2>8, <2>9, <2>10, <2>11, <2>12 DEF Still
<1>. QED BY <1>1, <1>2, <1>3, Steps

-----------------------------------------------------------------------------
(* What is decided.                                                        *)

\* A message keeps its verdict while nothing new is handled.
LEMMA SkippedStays ==
  ASSUME Shapes, HandledSet' = HandledSet, sent' = sent \/ BeginMessage, WellFramed
  PROVE  \A m \in Messages : m \in Messages' /\ sent'[m] = sent[m] /\ (Skipped(m)' <=> Skipped(m))
BY BeginStream DEF Skipped, Messages

LEMMA SettledStep == Inv /\ [Next]_vars => Settled' /\ Increasing'
<1>. SUFFICES ASSUME Inv, [Next]_vars PROVE Settled' /\ Increasing'
  OBVIOUS
<1>. USE DEF Inv
<1>0. /\ pc \in PcLabels /\ sized \in BOOLEAN /\ HandledSet \subseteq Messages
      /\ handled \in Seq(Nat)
  BY DEF Shapes
<1>1. CASE BeginMessage
  <2>1. /\ handled' = handled /\ HandledSet' = HandledSet /\ pc' = pc /\ current' = current
        /\ sized' = sized
    BY <1>1 DEF BeginMessage, server, HandledSet
  <2>2. /\ Front' = Front /\ Place' = Place
        /\ \A m \in Messages : m \in Messages' /\ sent'[m] = sent[m] /\ (Skipped(m)' <=> Skipped(m))
    BY <1>1, <2>1, BeginStream, SkippedStays DEF Place
  <2>3. ~Stopped => Place <= Front
    BY FrontIs DEF Settled, Place, Messages
  <2>4. ASSUME ~Stopped, NEW m \in Messages', m < Place PROVE m \in Messages
    <3>1. m \in Nat \ {0}
      BY <1>1, <2>4, BeginStream DEF Messages
    <3>2. m < Front
      BY <2>3, <2>4, <3>1, FrontIs DEF Place, Settled, Messages
    <3>. QED BY <3>1, <3>2, FrontIs
  <2>5. Settled'
    BY <2>1, <2>2, <2>4 DEF Settled, Stopped, Inside, InHand
  <2>. QED BY <2>1, <2>5 DEF Increasing
<1>2. CASE ReadLine \/ ReadHeader \/ ReadBody
  <2>1. /\ handled' = handled /\ HandledSet' = HandledSet /\ sent' = sent /\ Messages' = Messages
        /\ Stream # <<>> /\ Head(stdin) = Stream[1] /\ UnitFits(Stream[1])
        /\ Front = Stream[1].msg /\ Stream[1].type \in Closers \cup {"length", "blank"}
        /\ Front' = IF Stream[1].type \in Closers THEN Front + 1 ELSE Front
        /\ ~Stopped /\ Place = Front /\ Front \in Nat \ {0} /\ Front \in Messages
    BY <1>2, ReadStream, FrontIs DEF ReadLine, ReadHeader, ReadBody, client, HandledSet, Messages, Stopped, Place, UnitFits, UnitSet
  <2>2. \A m : Skipped(m)' <=> Skipped(m)
    BY <2>1 DEF Skipped
  <2>3. /\ \A m \in Messages : m < Front => (m \notin HandledSet <=> Skipped(m))
        /\ \A h \in HandledSet : h < Front
    BY <2>1 DEF Settled
  <2>4. Front \notin HandledSet /\ \A m \in Messages : m < Front + 1 <=> m < Front \/ m = Front
    BY <2>1, <2>3 DEF Messages
  <2>5. Increasing'
    BY <2>1 DEF Increasing
  <2>6. CASE ReadLine
    <3>1. pc = "line" /\ Stream[1].type \in {"json", "length", "array"}
      BY <2>1, <2>6 DEF ReadLine, HeadFits, Inside, Stopped, Closers
    <3>2. Front = 1 \/ Front - 1 \in HandledSet
      BY <2>1, <3>1 DEF Settled, Inside
    <3>3. CASE Stream[1].type = "json"
      <4>1. pc' = "parse" /\ current' = Front /\ Front' = Front + 1 /\ sent[Front].frame = "line"
        BY <2>1, <2>6, <3>3 DEF ReadLine, Goto, UnitFits, Closers
      <4>2. ~Skipped(Front)
        BY <3>2, <4>1 DEF Skipped
      <4>. QED BY <2>1, <2>2, <2>3, <2>5, <4>1, <4>2 DEF Settled, Place, Inside, InHand
    <3>4. CASE Stream[1].type = "length"
      <4>1. pc' = "headers" /\ sized' /\ Front' = Front
        BY <2>1, <2>6, <3>4 DEF ReadLine, Goto, Closers
      <4>. QED BY <2>1, <2>2, <2>3, <2>5, <4>1 DEF Settled, Place, Inside, InHand
    <3>5. CASE Stream[1].type = "array"
      <4>1. pc' = "headers" /\ ~sized' /\ Front' = Front + 1 /\ sent[Front].frame = "batch"
        BY <2>1, <2>6, <3>5 DEF ReadLine, Goto, UnitFits, Closers
      <4>2. Skipped(Front)
        BY <4>1 DEF Skipped
      <4>3. Front + 1 > 1 /\ Front + 1 - 1 \notin HandledSet /\ \A h \in HandledSet : h < Front + 1
        BY <1>0, <2>1, <2>3, <2>4 DEF Messages
      <4>. QED BY <2>1, <2>2, <2>3, <2>4, <2>5, <4>1, <4>2, <4>3 DEF Settled, Place, Inside, InHand
    <3>. QED BY <3>1, <3>3, <3>4, <3>5
  <2>7. CASE ReadHeader
    <3>0. pc = "headers"
      BY <2>7 DEF ReadHeader
    <3>1. CASE sized
      <4>1. Stream[1].type = "blank" /\ pc' = "body" /\ Front' = Front
        BY <2>1, <2>7, <3>0, <3>1 DEF HeadFits, Inside, ReadHeader, Goto, Closers
      <4>. QED BY <2>1, <2>2, <2>3, <2>5, <4>1 DEF Settled, Place, Inside, InHand
    <3>2. CASE ~sized
      <4>1. /\ Stream[1].type \in {"json", "array", "length"} /\ pc' = "headers"
            /\ sized' = (Stream[1].type = "length")
        BY <2>1, <2>7, <3>0, <3>2 DEF HeadFits, Inside, Stopped, ReadHeader, Goto, Closers
      <4>2. Front > 1 /\ Front - 1 \notin HandledSet
        BY <2>1, <3>0, <3>2 DEF Settled
      <4>3. CASE Stream[1].type = "length"
        <5>1. sized' /\ Front' = Front
          BY <2>1, <4>1, <4>3 DEF Closers
        <5>. QED BY <2>1, <2>2, <2>3, <2>5, <4>1, <5>1 DEF Settled, Place, Inside, InHand
      <4>4. CASE Stream[1].type # "length"
        <5>1. ~sized' /\ Front' = Front + 1 /\ sent[Front].frame \in {"line", "batch"}
          BY <2>1, <4>1, <4>4 DEF Closers, UnitFits
        <5>2. Skipped(Front)
          BY <4>2, <5>1 DEF Skipped
        <5>3. Front + 1 > 1 /\ Front + 1 - 1 \notin HandledSet /\ \A h \in HandledSet : h < Front + 1
          BY <1>0, <2>1, <2>3, <2>4 DEF Messages
        <5>. QED BY <2>1, <2>2, <2>3, <2>4, <2>5, <4>1, <5>1, <5>2, <5>3 DEF Settled, Place, Inside, InHand
      <4>. QED BY <4>3, <4>4
    <3>. QED BY <1>0, <3>1, <3>2
  <2>8. CASE ReadBody
    <3>1. Stream[1].type = "body" /\ pc' = "parse" /\ current' = Front
      BY <2>1, <2>8 DEF ReadBody, Goto, HeadFits, Inside
    <3>2. Front' = Front + 1 /\ sent[Front].frame = "lsp"
      BY <2>1, <3>1 DEF Closers, UnitFits
    <3>3. ~Skipped(Front)
      BY <3>2 DEF Skipped
    <3>. QED BY <2>1, <2>2, <2>3, <2>5, <3>1, <3>2, <3>3 DEF Settled, Place, Inside, InHand
  <2>. QED BY <1>2, <2>6, <2>7, <2>8
<1>3. CASE Parse
  <2>1. /\ pc = "parse" /\ handled' = Append(handled, current) /\ pc' \in {"top", "handle"}
        /\ current' = current /\ sent' = sent /\ Messages' = Messages
        /\ current \in Messages /\ current \in Nat \ {0} /\ Front' = Front
    BY <1>3, HandIs, StillStays DEF Parse, Goto, client, Messages, Still
  <2>2. /\ Place = current /\ current = Front - 1 /\ ~Skipped(current)
        /\ \A m \in Messages : m < current => (m \notin HandledSet <=> Skipped(m))
        /\ \A h \in HandledSet : h < current
    BY <2>1 DEF Settled, Stopped, Place
  <2>3. /\ HandledSet' = HandledSet \cup {current} /\ DOMAIN handled = 1..Len(handled)
        /\ handled'[Len(handled) + 1] = current /\ Len(handled) \in Nat
        /\ \A i \in DOMAIN handled : handled'[i] = handled[i]
        /\ DOMAIN handled' = DOMAIN handled \cup {Len(handled) + 1}
    BY <1>0, <2>1, HandledGrows
  <2>4. \A i \in DOMAIN handled : handled[i] \in HandledSet
    BY DEF HandledSet
  <2>5. Increasing'
    BY <2>2, <2>3, <2>4 DEF Increasing
  <2>6. \A m \in Messages : m < Front <=> m < current \/ m = current
    BY <2>1, <2>2, FrontIs DEF Messages
  <2>7. \A m \in Messages : m < Front => (Skipped(m)' <=> Skipped(m))
    BY <2>1, <2>2, <2>3, <2>6 DEF Skipped, Messages
  <2>8. Place' = Front /\ Front - 1 \in HandledSet' /\ \A h \in HandledSet' : h < Front
    BY <1>0, <2>1, <2>2, <2>3, FrontIs DEF Place, Messages
  <2>9. \A m \in Messages : m < Front => (m \notin HandledSet' <=> Skipped(m)')
    BY <2>2, <2>3, <2>6, <2>7 DEF Messages
  <2>10. Settled'
    BY <2>1, <2>2, <2>8, <2>9 DEF Settled, Inside, InHand
  <2>. QED BY <2>5, <2>10
<1>4. CASE (Still /\ ~Parse) \/ WriteUnit
  <2>1. /\ handled' = handled /\ HandledSet' = HandledSet /\ Front' = Front /\ sent' = sent
        /\ Messages' = Messages
    BY <1>4, StillStays DEF Still, CloseStdin, ReadResponse, Signal, Top, ReadEOF, Parse, Handle, Acquire, Tool, WriteReply, WriteUnit, vars, server, HandledSet, Messages
  <2>2. \A m : Skipped(m)' <=> Skipped(m)
    BY <2>1 DEF Skipped
  <2>3. \/ pc' = pc /\ current' = current /\ sized' = sized
        \/ pc = "top" /\ pc' = "line"
        \/ InHand /\ InHand' /\ current' = current
        \/ InHand /\ pc' = "top"
        \/ Stopped'
    BY <1>4 DEF Still, CloseStdin, ReadResponse, Signal, Top, ReadEOF, Handle, Acquire, Tool, WriteReply, WriteUnit, vars, server, InHand, Goto, Stopped, HandInv
  <2>4. CASE pc' = pc /\ current' = current /\ sized' = sized
    BY <2>1, <2>2, <2>4 DEF Settled, Stopped, Inside, InHand, Place, Increasing
  <2>5. CASE pc = "top" /\ pc' = "line"
    BY <2>1, <2>2, <2>5 DEF Settled, Stopped, Inside, InHand, Place, Increasing
  <2>6. CASE InHand /\ (InHand' \/ pc' = "top")
    <3>1. Place' = Place /\ Place = Front /\ Front - 1 \in HandledSet
      BY <2>1, <2>6 DEF Place, InHand, Settled, Stopped
    <3>. QED BY <2>1, <2>2, <2>3, <2>6, <3>1 DEF Settled, Stopped, Inside, InHand, Place, Increasing
  <2>7. CASE Stopped'
    BY <2>1, <2>7 DEF Settled, Increasing
  <2>. QED BY <2>3, <2>4, <2>5, <2>6, <2>7
<1>. QED BY <1>1, <1>2, <1>3, <1>4, Steps

LEMMA FrontMoves ==
  ASSUME Shapes, WellFramed, [Next]_vars PROVE Front' \in Nat
<1>1. Front' \in {Front, Front + 1}
  BY Steps, BeginStream, ReadStream, StillStays
<1>. QED BY <1>1, FrontIs

LEMMA OrderStep == Inv /\ [Next]_vars /\ Shapes' /\ Settled' /\ Increasing' => MessagesInOrder'
<1>. SUFFICES ASSUME Inv, [Next]_vars, Shapes', Settled', Increasing' PROVE MessagesInOrder'
  OBVIOUS
<1>1. CASE ~Stopped'
  <2>1. ASSUME NEW m \in Messages', NEW h \in HandledSet', m < h
        PROVE  m \notin HandledSet' <=> Skipped(m)'
    <3>0. Place' \in Nat
      BY <1>1, FrontMoves DEF Settled, Inv, Messages, Place
    <3>1. h < Place' /\ h \in Messages' /\ Place' \in Nat
      BY <1>1, <2>1, <3>0 DEF Settled, Shapes
    <3>2. m < Place'
      BY <2>1, <3>1 DEF Messages, Shapes
    <3>. QED BY <1>1, <2>1, <3>2 DEF Settled
  <2>. QED BY <2>1 DEF MessagesInOrder, Increasing, Skipped
<1>2. CASE Stopped'
  <2>1. handled' = handled /\ HandledSet' = HandledSet /\ (sent' = sent \/ BeginMessage)
    BY <1>2 DEF Stopped, Next, ClientStep, ServerStep, BeginMessage, WriteUnit, CloseStdin, ReadResponse, Signal, Top, ReadLine, ReadHeader, ReadBody, ReadEOF, Parse, Handle, Acquire, Tool, WriteReply, vars, client, server, Goto, HandledSet
  <2>2. \A m \in Messages : m \in Messages' /\ sent'[m] = sent[m] /\ (Skipped(m)' <=> Skipped(m))
    BY <2>1, SkippedStays DEF Inv
  <2>3. ASSUME NEW m \in Messages', NEW h \in HandledSet, m < h PROVE m \in Messages
    BY <2>3 DEF Messages, Inv, Shapes
  <2>4. ASSUME NEW m \in Messages', NEW h \in HandledSet, m < h
        PROVE  m \notin HandledSet <=> Skipped(m)'
    BY <2>2, <2>3, <2>4 DEF Inv, MessagesInOrder, Skipped
  <2>. QED BY <2>1, <2>4 DEF Inv, MessagesInOrder, Skipped
<1>. QED BY <1>1, <1>2

-----------------------------------------------------------------------------
(* Answers.                                                                *)

\* The deferred release.
LEMMA GiveBack == 1 - 1 = 0
OBVIOUS

LEMMA HandStep == Inv /\ [Next]_vars => HandInv' /\ SlotsBalanced'
<1>. SUFFICES ASSUME Inv, [Next]_vars PROVE HandInv' /\ SlotsBalanced'
  OBVIOUS
<1>. USE DEF Inv
<1>1. CASE Parse
  <2>1. /\ pc = "parse" /\ current' = current /\ sent' = sent /\ reply' = reply /\ sem' = sem
        /\ pc' = IF sent[current].kind = "garbage" THEN "top" ELSE "handle"
    BY <1>1 DEF Parse, Goto, client
  <2>2. sent[current] \in SendMessages /\ sent[current].frame # "batch"
    BY <2>1, HandIs DEF Settled, Stopped
  <2>3. sent[current].kind \in AllKinds
    BY <2>2, ServerAssumption DEF SendMessages
  <2>. QED BY <2>1, <2>3 DEF HandInv, SlotsBalanced, AllKinds
<1>2. CASE BeginMessage
  <2>1. pc' = pc /\ current' = current /\ reply' = reply /\ sem' = sem /\ cancelled' = cancelled
    BY <1>2 DEF BeginMessage, server
  <2>2. InHand => sent'[current] = sent[current]
    BY <1>2, HandIs, BeginStream
  <2>. QED BY <2>1, <2>2 DEF HandInv, SlotsBalanced, Wants, InHand
<1>3. CASE Handle
  <2>1. /\ pc = "handle" /\ current' = current /\ sent' = sent /\ sem' = sem
        /\ sent[current].kind \in {"quick", "call", "notice"}
    BY <1>3 DEF Handle, client, HandInv
  <2>. QED BY <1>3, <2>1 DEF Handle, Goto, HandInv, SlotsBalanced, Wants, Answer
<1>4. CASE Acquire
  BY <1>4 DEF Acquire, Goto, HandInv, SlotsBalanced, Wants, Answer, client
<1>5. CASE Tool
  <2>1. PICK type \in {"result", "tool error"} : reply' = Answer(current, type)
    BY <1>5 DEF Tool
  <2>2. reply'.msg = current /\ reply'.type = type
    BY <2>1 DEF Answer
  <2>3. sem = 1 /\ sent[current].kind = "call"
    BY <1>5 DEF Tool, SlotsBalanced, HandInv
  <2>4. pc' = "write" /\ current' = current /\ sent' = sent /\ sem' = sem - 1
    BY <1>5 DEF Tool, Goto, client
  <2>5. SlotsBalanced'
    <3>1. sem = 1 /\ sem' = sem - 1
      BY <2>3, <2>4
    <3>4. sem' = 0
      BY <3>1, GiveBack, Zenon
    <3>2. pc' # "tool"
      BY <2>4
    <3>. QED BY <3>2, <3>4, Zenon DEF SlotsBalanced
  <2>6. HandInv'
    BY <2>2, <2>3, <2>4 DEF HandInv, Wants
  <2>. QED BY <2>5, <2>6
<1>6. CASE ReadLine \/ ReadHeader \/ ReadBody
  <2>1. pc' \in {"line", "headers", "parse", "body", "failed"} /\ sem' = sem /\ pc # "tool"
    <3>1. CASE ReadLine
      BY <3>1, LineHead DEF ReadLine, Goto
    <3>. QED BY <1>6, <3>1 DEF ReadHeader, ReadBody, Goto
  <2>. QED BY <2>1 DEF HandInv, SlotsBalanced
<1>7. CASE Top \/ ReadEOF \/ WriteReply
  BY <1>7 DEF Top, ReadEOF, WriteReply, Goto, HandInv, SlotsBalanced
<1>8. CASE CloseStdin \/ ReadResponse \/ Signal \/ WriteUnit \/ UNCHANGED vars
  BY <1>8 DEF CloseStdin, ReadResponse, Signal, WriteUnit, vars, client, server, HandInv, SlotsBalanced, Wants
<1>. QED BY <1>1, <1>2, <1>3, <1>4, <1>5, <1>6, <1>7, <1>8, Steps DEF Still

\* The answers so far stay, and WriteReply adds one.
LEMMA RepliesStep ==
  ASSUME Inv, [Next]_vars
  PROVE  /\ Replies \in Seq(AnswerSet)
         /\ ~WriteReply => Replies' = Replies
         /\ WriteReply => Replies' = Append(Replies, reply)
<1>1. received \in Seq(AnswerSet) /\ stdout \in Seq(AnswerSet) /\ reply \in AnswerSet
  BY DEF Inv, Shapes
<1>2. CASE ReadResponse
  <2>1. received' = Append(received, Head(stdout)) /\ stdout' = Tail(stdout) /\ stdout # <<>>
    BY <1>2 DEF ReadResponse
  <2>2. ~WriteReply
    BY <1>2 DEF ReadResponse, WriteReply, client, server, Goto
  <2>. QED BY <1>1, <2>1, <2>2, MoveHead DEF Replies
<1>3. CASE WriteReply
  <2>1. received' = received /\ stdout' = Append(stdout, reply)
    BY <1>3 DEF WriteReply, client
  <2>. QED BY <1>1, <1>3, <2>1 DEF Replies
<1>4. CASE ~ReadResponse /\ ~WriteReply
  <2>1. received' = received /\ stdout' = stdout
    BY <1>4 DEF Next, ClientStep, ServerStep, BeginMessage, WriteUnit, CloseStdin, Signal, Top, ReadLine, ReadHeader, ReadBody, ReadEOF, Parse, Handle, Acquire, Tool, vars, client
  <2>. QED BY <1>1, <1>4, <2>1 DEF Replies
<1>. QED BY <1>2, <1>3, <1>4

LEMMA AppendIs ==
  ASSUME NEW S, NEW q \in Seq(S), NEW x \in S, NEW r, r = Append(q, x)
  PROVE  /\ Len(r) = Len(q) + 1 /\ Len(q) \in Nat
         /\ DOMAIN q = 1..Len(q) /\ DOMAIN r = 1..(Len(q) + 1)
         /\ r[Len(q) + 1] = x /\ \A i \in DOMAIN q : r[i] = q[i]
OBVIOUS

LEMMA LateStep == Inv /\ [Next]_vars => LateInv'
<1>. SUFFICES ASSUME Inv, [Next]_vars PROVE LateInv'
  OBVIOUS
<1>. USE DEF Inv
<1>0. cancelled => cancelled'
  BY DEF Next, ClientStep, ServerStep, BeginMessage, WriteUnit, CloseStdin, ReadResponse, Signal, Top, ReadLine, ReadHeader, ReadBody, ReadEOF, Parse, Handle, Acquire, Tool, WriteReply, vars
<1>1. late' \in 0..1 /\ (late' = 1 => cancelled' /\ (InHand' \/ pc' = "top" \/ Stopped'))
  <2>1. CASE Parse
    <3>1. late = 0
      BY <2>1 DEF LateInv, Parse, InHand, Stopped
    <3>. QED BY <2>1, <3>1 DEF LateInv, Parse, Goto, InHand, Stopped
  <2>2. CASE ~Parse
    <3>1. late' = late
      BY <2>2 DEF Next, ClientStep, ServerStep, BeginMessage, WriteUnit, CloseStdin, ReadResponse, Signal, Top, ReadLine, ReadHeader, ReadBody, ReadEOF, Handle, Acquire, Tool, WriteReply, vars, server
    <3>2. \/ pc' = pc
          \/ pc \in {"line", "headers", "body", "parse"}
          \/ pc = "top" /\ (cancelled => Stopped')
          \/ InHand /\ (InHand' \/ pc' = "top")
          \/ Stopped'
      BY <2>2 DEF Next, ClientStep, ServerStep, BeginMessage, WriteUnit, CloseStdin, ReadResponse, Signal, Top, ReadLine, ReadHeader, ReadBody, ReadEOF, Handle, Acquire, Tool, WriteReply, vars, server, Goto, Stopped, InHand, HandInv
    <3>. QED BY <1>0, <3>1, <3>2 DEF LateInv, InHand, Stopped
  <2>. QED BY <2>1, <2>2
<1>2. CASE WriteReply
  <2>1. Replies \in Seq(AnswerSet) /\ Replies' = Append(Replies, reply) /\ reply \in AnswerSet
    BY <1>2, RepliesStep DEF Shapes
  <2>2. /\ Len(Replies') = Len(Replies) + 1 /\ Len(Replies) \in Nat
        /\ DOMAIN Replies = 1..Len(Replies) /\ DOMAIN Replies' = 1..(Len(Replies) + 1)
        /\ Replies'[Len(Replies) + 1] = reply /\ \A i \in DOMAIN Replies : Replies'[i] = Replies[i]
    BY <2>1, AppendIs
  <2>3. pc = "write" /\ pc' = "top" /\ cancelled' = cancelled
    BY <1>2 DEF WriteReply, Goto
  <2>4. reply.type \in Types /\ (reply.type = "busy" => cancelled)
    BY <2>1, <2>3 DEF HandInv, AnswerSet, Types
  <2>5. \A i \in DOMAIN Replies : Replies[i].type \in Types /\ Replies[i].type # "busy"
    BY <2>3 DEF LateInv, Stopped
  <2>6. ASSUME NEW i \in DOMAIN Replies'
        PROVE  /\ Replies'[i].type \in Types
               /\ Replies'[i].type = "busy" => cancelled' /\ i = Len(Replies')
    <3>1. CASE i \in DOMAIN Replies
      BY <2>2, <2>5, <3>1
    <3>2. CASE i = Len(Replies) + 1
      BY <2>2, <2>3, <2>4, <3>2
    <3>. QED BY <2>2, <2>6, <3>1, <3>2
  <2>. QED BY <1>1, <2>3, <2>6 DEF LateInv, Stopped
<1>3. CASE ~WriteReply
  <2>1. Replies' = Replies
    BY <1>3, RepliesStep
  <2>2. \/ pc' = pc
        \/ pc # "top" /\ ~Stopped
        \/ pc = "top" /\ (cancelled => Stopped')
    BY <1>3 DEF Next, ClientStep, ServerStep, BeginMessage, WriteUnit, CloseStdin, ReadResponse, Signal, Top, ReadLine, ReadHeader, ReadBody, ReadEOF, Parse, Handle, Acquire, Tool, vars, server, Goto, Stopped
  <2>. QED BY <1>0, <1>1, <2>1, <2>2 DEF LateInv, Stopped
<1>. QED BY <1>2, <1>3

\* What is handled and not in hand.
LEMMA DoneIs == \A m : m \in Done <=> m \in HandledSet /\ ~(InHand /\ m = current)
BY DEF Done, InHand

LEMMA AnswersStep == Inv /\ [Next]_vars => AnswersFollowRequests'
<1>. SUFFICES ASSUME Inv, [Next]_vars PROVE AnswersFollowRequests'
  OBVIOUS
<1>. USE DEF Inv
<1>. DEFINE Msgs == {Replies[i].msg : i \in DOMAIN Replies}
<1>0. Replies \in Seq(AnswerSet) /\ HandledSet \subseteq Messages /\ handled \in Seq(Nat)
  BY RepliesStep DEF Shapes
<1>1. \A m : m \in Done <=> m \in HandledSet /\ ~(InHand /\ m = current)
  BY DoneIs
<1>2. \A m : m \in Done' <=> m \in HandledSet' /\ ~(InHand' /\ m = current')
  BY DEF Done, InHand
<1>3. CASE WriteReply
  <2>1. /\ pc = "write" /\ pc' = "top" /\ sent' = sent /\ HandledSet' = HandledSet
        /\ current' = current /\ Replies' = Append(Replies, reply) /\ reply \in AnswerSet
    BY <1>3, RepliesStep DEF WriteReply, Goto, client, HandledSet, Shapes
  <2>2. /\ Len(Replies') = Len(Replies) + 1 /\ Len(Replies) \in Nat
        /\ DOMAIN Replies = 1..Len(Replies) /\ DOMAIN Replies' = 1..(Len(Replies) + 1)
        /\ Replies'[Len(Replies) + 1] = reply /\ \A i \in DOMAIN Replies : Replies'[i] = Replies[i]
    BY <1>0, <2>1, AppendIs
  <2>3. /\ Wants(current) /\ reply.msg = current /\ current \in HandledSet /\ InHand
        /\ \A h \in HandledSet : h < current + 1
    BY <2>1, FrontIs DEF HandInv, Settled, Stopped, InHand, Place
  <2>4. \A i \in DOMAIN Replies : Replies[i].msg \in Done /\ Wants(Replies[i].msg)
    BY DEF AnswersFollowRequests
  <2>5. \A i \in DOMAIN Replies : Replies[i].msg < current
    <3>1. current \in Nat /\ \A h \in HandledSet : h \in Nat
      BY <1>0, <2>3 DEF Messages
    <3>2. \A h \in HandledSet : h # current => h < current
      BY <2>3, <3>1
    <3>. QED BY <1>1, <2>3, <2>4, <3>2
  <2>6. \A i, j \in DOMAIN Replies' : i < j => Replies'[i].msg < Replies'[j].msg
    BY <2>2, <2>3, <2>5 DEF AnswersFollowRequests
  <2>7. ASSUME NEW m PROVE m \in Msgs' <=> m \in Msgs \/ m = current
    BY <2>2, <2>3
  <2>8. \A m : m \in Done' <=> m \in Done \/ m = current
    BY <1>1, <1>2, <2>1, <2>3 DEF InHand
  <2>9. \A m : Wants(m)' <=> Wants(m)
    BY <2>1 DEF Wants
  <2>10. Msgs = {m \in Done : Wants(m)}
    BY DEF AnswersFollowRequests
  <2>11. Msgs' = {m \in Done' : Wants(m)'}
    BY <2>3, <2>7, <2>8, <2>9, <2>10
  <2>. QED BY <2>6, <2>11 DEF AnswersFollowRequests
<1>4. CASE ~WriteReply
  <2>1. Replies' = Replies
    BY <1>4, RepliesStep
  <2>2. {m \in Done' : Wants(m)'} = {m \in Done : Wants(m)}
    <3>1. CASE Parse
      <4>1. /\ pc = "parse" /\ current' = current /\ sent' = sent /\ current \in Nat
            /\ handled' = Append(handled, current)
            /\ pc' = IF sent[current].kind = "garbage" THEN "top" ELSE "handle"
        BY <3>1, HandIs DEF Parse, Goto, client
      <4>2. HandledSet' = HandledSet \cup {current} /\ current \notin HandledSet
        BY <1>0, <4>1, HandledGrows DEF Settled, Stopped, Place
      <4>3. \A m : Wants(m)' <=> Wants(m)
        BY <4>1 DEF Wants
      <4>4. \A m : m \in Done' /\ Wants(m) <=> m \in Done /\ Wants(m)
        BY <1>1, <1>2, <4>1, <4>2 DEF InHand, Wants
      <4>. QED BY <4>3, <4>4
    <3>2. CASE BeginMessage
      <4>1. HandledSet' = HandledSet /\ pc' = pc /\ current' = current
        BY <3>2 DEF BeginMessage, server, HandledSet
      <4>2. \A m \in Messages : Wants(m)' <=> Wants(m)
        BY <3>2, BeginStream DEF Wants
      <4>3. Done' = Done /\ Done \subseteq Messages
        BY <1>0, <1>1, <4>1 DEF Done
      <4>. QED BY <4>2, <4>3
    <3>3. CASE ~Parse /\ ~BeginMessage
      <4>1. sent' = sent /\ HandledSet' = HandledSet
        BY <3>3, <1>4 DEF Next, ClientStep, ServerStep, WriteUnit, CloseStdin, ReadResponse, Signal, Top, ReadLine, ReadHeader, ReadBody, ReadEOF, Handle, Acquire, Tool, vars, client, server, HandledSet
      <4>2. \A m : Wants(m)' <=> Wants(m)
        BY <4>1 DEF Wants
      <4>3. \/ InHand' /\ InHand /\ current' = current
            \/ ~InHand' /\ ~InHand
            \/ ~InHand' /\ InHand /\ ~Wants(current)
        <5>1. CASE Handle
          BY <5>1 DEF Handle, Goto, InHand, HandInv, Wants
        <5>2. CASE ReadLine
          BY <5>2, LineHead DEF ReadLine, Goto, InHand
        <5>3. CASE ~Handle /\ ~ReadLine
          BY <1>4, <3>3, <5>3 DEF Next, ClientStep, ServerStep, WriteUnit, CloseStdin, ReadResponse, Signal, Top, ReadHeader, ReadBody, ReadEOF, Acquire, Tool, vars, client, server, Goto, InHand
        <5>. QED BY <5>1, <5>2, <5>3
      <4>4. \A m : m \in Done' /\ Wants(m) <=> m \in Done /\ Wants(m)
        BY <1>1, <1>2, <4>1, <4>3
      <4>. QED BY <4>2, <4>4
    <3>. QED BY <3>1, <3>2, <3>3
  <2>. QED BY <2>1, <2>2 DEF AnswersFollowRequests
<1>. QED BY <1>3, <1>4
-----------------------------------------------------------------------------
(* The theorems.                                                           *)

LEMMA InitInv == Init => Inv
<1>. SUFFICES ASSUME Init PROVE Inv
  OBVIOUS
<1>. USE DEF Init
<1>1. Stream = <<>> /\ Replies = <<>> /\ HandledSet = {}
  BY DEF Stream, Replies, HandledSet
<1>2. Shapes
  <2>1. NoReply \in AnswerSet
    BY AnswersTyped DEF NoReply
  <2>2. Len(sent) <= MaxMessages /\ Len(stdin) <= PipeSize /\ Len(stdout) <= PipeSize
    BY ServerAssumption
  <2>3. <<>> \in Seq(SendMessages) /\ <<>> \in Seq(UnitSet) /\ <<>> \in Seq(AnswerSet) /\ <<>> \in Seq(Nat)
    OBVIOUS
  <2>. QED BY <1>1, <2>1, <2>2, <2>3 DEF Shapes, PcLabels
<1>3. Front = 1
  BY <1>1 DEF Front
<1>4. WellFramed /\ HeadFits /\ Increasing /\ Settled /\ MessagesInOrder
  BY <1>1, <1>3 DEF WellFramed, HeadFits, Inside, Increasing, Settled, Stopped, InHand, Place, MessagesInOrder, Messages
<1>5. HandInv /\ LateInv /\ SlotsBalanced
  BY <1>1 DEF HandInv, LateInv, SlotsBalanced
<1>6. AnswersFollowRequests
  BY <1>1 DEF AnswersFollowRequests, Done
<1>. QED BY <1>2, <1>4, <1>5, <1>6 DEF Inv

THEOREM ServerInvariant == Spec => []Inv
<1>1. Inv /\ [Next]_vars => Inv'
  BY StreamStep, ShapesStep, SettledStep, OrderStep, HandStep, LateStep, AnswersStep DEF Inv
<1>. QED BY <1>1, InitInv, PTL DEF Spec

\* The variables keep their types, and the server has a message in hand where
\* its code uses one.
THEOREM TypeCorrect == Spec => []TypeOK
<1>1. Inv => TypeOK
  <2>. SUFFICES ASSUME Inv PROVE TypeOK
    OBVIOUS
  <2>. USE DEF Inv
  <2>1. \A i \in DOMAIN stdin : stdin[i].msg \in Messages
    <3>1. stdin \in Seq(UnitSet) /\ pending \in Seq(UnitSet)
      BY DEF Shapes
    <3>2. \A i \in DOMAIN stdin : i \in DOMAIN Stream /\ Stream[i] = stdin[i]
      BY <3>1, ConcatIs DEF Stream
    <3>. QED BY <3>2 DEF WellFramed, UnitFits
  <2>2. Replies \in Seq(AnswerSet)
    BY DEF Shapes, Replies
  <2>3. ASSUME NEW i \in DOMAIN Replies
        PROVE  Replies[i] \in [msg : Messages, type : {"result", "tool error", "busy"}]
    <3>1. Replies[i].msg \in Done
      BY <2>3 DEF AnswersFollowRequests
    <3>2. Replies[i].msg \in Messages /\ Replies[i].type \in Types /\ Replies[i] \in AnswerSet
      BY <2>2, <2>3, <3>1 DEF Done, LateInv, Shapes
    <3>. QED BY <3>2 DEF AnswerSet, Types
  <2>4. pc \in {"parse", "handle", "acquire", "tool", "write"} => current \in Messages
    BY HandIs DEF InHand
  <2>5. sem \in 0..Slots
    BY ServerAssumption DEF SlotsBalanced
  <2>6. pc = "write" => reply.msg = current
    BY DEF HandInv
  <2>. QED BY <2>1, <2>3, <2>4, <2>5, <2>6 DEF TypeOK, Shapes
<1>. QED BY <1>1, ServerInvariant, PTL

\* The two framings may be mixed: messages are handled once each and in order,
\* and only a batch, or a bare line after one, is passed over.
THEOREM MessagesStayInOrder == Spec => []MessagesInOrder
<1>1. Inv => MessagesInOrder
  BY DEF Inv
<1>. QED BY <1>1, ServerInvariant, PTL

\* One answer, in order, for each request that was handled.
THEOREM AnswersMatch == Spec => []AnswersFollowRequests
<1>1. Inv => AnswersFollowRequests
  BY DEF Inv
<1>. QED BY <1>1, ServerInvariant, PTL

\* The signal is noticed before the second message after it.
THEOREM SignalIsNoticed == Spec => []OneMessageAfterSignal
<1>1. Inv => OneMessageAfterSignal
  BY DEF Inv, LateInv, OneMessageAfterSignal
<1>. QED BY <1>1, ServerInvariant, PTL

\* The semaphore is given back on every path.
THEOREM SlotsAreGivenBack == Spec => []SlotsBalanced
<1>1. Inv => SlotsBalanced
  BY DEF Inv
<1>. QED BY <1>1, ServerInvariant, PTL

-----------------------------------------------------------------------------
(* The server implements the line of requests.                             *)

\* The message taken up last is the greatest of those taken up.
LEMMA LastIsGreatest ==
  ASSUME Inv
  PROVE  /\ Line!LastTaken \in Nat
         /\ handled # <<>> => Line!LastTaken \in HandledSet
         /\ \A h \in HandledSet : h <= Line!LastTaken /\ handled # <<>>
<1>1. handled \in Seq(Nat) /\ DOMAIN handled = 1..Len(handled) /\ Len(handled) \in Nat
  BY DEF Inv, Shapes
<1>2. handled # <<>> => Len(handled) \in DOMAIN handled
  BY <1>1
<1>3. \A h \in HandledSet : handled # <<>>
  BY <1>1 DEF HandledSet
<1>4. ASSUME NEW i \in DOMAIN handled
      PROVE  handled[i] <= handled[Len(handled)]
  <2>1. i \in 1..Len(handled) /\ Len(handled) \in DOMAIN handled
    BY <1>1
  <2>2. handled[i] \in Nat /\ handled[Len(handled)] \in Nat
    BY <1>1, <2>1
  <2>3. i < Len(handled) => handled[i] < handled[Len(handled)]
    BY <2>1 DEF Inv, Increasing
  <2>. QED BY <1>1, <2>1, <2>2, <2>3
<1>. QED BY <1>1, <1>2, <1>3, <1>4 DEF Line!LastTaken, HandledSet

\* Nothing was turned away, and nothing taken up after the signal, while the
\* server is at work on a message it has just read.
LEMMA OpenWhileReading ==
  ASSUME Inv, ~Stopped, pc # "top", ~InHand
  PROVE  late = 0 /\ ~TurnsAway
BY DEF Inv, LateInv, TurnsAway

\* Parse takes up the next message of the line.
LEMMA ParseTakesNext ==
  ASSUME Inv, Parse
  PROVE  current \in Messages /\ Line!TakeUp(current)
<1>. USE DEF Inv
<1>. DEFINE last == Line!LastTaken
<1>1. /\ pc = "parse" /\ handled' = Append(handled, current) /\ sent' = sent
      /\ received' = received /\ stdout' = stdout /\ cancelled' = cancelled
      /\ late' = IF cancelled THEN late + 1 ELSE late
  BY DEF Parse, client
<1>2. /\ current \in Messages /\ current \in Nat \ {0}
      /\ ~Skipped(current) /\ sent[current].frame # "batch"
      /\ \A m \in Messages : m < current => (m \notin HandledSet <=> Skipped(m))
      /\ \A h \in HandledSet : h < current
  BY <1>1, HandIs DEF Settled, Stopped, Place
<1>3. /\ last \in Nat /\ (handled # <<>> => last \in HandledSet) /\ (handled = <<>> => last = 0)
      /\ \A h \in HandledSet : h <= last /\ handled # <<>>
  BY LastIsGreatest DEF Line!LastTaken
<1>4. last < current
  BY <1>2, <1>3
<1>5. ASSUME NEW n \in Nat, n > last + 1
      PROVE  n - 1 \notin HandledSet
  BY <1>3, <1>5
<1>6. ~Line!PassedOver(current)
  BY <1>2, <1>3, <1>5 DEF Skipped, Line!PassedOver
<1>7. ASSUME NEW n \in (last + 1)..(current - 1)
      PROVE  Line!PassedOver(n)
  <2>1. n \in Messages /\ n \in Nat /\ n < current /\ n > last
    BY <1>2, <1>3, <1>7 DEF Messages
  <2>2. n \notin HandledSet
    BY <1>3, <2>1
  <2>3. Skipped(n)
    BY <1>2, <2>1, <2>2
  <2>4. sent[n].frame = "line" => n > last + 1
    <3>1. ASSUME n = last + 1, sent[n].frame = "line"
          PROVE  FALSE
      <4>1. n > 1 /\ n - 1 = last /\ n - 1 \notin HandledSet
        BY <1>3, <2>3, <3>1 DEF Skipped
      <4>. QED BY <1>3, <4>1
    <3>. QED BY <1>3, <2>1, <3>1
  <2>. QED BY <2>3, <2>4 DEF Skipped, Line!PassedOver
<1>8. ~Line!Owed(last)
  <2>1. ASSUME Line!Owed(last) PROVE FALSE
    <3>1. last \in HandledSet /\ Wants(last)
      BY <1>3, <2>1 DEF Line!Owed, Wants
    <3>2. last \in Done
      BY <1>1, <3>1, DoneIs DEF InHand
    <3>3. last \in {Replies[i].msg : i \in DOMAIN Replies}
      BY <3>1, <3>2 DEF AnswersFollowRequests
    <3>. QED BY <2>1, <3>3 DEF Line!Owed
  <2>. QED BY <2>1
<1>9. late = 0 /\ ~TurnsAway
  BY <1>1, OpenWhileReading DEF Stopped, InHand
<1>10. Replies' = Replies
  BY <1>1 DEF Replies
<1>11. TurnsAway' = cancelled
  <2>1. late' > 0 <=> cancelled
    BY <1>1, <1>9
  <2>. QED BY <1>9, <1>10, <2>1 DEF TurnsAway, Shapes
<1>12. Line!IsNext(current)
  BY <1>4, <1>6, <1>7 DEF Line!IsNext
<1>. QED BY <1>1, <1>2, <1>8, <1>9, <1>10, <1>11, <1>12 DEF Line!TakeUp

\* WriteReply answers the message taken up last.
LEMMA WriteAnswers ==
  ASSUME Inv, [Next]_vars, WriteReply
  PROVE  /\ current \in Messages /\ reply.type \in Types
         /\ Line!Answer(current, reply.type)
<1>. USE DEF Inv
<1>1. /\ pc = "write" /\ handled' = handled /\ sent' = sent /\ cancelled' = cancelled
      /\ late' = late
  BY DEF WriteReply, client
<1>2. /\ current \in Messages /\ current \in Nat \ {0} /\ current \in HandledSet
      /\ \A h \in HandledSet : h < current + 1
  BY <1>1, HandIs, FrontIs DEF Settled, Stopped, InHand, Place
<1>3. current = Line!LastTaken /\ handled # <<>>
  <2>1. current <= Line!LastTaken /\ Line!LastTaken \in HandledSet /\ handled # <<>>
    BY <1>2, LastIsGreatest
  <2>2. Line!LastTaken \in Nat /\ Line!LastTaken < current + 1
    BY <1>2, <2>1, LastIsGreatest
  <2>. QED BY <1>2, <2>1, <2>2
<1>4. /\ Wants(current) /\ reply.msg = current /\ reply \in AnswerSet /\ reply.type \in Types
      /\ reply.type = "busy" => cancelled
      /\ reply.type # "result" => sent[current].kind = "call"
  BY <1>1 DEF HandInv, Shapes, AnswerSet, Types
<1>5. \A i \in DOMAIN Replies : Replies[i].msg # current
  <2>1. current \notin Done
    BY <1>1, DoneIs DEF InHand
  <2>. QED BY <2>1 DEF AnswersFollowRequests
<1>6. Line!Owed(current)
  BY <1>3, <1>4, <1>5 DEF Line!Owed, Wants
<1>7. reply = [msg |-> current, type |-> reply.type]
  BY <1>4 DEF AnswerSet
<1>8. Replies \in Seq(AnswerSet) /\ Replies' = Append(Replies, reply)
  BY RepliesStep
<1>9. TurnsAway' = (TurnsAway \/ reply.type = "busy")
  <2>1. /\ DOMAIN Replies = 1..Len(Replies) /\ DOMAIN Replies' = 1..(Len(Replies) + 1)
        /\ Len(Replies) \in Nat
        /\ Replies'[Len(Replies) + 1] = reply /\ \A i \in DOMAIN Replies : Replies'[i] = Replies[i]
    BY <1>4, <1>8, AppendIs
  <2>2. (\E i \in DOMAIN Replies' : Replies'[i].type = "busy")
          <=> (\E i \in DOMAIN Replies : Replies[i].type = "busy") \/ reply.type = "busy"
    <3>1. \A i \in DOMAIN Replies' : i \in DOMAIN Replies \/ i = Len(Replies) + 1
      BY <2>1
    <3>2. DOMAIN Replies \subseteq DOMAIN Replies' /\ Len(Replies) + 1 \in DOMAIN Replies'
      BY <2>1
    <3>. QED BY <2>1, <3>1, <3>2
  <2>. QED BY <1>1, <2>2 DEF TurnsAway
<1>. QED BY <1>1, <1>2, <1>4, <1>6, <1>7, <1>8, <1>9 DEF Line!Answer

\* However messages are framed and cut up, and whichever pipe is full when the
\* signal comes, serveStdio is a line of requests served one after the other.
THEOREM ServerImplementsRequestLine == Spec => ImplementsRequestLine
<1>1. Init => Line!LineInit
  <2>. SUFFICES ASSUME Init PROVE Line!LineInit
    OBVIOUS
  <2>1. Replies = <<>> /\ ~TurnsAway
    BY DEF Init, Replies, TurnsAway
  <2>. QED BY <2>1 DEF Init, Line!LineInit
<1>2. ASSUME Inv, [Next]_vars
      PROVE  [Line!LineNext]_Line!lineVars
  <2>0. DOMAIN sent = Messages
    BY <1>2 DEF Inv, Shapes, Messages
  <2>1. CASE Parse
    BY <1>2, <2>0, <2>1, ParseTakesNext DEF Line!LineNext
  <2>2. CASE WriteReply
    BY <1>2, <2>0, <2>2, WriteAnswers DEF Line!LineNext, Types
  <2>3. CASE BeginMessage
    <3>1. /\ handled' = handled /\ late' = late /\ cancelled' = cancelled
          /\ \E message \in SendMessages : sent' = Append(sent, message)
      BY <2>3 DEF BeginMessage, server
    <3>2. Replies' = Replies
      BY <2>3 DEF BeginMessage, Replies
    <3>3. Line!Send
      BY <3>1, <3>2 DEF Line!Send, TurnsAway
    <3>. QED BY <3>3 DEF Line!LineNext
  <2>4. CASE Signal
    <3>1. /\ handled' = handled /\ late' = late /\ sent' = sent /\ ~cancelled /\ cancelled' = TRUE
      BY <2>4 DEF Signal, server, client
    <3>2. Replies' = Replies
      BY <2>4 DEF Signal, Replies, client
    <3>3. Line!Cancel
      BY <3>1, <3>2 DEF Line!Cancel, TurnsAway
    <3>. QED BY <3>3 DEF Line!LineNext
  <2>5. CASE ~Parse /\ ~WriteReply /\ ~BeginMessage /\ ~Signal
    <3>1. Replies' = Replies
      BY <1>2, <2>5, RepliesStep
    <3>2. handled' = handled /\ late' = late /\ sent' = sent /\ cancelled' = cancelled
      BY <1>2, <2>5 DEF Next, ClientStep, ServerStep, WriteUnit, CloseStdin, ReadResponse, Top, ReadLine, ReadHeader, ReadBody, ReadEOF, Handle, Acquire, Tool, vars, client, server
    <3>. QED BY <3>1, <3>2 DEF Line!lineVars, TurnsAway
  <2>. QED BY <2>1, <2>2, <2>3, <2>4, <2>5
<1>. QED BY <1>1, <1>2, ServerInvariant, PTL DEF Spec, ImplementsRequestLine, Line!LineSpec

-----------------------------------------------------------------------------
(* What progress rests on, fairness apart.                                 *)

\* The server stands still only where a pipe makes it.
THEOREM ServerWaitsOnlyOnPipes == Spec => []OnlyPipesBlock
<1>1. Inv => OnlyPipesBlock
  <2>. SUFFICES ASSUME Inv PROVE OnlyPipesBlock
    OBVIOUS
  <2>. USE DEF Inv
  <2>1. stdin # <<>> => Stream # <<>> /\ Head(stdin) = Stream[1] /\ Stream[1] \in UnitSet
    BY TakeHead, StreamIs DEF Shapes, Stream
  <2>2. ASSUME pc = "line", stdin # <<>>
        PROVE  Head(stdin).type \in {"blank", "json", "length", "array"}
    BY <2>1, <2>2 DEF HeadFits, Inside, Stopped, UnitSet, Closers
  <2>3. ASSUME pc = "body", stdin # <<>>
        PROVE  Head(stdin).type = "body"
    BY <2>1, <2>3 DEF HeadFits, Inside
  <2>4. pc = "acquire" => sem < Slots
    BY ServerAssumption DEF SlotsBalanced
  <2>5. pc = "tool" => sem > 0
    BY DEF SlotsBalanced
  <2>6. pc = "handle" => sent[current].kind \in {"notice", "call", "quick"}
    BY DEF HandInv
  <2>. QED BY <2>2, <2>3, <2>4, <2>5, <2>6 DEF OnlyPipesBlock
<1>. QED BY <1>1, ServerInvariant, PTL

\* A reader that takes a unit has fewer steps left, whatever comes next.
LEMMA ReadingRunsDown ==
  ASSUME Inv, ReadLine \/ ReadHeader \/ ReadBody
  PROVE  Effort' < Effort
<1>1. /\ stdin \in Seq(UnitSet) /\ stdin # <<>> /\ stdin' = Tail(stdin)
      /\ pc \in {"line", "headers", "body"}
  BY DEF ReadLine, ReadHeader, ReadBody, Inv, Shapes
<1>2. Len(stdin) \in Nat /\ Len(stdin') \in Nat /\ Len(stdin') = Len(stdin) - 1
  BY <1>1
<1>3. pc' \in {"line", "headers", "body", "parse", "failed"}
  <2>1. CASE ReadLine
    BY <2>1, LineHead DEF ReadLine, Goto
  <2>. QED BY <2>1 DEF ReadHeader, ReadBody, Goto
<1>4. Rank[pc] = 1 /\ Rank[pc'] \in 0..7
  BY <1>1, <1>3 DEF Rank
<1>. QED BY <1>2, <1>4 DEF Effort

\* The other steps of the server leave the pipe and come closer to the end.
LEMMA WorkingRunsDown ==
  ASSUME Inv, Top \/ ReadEOF \/ Parse \/ Handle \/ Acquire \/ Tool \/ WriteReply
  PROVE  Effort' < Effort
<1>1. stdin' = stdin
  BY DEF Top, ReadEOF, Parse, Handle, Acquire, Tool, WriteReply
<1>2. Len(stdin) \in Nat
  BY DEF Inv, Shapes
<1>3. pc = "handle" => sent[current].kind \in {"quick", "call", "notice"}
  BY DEF Inv, HandInv
<1>4. \/ pc = "top" /\ pc' \in {"line", "returned"}
      \/ pc \in {"line", "headers", "body"} /\ pc' \in {"returned", "failed"}
      \/ pc = "parse" /\ pc' \in {"top", "handle"}
      \/ pc = "handle" /\ pc' \in {"top", "acquire", "write"}
      \/ pc = "acquire" /\ pc' \in {"tool", "write"}
      \/ pc = "tool" /\ pc' = "write"
      \/ pc = "write" /\ pc' = "top"
  BY <1>3 DEF Top, ReadEOF, Parse, Handle, Acquire, Tool, WriteReply, Goto
<1>5. /\ Rank[pc] \in 0..7 /\ Rank[pc'] \in 0..7
      /\ Rank[pc'] < Rank[pc]
  BY <1>4 DEF Rank
<1>. QED BY <1>1, <1>2, <1>5 DEF Effort

\* Once its input is closed, the server has at most Effort steps left.
THEOREM ClosedServerStops == Spec => ClosedServerRunsDown
<1>1. ASSUME Inv, [Next]_vars, eof # "open"
      PROVE  Effort' <= Effort /\ (ServerStep => Effort' < Effort)
  <2>1. Effort \in Nat /\ (ServerStep => Effort' \in Nat)
    <3>1. Len(stdin) \in Nat /\ Rank[pc] \in 0..7
      BY <1>1 DEF Inv, Shapes, PcLabels, Rank
    <3>2. ServerStep => stdin' \in Seq(UnitSet) /\ pc' \in PcLabels
      BY <1>1, ShapesStep DEF Shapes
    <3>3. ServerStep => Len(stdin') \in Nat /\ Rank[pc'] \in 0..7
      BY <3>2 DEF PcLabels, Rank
    <3>. QED BY <3>1, <3>3 DEF Effort
  <2>2. ServerStep => Effort' < Effort
    BY <1>1, ReadingRunsDown, WorkingRunsDown DEF ServerStep
  <2>3. ~ServerStep => stdin' = stdin /\ pc' = pc
    BY <1>1 DEF Next, ClientStep, BeginMessage, WriteUnit, CloseStdin, ReadResponse, Signal, vars, server, client
  <2>. QED BY <2>1, <2>2, <2>3 DEF Effort
<1>2. Inv /\ [Next]_vars =>
        [eof # "open" => Effort' <= Effort /\ (ServerStep => Effort' < Effort)]_vars
  BY <1>1
<1>. QED BY <1>2, ServerInvariant, PTL DEF Spec, ClosedServerRunsDown
=============================================================================
