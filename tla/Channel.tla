------------------------------ MODULE Channel ------------------------------
(***************************************************************************)
(* One direction of protocol/Channel: threads that send over a byte        *)
(* stream, and the thread that finds the messages again at the other end.  *)
(* (HexapodCtl/protocol/Channel.cpp; Channel.java is its twin.)            *)
(*                                                                         *)
(* A message travels as a frame: a header of Header bytes and its body.    *)
(* A byte is a record: the message it belongs to and its place `at' in the *)
(* frame, 0 once it has been damaged.  The magic word and the three        *)
(* checksums are taken to be perfect: a header or a body is accepted       *)
(* exactly when it is the whole undamaged header or body of one message.   *)
(*                                                                         *)
(* Time is the step Silence: one byte timeout with nothing on the line.    *)
(***************************************************************************)
EXTENDS Naturals, Sequences

CONSTANTS Sender,     \* threads that call send
          Message,    \* each is sent at most once
          Size,       \* length of the body of a message
          Header,     \* length of a header
          MaxBody,    \* _MAX_MESSAGE_SIZE
          MaxFaults,  \* bound on the bytes lost or damaged
          None

Byte == [msg : Message, at : Nat]

ASSUME ChannelAssumption ==
  /\ Size \in [Message -> Nat]
  /\ Header \in Nat \ {0}
  /\ MaxBody \in Nat
  /\ MaxFaults \in Nat
  /\ None \notin Message \cup Byte

VARIABLES status,     \* m_status
          open,       \* m_stream->isOpen()
          frame,      \* of each sender: the byte it writes next, None outside send
          line,       \* bytes written and not yet read
          mode,       \* what receive reads: header, flush, body; or handling, ended
          got,        \* the bytes of the present read
          want,       \* the message whose header was accepted
          delivered,  \* messages given to m_messageCallback, in order
          \* history, read by no action
          begun,      \* messages whose send has begun
          faults,     \* bytes lost or damaged so far
          quiet,      \* byte timeouts of silence since the last byte, up to 2
          trouble,    \* something went wrong since the line was last quiet
          due         \* messages sent whole while there was no trouble

link    == <<status, open>>
reader  == <<mode, got, want, delivered>>
history == <<begun, faults, quiet, trouble, due>>
vars    == <<link, frame, line, reader, history>>

FrameSize(m) == Header + Size[m]

TypeOK ==
  /\ status \in {"NotStarted", "Running", "Stopped"}
  /\ open \in BOOLEAN
  /\ frame \in [Sender -> Byte \cup {None}]
  /\ line \in Seq(Byte)
  /\ mode \in {"header", "flush", "body", "handling", "ended"}
  /\ got \in Seq(Byte)
  /\ want \in Message \cup {None}
  /\ delivered \in Seq(Message)
  /\ begun \subseteq Message
  /\ faults \in 0 .. MaxFaults
  /\ quiet \in 0 .. 2
  /\ trouble \in BOOLEAN
  /\ due \subseteq Message

Init ==
  /\ status = "NotStarted"
  /\ open = TRUE
  /\ frame = [s \in Sender |-> None]
  /\ line = <<>>
  /\ mode = "header" /\ got = <<>> /\ want = None /\ delivered = <<>>
  /\ begun = {} /\ faults = 0 /\ quiet = 0 /\ trouble = FALSE /\ due = {}

MutexFree == \A s \in Sender : frame[s] = None

-----------------------------------------------------------------------------
\* start, stop, and a stream that closes by itself.

start ==
  /\ MutexFree
  /\ status = "NotStarted"
  /\ status' = "Running"
  /\ UNCHANGED <<open, frame, line, reader, history>>

\* What was written and not yet read is lost with the stream.
Close ==
  /\ open' = FALSE
  /\ line' = <<>>
  /\ UNCHANGED <<frame, reader, history>>

stop ==
  /\ MutexFree
  /\ status = "Running"
  /\ status' = "Stopped"
  /\ Close

StreamFails ==
  /\ status = "Running" /\ open
  /\ UNCHANGED status
  /\ Close

-----------------------------------------------------------------------------
\* send: the header and then the body, byte by byte, m_sendMutex held.

\* A slip: send takes no m_sendMutex.
SlipBeginSend(s, m) ==
  /\ frame[s] = None
  /\ status = "Running"
  /\ m \notin begun
  /\ frame' = [frame EXCEPT ![s] = [msg |-> m, at |-> 1]]
  /\ begun' = begun \cup {m}
  /\ trouble' = (trouble \/ Size[m] > MaxBody)
  /\ UNCHANGED <<link, line, reader, faults, quiet, due>>

BeginSend(s, m) ==
  /\ MutexFree
  /\ status = "Running"
  /\ m \notin begun
  /\ frame' = [frame EXCEPT ![s] = [msg |-> m, at |-> 1]]
  /\ begun' = begun \cup {m}
  /\ trouble' = (trouble \/ Size[m] > MaxBody)
  /\ UNCHANGED <<link, line, reader, faults, quiet, due>>

\* s has written its next byte; bad is whether it is lost or damaged.
Written(s, bad) ==
  LET m    == frame[s].msg
      k    == frame[s].at
      last == k = FrameSize(m)
  IN  /\ frame' = [frame EXCEPT ![s] = IF last THEN None ELSE [msg |-> m, at |-> k + 1]]
      /\ trouble' = (trouble \/ bad)
      /\ due' = IF last /\ ~trouble' THEN due \cup {m} ELSE due
      /\ quiet' = 0
      /\ UNCHANGED <<link, reader, begun>>

Write(s) ==
  /\ frame[s] # None /\ open
  /\ line' = Append(line, frame[s])
  /\ Written(s, FALSE)
  /\ UNCHANGED faults

Fault(s) ==
  /\ frame[s] # None /\ open
  /\ faults < MaxFaults
  /\ faults' = faults + 1
  /\ \/ line' = line
     \/ line' = Append(line, [msg |-> frame[s].msg, at |-> 0])
  /\ Written(s, TRUE)

\* A write that comes out short ends send: the streams do not block, and a
\* closed one takes nothing.
ShortWrite(s) ==
  /\ frame[s] # None
  /\ frame' = [frame EXCEPT ![s] = None]
  /\ trouble' = TRUE
  /\ UNCHANGED <<link, line, reader, begun, faults, quiet, due>>

-----------------------------------------------------------------------------
\* receive

\* The bytes bs are those of m's frame from the place first on, undamaged.
Whole(bs, m, first) ==
  \A i \in 1 .. Len(bs) : bs[i] = [msg |-> m, at |-> first + i - 1]

\* How much of the body of m is read: the firmware cuts it at MaxBody.
BodyRead(m) == IF Size[m] > MaxBody THEN MaxBody ELSE Size[m]

ReaderGoesTo(md, m) ==
  /\ mode' = md
  /\ got' = <<>>
  /\ want' = m

Receive ==
  /\ status # "NotStarted" /\ line # <<>>
  /\ line' = Tail(line)
  /\ UNCHANGED <<link, frame, delivered, history>>

\* A byte that does not complete the read.
ReadSome ==
  /\ \/ mode = "header" /\ Len(got) + 1 < Header
     \/ mode = "body" /\ Len(got) + 1 < BodyRead(want)
  /\ Receive
  /\ got' = Append(got, Head(line))
  /\ UNCHANGED <<mode, want>>

\* The byte that completes a header.
ReadHeader ==
  /\ mode = "header" /\ Len(got) + 1 = Header
  /\ Receive
  /\ LET m == Head(line).msg
     IN  IF ~Whole(Append(got, Head(line)), m, 1) THEN ReaderGoesTo("flush", None)
         ELSE IF BodyRead(m) > 0                  THEN ReaderGoesTo("body", m)
         ELSE IF Size[m] = 0                      THEN ReaderGoesTo("handling", m)
         ELSE                                          ReaderGoesTo("header", None)

\* The byte that completes a body.  One that was cut has the wrong checksum.
ReadBody ==
  /\ mode = "body" /\ Len(got) + 1 = BodyRead(want)
  /\ Receive
  /\ IF Size[want] = BodyRead(want) /\ Whole(Append(got, Head(line)), want, Header + 1)
       THEN ReaderGoesTo("handling", want)
       ELSE ReaderGoesTo("header", None)

\* m_messageCallback->onMessage
Handle ==
  /\ mode = "handling"
  /\ delivered' = Append(delivered, want)
  /\ ReaderGoesTo("header", None)
  /\ UNCHANGED <<link, frame, line, history>>

\* While flushing, every byte is thrown away.
Flush ==
  /\ mode = "flush"
  /\ Receive
  /\ ReaderGoesTo("flush", None)

\* A slip: the flush loop does not end when nothing comes.
SlipGiveUp ==
  IF mode = "header" /\ got # <<>> THEN ReaderGoesTo("flush", None)
  ELSE IF mode = "body"            THEN ReaderGoesTo("header", None)
  ELSE                                  UNCHANGED <<mode, got, want>>

\* What a read that gives up leads to.  The first byte of a header is waited
\* for without a limit.
GiveUp ==
  CASE mode = "header" /\ got # <<>> -> ReaderGoesTo("flush", None)
    [] mode \in {"flush", "body"}    -> ReaderGoesTo("header", None)
    [] OTHER                         -> UNCHANGED <<mode, got, want>>

\* A byte timeout passes and nothing arrives.  A sender that is still inside
\* its frame has been too slow.
Silence ==
  /\ status = "Running" /\ open
  /\ line = <<>> /\ mode # "handling"
  /\ quiet < 2 \/ mode # "header" \/ got # <<>>
  /\ GiveUp
  /\ quiet' = IF quiet < 2 THEN quiet + 1 ELSE quiet
  /\ trouble' = (~MutexFree \/ (trouble /\ quiet' < 2))
  /\ UNCHANGED <<link, frame, line, delivered, begun, faults, due>>

\* The stream is closed: the read comes out short, the loop ends and
\* m_closedCallback is called.
EndReceive ==
  /\ status # "NotStarted" /\ ~open
  /\ mode \notin {"handling", "ended"}
  /\ ReaderGoesTo("ended", None)
  /\ UNCHANGED <<link, frame, line, delivered, history>>

Reads == ReadSome \/ ReadHeader \/ ReadBody \/ Handle \/ Flush \/ EndReceive

Next ==
  \/ start \/ stop \/ StreamFails
  \/ \E s \in Sender : \/ \E m \in Message : BeginSend(s, m)
                       \/ Write(s) \/ Fault(s) \/ ShortWrite(s)
  \/ Reads \/ Silence

\* The receive thread runs; time passes; nobody has to send or to stop.
Fairness == WF_vars(Reads) /\ WF_vars(Silence)

Spec == Init /\ [][Next]_vars /\ Fairness

-----------------------------------------------------------------------------
Delivered == {delivered[i] : i \in 1 .. Len(delivered)}

OnItsWay(m) ==
  \/ want = m
  \/ \E i \in 1 .. Len(line) : line[i].msg = m
  \/ \E i \in 1 .. Len(got) : got[i].msg = m

(* A message sent whole over a line in order is not lost: until it is given *)
(* to the handler, its bytes are on the line or in the hands of receive.    *)
(* In order means that nothing was lost, damaged, cut short, too slow or    *)
(* too long since the line was last silent for two byte timeouts, which is  *)
(* what a receiver left in the middle of a header needs to find the next    *)
(* one (Channel.cpp 192-216).                                               *)
SoundMessagesArrive == open => \A m \in due : m \in Delivered \/ OnItsWay(m)

(* However it was left, a receiver comes back to the start of a header or  *)
(* ends, and a sound message is handled unless the stream closes first:    *)
(* senders that fall silent, as the retries of Flow do, get through.       *)
Recovers ==
  /\ \A m \in Message : m \in due ~> m \in Delivered \/ ~open
  /\ mode \in {"flush", "body"} ~> mode \in {"header", "ended"}
=============================================================================
