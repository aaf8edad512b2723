---------------------------- MODULE ChannelProofs ----------------------------
(***************************************************************************)
(* Channel loses no message that was sent whole over a sound line, for     *)
(* every set of messages and senders, every length of header and bodies    *)
(* and any number of faults.                                               *)
(*                                                                         *)
(* The argument looks at what the receive thread has yet to make out: the  *)
(* bytes it has read and those on the line.                                *)
(* The first n of these, the sound part, are frames one after the other    *)
(* and begin where the receive thread is; they hold the last byte of every *)
(* message that is due.  While there is no trouble the sound part is       *)
(* everything there is, and the sender goes on where it ends.              *)
(***************************************************************************)
EXTENDS Channel, TLAPS

\* What the receive thread has yet to make out.
Bytes == got \o line

OneWriter == \A s, t \in Sender : frame[s] # None /\ frame[t] # None => s = t

\* Between two steps no read is complete.
ReaderAt ==
  /\ mode = "header" => Len(got) < Header
  /\ mode = "body" => want \in Message /\ Len(got) < BodyRead(want)
  /\ mode = "handling" => want \in Message
  /\ mode \in {"flush", "handling", "ended"} => got = <<>>
  /\ mode = "ended" => ~open

\* One silence takes the reader out of a frame, two to the start of one.
QuietReader ==
  /\ quiet > 0 => line = <<>> /\ got = <<>> /\ mode \in {"header", "flush", "ended"}
  /\ quiet = 2 => mode # "flush"

Last(b, i) == b[i].at = FrameSize(b[i].msg)

\* The i-th byte and the k-th after it are of the same frame.
SameFrame(b, i, k) == b[i].at + k <= FrameSize(b[i].msg)

Frames(b, n) ==
  /\ \A i \in 1 .. n : b[i].at \in 1 .. FrameSize(b[i].msg) /\ Size[b[i].msg] <= MaxBody
  /\ \A i, j \in 1 .. n : i <= j /\ SameFrame(b, i, j - i) =>
       b[j].msg = b[i].msg /\ b[j].at = b[i].at + (j - i)
  /\ \A i \in 1 .. n : i < n /\ Last(b, i) => b[i + 1].at = 1

FromReader(b, n) ==
  /\ mode = "flush" => n = 0
  /\ n > 0 /\ mode \in {"header", "handling"} => b[1].at = 1
  /\ n > 0 /\ mode = "body" => b[1].msg = want /\ b[1].at = Header + 1

EndsIn(b, n, m) == \E i \in 1 .. n : b[i].msg = m /\ b[i].at = FrameSize(m)

HoldsDue(b, n) ==
  \A m \in due : m \in Delivered \/ (mode = "handling" /\ want = m) \/ EndsIn(b, n, m)

\* Some sender is about to write the byte of m's frame at the place k.
Writes(m, k) == \E s \in Sender : frame[s] # None /\ frame[s].msg = m /\ frame[s].at = k

\* The sender, if there is one, goes on after the n-th byte.
ToWriter(b, n) ==
  /\ \A i \in 1 .. n : SameFrame(b, i, n + 1 - i) => Writes(b[i].msg, b[i].at + (n + 1 - i))
  /\ mode = "body" /\ n = 0 => Writes(want, Header + 1)
  /\ \A s \in Sender : frame[s] # None =>
       /\ frame[s].at \in 1 .. FrameSize(frame[s].msg)
       /\ Size[frame[s].msg] <= MaxBody
       /\ n > 0 /\ Last(b, n) => frame[s].at = 1
       /\ n = 0 /\ mode \in {"header", "handling"} => frame[s].at = 1

NoTrouble(b, n) ==
  /\ n = Len(b)
  /\ mode # "flush"
  /\ mode = "body" => Size[want] <= MaxBody
  /\ ToWriter(b, n)

SoundPart(b, n) ==
  /\ n \in 0 .. Len(b)
  /\ Frames(b, n)
  /\ FromReader(b, n)
  /\ HoldsDue(b, n)
  /\ ~trouble => NoTrouble(b, n)

Base == TypeOK /\ OneWriter /\ ReaderAt /\ QuietReader

IInv == Base /\ (open => \E n \in Nat : SoundPart(Bytes, n))

-----------------------------------------------------------------------------
(* The types, the send mutex, and the reads that are never complete between *)
(* two steps.                                                               *)

LEMMA InitBase == Init => Base
<1> SUFFICES ASSUME Init PROVE Base
  OBVIOUS
<1>1. TypeOK
  <2>1. open \in BOOLEAN /\ trouble \in BOOLEAN
    BY DEF Init
  <2>2. line \in Seq(Byte) /\ got \in Seq(Byte) /\ delivered \in Seq(Message)
    BY DEF Init
  <2> QED  BY ChannelAssumption, <2>1, <2>2 DEF Init, TypeOK
<1>2. Len(got) = 0
  BY DEF Init
<1>3. OneWriter /\ ReaderAt /\ QuietReader
  BY ChannelAssumption, <1>2 DEF Init, OneWriter, ReaderAt, QuietReader
<1> QED  BY <1>1, <1>3 DEF Base

LEMMA StartBase == Base /\ (start \/ stop \/ StreamFails) => Base'
<1> SUFFICES ASSUME Base, start \/ stop \/ StreamFails PROVE Base'
  OBVIOUS
<1>1. TypeOK'
  <2>1. open' \in BOOLEAN
    BY DEF Base, TypeOK, start, stop, StreamFails, Close
  <2>2. line' = line \/ line' = <<>>
    BY DEF start, stop, StreamFails, Close
  <2>3. line \in Seq(Byte) /\ <<>> \in Seq(Byte)
    BY DEF Base, TypeOK
  <2>4. line' \in Seq(Byte)
    BY <2>2, <2>3
  <2> QED  BY <2>1, <2>4 DEF Base, TypeOK, start, stop, StreamFails, Close, reader, history
<1>2. OneWriter' /\ ReaderAt' /\ QuietReader'
  BY DEF Base, OneWriter, ReaderAt, QuietReader, BodyRead, start, stop, StreamFails, Close, reader, history
<1> QED  BY <1>1, <1>2 DEF Base

LEMMA SendBase ==
  ASSUME Base, NEW s \in Sender,
         (\E m \in Message : BeginSend(s, m)) \/ Write(s) \/ Fault(s) \/ ShortWrite(s)
  PROVE  Base'
<1> USE ChannelAssumption
<1>1. TypeOK'
  <2>1. CASE \E m \in Message : BeginSend(s, m)
    BY <2>1 DEF Base, TypeOK, BeginSend, link, reader, Byte
  <2>2. CASE Write(s) \/ Fault(s)
    <3>0. frame[s] \in Byte
      BY <2>2 DEF Base, TypeOK, Write, Fault
    <3>1. [msg |-> frame[s].msg, at |-> 0] \in Byte /\ [msg |-> frame[s].msg, at |-> frame[s].at + 1] \in Byte /\ frame[s].msg \in Message
      BY <3>0 DEF Byte
    <3>2. line' = line \/ line' = Append(line, frame[s]) \/ line' = Append(line, [msg |-> frame[s].msg, at |-> 0])
      BY <2>2 DEF Write, Fault
    <3>11. line' = line \/ \E b \in Byte : line' = Append(line, b)
      BY <3>0, <3>1, <3>2
    <3>12. line \in Seq(Byte)
      BY DEF Base, TypeOK
    <3>6. line' \in Seq(Byte)
      BY <3>11, <3>12
    <3>13. faults' = faults \/ (faults < MaxFaults /\ faults' = faults + 1)
      BY <2>2 DEF Write, Fault
    <3>16. faults \in 0 .. MaxFaults
      BY DEF Base, TypeOK
    <3>5. faults' \in 0 .. MaxFaults
      BY <3>13, <3>16
    <3>3. Written(s, TRUE) \/ Written(s, FALSE)
      BY <2>2 DEF Write, Fault
    <3>7. trouble' \in BOOLEAN
      BY <3>3 DEF Base, TypeOK, Written
    <3>8. due' = due \/ due' = due \cup {frame[s].msg}
      BY <3>3 DEF Written
    <3>9. due' \subseteq Message
      BY <3>1, <3>8 DEF Base, TypeOK
    <3>10. frame' = [frame EXCEPT ![s] = None] \/ frame' = [frame EXCEPT ![s] = [msg |-> frame[s].msg, at |-> frame[s].at + 1]]
      BY <3>3 DEF Written
    <3>14. quiet' = 0
      BY <3>3 DEF Written
    <3>15. \E x \in Byte \cup {None} : frame' = [frame EXCEPT ![s] = x]
      BY <3>1, <3>10
    <3>4. frame' \in [Sender -> Byte \cup {None}] /\ quiet' \in 0 .. 2
      BY <3>14, <3>15 DEF Base, TypeOK
    <3> QED  BY <3>6, <3>3, <3>4, <3>5, <3>7, <3>9 DEF Base, TypeOK, Written, link, reader
  <2>3. CASE ShortWrite(s)
    BY <2>3 DEF Base, TypeOK, ShortWrite, link, reader
  <2> QED  BY <2>1, <2>2, <2>3
<1>2. OneWriter'
  <2>1. CASE \E m \in Message : BeginSend(s, m)
    BY <2>1 DEF Base, TypeOK, OneWriter, BeginSend, MutexFree
  <2>2. CASE Write(s) \/ Fault(s)
    BY <2>2 DEF Base, TypeOK, OneWriter, Write, Fault, Written
  <2>3. CASE ShortWrite(s)
    BY <2>3 DEF Base, TypeOK, OneWriter, ShortWrite
  <2> QED  BY <2>1, <2>2, <2>3
<1>3. ReaderAt' /\ QuietReader'
  BY DEF Base, TypeOK, ReaderAt, QuietReader, BeginSend, Write, Fault, Written, ShortWrite, link, reader,
         BodyRead
<1> QED  BY <1>1, <1>2, <1>3 DEF Base

LEMMA ReadBase == Base /\ (Reads \/ Silence) => Base'
<1> USE ChannelAssumption
<1> SUFFICES ASSUME Base, Reads \/ Silence PROVE Base'
  OBVIOUS
<1>0. line # <<>> => Head(line) \in Byte /\ Tail(line) \in Seq(Byte) /\ Append(got, Head(line)) \in Seq(Byte)
  BY DEF Base, TypeOK
<1>1. CASE ReadSome
  BY <1>0, <1>1 DEF Base, TypeOK, OneWriter, ReaderAt, QuietReader, ReadSome, Receive, link, history, BodyRead
<1>2. CASE ReadHeader
  <2>1. Head(line).msg \in Message
    BY <1>0, <1>2 DEF ReadHeader, Receive, Byte
  <2>2. PICK md \in {"flush", "body", "handling", "header"}, w \in Message \cup {None} :
          ReaderGoesTo(md, w) /\ (md = "body" => w \in Message /\ BodyRead(w) > 0) /\ (md = "handling" => w \in Message)
    BY <1>2, <2>1 DEF ReadHeader
  <2> QED
    BY <1>0, <1>2, <2>2
    DEF Base, TypeOK, OneWriter, ReaderAt, QuietReader, ReadHeader, Receive, ReaderGoesTo, link, history
<1>3. CASE ReadBody
  <2>1. PICK md \in {"handling", "header"}, w \in Message \cup {None} :
          ReaderGoesTo(md, w) /\ (md = "handling" => w \in Message)
    BY <1>3 DEF ReadBody, Base, ReaderAt
  <2> QED
    BY <1>0, <1>3, <2>1
    DEF Base, TypeOK, OneWriter, ReaderAt, QuietReader, ReadBody, Receive, ReaderGoesTo, link, history
<1>4. CASE Handle
  BY <1>4 DEF Base, TypeOK, OneWriter, ReaderAt, QuietReader, Handle, ReaderGoesTo, link, history
<1>5. CASE Flush
  BY <1>0, <1>5 DEF Base, TypeOK, OneWriter, ReaderAt, QuietReader, Flush, Receive, ReaderGoesTo, link, history
<1>6. CASE EndReceive
  BY <1>6 DEF Base, TypeOK, OneWriter, ReaderAt, QuietReader, EndReceive, ReaderGoesTo, link, history
<1>7. CASE Silence
  <2>1. trouble' \in BOOLEAN
    BY <1>7 DEF Silence
  <2>2. \/ ReaderGoesTo("flush", None) /\ mode = "header" /\ got # <<>>
        \/ ReaderGoesTo("header", None) /\ mode \in {"flush", "body"}
        \/ UNCHANGED <<mode, got, want>> /\ (mode = "header" => got = <<>>) /\ mode \notin {"flush", "body"}
    BY <1>7 DEF Silence, GiveUp
  <2>3. TypeOK'
    <3>1. quiet' \in 0 .. 2
      BY <1>7 DEF Base, TypeOK, Silence
    <3>2. mode' \in {"header", "flush", "body", "handling", "ended"} /\ want' \in Message \cup {None}
      BY <2>2 DEF Base, TypeOK, ReaderGoesTo
    <3>4. got' = got \/ got' = <<>>
      BY <2>2 DEF ReaderGoesTo
    <3>5. got \in Seq(Byte) /\ <<>> \in Seq(Byte)
      BY DEF Base, TypeOK
    <3>3. got' \in Seq(Byte)
      BY <3>4, <3>5
    <3> QED  BY <1>7, <2>1, <3>1, <3>2, <3>3 DEF Base, TypeOK, Silence, link
  <2>4. quiet > 0 => got = <<>>
    BY DEF Base, QuietReader
  <2>5. OneWriter' /\ ReaderAt' /\ QuietReader'
    BY <1>7, <2>2, <2>4 DEF Base, TypeOK, OneWriter, ReaderAt, QuietReader, Silence, ReaderGoesTo, link
  <2> QED  BY <2>3, <2>5 DEF Base
<1> QED  BY <1>1, <1>2, <1>3, <1>4, <1>5, <1>6, <1>7 DEF Reads

-----------------------------------------------------------------------------
(* How a step changes the bytes, and what that does to frames.              *)

\* A byte that is read stays where it was among those to be made out.
LEMMA BytesRead ==
  ASSUME NEW g \in Seq(Byte), NEW l \in Seq(Byte), l # <<>>
  PROVE  LET b == g \o l
             c == Append(g, Head(l)) \o Tail(l)
         IN  Len(c) = Len(b) /\ \A i \in 1 .. Len(b) : c[i] = b[i]
<1>1. Head(l) \in Byte /\ Tail(l) \in Seq(Byte) /\ Len(Tail(l)) = Len(l) - 1 /\ Len(l) > 0
  OBVIOUS
<1>2. Append(g, Head(l)) \in Seq(Byte) /\ Len(Append(g, Head(l))) = Len(g) + 1
  BY <1>1
<1>3. \A i \in 1 .. Len(Tail(l)) : Tail(l)[i] = l[i + 1]
  BY <1>1
<1>4. l[1] = Head(l)
  OBVIOUS
<1> QED  BY <1>1, <1>2, <1>3, <1>4

\* When a read is complete its bytes go, and the others come first.
LEMMA BytesTaken ==
  ASSUME NEW g \in Seq(Byte), NEW l \in Seq(Byte), l # <<>>
  PROVE  LET b == g \o l
             c == <<>> \o Tail(l)
             k == Len(g) + 1
         IN  /\ Len(b) >= k /\ Len(c) = Len(b) - k
             /\ \A i \in 1 .. Len(c) : c[i] = b[i + k]
             /\ \A i \in 1 .. k : Append(g, Head(l))[i] = b[i]
             /\ b[k] = Head(l)
<1>1. Head(l) \in Byte /\ Tail(l) \in Seq(Byte) /\ Len(Tail(l)) = Len(l) - 1 /\ Len(l) > 0
  OBVIOUS
<1>2. \A i \in 1 .. Len(Tail(l)) : Tail(l)[i] = l[i + 1]
  BY <1>1
<1>3. l[1] = Head(l)
  OBVIOUS
<1>4. <<>> \in Seq(Byte) /\ Len(<<>>) = 0
  OBVIOUS
<1>5. Len(<<>> \o Tail(l)) = Len(l) - 1 /\ \A i \in 1 .. Len(l) - 1 : (<<>> \o Tail(l))[i] = l[i + 1]
  BY <1>1, <1>2, <1>4
<1> QED  BY <1>1, <1>3, <1>5

LEMMA BytesWritten ==
  ASSUME NEW g \in Seq(Byte), NEW l \in Seq(Byte), NEW x \in Byte
  PROVE  LET b == g \o l
             c == g \o Append(l, x)
         IN  /\ Len(c) = Len(b) + 1
             /\ \A i \in 1 .. Len(b) : c[i] = b[i]
             /\ c[Len(b) + 1] = x
  OBVIOUS

LEMMA BytesType ==
  ASSUME TypeOK
  PROVE  /\ Bytes \in Seq(Byte) /\ Len(Bytes) \in Nat
         /\ \A i \in 1 .. Len(Bytes) : Bytes[i] \in Byte
  BY DEF TypeOK, Bytes

\* Frames remain frames when some bytes before them are taken away.
LEMMA FramesCut ==
  ASSUME NEW b \in Seq(Byte), NEW c, NEW n \in 0 .. Len(b), NEW k \in 0 .. n,
         \A i \in 1 .. n - k : c[i] = b[i + k],
         Frames(b, n)
  PROVE  Frames(c, n - k)
<1>1. \A i \in 1 .. n - k : i + k \in 1 .. n /\ c[i] = b[i + k]
  OBVIOUS
<1>2. \A i \in 1 .. n - k : c[i].at \in 1 .. FrameSize(c[i].msg) /\ Size[c[i].msg] <= MaxBody
  BY <1>1 DEF Frames
<1>3. ASSUME NEW i \in 1 .. n - k, NEW j \in 1 .. n - k, i <= j, SameFrame(c, i, j - i)
      PROVE  c[j].msg = c[i].msg /\ c[j].at = c[i].at + (j - i)
  <2>1. i + k \in 1 .. n /\ j + k \in 1 .. n /\ i + k <= j + k /\ (j + k) - (i + k) = j - i
    BY <1>3
  <2>2. c[i] = b[i + k] /\ c[j] = b[j + k]
    OBVIOUS
  <2>3. SameFrame(b, i + k, (j + k) - (i + k))
    BY <1>3, <2>1, <2>2 DEF SameFrame
  <2>4. b[j + k].msg = b[i + k].msg /\ b[j + k].at = b[i + k].at + ((j + k) - (i + k))
    BY <2>1, <2>3 DEF Frames
  <2> QED  BY <2>1, <2>2, <2>4
<1>4. ASSUME NEW i \in 1 .. n - k, i < n - k, Last(c, i) PROVE c[i + 1].at = 1
  <2>1. i + k \in 1 .. n /\ i + k < n /\ i + 1 \in 1 .. n - k /\ (i + 1) + k = (i + k) + 1
    BY <1>4
  <2>2. c[i] = b[i + k] /\ c[i + 1] = b[(i + k) + 1]
    BY <2>1
  <2>3. Last(b, i + k)
    BY <1>4, <2>2 DEF Last
  <2>4. b[(i + k) + 1].at = 1
    BY <2>1, <2>3 DEF Frames
  <2> QED  BY <2>2, <2>4
<1> QED  BY <1>2, <1>3, <1>4 DEF Frames

LEMMA FramesKept ==
  ASSUME NEW b, NEW c, NEW n \in Nat, \A i \in 1 .. n : c[i] = b[i], Frames(b, n)
  PROVE  Frames(c, n)
<1>1. \A i \in 1 .. n : i < n => i + 1 \in 1 .. n
  OBVIOUS
<1> QED  BY <1>1 DEF Frames, SameFrame, Last

LEMMA NoFrames == ASSUME NEW c PROVE Frames(c, 0)
  BY DEF Frames

\* A message that ends among bytes of which the first k are taken away ends
\* in one of these or in the rest.
LEMMA EndsCut ==
  ASSUME NEW b, NEW c, NEW n \in Nat, NEW k \in 0 .. n, NEW m,
         \A i \in 1 .. n - k : c[i] = b[i + k],
         EndsIn(b, n, m)
  PROVE  EndsIn(c, n - k, m) \/ EndsIn(b, k, m)
<1>1. PICK i \in 1 .. n : b[i].msg = m /\ b[i].at = FrameSize(m)
  BY DEF EndsIn
<1>2. CASE i <= k
  BY <1>1, <1>2 DEF EndsIn
<1>3. CASE i > k
  <2>1. i - k \in 1 .. n - k /\ c[i - k] = b[i]
    BY <1>3
  <2> QED  BY <1>1, <2>1 DEF EndsIn
<1> QED  BY <1>2, <1>3

\* The bytes of the frame that the first byte belongs to.
LEMMA FrameRun ==
  ASSUME NEW b \in Seq(Byte), NEW n \in 1 .. Len(b), Frames(b, n), NEW i \in 1 .. n,
         b[1].at + (i - 1) <= FrameSize(b[1].msg)
  PROVE  b[i].msg = b[1].msg /\ b[i].at = b[1].at + (i - 1)
  BY DEF Frames, SameFrame

\* No message ends before the last byte of that frame.
LEMMA NoEnd ==
  ASSUME NEW b \in Seq(Byte), NEW n \in 1 .. Len(b), Frames(b, n), NEW k \in 1 .. n,
         b[1].at + (k - 1) < FrameSize(b[1].msg), NEW m, EndsIn(b, k, m)
  PROVE  FALSE
<1>1. PICK i \in 1 .. k : b[i].msg = m /\ b[i].at = FrameSize(m)
  BY DEF EndsIn
<1>1a. 1 \in 1 .. Len(b)
  OBVIOUS
<1>1b. b[1] \in Byte
  BY <1>1a
<1>2. b[1].msg \in Message /\ b[1].at \in Nat
  BY <1>1b DEF Byte
<1>2a. FrameSize(b[1].msg) \in Nat
  BY <1>2, ChannelAssumption DEF FrameSize
<1>3. b[1].at \in Nat /\ i \in 1 .. n /\ b[1].at + (i - 1) < FrameSize(b[1].msg)
  BY <1>2, <1>2a
<1>4. b[1].at + (i - 1) <= FrameSize(b[1].msg)
  BY <1>2a, <1>3
<1>5. b[i].msg = b[1].msg /\ b[i].at = b[1].at + (i - 1)
  BY <1>3, <1>4, FrameRun
<1> QED  BY <1>1, <1>2a, <1>3, <1>5

\* The writer goes on after the last byte, whatever is taken at the front.
LEMMA WriterCut ==
  ASSUME NEW b, NEW c, NEW n \in Nat, NEW k \in 0 .. n,
         \A i \in 1 .. n - k : c[i] = b[i + k],
         ToWriter(b, n)
  PROVE  \A i \in 1 .. n - k :
           SameFrame(c, i, (n - k) + 1 - i) => Writes(c[i].msg, c[i].at + ((n - k) + 1 - i))
<1> SUFFICES ASSUME NEW i \in 1 .. n - k, SameFrame(c, i, (n - k) + 1 - i)
             PROVE  Writes(c[i].msg, c[i].at + ((n - k) + 1 - i))
  OBVIOUS
<1>1. i + k \in 1 .. n /\ c[i] = b[i + k] /\ (n - k) + 1 - i = n + 1 - (i + k)
  OBVIOUS
<1>2. SameFrame(b, i + k, n + 1 - (i + k))
  BY <1>1 DEF SameFrame
<1>3. Writes(b[i + k].msg, b[i + k].at + (n + 1 - (i + k)))
  BY <1>1, <1>2 DEF ToWriter
<1> QED  BY <1>1, <1>3

-----------------------------------------------------------------------------
(* Sending.                                                                 *)

LEMMA BeginSendSound ==
  ASSUME Base, NEW b, b = Bytes, NEW c, c = Bytes', NEW n \in Nat, SoundPart(b, n),
         NEW s \in Sender, NEW m \in Message, BeginSend(s, m)
  PROVE  SoundPart(c, n)'
<1>1. c = b
  BY DEF BeginSend, reader, Bytes
<1>2. n \in 0 .. Len(b) /\ Frames(b, n)
  BY DEF SoundPart
<1>3. FromReader(b, n)'
  BY DEF SoundPart, FromReader, BeginSend, reader
<1>4. HoldsDue(b, n)'
  BY DEF SoundPart, HoldsDue, Delivered, BeginSend, reader
<1>5. ASSUME ~trouble' PROVE NoTrouble(b, n)'
  <2>1. trouble' = (trouble \/ Size[m] > MaxBody)
    BY DEF BeginSend
  <2>2. ~trouble /\ ~(Size[m] > MaxBody)
    BY <1>5, <2>1, Zenon
  <2>3. Size[m] <= MaxBody /\ Size[m] \in Nat
    BY <2>2, ChannelAssumption
  <2>4. n = Len(b) /\ mode # "flush" /\ (mode = "body" => Size[want] <= MaxBody) /\ ToWriter(b, n)
    BY <2>2 DEF SoundPart, NoTrouble
  <2>5. \A x, y : ~Writes(x, y)
    BY DEF BeginSend, MutexFree, Writes
  <2>6. (\A i \in 1 .. n : ~SameFrame(b, i, n + 1 - i)) /\ ~(mode = "body" /\ n = 0)
    BY <2>4, <2>5 DEF ToWriter
  <2>7. \A t \in Sender : frame'[t] # None => frame'[t] = [msg |-> m, at |-> 1]
    BY DEF BeginSend, MutexFree, Base, TypeOK
  <2>8. FrameSize(m) \in Nat /\ FrameSize(m) >= 1
    BY ChannelAssumption DEF FrameSize
  <2>9. mode' = mode
    BY DEF BeginSend, reader
  <2>10. \A t \in Sender : frame'[t] # None =>
           frame'[t].at = 1 /\ Size[frame'[t].msg] <= MaxBody /\ frame'[t].at \in 1 .. FrameSize(frame'[t].msg)
    BY <2>3, <2>7, <2>8
  <2>11. ToWriter(b, n)'
    BY <2>6, <2>9, <2>10 DEF ToWriter
  <2> QED  BY <2>4, <2>11 DEF NoTrouble, BeginSend, reader
<1> QED  BY <1>1, <1>2, <1>3, <1>4, <1>5 DEF SoundPart

LEMMA ShortWriteSound ==
  ASSUME Base, NEW b, b = Bytes, NEW c, c = Bytes', NEW n \in Nat, SoundPart(b, n),
         NEW s \in Sender, ShortWrite(s)
  PROVE  SoundPart(c, n)'
<1>1. c = b /\ trouble' = TRUE
  BY DEF ShortWrite, reader, Bytes
<1>2. FromReader(b, n)' /\ HoldsDue(b, n)'
  BY <1>1 DEF SoundPart, FromReader, HoldsDue, Delivered, ShortWrite, reader
<1> QED  BY <1>1, <1>2 DEF SoundPart

\* A byte that adds nothing to the sound part.
LEMMA BadByteSound ==
  ASSUME Base, NEW b, b = Bytes, NEW c, c = Bytes', NEW n \in Nat, SoundPart(b, n), NEW s \in Sender,
         (Write(s) /\ trouble) \/ Fault(s)
  PROVE  SoundPart(c, n)'
<1>1. trouble' = TRUE /\ due' = due /\ UNCHANGED reader
  <2>1. CASE Write(s) /\ trouble
    BY <2>1 DEF Write, Written
  <2>2. CASE Fault(s)
    BY <2>2 DEF Fault, Written
  <2> QED  BY <2>1, <2>2
<1>2. got \in Seq(Byte) /\ line \in Seq(Byte) /\ frame[s] \in Byte /\ got' = got
  BY <1>1 DEF Base, TypeOK, Write, Fault, reader
<1>3. [msg |-> frame[s].msg, at |-> 0] \in Byte
  BY <1>2 DEF Byte
<1>4. line' = line \/ line' = Append(line, frame[s]) \/ line' = Append(line, [msg |-> frame[s].msg, at |-> 0])
  BY DEF Write, Fault
<1>5. line' = line \/ \E x \in Byte : line' = Append(line, x)
  BY <1>2, <1>3, <1>4
<1>6. b \in Seq(Byte) /\ Len(b) \in Nat
  BY BytesType DEF Base
<1>7. Len(c) \in Nat /\ Len(c) >= Len(b) /\ \A i \in 1 .. Len(b) : c[i] = b[i]
  <2>1. CASE line' = line
    BY <1>2, <1>6, <2>1 DEF Bytes
  <2>2. CASE \E x \in Byte : line' = Append(line, x)
    <3>1. PICK x \in Byte : line' = Append(line, x)
      BY <2>2
    <3>2. c = got \o Append(line, x) /\ b = got \o line
      BY <1>2, <3>1 DEF Bytes
    <3> QED  BY <1>2, <1>6, <3>2, BytesWritten
  <2> QED  BY <1>5, <2>1, <2>2
<1>8. n \in 0 .. Len(b) /\ Frames(b, n) /\ FromReader(b, n) /\ HoldsDue(b, n)
  BY DEF SoundPart
<1>9. \A i \in 1 .. n : c[i] = b[i]
  BY <1>7, <1>8
<1>10. Frames(c, n)
  BY <1>8, <1>9, FramesKept
<1>11. \A m : EndsIn(b, n, m) => EndsIn(c, n, m)
  BY <1>9 DEF EndsIn
<1>12. n > 0 => c[1] = b[1]
  BY <1>7, <1>8
<1>13. FromReader(c, n)'
  BY <1>1, <1>8, <1>12 DEF FromReader, reader
<1>14. HoldsDue(c, n)'
  BY <1>1, <1>8, <1>11 DEF HoldsDue, Delivered, reader
<1>15. n \in 0 .. Len(c)
  BY <1>7, <1>8
<1> QED  BY <1>1, <1>10, <1>13, <1>14, <1>15 DEF SoundPart

\* A good byte written while there is no trouble makes the sound part longer.
LEMMA WriteSound ==
  ASSUME Base, NEW b, b = Bytes, NEW c, c = Bytes', NEW n \in Nat, SoundPart(b, n), NEW s \in Sender,
         Write(s), ~trouble
  PROVE  SoundPart(c, n + 1)'
<1> DEFINE x == frame[s]
           k == n + 1
<1>1. n = Len(b) /\ mode # "flush" /\ (mode = "body" => Size[want] <= MaxBody) /\ ToWriter(b, n)
  BY DEF SoundPart, NoTrouble
<1>2. Frames(b, n) /\ FromReader(b, n) /\ HoldsDue(b, n)
  BY DEF SoundPart
<1>3. UNCHANGED reader /\ got' = got /\ line' = Append(line, x) /\ x # None
  BY DEF Write, Written, reader
<1>4. got \in Seq(Byte) /\ line \in Seq(Byte) /\ x \in Byte
  BY <1>3 DEF Base, TypeOK
<1>5. b \in Seq(Byte) /\ Len(b) \in Nat
  BY BytesType DEF Base
<1>6. Len(c) = k /\ (\A i \in 1 .. n : c[i] = b[i]) /\ c[k] = x
  <2>1. b = got \o line /\ c = got \o Append(line, x)
    BY <1>3 DEF Bytes
  <2> QED  BY <1>1, <1>4, <2>1, BytesWritten
<1>7. x.msg \in Message /\ x.at \in Nat /\ FrameSize(x.msg) \in Nat
  BY <1>4, ChannelAssumption DEF Byte, FrameSize
<1>8. /\ x.at \in 1 .. FrameSize(x.msg)
      /\ Size[x.msg] <= MaxBody
      /\ n > 0 /\ Last(b, n) => x.at = 1
      /\ n = 0 /\ mode \in {"header", "handling"} => x.at = 1
  BY <1>1, <1>3 DEF ToWriter
<1>9. \A m, q : Writes(m, q) => x.msg = m /\ x.at = q
  BY <1>3 DEF Writes, Base, OneWriter
<1>10. \A i \in 1 .. n : SameFrame(b, i, k - i) => x.msg = b[i].msg /\ x.at = b[i].at + (k - i)
  BY <1>1, <1>9 DEF ToWriter
<1>11. \A i \in 1 .. n : b[i] \in Byte
  BY <1>1, <1>5
<1>12. \A i \in 1 .. n : b[i].at \in Nat /\ FrameSize(b[i].msg) \in Nat
  BY <1>11, ChannelAssumption DEF Byte, FrameSize
<1>13. Frames(c, k)
  <2>1. \A i \in 1 .. k : c[i].at \in 1 .. FrameSize(c[i].msg) /\ Size[c[i].msg] <= MaxBody
    <3> TAKE i \in 1 .. k
    <3>1. CASE i = k
      BY <1>6, <1>8, <3>1
    <3>2. CASE i \in 1 .. n
      BY <1>2, <1>6, <3>2 DEF Frames
    <3> QED  BY <3>1, <3>2
  <2>2. ASSUME NEW i \in 1 .. k, NEW j \in 1 .. k, i <= j, SameFrame(c, i, j - i)
        PROVE  c[j].msg = c[i].msg /\ c[j].at = c[i].at + (j - i)
    <3>1. CASE j \in 1 .. n
      <4>1. i \in 1 .. n /\ c[i] = b[i] /\ c[j] = b[j]
        BY <1>6, <2>2, <3>1
      <4>2. SameFrame(b, i, j - i)
        BY <2>2, <4>1 DEF SameFrame
      <4> QED  BY <1>2, <2>2, <3>1, <4>1, <4>2 DEF Frames
    <3>2. CASE j = k /\ i \in 1 .. n
      <4>1. c[i] = b[i] /\ c[j] = x
        BY <1>6, <3>2
      <4>2. SameFrame(b, i, k - i)
        BY <2>2, <3>2, <4>1 DEF SameFrame
      <4> QED  BY <1>10, <3>2, <4>1, <4>2
    <3>3. CASE j = k /\ i = k
      BY <1>6, <1>7, <3>3
    <3> QED  BY <2>2, <3>1, <3>2, <3>3
  <2>3. ASSUME NEW i \in 1 .. k, i < k, Last(c, i) PROVE c[i + 1].at = 1
    <3>1. i \in 1 .. n /\ c[i] = b[i]
      BY <1>6, <2>3
    <3>2. Last(b, i)
      BY <2>3, <3>1 DEF Last
    <3>3. CASE i < n
      <4>1. i + 1 \in 1 .. n /\ c[i + 1] = b[i + 1]
        BY <1>6, <3>1, <3>3
      <4> QED  BY <1>2, <3>1, <3>2, <3>3, <4>1 DEF Frames
    <3>4. CASE i = n
      BY <1>6, <1>8, <3>1, <3>2, <3>4
    <3> QED  BY <3>1, <3>3, <3>4
  <2> QED  BY <2>1, <2>2, <2>3 DEF Frames
<1>14. FromReader(c, k)'
  <2>1. mode' = mode /\ want' = want
    BY <1>3 DEF reader
  <2>2. CASE n = 0
    <3>1. c[1] = x
      BY <1>6, <2>2
    <3>2. mode = "body" => x.msg = want /\ x.at = Header + 1
      BY <1>1, <1>9, <2>2 DEF ToWriter
    <3> QED  BY <1>1, <1>8, <2>1, <2>2, <3>1, <3>2 DEF FromReader
  <2>3. CASE n > 0
    <3>1. c[1] = b[1]
      BY <1>6, <2>3
    <3> QED  BY <1>1, <1>2, <2>1, <2>3, <3>1 DEF FromReader
  <2> QED  BY <2>2, <2>3
<1>15. HoldsDue(c, k)'
  <2>1. Delivered' = Delivered /\ mode' = mode /\ want' = want
    BY <1>3 DEF reader, Delivered
  <2>2. ASSUME NEW m, EndsIn(b, n, m) PROVE EndsIn(c, k, m)
    <3>1. PICK i \in 1 .. n : b[i].msg = m /\ b[i].at = FrameSize(m)
      BY <2>2 DEF EndsIn
    <3>2. i \in 1 .. k /\ c[i] = b[i]
      BY <1>6
    <3> QED  BY <3>1, <3>2 DEF EndsIn
  <2>3. due' = due \/ (x.at = FrameSize(x.msg) /\ due' = due \cup {x.msg})
    BY DEF Write, Written
  <2>4. x.at = FrameSize(x.msg) => EndsIn(c, k, x.msg)
    <3>1. k \in 1 .. k
      OBVIOUS
    <3> QED  BY <1>6, <3>1 DEF EndsIn
  <2> QED  BY <1>2, <2>1, <2>2, <2>3, <2>4 DEF HoldsDue
<1>16. NoTrouble(c, k)'
  <2>1. mode' = mode /\ want' = want
    BY <1>3 DEF reader
  <2>2. frame' = [frame EXCEPT ![s] = IF x.at = FrameSize(x.msg) THEN None ELSE [msg |-> x.msg, at |-> x.at + 1]]
    BY DEF Write, Written
  <2>3. \A t \in Sender : t # s => frame'[t] = None
    BY <1>3, <2>2 DEF Base, OneWriter, TypeOK
  <2>4. frame'[s] = IF x.at = FrameSize(x.msg) THEN None ELSE [msg |-> x.msg, at |-> x.at + 1]
    BY <2>2 DEF Base, TypeOK
  <2>5. ASSUME x.at = FrameSize(x.msg) PROVE ToWriter(c, k)'
    <3>1. \A t \in Sender : frame'[t] = None
      BY <2>3, <2>4, <2>5
    <3>2. ASSUME NEW i \in 1 .. k, SameFrame(c, i, k + 1 - i) PROVE FALSE
      <4>1. CASE i = k
        BY <1>6, <1>7, <2>5, <3>2, <4>1 DEF SameFrame
      <4>2. CASE i \in 1 .. n
        <5>1. c[i] = b[i]
          BY <1>6, <4>2
        <5>2. SameFrame(b, i, k - i)
          BY <1>12, <3>2, <4>2, <5>1 DEF SameFrame
        <5>3. x.msg = b[i].msg /\ x.at = b[i].at + (k - i)
          BY <1>10, <4>2, <5>2
        <5> QED  BY <1>12, <2>5, <3>2, <4>2, <5>1, <5>3 DEF SameFrame
      <4> QED  BY <4>1, <4>2
    <3> QED  BY <3>1, <3>2 DEF ToWriter
  <2>6. ASSUME x.at # FrameSize(x.msg) PROVE ToWriter(c, k)'
    <3>1. frame'[s] = [msg |-> x.msg, at |-> x.at + 1]
      BY <2>4, <2>6
    <3>2. frame'[s] \in Byte
      BY <1>7, <3>1 DEF Byte
    <3>3. frame'[s] # None
      BY <3>2, ChannelAssumption
    <3>4. frame'[s].msg = x.msg /\ frame'[s].at = x.at + 1
      BY <3>1
    <3>5. ASSUME NEW i \in 1 .. k, SameFrame(c, i, k + 1 - i)
          PROVE  Writes(c[i].msg, c[i].at + (k + 1 - i))'
      <4>1. CASE i = k
        <5>1. c[i].msg = x.msg /\ c[i].at + (k + 1 - i) = x.at + 1
          BY <1>6, <1>7, <4>1
        <5> QED  BY <3>3, <3>4, <5>1 DEF Writes
      <4>2. CASE i \in 1 .. n
        <5>1. c[i] = b[i]
          BY <1>6, <4>2
        <5>2. SameFrame(b, i, k - i)
          BY <1>12, <3>5, <4>2, <5>1 DEF SameFrame
        <5>3. x.msg = b[i].msg /\ x.at = b[i].at + (k - i)
          BY <1>10, <4>2, <5>2
        <5>4. c[i].msg = x.msg /\ c[i].at + (k + 1 - i) = x.at + 1
          BY <1>12, <4>2, <5>1, <5>3
        <5> QED  BY <3>3, <3>4, <5>4 DEF Writes
      <4> QED  BY <4>1, <4>2
    <3>6. x.at + 1 \in 1 .. FrameSize(x.msg)
      BY <1>7, <1>8, <2>6
    <3>7. ~Last(c, k)
      BY <1>6, <2>6 DEF Last
    <3>8. ASSUME NEW t \in Sender, frame'[t] # None
          PROVE  frame'[t].at \in 1 .. FrameSize(frame'[t].msg) /\ Size[frame'[t].msg] <= MaxBody
      BY <1>8, <2>3, <3>1, <3>6, <3>8
    <3> QED  BY <1>1, <3>5, <3>7, <3>8 DEF ToWriter
  <2> QED  BY <1>1, <1>6, <2>1, <2>5, <2>6 DEF NoTrouble
<1>17. k \in 0 .. Len(c)
  BY <1>6, <1>1
<1> QED  BY <1>13, <1>14, <1>15, <1>16, <1>17 DEF SoundPart

-----------------------------------------------------------------------------
(* Receiving.                                                               *)

LEMMA ReadSomeSound ==
  ASSUME Base, NEW b, b = Bytes, NEW c, c = Bytes', NEW n \in Nat, SoundPart(b, n), ReadSome
  PROVE  SoundPart(c, n)'
<1>1. Len(c) = Len(b) /\ \A i \in 1 .. Len(b) : c[i] = b[i]
  <2>1. b = got \o line /\ c = Append(got, Head(line)) \o Tail(line) /\ line # <<>>
    BY DEF Bytes, ReadSome, Receive
  <2>2. got \in Seq(Byte) /\ line \in Seq(Byte)
    BY DEF Base, TypeOK
  <2> QED  BY <2>1, <2>2, BytesRead
<1>2. UNCHANGED <<mode, want, frame, delivered, due, trouble>>
  BY DEF ReadSome, Receive, history
<1>3. b \in Seq(Byte) /\ Len(b) \in Nat
  BY BytesType DEF Base
<1>4. n \in 0 .. Len(b) /\ Frames(b, n) /\ FromReader(b, n) /\ HoldsDue(b, n) /\ (~trouble => NoTrouble(b, n))
  BY DEF SoundPart
<1>5. \A i \in 1 .. n : c[i] = b[i]
  BY <1>1, <1>4
<1>6. Frames(c, n)
  BY <1>5, <1>4, FramesKept
<1>7. n > 0 => c[1] = b[1] /\ c[n] = b[n]
  BY <1>5
<1>8. FromReader(c, n)'
  BY <1>2, <1>4, <1>7 DEF FromReader
<1>9. HoldsDue(c, n)'
  BY <1>2, <1>4, <1>5 DEF HoldsDue, Delivered, EndsIn
<1>10. ASSUME ~trouble PROVE NoTrouble(c, n)'
  <2>1. NoTrouble(b, n)
    BY <1>4, <1>10
  <2>2. ToWriter(c, n)'
    BY <1>2, <1>5, <1>7, <2>1 DEF NoTrouble, ToWriter, SameFrame, Last, Writes
  <2> QED  BY <1>1, <1>2, <2>1, <2>2 DEF NoTrouble
<1> QED  BY <1>1, <1>2, <1>4, <1>6, <1>8, <1>9, <1>10 DEF SoundPart

\* The byte that completes a read takes k bytes away.
LEMMA ReadTakes ==
  ASSUME Base, Receive, got' = <<>>, NEW b, b = Bytes, NEW c, c = Bytes', NEW k, k = Len(got) + 1
  PROVE  /\ b \in Seq(Byte) /\ Len(b) \in Nat /\ k \in 1 .. Len(b) /\ Len(c) = Len(b) - k
         /\ \A i \in 1 .. Len(c) : c[i] = b[i + k]
         /\ \A i \in 1 .. k : Append(got, Head(line))[i] = b[i]
         /\ Len(Append(got, Head(line))) = k
         /\ b[k] = Head(line)
<1>1. got \in Seq(Byte) /\ line \in Seq(Byte) /\ line # <<>>
  BY DEF Base, TypeOK, Receive
<1>2. b = got \o line /\ c = <<>> \o Tail(line)
  BY DEF Bytes, Receive
<1>3. b \in Seq(Byte) /\ Len(b) \in Nat
  BY BytesType DEF Base
<1>4. Len(got) \in Nat /\ Head(line) \in Byte
  BY <1>1
<1>5. Len(Append(got, Head(line))) = k
  BY <1>1, <1>4
<1> QED  BY <1>1, <1>2, <1>3, <1>4, <1>5, BytesTaken

\* A read that takes the whole sound part, in which no message ends.
LEMMA NothingLeft ==
  ASSUME NEW b, NEW c, Len(c) \in Nat, NEW n \in Nat, SoundPart(b, n),
         trouble, trouble' = trouble, due' = due, Delivered' = Delivered, mode # "handling",
         \A m : ~EndsIn(b, n, m)
  PROVE  SoundPart(c, 0)'
<1>1. \A m \in due : m \in Delivered
  BY DEF SoundPart, HoldsDue
<1>2. HoldsDue(c, 0)'
  BY <1>1 DEF HoldsDue
<1>3. Frames(c, 0)
  BY NoFrames
<1>4. FromReader(c, 0)'
  BY DEF FromReader
<1> QED  BY <1>2, <1>3, <1>4 DEF SoundPart

\* A read that ends in the sound part: what it takes is made up of the k
\* bytes of one header or of one body.
LEMMA SoundRead ==
  ASSUME NEW b \in Seq(Byte), NEW c, NEW n \in Nat, SoundPart(b, n), NEW k \in 1 .. n,
         Len(c) = Len(b) - k,
         \A i \in 1 .. Len(c) : c[i] = b[i + k],
         trouble' = trouble, due' = due, Delivered' = Delivered, frame' = frame,
         mode # "handling", NEW w \in Message, want' = w, Size[w] <= MaxBody,
         b[k].msg = w,
         \A m : EndsIn(b, k, m) => m = w /\ Last(b, k),
         \/ mode' = "body" /\ b[k].at = Header /\ Size[w] > 0
         \/ mode' = "handling" /\ Last(b, k)
  PROVE  SoundPart(c, n - k)'
<1>1. n \in 0 .. Len(b) /\ Frames(b, n) /\ HoldsDue(b, n) /\ Len(b) \in Nat /\ k \in 0 .. n
  BY DEF SoundPart
<1>2. \A i \in 1 .. n - k : c[i] = b[i + k]
  BY <1>1
<1>3. Frames(c, n - k)
  BY <1>1, <1>2, FramesCut
<1>4. \A m : EndsIn(b, n, m) => EndsIn(c, n - k, m) \/ EndsIn(b, k, m)
  BY <1>1, <1>2, EndsCut
<1>5. Size[w] \in Nat /\ Header \in Nat /\ FrameSize(w) = Header + Size[w]
  BY ChannelAssumption DEF FrameSize
<1>6. HoldsDue(c, n - k)'
  <2>1. ASSUME NEW m, EndsIn(b, k, m) PROVE mode' = "handling" /\ want' = m
    <3>1. m = w /\ Last(b, k)
      BY <2>1
    <3>2. b[k].at = Header + Size[w]
      BY <1>5, <3>1 DEF Last
    <3> QED  BY <1>5, <3>1, <3>2
  <2> QED  BY <1>1, <1>4, <2>1 DEF HoldsDue
<1>7. ASSUME mode' = "handling", n - k > 0 PROVE c[1].at = 1
  <2>1. k < n /\ k \in 1 .. n /\ Last(b, k)
    BY <1>5, <1>7 DEF Last
  <2>2. b[k + 1].at = 1
    BY <1>1, <2>1 DEF Frames
  <2> QED  BY <1>2, <1>7, <2>2
<1>8. ASSUME mode' = "body" PROVE SameFrame(b, k, 1)
  BY <1>5, <1>8 DEF SameFrame
<1>9. ASSUME mode' = "body", n - k > 0 PROVE c[1].msg = w /\ c[1].at = Header + 1
  <2>0. k \in Nat /\ k < n
    BY <1>9
  <2>1. k + 1 \in 1 .. n /\ k <= k + 1 /\ (k + 1) - k = 1
    BY <2>0
  <2>2. b[k + 1].msg = b[k].msg /\ b[k + 1].at = b[k].at + 1
    BY <1>1, <1>8, <1>9, <2>1 DEF Frames
  <2> QED  BY <1>2, <1>9, <2>2
<1>10. FromReader(c, n - k)'
  BY <1>7, <1>9 DEF FromReader
<1>11. ASSUME ~trouble PROVE NoTrouble(c, n - k)'
  <2>1. NoTrouble(b, n)
    BY <1>11 DEF SoundPart
  <2>2. n = Len(b) /\ ToWriter(b, n)
    BY <2>1 DEF NoTrouble
  <2>3. \A x, y : Writes(x, y)' <=> Writes(x, y)
    BY DEF Writes
  <2>4. \A i \in 1 .. n - k : SameFrame(c, i, (n - k) + 1 - i) => Writes(c[i].msg, c[i].at + ((n - k) + 1 - i))
    BY <1>1, <1>2, <2>2, WriterCut
  <2>5. ASSUME mode' = "body", n - k = 0 PROVE Writes(w, Header + 1)
    <3>1. k = n /\ n + 1 - k = 1
      BY <1>1, <2>5
    <3>2. SameFrame(b, k, n + 1 - k)
      BY <1>8, <2>5, <3>1
    <3>3. Writes(b[k].msg, b[k].at + (n + 1 - k))
      BY <2>2, <3>2 DEF ToWriter
    <3> QED  BY <2>5, <3>1, <3>3
  <2>6. ASSUME NEW s \in Sender, frame[s] # None
        PROVE  /\ frame[s].at \in 1 .. FrameSize(frame[s].msg)
               /\ Size[frame[s].msg] <= MaxBody
               /\ n - k > 0 /\ Last(c, n - k) => frame[s].at = 1
               /\ n - k = 0 /\ mode' \in {"header", "handling"} => frame[s].at = 1
    <3>1. n > 0 /\ Last(b, n) => frame[s].at = 1
      BY <2>2, <2>6 DEF ToWriter
    <3>2. n - k > 0 => c[n - k] = b[n]
      BY <1>1, <1>2
    <3>3. n - k = 0 => n = k
      BY <1>1
    <3> QED  BY <2>2, <2>6, <3>1, <3>2, <3>3 DEF ToWriter, Last
  <2>7. ToWriter(c, n - k)'
    BY <2>3, <2>4, <2>5, <2>6 DEF ToWriter
  <2>8. n - k = Len(c)
    BY <2>2
  <2> QED  BY <2>7, <2>8 DEF NoTrouble
<1>12. n - k \in 0 .. Len(c)
  BY <1>1
<1> QED  BY <1>3, <1>6, <1>10, <1>11, <1>12 DEF SoundPart

LEMMA ReadHeaderSound ==
  ASSUME Base, NEW b, b = Bytes, NEW c, c = Bytes', NEW n \in Nat, SoundPart(b, n), ReadHeader
  PROVE  \E j \in Nat : SoundPart(c, j)'
<1> DEFINE k == Header
           h == Append(got, Head(line))
<1>1. mode = "header" /\ Len(got) + 1 = k /\ Receive /\ got' = <<>>
  BY DEF ReadHeader, ReaderGoesTo
<1>2. /\ b \in Seq(Byte) /\ Len(b) \in Nat /\ k \in 1 .. Len(b) /\ Len(c) = Len(b) - k
      /\ \A i \in 1 .. Len(c) : c[i] = b[i + k]
      /\ \A i \in 1 .. k : h[i] = b[i]
      /\ Len(h) = k
      /\ b[k] = Head(line)
  BY <1>1, ReadTakes
<1>3. trouble' = trouble /\ due' = due /\ Delivered' = Delivered /\ frame' = frame
  BY <1>1 DEF Receive, history, Delivered
<1>4. n \in 0 .. Len(b) /\ Frames(b, n) /\ (n > 0 => b[1].at = 1) /\ (~trouble => n = Len(b))
  BY <1>1 DEF SoundPart, FromReader, NoTrouble
<1>5. /\ b[1] \in Byte /\ b[1].msg \in Message /\ k \in Nat
      /\ FrameSize(b[1].msg) \in Nat /\ FrameSize(b[1].msg) >= k
  <2>1. b[1] \in Byte
    BY <1>2
  <2> QED  BY <2>1, ChannelAssumption DEF Byte, FrameSize
<1>6. CASE n < k
  <2>1. trouble
    BY <1>2, <1>4, <1>6
  <2>2. ASSUME NEW m, EndsIn(b, n, m) PROVE FALSE
    <3>1. n \in 1 .. Len(b) /\ n \in 1 .. n
      BY <1>4, <2>2 DEF EndsIn
    <3>2. b[1].at = 1 /\ 1 + (n - 1) < FrameSize(b[1].msg)
      BY <1>4, <1>5, <1>6, <3>1
    <3> QED  BY <1>2, <1>4, <2>2, <3>1, <3>2, NoEnd
  <2>3. Len(c) \in Nat
    BY <1>2
  <2> QED  BY <1>1, <1>3, <2>1, <2>2, <2>3, NothingLeft
<1>7. CASE n >= k
  <2> DEFINE w == b[1].msg
  <2>1. n > 0 /\ n \in 1 .. Len(b) /\ k \in 1 .. n
    BY <1>2, <1>4, <1>7
  <2>2. ASSUME NEW i \in 1 .. k PROVE b[i].msg = w /\ b[i].at = i
    <3>1. i \in 1 .. n /\ b[1].at = 1 /\ 1 + (i - 1) <= FrameSize(b[1].msg) /\ 1 + (i - 1) = i
      BY <1>4, <1>5, <2>1
    <3> QED  BY <1>2, <1>4, <2>1, <3>1, FrameRun
  <2>3. b[k].msg = w /\ b[k].at = k /\ Head(line).msg = w
    BY <1>2, <2>2
  <2>4. w \in Message /\ Size[w] \in Nat /\ Size[w] <= MaxBody /\ FrameSize(w) = k + Size[w]
    BY <1>4, <1>5, <2>1, ChannelAssumption DEF Frames, FrameSize
  <2>5. Whole(h, w, 1)
    <3> SUFFICES ASSUME NEW i \in 1 .. Len(h) PROVE h[i] = [msg |-> w, at |-> 1 + i - 1]
      BY DEF Whole
    <3>1. i \in 1 .. k /\ h[i] = b[i] /\ b[i] \in Byte
      BY <1>2
    <3>2. b[i].msg = w /\ b[i].at = 1 + i - 1
      BY <2>2, <3>1
    <3> QED  BY <3>1, <3>2 DEF Byte
  <2>6. BodyRead(w) = Size[w]
    BY <2>4, ChannelAssumption DEF BodyRead
  <2>7. IF Size[w] > 0 THEN ReaderGoesTo("body", w) ELSE ReaderGoesTo("handling", w)
    BY <2>3, <2>4, <2>5, <2>6 DEF ReadHeader
  <2>7a. ~(Size[w] > 0) => Last(b, k)
    BY <2>3, <2>4, <1>5 DEF Last
  <2>8. /\ want' = w
        /\ \/ mode' = "body" /\ b[k].at = Header /\ Size[w] > 0
           \/ mode' = "handling" /\ Last(b, k)
    <3>1. CASE Size[w] > 0
      <4>1. ReaderGoesTo("body", w)
        BY <2>7, <3>1
      <4> QED  BY <2>3, <3>1, <4>1 DEF ReaderGoesTo
    <3>2. CASE ~(Size[w] > 0)
      <4>1. ReaderGoesTo("handling", w)
        BY <2>7, <3>2
      <4> QED  BY <2>7a, <3>2, <4>1 DEF ReaderGoesTo
    <3> QED  BY <3>1, <3>2
  <2>9. ASSUME NEW m, EndsIn(b, k, m) PROVE m = w /\ Last(b, k)
    <3>1. PICK i \in 1 .. k : b[i].msg = m /\ b[i].at = FrameSize(m)
      BY <2>9 DEF EndsIn
    <3>2. m = w /\ i = FrameSize(w)
      BY <2>2, <3>1
    <3>3. i = k
      BY <1>5, <2>4, <3>2
    <3> QED  BY <3>1, <3>2, <3>3 DEF Last
  <2>10. SoundPart(c, n - k)'
    <3> HIDE DEF w, k, h
    <3>1. mode # "handling" /\ Header = k
      BY <1>1 DEF k
    <3> QED  BY <3>1, <1>2, <1>3, <2>1, <2>3, <2>4, <2>8, <2>9, SoundRead
  <2> QED  BY <2>1, <2>10
<1> QED  BY <1>2, <1>6, <1>7

LEMMA ReadBodySound ==
  ASSUME Base, NEW b, b = Bytes, NEW c, c = Bytes', NEW n \in Nat, SoundPart(b, n), ReadBody
  PROVE  \E j \in Nat : SoundPart(c, j)'
<1> DEFINE k == BodyRead(want)
           w == want
           h == Append(got, Head(line))
<1>1. mode = "body" /\ Len(got) + 1 = k /\ Receive /\ got' = <<>> /\ w \in Message
  BY DEF ReadBody, ReaderGoesTo, Base, ReaderAt
<1>2. /\ b \in Seq(Byte) /\ Len(b) \in Nat /\ k \in 1 .. Len(b) /\ Len(c) = Len(b) - k
      /\ \A i \in 1 .. Len(c) : c[i] = b[i + k]
      /\ \A i \in 1 .. k : h[i] = b[i]
      /\ Len(h) = k
      /\ b[k] = Head(line)
  BY <1>1, ReadTakes
<1>3. trouble' = trouble /\ due' = due /\ Delivered' = Delivered /\ frame' = frame
  BY <1>1 DEF Receive, history, Delivered
<1>4. /\ n \in 0 .. Len(b) /\ Frames(b, n)
      /\ (n > 0 => b[1].msg = w /\ b[1].at = Header + 1)
      /\ (~trouble => n = Len(b))
  BY <1>1 DEF SoundPart, FromReader, NoTrouble
<1>5. Size[w] \in Nat /\ MaxBody \in Nat /\ Header \in Nat /\ FrameSize(w) = Header + Size[w]
  BY <1>1, ChannelAssumption DEF FrameSize
<1>6. ASSUME n > 0 PROVE Size[w] <= MaxBody /\ k = Size[w]
  <2>1. 1 \in 1 .. n
    BY <1>4, <1>6
  <2>2. Size[w] <= MaxBody
    BY <1>4, <1>6, <2>1 DEF Frames
  <2> QED  BY <1>5, <2>2 DEF BodyRead
<1>7. CASE n < k
  <2>1. trouble
    BY <1>2, <1>4, <1>7
  <2>2. ASSUME NEW m, EndsIn(b, n, m) PROVE FALSE
    <3>1. n \in 1 .. Len(b) /\ n \in 1 .. n
      BY <1>4, <2>2 DEF EndsIn
    <3>2. b[1].msg = w /\ b[1].at = Header + 1 /\ n < Size[w]
      BY <1>4, <1>6, <1>7, <3>1
    <3>3. b[1].at + (n - 1) < FrameSize(b[1].msg)
      BY <1>5, <3>2
    <3> QED  BY <1>2, <1>4, <2>2, <3>1, <3>3, NoEnd
  <2>3. Len(c) \in Nat
    BY <1>2
  <2> QED  BY <1>1, <1>3, <2>1, <2>2, <2>3, NothingLeft
<1>8. CASE n >= k
  <2>1. n > 0 /\ n \in 1 .. Len(b) /\ k \in 1 .. n /\ k = Size[w] /\ Size[w] <= MaxBody
    BY <1>2, <1>4, <1>6, <1>8
  <2>2. ASSUME NEW i \in 1 .. k PROVE b[i].msg = w /\ b[i].at = Header + i
    <3>1. i \in 1 .. n /\ b[1].msg = w /\ b[1].at = Header + 1
      BY <1>4, <2>1
    <3>2. b[1].at + (i - 1) <= FrameSize(b[1].msg) /\ b[1].at + (i - 1) = Header + i
      BY <1>5, <2>1, <3>1
    <3> QED  BY <1>2, <1>4, <2>1, <3>1, <3>2, FrameRun
  <2>3. b[k].msg = w /\ Last(b, k)
    <3>1. b[k].msg = w /\ b[k].at = Header + k
      BY <1>2, <2>2
    <3> QED  BY <1>5, <2>1, <3>1 DEF Last
  <2>4. Whole(h, w, Header + 1)
    <3> SUFFICES ASSUME NEW i \in 1 .. Len(h) PROVE h[i] = [msg |-> w, at |-> (Header + 1) + i - 1]
      BY DEF Whole
    <3>1. i \in 1 .. k /\ h[i] = b[i] /\ b[i] \in Byte
      BY <1>2
    <3>2. b[i].msg = w /\ b[i].at = (Header + 1) + i - 1
      BY <1>5, <2>2, <3>1
    <3> QED  BY <3>1, <3>2 DEF Byte
  <2>5. ReaderGoesTo("handling", w)
    BY <2>1, <2>4 DEF ReadBody
  <2>6. ASSUME NEW m, EndsIn(b, k, m) PROVE m = w /\ Last(b, k)
    BY <2>2, <2>3, <2>6 DEF EndsIn
  <2>7. PICK v \in Message : v = w
    BY <1>1
  <2>8. /\ mode # "handling" /\ mode' = "handling" /\ want' = v
        /\ Size[v] <= MaxBody /\ b[k].msg = v /\ Last(b, k)
    BY <1>1, <2>1, <2>3, <2>5, <2>7 DEF ReaderGoesTo
  <2>9. \A m : EndsIn(b, k, m) => m = v /\ Last(b, k)
    BY <2>6, <2>7
  <2>10. PICK kk \in 1 .. n : kk = k
    BY <2>1
  <2>11. SoundPart(c, n - kk)'
    <3> HIDE DEF w, k, h
    <3> QED  BY <1>2, <1>3, <2>8, <2>9, <2>10, SoundRead
  <2> QED  BY <2>1, <2>10, <2>11
<1> QED  BY <1>2, <1>4, <1>7, <1>8

LEMMA HandleSound ==
  ASSUME Base, NEW b, b = Bytes, NEW c, c = Bytes', NEW n \in Nat, SoundPart(b, n), Handle
  PROVE  SoundPart(c, n)'
<1>1. mode = "handling" /\ mode' = "header" /\ want \in Message
  BY DEF Handle, ReaderGoesTo, Base, ReaderAt
<1>2. c = b
  BY <1>1 DEF Handle, ReaderGoesTo, Bytes, Base, ReaderAt
<1>3. Delivered' = Delivered \cup {want}
  <2>1. delivered \in Seq(Message) /\ delivered' = Append(delivered, want)
    BY DEF Base, TypeOK, Handle
  <2> QED  BY <1>1, <2>1 DEF Delivered
<1>4. UNCHANGED <<frame, due, trouble>>
  BY DEF Handle, history
<1>5. FromReader(b, n)'
  BY <1>1 DEF SoundPart, FromReader
<1>6. HoldsDue(b, n)'
  BY <1>1, <1>3, <1>4 DEF SoundPart, HoldsDue
<1>7. ~trouble => NoTrouble(b, n)'
  BY <1>1, <1>4 DEF SoundPart, NoTrouble, ToWriter, Writes
<1> QED  BY <1>2, <1>4, <1>5, <1>6, <1>7 DEF SoundPart

LEMMA FlushSound ==
  ASSUME Base, NEW b, b = Bytes, NEW c, c = Bytes', NEW n \in Nat, SoundPart(b, n), Flush
  PROVE  SoundPart(c, 0)'
<1>1. mode = "flush" /\ got' = <<>> /\ Receive
  BY DEF Flush, ReaderGoesTo
<1>2. n = 0 /\ trouble
  BY <1>1 DEF SoundPart, FromReader, NoTrouble
<1>3. trouble' = trouble /\ due' = due /\ Delivered' = Delivered
  BY <1>1 DEF Receive, history, Delivered, Flush
<1>4. \A m : ~EndsIn(b, n, m)
  BY <1>2 DEF EndsIn
<1>5. Len(c) \in Nat
  BY <1>1, ReadTakes
<1> QED  BY <1>1, <1>2, <1>3, <1>4, <1>5, NothingLeft

\* A silence: no message is cut by it, and if there is no trouble after it
\* the reader is at the start of a header and nothing is left.
LEMMA SilenceSound ==
  ASSUME Base, NEW b, b = Bytes, NEW c, c = Bytes', NEW n \in Nat, SoundPart(b, n), Silence
  PROVE  SoundPart(c, 0)'
<1>1. open /\ line = <<>> /\ line' = line /\ mode \in {"header", "flush", "body"}
  BY DEF Silence, Base, TypeOK, ReaderAt
<1>2. got \in Seq(Byte) /\ Len(got) \in Nat /\ b \in Seq(Byte) /\ Len(b) = Len(got)
  BY <1>1 DEF Base, TypeOK, Bytes
<1>3. n \in 0 .. Len(b) /\ Frames(b, n) /\ FromReader(b, n) /\ HoldsDue(b, n) /\ (~trouble => NoTrouble(b, n))
  BY DEF SoundPart
<1>4. /\ UNCHANGED <<frame, delivered, due>>
      /\ quiet' = (IF quiet < 2 THEN quiet + 1 ELSE quiet)
      /\ trouble' = (~MutexFree \/ (trouble /\ quiet' < 2))
      /\ GiveUp
  BY DEF Silence
<1>5. mode' \in {"header", "flush"} /\ Delivered' = Delivered
  BY <1>1, <1>4 DEF GiveUp, ReaderGoesTo, Delivered
<1>6. ASSUME n > 0
      PROVE  /\ b[1].msg \in Message /\ b[1].at \in Nat /\ FrameSize(b[1].msg) \in Nat
             /\ b[1].at + n <= FrameSize(b[1].msg)
  <2>1. b[1] \in Byte /\ 1 \in 1 .. n /\ n <= Len(got)
    BY <1>2, <1>3, <1>6
  <2>2. b[1].msg \in Message /\ b[1].at \in Nat
    BY <2>1 DEF Byte
  <2>3. Size[b[1].msg] \in Nat /\ Header \in Nat /\ FrameSize(b[1].msg) = Header + Size[b[1].msg]
    BY <2>2, ChannelAssumption DEF FrameSize
  <2>4. CASE mode = "header"
    <3>1. b[1].at = 1 /\ Len(got) < Header
      BY <1>3, <1>6, <2>4 DEF FromReader, Base, ReaderAt
    <3> QED  BY <1>2, <2>1, <2>2, <2>3, <3>1
  <2>5. CASE mode = "body"
    <3>1. b[1].msg = want /\ b[1].at = Header + 1 /\ Len(got) < BodyRead(want)
      BY <1>3, <1>6, <2>5 DEF FromReader, Base, ReaderAt
    <3>2. Size[want] <= MaxBody
      BY <1>3, <2>1, <3>1 DEF Frames
    <3>3. BodyRead(want) = Size[want]
      BY <2>3, <3>1, <3>2, ChannelAssumption DEF BodyRead
    <3> QED  BY <1>2, <2>1, <2>2, <2>3, <3>1, <3>3
  <2>6. CASE mode = "flush"
    BY <1>3, <1>6, <2>6 DEF FromReader
  <2> QED  BY <1>1, <2>4, <2>5, <2>6
<1>7. ASSUME NEW m, EndsIn(b, n, m) PROVE FALSE
  <2>1. n \in 1 .. Len(b) /\ n \in 1 .. n
    BY <1>3, <1>7 DEF EndsIn
  <2>2. b[1].at + (n - 1) < FrameSize(b[1].msg)
    BY <1>6, <2>1
  <2> QED  BY <1>2, <1>3, <1>7, <2>1, <2>2, NoEnd
<1>8. HoldsDue(c, 0)'
  BY <1>1, <1>3, <1>4, <1>5, <1>7 DEF HoldsDue
<1>9. Frames(c, 0) /\ FromReader(c, 0)' /\ c \in Seq(Byte) /\ Len(c) \in Nat
  <2>1. got' = got \/ got' = <<>>
    BY <1>1, <1>4 DEF GiveUp, ReaderGoesTo
  <2>2. <<>> \in Seq(Byte)
    OBVIOUS
  <2>3. got' \in Seq(Byte)
    BY <1>2, <2>1, <2>2
  <2>4. line' \in Seq(Byte)
    BY <1>1, <2>2
  <2> QED  BY <2>3, <2>4, NoFrames DEF FromReader, Bytes
<1>10. ASSUME ~trouble' PROVE NoTrouble(c, 0)'
  <2>1. MutexFree /\ (~trouble \/ ~(quiet' < 2))
    BY <1>4, <1>10, Zenon
  <2>2. \A x, y : ~Writes(x, y)
    BY <2>1 DEF MutexFree, Writes
  <2>3. ASSUME ~trouble PROVE mode = "header" /\ got = <<>>
    <3>1. n = Len(b) /\ mode # "flush" /\ ToWriter(b, n)
      BY <1>3, <2>3 DEF NoTrouble
    <3>2. n = 0
      <4> SUFFICES ASSUME n > 0 PROVE FALSE
        OBVIOUS
      <4>1. SameFrame(b, 1, n + 1 - 1) /\ 1 \in 1 .. n
        BY <1>6 DEF SameFrame
      <4> QED  BY <2>2, <3>1, <4>1 DEF ToWriter
    <3>3. mode # "body"
      BY <2>2, <3>1, <3>2 DEF ToWriter
    <3>4. Len(got) = 0
      BY <1>2, <3>1, <3>2
    <3>5. got = <<>>
      BY <1>2, <3>4
    <3>6. mode = "header"
      BY <1>1, <3>1, <3>3
    <3> QED  BY <3>5, <3>6
  <2>4. ASSUME ~(quiet' < 2) PROVE got = <<>> /\ mode \in {"header", "flush"}
    <3>1. quiet \in 0 .. 2 /\ quiet > 0
      BY <1>4, <2>4 DEF Base, TypeOK
    <3> QED  BY <1>1, <3>1 DEF Base, QuietReader
  <2>5. mode' = "header" /\ got' = <<>>
    BY <1>1, <1>4, <2>1, <2>3, <2>4 DEF GiveUp, ReaderGoesTo
  <2>6. Len(c) = 0
    BY <1>1, <2>5 DEF Bytes
  <2>7. \A s \in Sender : frame'[s] = None
    BY <1>4, <2>1 DEF MutexFree
  <2>8. ToWriter(c, 0)'
    BY <2>5, <2>7 DEF ToWriter
  <2> QED  BY <2>5, <2>6, <2>8 DEF NoTrouble
<1> QED  BY <1>8, <1>9, <1>10 DEF SoundPart

-----------------------------------------------------------------------------
(* The inductive invariant and the theorems.                                *)

LEMMA Renamed ==
  ASSUME NEW c, c = Bytes', NEW j \in Nat, SoundPart(c, j)'
  PROVE  (\E n \in Nat : SoundPart(Bytes, n))'
<1>1. (j \in 0 .. Len(Bytes))' /\ Frames(Bytes, j)'
  BY DEF SoundPart
<1>2. FromReader(Bytes, j)'
  BY DEF SoundPart, FromReader
<1>3. HoldsDue(Bytes, j)'
  BY DEF SoundPart, HoldsDue
<1>4. ~trouble' => NoTrouble(Bytes, j)'
  BY DEF SoundPart, NoTrouble, ToWriter
<1>5. SoundPart(Bytes, j)'
  BY <1>1, <1>2, <1>3, <1>4 DEF SoundPart
<1> QED  BY <1>5

LEMMA InitSound == Init => IInv
<1> SUFFICES ASSUME Init PROVE IInv
  OBVIOUS
<1>1. Base
  BY InitBase
<1>2. Bytes = <<>> \o <<>> /\ Len(Bytes) = 0
  BY DEF Init, Bytes
<1>3. ToWriter(Bytes, 0) /\ HoldsDue(Bytes, 0) /\ FromReader(Bytes, 0)
  BY DEF Init, ToWriter, HoldsDue, FromReader
<1>4. SoundPart(Bytes, 0)
  BY <1>2, <1>3, NoFrames DEF SoundPart, NoTrouble, Init
<1> QED  BY <1>1, <1>4 DEF IInv

LEMMA StepSound == IInv /\ [Next]_vars => IInv'
<1> SUFFICES ASSUME IInv, [Next]_vars PROVE IInv'
  OBVIOUS
<1>1. CASE UNCHANGED vars
  <2>1. Base'
    BY <1>1 DEF IInv, Base, TypeOK, OneWriter, ReaderAt, QuietReader, vars, link, reader, history
  <2>2. ASSUME open' PROVE (\E j \in Nat : SoundPart(Bytes, j))'
    <3>1. PICK b : b = Bytes
      OBVIOUS
    <3>2. open /\ b = Bytes' /\ UNCHANGED <<frame, reader, history>>
      BY <1>1, <2>2, <3>1 DEF vars, link, reader, Bytes
    <3>3. PICK n \in Nat : SoundPart(b, n)
      BY <3>1, <3>2 DEF IInv
    <3>4. SoundPart(b, n)'
      BY <3>2, <3>3
      DEF SoundPart, FromReader, HoldsDue, NoTrouble, ToWriter, Writes, Delivered, reader, history
    <3> QED  BY <3>2, <3>4, Renamed
  <2> QED  BY <2>1, <2>2 DEF IInv
<1>2. CASE Next
  <2>1. Base
    BY DEF IInv
  <2>2. Base'
    BY <1>2, <2>1, StartBase, SendBase, ReadBase DEF Next
  <2>3. ASSUME open' PROVE (\E j \in Nat : SoundPart(Bytes, j))'
    <3>1. PICK b : b = Bytes
      OBVIOUS
    <3>2. PICK c : c = Bytes'
      OBVIOUS
    <3>3. open
      BY <1>2, <2>1, <2>3
      DEF Next, start, stop, StreamFails, Close, BeginSend, Write, Fault, Written, ShortWrite, Reads, ReadSome,
          ReadHeader, ReadBody, Handle, Flush, EndReceive, Receive, Silence, link
    <3>4. PICK n \in Nat : SoundPart(b, n)
      BY <3>1, <3>3 DEF IInv
    <3>5. SUFFICES \E j \in Nat : SoundPart(c, j)'
      BY <3>2, Renamed
    <3>6. CASE start
      <4>1. c = b /\ UNCHANGED <<frame, reader, history>>
        BY <3>1, <3>2, <3>6 DEF start, reader, Bytes
      <4> QED
        BY <3>4, <4>1
        DEF SoundPart, FromReader, HoldsDue, NoTrouble, ToWriter, Writes, Delivered, reader, history
    <3>7. CASE stop \/ StreamFails \/ EndReceive
      BY <2>3, <3>3, <3>7 DEF stop, StreamFails, Close, EndReceive
    <3>8. CASE \E s \in Sender : (\E m \in Message : BeginSend(s, m)) \/ Write(s) \/ Fault(s) \/ ShortWrite(s)
      <4>1. PICK s \in Sender : (\E m \in Message : BeginSend(s, m)) \/ Write(s) \/ Fault(s) \/ ShortWrite(s)
        BY <3>8
      <4>2. CASE \E m \in Message : BeginSend(s, m)
        BY <2>1, <3>1, <3>2, <3>4, <4>2, BeginSendSound
      <4>3. CASE Write(s) /\ ~trouble
        <5>1. SoundPart(c, n + 1)' /\ n + 1 \in Nat
          BY <2>1, <3>1, <3>2, <3>4, <4>3, WriteSound
        <5> QED  BY <5>1
      <4>4. CASE (Write(s) /\ trouble) \/ Fault(s)
        BY <2>1, <3>1, <3>2, <3>4, <4>4, BadByteSound
      <4>5. CASE ShortWrite(s)
        BY <2>1, <3>1, <3>2, <3>4, <4>5, ShortWriteSound
      <4> QED  BY <4>1, <4>2, <4>3, <4>4, <4>5
    <3>9. CASE ReadSome
      BY <2>1, <3>1, <3>2, <3>4, <3>9, ReadSomeSound
    <3>10. CASE ReadHeader
      BY <2>1, <3>1, <3>2, <3>4, <3>10, ReadHeaderSound
    <3>11. CASE ReadBody
      BY <2>1, <3>1, <3>2, <3>4, <3>11, ReadBodySound
    <3>12. CASE Handle
      BY <2>1, <3>1, <3>2, <3>4, <3>12, HandleSound
    <3>13. CASE Flush
      BY <2>1, <3>1, <3>2, <3>4, <3>13, FlushSound
    <3>14. CASE Silence
      BY <2>1, <3>1, <3>2, <3>4, <3>14, SilenceSound
    <3> QED
      BY <1>2, <3>6, <3>7, <3>8, <3>9, <3>10, <3>11, <3>12, <3>13, <3>14 DEF Next, Reads
  <2> QED  BY <2>2, <2>3 DEF IInv
<1> QED  BY <1>1, <1>2

LEMMA ImpliesArrive == IInv => SoundMessagesArrive
<1> SUFFICES ASSUME IInv, open, NEW m \in due PROVE m \in Delivered \/ OnItsWay(m)
  BY DEF SoundMessagesArrive
<1>1. PICK n \in Nat : SoundPart(Bytes, n)
  BY DEF IInv
<1>2. CASE m \in Delivered \/ want = m
  BY <1>2 DEF OnItsWay
<1>3. CASE EndsIn(Bytes, n, m)
  <2>1. PICK i \in 1 .. n : Bytes[i].msg = m
    BY <1>3 DEF EndsIn
  <2>2. i \in 1 .. Len(Bytes)
    BY <1>1, <2>1 DEF SoundPart
  <2>3. got \in Seq(Byte) /\ line \in Seq(Byte)
    BY DEF IInv, Base, TypeOK
  <2>4. CASE i <= Len(got)
    BY <2>1, <2>2, <2>3, <2>4 DEF Bytes, OnItsWay
  <2>5. CASE i > Len(got)
    <3>1. i - Len(got) \in 1 .. Len(line) /\ Bytes[i] = line[i - Len(got)]
      BY <2>2, <2>3, <2>5 DEF Bytes
    <3> QED  BY <2>1, <3>1 DEF OnItsWay
  <2> QED  BY <2>2, <2>3, <2>4, <2>5
<1> QED  BY <1>1, <1>2, <1>3 DEF SoundPart, HoldsDue

(* The types of Channel hold in every state.                                *)
THEOREM ChannelTypeCorrect == Spec => []TypeOK
<1>1. IInv => TypeOK
  BY DEF IInv, Base
<1> QED  BY <1>1, InitSound, StepSound, PTL DEF Spec

(* A message sent whole over a line in order is given to the handler or is  *)
(* on its way there, for any headers, bodies, senders and faults: send and  *)
(* receive of Channel.cpp find each other again after two silences.         *)
THEOREM SoundMessagesAreNotLost == Spec => []SoundMessagesArrive
<1> QED  BY InitSound, StepSound, ImpliesArrive, PTL DEF Spec
=============================================================================
