----------------------------- MODULE SocketBuffer -----------------------------
(***************************************************************************)
(* The client's read buffer (livelock/connection.py, class SocketBuffer):  *)
(* what recv returns is appended to a BytesIO; read and readline take      *)
(* their result from it and receive more as long as it is not there.  The  *)
(* socket gives out what the server sent in pieces of any size.            *)
(*                                                                         *)
(* The caller is any program that asks for one thing after the other.      *)
(***************************************************************************)
EXTENDS ByteStream

CONSTANT socket_read_size  \* the most that one recv returns

ASSUME BufferAssumption == socket_read_size \in Nat \ {0}

VARIABLES
  wire,           \* sent by the server and not received
  buffer,         \* the content of the BytesIO
  bytes_written,  \* number of bytes written to the buffer
  bytes_read,     \* number of bytes read from the buffer
  asked,          \* the length that read was called with; -1: readline, 0: no call
  lacking         \* what _read_from_socket still has to receive for it

bufferVars == <<buffer, bytes_written, bytes_read, asked, lacking>>

NoCall == 0

Line == -1

(* The read buffer stays within its types: what a call lacks is never      *)
(* negative, whatever was in the buffer before.                            *)
BufferTypeOK ==
  /\ wire \in Seq(Bytes)
  /\ buffer \in Seq(Bytes)
  /\ bytes_written \in Nat /\ bytes_read \in Nat
  /\ asked \in Nat \cup {Line}
  /\ lacking \in Nat

BufferInit ==
  /\ buffer = <<>>
  /\ bytes_written = 0 /\ bytes_read = 0
  /\ asked = NoCall /\ lacking = 0

-----------------------------------------------------------------------------
(* Where readline stops: at the first LF, or where the buffer ends.        *)
LineEnds(i) ==
  /\ i \in (bytes_read + 1) .. Len(buffer)
  /\ buffer[i] = LF \/ i = Len(buffer)
  /\ \A j \in (bytes_read + 1) .. (i - 1) : buffer[j] # LF

(* ... and whether what it found ends with SYM_CRLF.                       *)
HasLine(i) ==
  /\ LineEnds(i)
  /\ i >= bytes_read + 2
  /\ buffer[i - 1] = CR /\ buffer[i] = LF

(* Mutant: a line is complete when its LF is there.                        *)
HasLineByLF(i) == LineEnds(i) /\ buffer[i] = LF

NoLine == ~ \E i \in 1 .. Len(buffer) : HasLine(i)

(* Mutants: read forgets what the buffer has, or that it has enough.       *)
CallReadForAll(length) ==
  /\ asked = NoCall /\ length > 0
  /\ asked' = length /\ lacking' = length
  /\ UNCHANGED <<wire, buffer, bytes_written, bytes_read>>

CallReadForRest(length) ==
  /\ asked = NoCall /\ length > 0
  /\ asked' = length /\ lacking' = length - (bytes_written - bytes_read)
  /\ UNCHANGED <<wire, buffer, bytes_written, bytes_read>>

(* read(length) and readline are called.                                   *)
CallRead(length) ==
  /\ asked = NoCall /\ length > 0
  /\ asked' = length
  /\ lacking' = IF length > bytes_written - bytes_read
                THEN length - (bytes_written - bytes_read) ELSE 0
  /\ UNCHANGED <<wire, buffer, bytes_written, bytes_read>>

CallReadline ==
  /\ asked = NoCall
  /\ asked' = Line
  /\ lacking' = IF NoLine THEN 1 ELSE 0
  /\ UNCHANGED <<wire, buffer, bytes_written, bytes_read>>

(* Mutant: what recv returned is written where reading is.                 *)
WrittenAtRead(piece) == SubSeq(buffer, 1, bytes_read) \o piece

(* buf.seek(bytes_written), buf.write(data)                                *)
Written(piece) == SubSeq(buffer, 1, bytes_written) \o piece

(* _read_from_socket: one recv.  It goes on until it has the length it was *)
(* asked for; readline looks for a line after each recv.                   *)
Recv(n) ==
  /\ lacking > 0
  /\ n \in 1 .. socket_read_size /\ n <= Len(wire)
  /\ buffer' = Written(SubSeq(wire, 1, n))
  /\ bytes_written' = bytes_written + n
  /\ wire' = SubSeq(wire, n + 1, Len(wire))
  /\ UNCHANGED <<bytes_read, asked>>
  /\ lacking' = IF asked = Line
                THEN IF NoLine' THEN 1 ELSE 0
                ELSE IF lacking > n THEN lacking - n ELSE 0

(* Mutants: the buffer is purged with what was not read, or never.         *)
ConsumeAndPurge(i) == buffer' = <<>> /\ bytes_written' = 0 /\ bytes_read' = 0

ConsumeOnly(i) == bytes_read' = i /\ UNCHANGED <<buffer, bytes_written>>

(* The reading position moves to i; the buffer is purged when everything   *)
(* has been consumed.                                                      *)
Consume(i) ==
  IF i = bytes_written
  THEN buffer' = <<>> /\ bytes_written' = 0 /\ bytes_read' = 0
  ELSE bytes_read' = i /\ UNCHANGED <<buffer, bytes_written>>

(* read returns ...                                                        *)
ReadResult == SubSeq(buffer, bytes_read + 1, bytes_read + asked)

ReadReturns ==
  /\ asked > 0 /\ lacking = 0
  /\ Consume(bytes_read + Len(ReadResult))
  /\ asked' = NoCall
  /\ UNCHANGED <<wire, lacking>>

(* ... and readline, without the CRLF.                                     *)
LineEnd == CHOOSE i \in 1 .. Len(buffer) : HasLine(i)

LineResult == SubSeq(buffer, bytes_read + 1, LineEnd - 2)

ReadlineReturns ==
  /\ asked = Line /\ lacking = 0
  /\ Consume(LineEnd)
  /\ asked' = NoCall
  /\ UNCHANGED <<wire, lacking>>

(* recv times out or the socket is closed: the call raises.                *)
Raise ==
  /\ lacking > 0
  /\ asked' = NoCall /\ lacking' = 0
  /\ UNCHANGED <<wire, buffer, bytes_written, bytes_read>>

-----------------------------------------------------------------------------
(* The buffer on its own, between a server that sends anything and a       *)
(* caller that asks for anything.                                          *)

Send(data) ==
  /\ wire' = wire \o data
  /\ UNCHANGED bufferVars

BufferNext ==
  \/ \E data \in Seq(Bytes) : Send(data)
  \/ \E n \in Nat : CallRead(n) \/ Recv(n)
  \/ CallReadline
  \/ ReadReturns \/ ReadlineReturns
  \/ Raise

BufferSpec == wire = <<>> /\ BufferInit /\ [][BufferNext]_<<wire, bufferVars>>

-----------------------------------------------------------------------------
(* What the caller has not been given yet of what the server sent.         *)
Pending == SubSeq(buffer, bytes_read + 1, bytes_written) \o wire

(* The pieces in which the stream arrives do not matter: a call that       *)
(* returns takes exactly what it was asked for from the front of what is   *)
(* pending, and nothing else changes the order or the content of that; a   *)
(* receive or an error leaves it as it is.  (The two positions, recv into  *)
(* the middle of a message, and the purge.)                                *)
ReadStep ==
  /\ ReadReturns =>
       Len(ReadResult) = asked /\ Pending = ReadResult \o Pending'
  /\ ReadlineReturns =>
       /\ \A j \in 1 .. Len(LineResult) : LineResult[j] # LF
       /\ Pending = LineResult \o CRLF \o Pending'
  /\ Raise \/ (\E n \in 1 .. Len(wire) : Recv(n)) => Pending' = Pending

ReadsAreExact == [][ReadStep]_<<wire, bufferVars>>
=============================================================================
