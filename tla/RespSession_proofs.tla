-------------------------- MODULE RespSession_proofs --------------------------
(***************************************************************************)
(* The read buffer, the reading machine, and the session made of           *)
(* them.                                                                   *)
(*                                                                         *)
(* The buffer is treated for a caller that reads what it likes: what its   *)
(* calls return is the stream, cut where it was asked for.  The positions  *)
(* are right only together with what a call lacks: that read has enough    *)
(* when it returns follows from lacking being exactly what the buffer is   *)
(* short of, which every receive has to keep.                              *)
(*                                                                         *)
(* The machine is treated for one message, a command or an answer.  Where  *)
(* it stands in it (Reading) is told by the bytes that are still to come:  *)
(* they are exactly the rest of the message, and its stack owes as many    *)
(* values as the message lacks.  Whatever it takes next is then what was   *)
(* packed there, so that it goes on in the message and never raises.       *)
(*                                                                         *)
(* In the session at most one message is on its way.  What the reader has  *)
(* not had of it is in its inbox or buffer, on the connection, or cut off  *)
(* with a connection that is lost.                                         *)
(***************************************************************************)
EXTENDS RespSession, SequenceInduction, FiniteSetTheorems

(* The invariant of the buffer.                                            *)
BufferInv ==
  /\ BufferTypeOK
  /\ bytes_written = Len(buffer) /\ bytes_read <= bytes_written
  /\ bytes_read = bytes_written => bytes_written = 0
  /\ asked = NoCall => lacking = 0
  /\ asked > 0 => lacking = IF asked > bytes_written - bytes_read
                            THEN asked - (bytes_written - bytes_read) ELSE 0
  /\ asked = Line => lacking = IF NoLine THEN 1 ELSE 0

-----------------------------------------------------------------------------
(* What is between two positions of a sequence.                            *)
LEMMA SubSeqIn ==
  ASSUME NEW S, NEW s \in Seq(S), NEW m \in Nat \ {0}, NEW n \in Nat, n <= Len(s)
  PROVE  /\ SubSeq(s, m, n) \in Seq(S)
         /\ Len(SubSeq(s, m, n)) = IF m <= n THEN n - m + 1 ELSE 0
         /\ \A i \in 1 .. n - m + 1 : SubSeq(s, m, n)[i] = s[m + i - 1]
<1>1. \A i \in m .. n : s[i] \in S
  BY SMT
<1> QED
  BY <1>1, SubSeqProperties

(* Appending moves nothing: what was pending stays in front.               *)
LEMMA DropOfConcat ==
  ASSUME NEW S, NEW s \in Seq(S), NEW t \in Seq(S), NEW n \in 0 .. Len(s)
  PROVE  SubSeq(s \o t, n + 1, Len(s) + Len(t)) = SubSeq(s, n + 1, Len(s)) \o t
<1>1. s \o t \in Seq(S) /\ Len(s \o t) = Len(s) + Len(t)
  BY ConcatProperties
<1>2. SubSeq(s \o t, n + 1, Len(s) + Len(t))
        = SubSeq(s \o t, n + 1, Len(s)) \o SubSeq(s \o t, Len(s) + 1, Len(s) + Len(t))
  <2>1. /\ n + 1 \in 1 .. Len(s \o t) + 1
        /\ Len(s) \in (n + 1) - 1 .. Len(s \o t)
        /\ Len(s) + Len(t) \in Len(s) .. Len(s \o t)
    BY <1>1, LenProperties
  <2> QED
    BY <1>1, <2>1, ConcatAdjacentSubSeq
<1>3. SubSeq(s \o t, n + 1, Len(s)) = SubSeq(s, n + 1, Len(s))
  <2>1. CASE n = Len(s)
    BY <2>1, SubSeqEmpty, LenProperties
  <2>2. CASE n # Len(s)
    BY <2>2, SubSeqOfConcat1, LenProperties
  <2> QED
    BY <2>1, <2>2
<1>4. SubSeq(s \o t, Len(s) + 1, Len(s) + Len(t)) = t
  <2>1. CASE t = <<>>
    BY <2>1, SubSeqEmpty, LenProperties
  <2>2. CASE t # <<>>
    <3>1. Len(t) \in Nat /\ Len(t) > 0
      BY <2>2, LenProperties, EmptySeq
    <3>2. SubSeq(s \o t, Len(s) + 1, Len(s) + Len(t))
            = SubSeq(t, (Len(s) + 1) - Len(s), (Len(s) + Len(t)) - Len(s))
      BY <3>1, SubSeqOfConcat2, LenProperties
    <3>3. (Len(s) + 1) - Len(s) = 1 /\ (Len(s) + Len(t)) - Len(s) = Len(t)
      BY <3>1, LenProperties
    <3> QED
      BY <3>2, <3>3, SubSeqFull
  <2> QED
    BY <2>1, <2>2
<1> QED
  BY <1>2, <1>3, <1>4

(* A stretch of a sequence is cut anywhere.                                *)
LEMMA Cut ==
  ASSUME NEW S, NEW s \in Seq(S), NEW m \in Nat, NEW k \in Nat, NEW n \in Nat,
         m <= k, k <= n, n <= Len(s)
  PROVE  SubSeq(s, m + 1, n) = SubSeq(s, m + 1, k) \o SubSeq(s, k + 1, n)
<1>1. /\ m + 1 \in 1 .. Len(s) + 1
      /\ k \in (m + 1) - 1 .. Len(s)
      /\ n \in k .. Len(s)
  BY LenProperties
<1> QED
  BY <1>1, ConcatAdjacentSubSeq

-----------------------------------------------------------------------------
(* What is pending is what the buffer has up to i, and the rest.           *)
LEMMA PendingIsCut ==
  ASSUME BufferInv, NEW i \in bytes_read .. bytes_written
  PROVE  /\ SubSeq(buffer, bytes_read + 1, i) \in Seq(Bytes)
         /\ SubSeq(buffer, i + 1, bytes_written) \in Seq(Bytes)
         /\ Pending = SubSeq(buffer, bytes_read + 1, i)
                         \o (SubSeq(buffer, i + 1, bytes_written) \o wire)
<1>1. /\ wire \in Seq(Bytes) /\ buffer \in Seq(Bytes)
      /\ bytes_read \in Nat /\ bytes_written \in Nat /\ i \in Nat
      /\ bytes_read <= i /\ i <= bytes_written /\ bytes_written <= Len(buffer)
  BY DEF BufferInv, BufferTypeOK
<1>2. SubSeq(buffer, bytes_read + 1, bytes_written)
        = SubSeq(buffer, bytes_read + 1, i) \o SubSeq(buffer, i + 1, bytes_written)
  BY <1>1, Cut
<1>3. bytes_read + 1 \in Nat \ {0} /\ i + 1 \in Nat \ {0} /\ i <= Len(buffer)
  BY <1>1, LenProperties
<1>4. /\ SubSeq(buffer, bytes_read + 1, i) \in Seq(Bytes)
      /\ SubSeq(buffer, i + 1, bytes_written) \in Seq(Bytes)
  BY <1>1, <1>3, SubSeqIn
<1>5. (SubSeq(buffer, bytes_read + 1, i) \o SubSeq(buffer, i + 1, bytes_written)) \o wire
        = SubSeq(buffer, bytes_read + 1, i) \o (SubSeq(buffer, i + 1, bytes_written) \o wire)
  <2> DEFINE taken == SubSeq(buffer, bytes_read + 1, i)
             rest == SubSeq(buffer, i + 1, bytes_written)
  <2>1. taken \in Seq(Bytes) /\ rest \in Seq(Bytes) /\ wire \in Seq(Bytes)
    BY <1>1, <1>4
  <2> HIDE DEF taken, rest
  <2>2. (taken \o rest) \o wire = taken \o (rest \o wire)
    BY <2>1, ConcatAssociative
  <2> QED
    BY <2>2 DEF taken, rest
<1> QED
  BY <1>2, <1>4, <1>5 DEF Pending

(* Consuming up to i leaves the rest pending, and the positions right.     *)
LEMMA ConsumeLeavesTheRest ==
  ASSUME BufferInv, NEW i \in bytes_read .. bytes_written, Consume(i), wire' = wire
  PROVE  /\ Pending' = SubSeq(buffer, i + 1, bytes_written) \o wire
         /\ buffer' \in Seq(Bytes)
         /\ bytes_written' \in Nat /\ bytes_read' \in Nat
         /\ bytes_written' = Len(buffer') /\ bytes_read' <= bytes_written'
         /\ bytes_read' = bytes_written' => bytes_written' = 0
<1>1. /\ buffer \in Seq(Bytes) /\ bytes_written = Len(buffer)
      /\ bytes_read \in Nat /\ bytes_written \in Nat /\ i \in Nat /\ i <= bytes_written
  BY DEF BufferInv, BufferTypeOK
<1>2. CASE i = bytes_written
  <2>1. buffer' = <<>> /\ bytes_written' = 0 /\ bytes_read' = 0
    BY <1>2 DEF Consume
  <2>2. SubSeq(buffer', bytes_read' + 1, bytes_written') = <<>>
    BY <2>1, SubSeqEmpty
  <2>3. SubSeq(buffer, i + 1, bytes_written) = <<>>
    BY <1>1, <1>2, SubSeqEmpty
  <2>4. buffer' \in Seq(Bytes) /\ Len(buffer') = 0
    BY <2>1, EmptySeq
  <2>5. Pending' = <<>> \o wire
    BY <2>2 DEF Pending
  <2>6. Pending' = SubSeq(buffer, i + 1, bytes_written) \o wire
    BY <2>3, <2>5, Zenon
  <2> QED
    BY <2>1, <2>4, <2>6
<1>3. CASE i # bytes_written
  BY <1>1, <1>3 DEF Consume, Pending
<1> QED
  BY <1>2, <1>3

(* read returns when, and only when, the buffer has what was asked for.    *)
LEMMA ReadHasEnough ==
  ASSUME BufferInv, ReadReturns
  PROVE  /\ asked \in Nat
         /\ bytes_read + asked \in bytes_read .. bytes_written
         /\ ReadResult \in Seq(Bytes) /\ Len(ReadResult) = asked
<1>1. /\ buffer \in Seq(Bytes) /\ bytes_written = Len(buffer)
      /\ bytes_read \in Nat /\ bytes_written \in Nat
      /\ asked \in Nat /\ asked > 0 /\ lacking = 0
  BY DEF BufferInv, BufferTypeOK, ReadReturns, Line
<1>2. bytes_read + asked <= bytes_written
  BY <1>1 DEF BufferInv
<1>3. bytes_read + 1 \in Nat \ {0} /\ bytes_read + asked \in Nat
  BY <1>1
<1>4. /\ ReadResult \in Seq(Bytes)
      /\ Len(ReadResult) = IF bytes_read + 1 <= bytes_read + asked
                           THEN (bytes_read + asked) - (bytes_read + 1) + 1 ELSE 0
  BY <1>1, <1>2, <1>3, SubSeqIn DEF ReadResult
<1> QED
  BY <1>1, <1>2, <1>4

(* readline returns when there is a line, and finds its end.               *)
LEMMA ReadlineHasLine ==
  ASSUME BufferInv, ReadlineReturns
  PROVE  /\ LineEnd \in bytes_read + 2 .. bytes_written
         /\ HasLine(LineEnd)
<1>1. \E i \in 1 .. Len(buffer) : HasLine(i)
  BY DEF BufferInv, ReadlineReturns, NoLine
<1>2. LineEnd \in 1 .. Len(buffer) /\ HasLine(LineEnd)
  BY <1>1 DEF LineEnd
<1> QED
  BY <1>2 DEF HasLine, BufferInv, BufferTypeOK

(* What it returns is everything up to the CRLF, without an LF.            *)
LEMMA LineIsCut ==
  ASSUME BufferInv, ReadlineReturns
  PROVE  /\ LineResult \in Seq(Bytes)
         /\ \A j \in 1 .. Len(LineResult) : LineResult[j] # LF
         /\ SubSeq(buffer, bytes_read + 1, LineEnd) = LineResult \o <<CR, LF>>
<1> DEFINE e == LineEnd
<1>1. /\ buffer \in Seq(Bytes) /\ bytes_written = Len(buffer)
      /\ bytes_read \in Nat /\ bytes_written \in Nat
  BY DEF BufferInv, BufferTypeOK
<1>2. /\ e \in Nat /\ bytes_read + 2 <= e /\ e <= Len(buffer)
      /\ buffer[e - 1] = CR /\ buffer[e] = LF
      /\ \A j \in (bytes_read + 1) .. (e - 1) : buffer[j] # LF
  BY <1>1, ReadlineHasLine DEF HasLine, LineEnds
<1> HIDE DEF e
<1>3. /\ bytes_read + 1 \in Nat \ {0} /\ e - 2 \in Nat /\ e - 1 \in Nat
      /\ e - 2 <= Len(buffer) /\ bytes_read <= e - 2
  BY <1>1, <1>2
<1>4. LineResult = SubSeq(buffer, bytes_read + 1, e - 2)
  BY DEF LineResult, e
<1>5. /\ LineResult \in Seq(Bytes)
      /\ Len(LineResult) = IF bytes_read + 1 <= e - 2
                           THEN (e - 2) - (bytes_read + 1) + 1 ELSE 0
      /\ \A j \in 1 .. (e - 2) - (bytes_read + 1) + 1 :
            LineResult[j] = buffer[(bytes_read + 1) + j - 1]
  <2>1. PICK m, n : m = bytes_read + 1 /\ n = e - 2
    OBVIOUS
  <2>2. m \in Nat \ {0} /\ n \in Nat /\ n <= Len(buffer)
    BY <1>3, <2>1
  <2>3. /\ SubSeq(buffer, m, n) \in Seq(Bytes)
        /\ Len(SubSeq(buffer, m, n)) = IF m <= n THEN n - m + 1 ELSE 0
        /\ \A j \in 1 .. n - m + 1 : SubSeq(buffer, m, n)[j] = buffer[m + j - 1]
    BY <1>1, <2>2, SubSeqIn
  <2> QED
    BY <1>4, <2>1, <2>3, Zenon
<1>6. ASSUME NEW j \in 1 .. Len(LineResult) PROVE LineResult[j] # LF
  <2>1. Len(LineResult) = (e - 2) - bytes_read
    BY <1>1, <1>2, <1>3, <1>5
  <2>2. /\ j \in 1 .. (e - 2) - (bytes_read + 1) + 1
        /\ (bytes_read + 1) + j - 1 \in (bytes_read + 1) .. (e - 1)
    BY <1>1, <1>2, <1>3, <2>1
  <2> QED
    BY <1>2, <1>5, <2>2
<1>7. SubSeq(buffer, bytes_read + 1, e) = LineResult \o SubSeq(buffer, (e - 2) + 1, e)
  BY <1>1, <1>2, <1>3, <1>4, Cut
<1>8. SubSeq(buffer, (e - 2) + 1, e) = <<CR, LF>>
  <2>1. (e - 2) + 1 \in Nat \ {0}
    BY <1>3
  <2>2. /\ SubSeq(buffer, (e - 2) + 1, e) \in Seq(Bytes)
        /\ Len(SubSeq(buffer, (e - 2) + 1, e)) = IF (e - 2) + 1 <= e
                                               THEN e - ((e - 2) + 1) + 1 ELSE 0
        /\ \A j \in 1 .. e - ((e - 2) + 1) + 1 :
              SubSeq(buffer, (e - 2) + 1, e)[j] = buffer[((e - 2) + 1) + j - 1]
    BY <1>1, <1>2, <2>1, SubSeqIn
  <2>3. Len(SubSeq(buffer, (e - 2) + 1, e)) = 2
    BY <1>2, <2>2
  <2>4. /\ SubSeq(buffer, (e - 2) + 1, e)[1] = buffer[e - 1]
        /\ SubSeq(buffer, (e - 2) + 1, e)[2] = buffer[e]
    <3>1. 1 \in 1 .. e - ((e - 2) + 1) + 1 /\ 2 \in 1 .. e - ((e - 2) + 1) + 1
      BY <1>2
    <3>2. ((e - 2) + 1) + 1 - 1 = e - 1 /\ ((e - 2) + 1) + 2 - 1 = e
      BY <1>2
    <3> QED
      BY <2>2, <3>1, <3>2
  <2>5. <<CR, LF>> \in Seq(Bytes) /\ Len(<<CR, LF>>) = 2
    BY LineEndAssumption
  <2>6. \A j \in 1 .. 2 : SubSeq(buffer, (e - 2) + 1, e)[j] = <<CR, LF>>[j]
    BY <1>2, <2>4
  <2> QED
    BY <2>2, <2>3, <2>5, <2>6, SeqEqual
<1> QED
  BY <1>5, <1>6, <1>7, <1>8 DEF e

-----------------------------------------------------------------------------
(* A receive takes its piece from the wire to the end of what is pending.  *)
LEMMA RecvKeeps ==
  ASSUME BufferInv, NEW n \in Nat, Recv(n)
  PROVE  BufferInv' /\ Pending' = Pending
<1>1. /\ wire \in Seq(Bytes) /\ buffer \in Seq(Bytes) /\ bytes_written = Len(buffer)
      /\ bytes_read \in Nat /\ bytes_written \in Nat /\ bytes_read <= bytes_written
      /\ asked \in Nat \cup {Line} /\ lacking \in Nat
  BY DEF BufferInv, BufferTypeOK
<1>2. n \in Nat /\ n > 0 /\ n <= Len(wire)
  BY BufferAssumption DEF Recv
<1> DEFINE piece == SubSeq(wire, 1, n)
           kept == SubSeq(wire, n + 1, Len(wire))
<1>3. /\ piece \in Seq(Bytes) /\ Len(piece) = n
      /\ kept \in Seq(Bytes) /\ wire = piece \o kept
  <2>1. 1 \in Nat \ {0} /\ n + 1 \in Nat \ {0} /\ Len(wire) \in Nat
    BY <1>1, <1>2, LenProperties
  <2>2. piece \in Seq(Bytes) /\ Len(piece) = IF 1 <= n THEN n - 1 + 1 ELSE 0
    BY <1>1, <1>2, <2>1, SubSeqIn
  <2>3. kept \in Seq(Bytes)
    BY <1>1, <1>2, <2>1, SubSeqIn
  <2>4. piece \o kept = SubSeq(wire, 1, Len(wire))
    <3>1. 1 \in 1 .. Len(wire) + 1 /\ n \in 1 - 1 .. Len(wire) /\ Len(wire) \in n .. Len(wire)
      BY <1>2, <2>1
    <3> QED
      BY <1>1, <3>1, ConcatAdjacentSubSeq
  <2>5. SubSeq(wire, 1, Len(wire)) = wire
    BY <1>1, SubSeqFull
  <2>6. wire = piece \o kept
    BY <2>4, <2>5
  <2>7. Len(piece) = n
    BY <1>2, <2>2
  <2> QED
    BY <2>2, <2>3, <2>6, <2>7
<1>4. /\ buffer' = buffer \o piece /\ wire' = kept
      /\ bytes_written' = bytes_written + n
      /\ UNCHANGED <<bytes_read, asked>>
  BY <1>1, SubSeqFull DEF Recv, Written
<1>5. lacking' = IF asked = Line
                 THEN IF NoLine' THEN 1 ELSE 0
                 ELSE IF lacking > n THEN lacking - n ELSE 0
  BY DEF Recv
<1> HIDE DEF piece, kept
<1>6. buffer' \in Seq(Bytes) /\ Len(buffer') = bytes_written'
  BY <1>1, <1>2, <1>3, <1>4, ConcatProperties
<1>7. BufferTypeOK'
  BY <1>1, <1>2, <1>3, <1>4, <1>5, <1>6 DEF BufferTypeOK
<1>8. BufferInv'
  <2>1. lacking > 0
    BY DEF Recv
  <2>2. /\ bytes_written' = Len(buffer')
        /\ bytes_read' < bytes_written'
        /\ asked # NoCall
    BY <1>1, <1>2, <1>4, <1>6, <2>1 DEF BufferInv
  <2>3. asked' > 0 => lacking' = IF asked' > bytes_written' - bytes_read'
                                 THEN asked' - (bytes_written' - bytes_read') ELSE 0
    BY <1>1, <1>2, <1>4, <1>5, <2>1 DEF BufferInv, Line
  <2>4. asked' = Line => lacking' = IF NoLine' THEN 1 ELSE 0
    BY <1>4, <1>5
  <2> QED
    BY <1>1, <1>2, <1>4, <1>7, <2>2, <2>3, <2>4 DEF BufferInv, NoCall
<1>9. Pending' = Pending
  <2> DEFINE ahead == SubSeq(buffer, bytes_read + 1, bytes_written)
  <2>1. Pending' = SubSeq(buffer \o piece, bytes_read + 1, Len(buffer) + Len(piece)) \o kept
    BY <1>1, <1>3, <1>4 DEF Pending
  <2>2. bytes_read \in 0 .. Len(buffer)
    BY <1>1
  <2>3. SubSeq(buffer \o piece, bytes_read + 1, Len(buffer) + Len(piece)) = ahead \o piece
    <3>1. buffer \in Seq(Bytes) /\ piece \in Seq(Bytes)
      BY <1>1, <1>3
    <3>2. SubSeq(buffer \o piece, bytes_read + 1, Len(buffer) + Len(piece))
            = SubSeq(buffer, bytes_read + 1, Len(buffer)) \o piece
      BY <2>2, <3>1, DropOfConcat, Zenon
    <3> QED
      BY <1>1, <3>2
  <2>4. ahead \in Seq(Bytes) /\ piece \in Seq(Bytes) /\ kept \in Seq(Bytes)
    BY <1>1, <1>3, SubSeqIn
  <2> HIDE DEF ahead
  <2>5. (ahead \o piece) \o kept = ahead \o (piece \o kept)
    BY <2>4, ConcatAssociative
  <2> QED
    BY <1>3, <2>1, <2>3, <2>5 DEF Pending, ahead
<1> QED
  BY <1>8, <1>9

(* A call that returns leaves the positions right for the next one.        *)
LEMMA ReturnKeeps ==
  ASSUME BufferInv, ReadReturns \/ ReadlineReturns
  PROVE  BufferInv'
<1>1. /\ wire' = wire /\ asked' = NoCall /\ lacking' = 0
      /\ wire \in Seq(Bytes)
  BY DEF ReadReturns, ReadlineReturns, BufferInv, BufferTypeOK
<1>2. \E i \in bytes_read .. bytes_written : Consume(i)
  <2>1. CASE ReadReturns
    BY <2>1, ReadHasEnough DEF ReadReturns
  <2>2. CASE ReadlineReturns
    <3>1. LineEnd \in bytes_read .. bytes_written
      BY <2>2, ReadlineHasLine DEF BufferInv, BufferTypeOK
    <3> QED
      BY <2>2, <3>1 DEF ReadlineReturns
  <2> QED
    BY <2>1, <2>2
<1>3. /\ buffer' \in Seq(Bytes)
      /\ bytes_written' \in Nat /\ bytes_read' \in Nat
      /\ bytes_written' = Len(buffer') /\ bytes_read' <= bytes_written'
      /\ bytes_read' = bytes_written' => bytes_written' = 0
  BY <1>1, <1>2, ConsumeLeavesTheRest
<1> QED
  BY <1>1, <1>3 DEF BufferInv, BufferTypeOK, NoCall, Line

(* It holds of an empty buffer.                                            *)
LEMMA BufferInitInv == wire = <<>> /\ BufferInit => BufferInv
  BY EmptySeq DEF BufferInit, BufferInv, BufferTypeOK, NoCall, Line

(* The steps that only start or end a call, or send.                       *)
LEMMA BufferInvKept ==
  ASSUME BufferInv, [BufferNext]_<<wire, bufferVars>> PROVE BufferInv'
<1>1. CASE UNCHANGED <<wire, bufferVars>>
  BY <1>1 DEF bufferVars, BufferInv, BufferTypeOK, NoLine, HasLine, LineEnds
<1>2. ASSUME NEW data \in Seq(Bytes), Send(data) PROVE BufferInv'
  <2>1. wire' \in Seq(Bytes)
    BY <1>2, ConcatProperties DEF Send, BufferInv, BufferTypeOK
  <2> QED
    BY <1>2, <2>1
       DEF Send, bufferVars, BufferInv, BufferTypeOK, NoLine, HasLine, LineEnds
<1>3. ASSUME NEW n \in Nat, CallRead(n) PROVE BufferInv'
  BY <1>3 DEF CallRead, BufferInv, BufferTypeOK, NoCall, Line
<1>4. ASSUME NEW n \in Nat, Recv(n) PROVE BufferInv'
  BY <1>4, RecvKeeps
<1>5. CASE CallReadline
  BY <1>5 DEF CallReadline, BufferInv, BufferTypeOK, NoCall, Line, NoLine, HasLine, LineEnds
<1>6. CASE ReadReturns \/ ReadlineReturns
  BY <1>6, ReturnKeeps
<1>7. CASE Raise
  BY <1>7 DEF Raise, BufferInv, BufferTypeOK, NoCall, Line
<1> QED
  BY <1>1, <1>2, <1>3, <1>4, <1>5, <1>6, <1>7 DEF BufferNext

(* It holds of every buffer.                                               *)
LEMMA BufferInvariant == BufferSpec => []BufferInv
  BY BufferInitInv, BufferInvKept, PTL DEF BufferSpec

(* What a call gives is the front of what is pending, and the rest stays.  *)
LEMMA StepIsExact == ASSUME BufferInv PROVE ReadStep
<1>1. ASSUME ReadReturns
      PROVE  Len(ReadResult) = asked /\ Pending = ReadResult \o Pending'
  <2>1. /\ bytes_read + asked \in bytes_read .. bytes_written
        /\ Len(ReadResult) = asked
        /\ Consume(bytes_read + asked) /\ wire' = wire
    BY <1>1, ReadHasEnough DEF ReadReturns
  <2>2. Pending' = SubSeq(buffer, (bytes_read + asked) + 1, bytes_written) \o wire
    BY <2>1, ConsumeLeavesTheRest
  <2>3. Pending = ReadResult \o (SubSeq(buffer, (bytes_read + asked) + 1, bytes_written) \o wire)
    BY <2>1, PendingIsCut DEF ReadResult
  <2> QED
    BY <2>1, <2>2, <2>3
<1>2. ASSUME ReadlineReturns
      PROVE  /\ \A j \in 1 .. Len(LineResult) : LineResult[j] # LF
             /\ Pending = LineResult \o CRLF \o Pending'
  <2>1. LineEnd \in bytes_read .. bytes_written /\ Consume(LineEnd) /\ wire' = wire
    BY <1>2, ReadlineHasLine DEF ReadlineReturns, BufferInv, BufferTypeOK
  <2>2. Pending' = SubSeq(buffer, LineEnd + 1, bytes_written) \o wire
    BY <2>1, ConsumeLeavesTheRest
  <2>3. Pending = SubSeq(buffer, bytes_read + 1, LineEnd)
                    \o (SubSeq(buffer, LineEnd + 1, bytes_written) \o wire)
    BY <2>1, PendingIsCut
  <2> QED
    BY <1>2, <2>2, <2>3, LineIsCut DEF CRLF
<1>3. ASSUME NEW n \in 1 .. Len(wire), Recv(n) PROVE Pending' = Pending
  <2>1. n \in Nat
    BY LenProperties DEF BufferInv, BufferTypeOK
  <2> QED
    BY <1>3, <2>1, RecvKeeps
<1>4. ASSUME Raise PROVE Pending' = Pending
  BY <1>4 DEF Raise, Pending
<1> QED
  BY <1>1, <1>2, <1>3, <1>4 DEF ReadStep

-----------------------------------------------------------------------------
(* The read buffer is type-correct: no call ever lacks less than nothing.  *)
THEOREM BufferTypeCorrect == BufferSpec => []BufferTypeOK
<1>1. BufferInv => BufferTypeOK
  BY DEF BufferInv
<1> QED
  BY <1>1, BufferInvariant, PTL

(* Whatever the sizes of the pieces, each call of read and readline takes  *)
(* what it was asked for from the front of the stream, and nothing is lost,*)
(* repeated or reordered.                                                  *)
THEOREM ReadsAreCorrect == BufferSpec => ReadsAreExact
<1>1. ASSUME BufferInv PROVE [ReadStep]_<<wire, bufferVars>>
  BY <1>1, StepIsExact
<1> QED
  BY <1>1, BufferInvariant, PTL DEF ReadsAreExact

-----------------------------------------------------------------------------
(* The nodes on the wire.                                                  *)

(* The one-line answers are messages of one node, too.                     *)
Lines == {"+", "-"} \X LineTexts

Coded(node) ==
  IF node[1] \in {"+", "-"} THEN <<node[1]>> \o node[2] \o CRLF ELSE Packed(node)

Mark(node) ==
  CASE node[1] \in {"+", "-"} -> node[1]
    [] node[1] \in {"null", "str"} -> "$"
    [] node[1] = "bytes" -> "^"
    [] node[1] = "list" -> "*"
    [] node[1] = "dict" -> "%"
    [] OTHER -> Scalars[node[1]]

LineOf(node) ==
  CASE node[1] = "null" -> <<Text[-1]>>
    [] node[1] \in {"str", "bytes"} -> <<Text[Len(node[2])]>>
    [] node[1] \in {"list", "dict"} -> <<Text[node[2]]>>
    [] OTHER -> node[2]

TailOf(node) == IF node[1] \in {"str", "bytes"} THEN node[2] \o CRLF ELSE <<>>

(* The kinds of nodes.                                                     *)
IsLine(node) == node[1] \in {"int", "float", "bool", "+", "-"} /\ node[2] \in LineTexts

IsBlob(node) ==
  node[1] \in {"str", "bytes"} /\ node[2] \in Seq(Bytes) /\ Len(node[2]) \in 0 .. MaxLength

IsList(node) == node[1] \in {"list", "dict"} /\ node[2] \in 0 .. MaxLength

(* A node is a line, bytes of a stated length, a list or the null.         *)
LEMMA NodeForms ==
  ASSUME NEW node \in Nodes \cup Lines
  PROVE  /\ node = <<node[1], node[2]>>
         /\ IsLine(node) \/ IsBlob(node) \/ IsList(node) \/ node = Null
<1>1. CASE node \in ({"int", "float", "bool"} \X LineTexts) \cup Lines
  BY <1>1 DEF Lines, IsLine
<1>2. CASE node \in {"str", "bytes"} \X {of \in Seq(Bytes) : Len(of) <= MaxLength}
  BY <1>2, CodecAssumption DEF IsBlob
<1>3. CASE node \in {"list", "dict"} \X (0 .. MaxLength)
  BY <1>3 DEF IsList
<1>4. CASE node = Null
  BY <1>4 DEF Null
<1> QED
  BY <1>1, <1>2, <1>3, <1>4 DEF Nodes

(* A line has no CR and no LF.                                             *)
LEMMA LineTextIs ==
  ASSUME NEW text \in LineTexts
  PROVE  text \in Seq(Bytes) /\ \A i \in 1 .. Len(text) : text[i] # LF /\ text[i] # CR
  BY DEF LineTexts

(* The end of a line is two bytes.                                         *)
LEMMA CRLFIs == CRLF \in Seq(Bytes) /\ Len(CRLF) = 2 /\ CRLF[1] = CR /\ CRLF[2] = LF
  BY LineEndAssumption DEF CRLF

(* The first byte of a value, and the text of a length.                    *)
LEMMA SymbolsAre ==
  /\ Punctuation \subseteq Bytes /\ MaxLength \in Nat
  /\ \A n \in -1 .. MaxLength : Text[n] \in Bytes /\ <<Text[n]>> \in LineTexts
  BY CodecAssumption DEF LineTexts

(* The first byte tells the kinds of nodes apart.                          *)
LEMMA MarksAre ==
  ASSUME NEW node, IsLine(node) \/ IsBlob(node) \/ IsList(node) \/ node = Null
  PROVE  /\ Mark(node) \in Punctuation
         /\ IsBlob(node) => Mark(node) = IF node[1] = "str" THEN "$" ELSE "^"
         /\ IsList(node) => Mark(node) = IF node[1] = "list" THEN "*" ELSE "%"
         /\ node = Null => Mark(node) = "$"
         /\ IsLine(node) =>
              Mark(node) = IF node[1] \in {"+", "-"} THEN node[1] ELSE Scalars[node[1]]
<1>1. CASE IsLine(node)
  <2>1. node[1] \in {"int", "float", "bool", "+", "-"}
    BY <1>1 DEF IsLine
  <2>2. Mark(node) = IF node[1] \in {"+", "-"} THEN node[1] ELSE Scalars[node[1]]
    BY <2>1 DEF Mark
  <2>3. /\ Scalars["int"] \in Punctuation /\ Scalars["float"] \in Punctuation
        /\ Scalars["bool"] \in Punctuation
    BY DEF Scalars, Punctuation
  <2>4. "+" \in Punctuation /\ "-" \in Punctuation
    BY DEF Punctuation
  <2>5. ~IsBlob(node) /\ ~IsList(node) /\ node # Null
    BY <2>1 DEF IsBlob, IsList, Null
  <2> QED
    BY <2>1, <2>2, <2>3, <2>4, <2>5
<1>2. CASE IsBlob(node)
  <2>1. node[1] \in {"str", "bytes"}
    BY <1>2 DEF IsBlob
  <2>2. Mark(node) = IF node[1] = "str" THEN "$" ELSE "^"
    BY <2>1 DEF Mark
  <2>3. ~IsLine(node) /\ ~IsList(node) /\ node # Null
    BY <2>1 DEF IsLine, IsList, Null
  <2> QED
    BY <2>1, <2>2, <2>3 DEF Punctuation
<1>3. CASE IsList(node)
  <2>1. node[1] \in {"list", "dict"}
    BY <1>3 DEF IsList
  <2>2. Mark(node) = IF node[1] = "list" THEN "*" ELSE "%"
    BY <2>1 DEF Mark
  <2>3. ~IsLine(node) /\ ~IsBlob(node) /\ node # Null
    BY <2>1 DEF IsLine, IsBlob, Null
  <2> QED
    BY <2>1, <2>2, <2>3 DEF Punctuation
<1>4. CASE node = Null
  <2>1. node[1] = "null"
    BY <1>4 DEF Null
  <2>2. Mark(node) = "$"
    BY <2>1 DEF Mark
  <2>3. ~IsLine(node) /\ ~IsBlob(node) /\ ~IsList(node)
    BY <2>1 DEF IsLine, IsBlob, IsList
  <2> QED
    BY <1>4, <2>2, <2>3 DEF Punctuation
<1> QED
  BY <1>1, <1>2, <1>3, <1>4

(* One after the other: \o, under a name that the provers do not rewrite.  *)
Glue(a, b) == a \o b

(* What holds of \o.                                                       *)
LEMMA GlueIs ==
  /\ \A a, b \in Seq(Bytes) : Glue(a, b) \in Seq(Bytes)
  /\ \A a, b, c \in Seq(Bytes) : Glue(Glue(a, b), c) = Glue(a, Glue(b, c))
  /\ \A a \in Seq(Bytes) : Glue(a, <<>>) = a /\ Glue(<<>>, a) = a
<1>1. \A a, b \in Seq(Bytes) : Glue(a, b) \in Seq(Bytes)
  BY ConcatProperties DEF Glue
<1>2. \A a, b, c \in Seq(Bytes) : Glue(Glue(a, b), c) = Glue(a, Glue(b, c))
  BY ConcatAssociative DEF Glue
<1>3. \A a \in Seq(Bytes) : Glue(a, <<>>) = a /\ Glue(<<>>, a) = a
  BY ConcatEmptySeq, Zenon DEF Glue
<1> QED
  BY <1>1, <1>2, <1>3

(* Three parts, and five.                                                  *)
LEMMA GlueThree ==
  ASSUME NEW x \in Seq(Bytes), NEW y \in Seq(Bytes), NEW e \in Seq(Bytes)
  PROVE  Glue(Glue(x, y), e) = Glue(x, Glue(y, e))
  BY GlueIs

(* Four of them, with the terminator twice.                                *)
LEMMA GlueFive ==
  ASSUME NEW x \in Seq(Bytes), NEW y \in Seq(Bytes), NEW e \in Seq(Bytes), NEW of \in Seq(Bytes)
  PROVE  Glue(Glue(Glue(x, Glue(y, e)), of), e) = Glue(x, Glue(y, Glue(e, Glue(of, e))))
  BY GlueIs

(* One byte.                                                               *)
LEMMA SingleIs == \A c \in Bytes : <<c>> \in Seq(Bytes)
  OBVIOUS

(* A sequence is cut at a length in one way.                               *)
LEMMA SameFront ==
  ASSUME NEW a \in Seq(Bytes), NEW b \in Seq(Bytes), NEW c \in Seq(Bytes), NEW d \in Seq(Bytes),
         Glue(a, b) = Glue(c, d), Len(a) = Len(c)
  PROVE  a = c /\ b = d
<1>1. \A i \in 1 .. Len(a) : a[i] = (a \o b)[i] /\ c[i] = (c \o d)[i]
  BY ConcatProperties
<1>2. a = c
  BY <1>1, SeqEqual DEF Glue
<1>3. Len(b) = Len(d) /\ \A i \in 1 .. Len(b) : b[i] = (a \o b)[Len(a) + i]
                                                   /\ d[i] = (c \o d)[Len(c) + i]
  <2>1. Len(a \o b) = Len(a) + Len(b) /\ Len(c \o d) = Len(c) + Len(d)
    BY ConcatProperties
  <2>2. Len(b) = Len(d)
    BY <2>1 DEF Glue
  <2> QED
    BY <2>2, ConcatProperties
<1>4. b = d
  BY <1>3, SeqEqual DEF Glue
<1> QED
  BY <1>2, <1>4

(* The line that states a length.                                          *)
LEMMA HeaderIs ==
  ASSUME NEW c \in Bytes, NEW n \in -1 .. MaxLength
  PROVE  Header(c, n) = Glue(<<c>>, Glue(<<Text[n]>>, CRLF))
<1>1. PICK x, y, o : x = <<c>> /\ y = <<Text[n]>> /\ o = <<c, Text[n]>>
  OBVIOUS
<1>2. x \in Seq(Bytes) /\ y \in Seq(Bytes) /\ o = Glue(x, y)
  BY <1>1, SymbolsAre DEF Glue
<1>3. Header(c, n) = Glue(o, CRLF)
  BY <1>1 DEF Header, Glue
<1>4. Glue(Glue(x, y), CRLF) = Glue(x, Glue(y, CRLF))
  BY <1>2, CRLFIs, GlueThree
<1> QED
  BY <1>1, <1>2, <1>3, <1>4

(* Each node begins with a mark, states a line and may have a tail.        *)
LEMMA CodedIs ==
  ASSUME NEW node \in Nodes \cup Lines
  PROVE  /\ Mark(node) \in Bytes /\ LineOf(node) \in LineTexts /\ TailOf(node) \in Seq(Bytes)
         /\ Coded(node) = Glue(<<Mark(node)>>, Glue(LineOf(node), Glue(CRLF, TailOf(node))))
<1>1. Mark(node) \in Bytes
  BY NodeForms, MarksAre, SymbolsAre
<1>2. PICK x \in Seq(Bytes) : x = <<Mark(node)>>
  <2>1. <<Mark(node)>> \in Seq(Bytes)
    BY <1>1, SingleIs
  <2> QED
    BY <2>1
<1>3. CASE IsLine(node)
  <2>1. LineOf(node) = node[2] /\ TailOf(node) = <<>>
    BY <1>3 DEF IsLine, LineOf, TailOf
  <2>2. Coded(node) = Glue(Glue(<<Mark(node)>>, node[2]), CRLF)
    <3>1. CASE node[1] \in {"+", "-"}
      BY <1>3, <3>1, MarksAre DEF Coded, Glue
    <3>2. CASE node[1] \notin {"+", "-"}
      BY <1>3, <3>2, MarksAre DEF Coded, Packed, IsLine, Glue
    <3> QED
      BY <3>1, <3>2
  <2>3. node[2] \in LineTexts /\ node[2] \in Seq(Bytes)
    BY <1>3, LineTextIs DEF IsLine
  <2>4. Coded(node) = Glue(x, Glue(node[2], Glue(CRLF, <<>>)))
    <3>1. Glue(Glue(x, node[2]), CRLF) = Glue(x, Glue(node[2], CRLF))
      BY <1>2, <2>3, CRLFIs, GlueThree
    <3>2. Glue(CRLF, <<>>) = CRLF
      BY CRLFIs, GlueIs
    <3> QED
      BY <1>2, <2>2, <3>1, <3>2
  <2> QED
    BY <1>1, <1>2, <2>1, <2>3, <2>4
<1>4. CASE IsBlob(node)
  <2>1. PICK c, of, n : c = Mark(node) /\ of = node[2] /\ n = Len(of)
    OBVIOUS
  <2>2. c \in Bytes /\ n \in -1 .. MaxLength /\ of \in Seq(Bytes)
    BY <1>1, <1>4, <2>1 DEF IsBlob
  <2>3. LineOf(node) = <<Text[n]>> /\ TailOf(node) = Glue(of, CRLF)
    BY <1>4, <2>1 DEF LineOf, TailOf, IsBlob, Glue
  <2>4. Coded(node) = Glue(Glue(Header(c, n), of), CRLF)
    BY <1>4, <2>1, MarksAre DEF Coded, Packed, IsBlob, Glue
  <2>5. PICK y \in Seq(Bytes) : y = <<Text[n]>>
    <3>1. <<Text[n]>> \in Seq(Bytes)
      BY <2>2, SymbolsAre, SingleIs
    <3> QED
      BY <3>1
  <2>6. Header(c, n) = Glue(x, Glue(y, CRLF))
    BY <1>2, <2>1, <2>2, <2>5, HeaderIs
  <2>7. Glue(Glue(Glue(x, Glue(y, CRLF)), of), CRLF) = Glue(x, Glue(y, Glue(CRLF, Glue(of, CRLF))))
    <3>1. x \in Seq(Bytes) /\ y \in Seq(Bytes) /\ CRLF \in Seq(Bytes) /\ of \in Seq(Bytes)
      BY <1>2, <2>2, <2>5, CRLFIs
    <3> QED
      BY <3>1, GlueFive
  <2>8. LineOf(node) \in LineTexts
    BY <2>2, <2>3, SymbolsAre
  <2>9. TailOf(node) \in Seq(Bytes)
    BY <2>2, <2>3, CRLFIs, GlueIs
  <2> QED
    BY <1>1, <1>2, <2>3, <2>4, <2>5, <2>6, <2>7, <2>8, <2>9
<1>5. CASE IsList(node) \/ node = Null
  <2>1. PICK c, n : c = Mark(node) /\ n = IF node = Null THEN -1 ELSE node[2]
    OBVIOUS
  <2>2. c \in Bytes /\ n \in -1 .. MaxLength
    BY <1>1, <1>5, <2>1, SymbolsAre DEF IsList
  <2>3. LineOf(node) = <<Text[n]>> /\ TailOf(node) = <<>>
    BY <1>5, <2>1 DEF LineOf, TailOf, Null, IsList
  <2>4. Coded(node) = Header(c, n)
    <3>1. CASE node = Null
      BY <2>1, <3>1, MarksAre DEF Coded, Packed, Null
    <3>2. CASE IsList(node) /\ node # Null
      BY <2>1, <3>2, MarksAre DEF Coded, Packed, IsList
    <3> QED
      BY <1>5, <3>1, <3>2
  <2>5. LineOf(node) \in LineTexts /\ TailOf(node) \in Seq(Bytes)
    BY <2>2, <2>3, SymbolsAre
  <2>6. Header(c, n) = Glue(<<c>>, Glue(<<Text[n]>>, CRLF))
    BY <2>2, HeaderIs
  <2>7. Glue(CRLF, <<>>) = CRLF
    BY CRLFIs, GlueIs
  <2> QED
    BY <1>1, <2>1, <2>3, <2>4, <2>5, <2>6, <2>7
<1> QED
  BY <1>3, <1>4, <1>5, NodeForms

-----------------------------------------------------------------------------
(* Values: how many are lacking after each node, and what is still to come *)
(* on the wire.                                                            *)

(* Only a list or a dict that is not empty has something following.        *)
LEMMA FollowingIs ==
  ASSUME NEW node \in Nodes \cup Lines
  PROVE  /\ Following(node) \in Nat
         /\ ~IsList(node) => Following(node) = 0
         /\ IsList(node) => /\ Following(node) = Items(node[1], node[2])
                            /\ node[2] # 0 => Following(node) >= 1
<1>1. CASE IsList(node)
  BY <1>1, SymbolsAre DEF IsList, Following, Items
<1>2. CASE ~IsList(node)
  <2>1. node[1] \notin {"list", "dict"}
    BY <1>2, NodeForms DEF IsList, IsLine, IsBlob, Null
  <2> QED
    BY <1>2, <2>1 DEF Following
<1> QED
  BY <1>1, <1>2

(* Lacking is what its recursive definition says.                          *)
Counting(f, v) ==
  /\ f \in [0 .. Len(v) -> Int]
  /\ f[0] = 1
  /\ \A k \in 1 .. Len(v) : f[k] = f[k - 1] - 1 + Following(v[k])

(* Lacking counts what each node adds.                                     *)
LEMMA LackingIs ==
  ASSUME NEW v \in Seq(Nodes \cup Lines)
  PROVE  Counting(Lacking(v), v)
<1> DEFINE n == Len(v)
           IsLacking(g) == g = [k \in 0 .. n |-> IF k = 0 THEN 1
                                                 ELSE g[k - 1] - 1 + Following(v[k])]
           chosen == CHOOSE g : IsLacking(g)
<1>1. n \in Nat /\ \A i \in 1 .. n : v[i] \in Nodes \cup Lines
  OBVIOUS
<1>2. \A i \in 1 .. n : Following(v[i]) \in Nat
  BY <1>1, FollowingIs
<1>3. PICK F : F = [i \in 1 .. n |-> [x \in Int |-> x - 1 + Following(v[i])]]
  OBVIOUS
<1>4. \A i \in 1 .. n : \A x \in Int : F[i][x] = x - 1 + Following(v[i]) /\ F[i][x] \in Int
  <2> HIDE DEF n
  <2> QED
    BY <1>2, <1>3
<1>5. PICK f : Recursion(f, Int, n, 1, F)
  <2>1. 1 \in Int
    OBVIOUS
  <2> HIDE DEF n
  <2> QED
    BY <1>1, <1>4, <2>1, RecursionExists
<1>6. \A i \in 1 .. n : f[i] = f[i - 1] - 1 + Following(v[i])
  <2> TAKE i \in 1 .. n
  <2>1. i - 1 \in 0 .. n /\ f[i - 1] \in Int
    <3> HIDE DEF n
    <3> QED
      BY <1>1, <1>5 DEF Recursion
  <2> HIDE DEF n
  <2> QED
    BY <2>1, <1>4, <1>5 DEF Recursion
<1>7. f \in [0 .. n -> Int] /\ f[0] = 1
  BY <1>5 DEF Recursion
<1>8. IsLacking(f)
  <2> SUFFICES ASSUME NEW k \in 0 .. n
               PROVE  f[k] = IF k = 0 THEN 1 ELSE f[k - 1] - 1 + Following(v[k])
    BY <1>7
  <2> HIDE DEF n
  <2> QED
    BY <1>1, <1>6, <1>7
<1>9. chosen = [k \in 0 .. n |-> IF k = 0 THEN 1 ELSE chosen[k - 1] - 1 + Following(v[k])]
  <2>1. IsLacking(chosen)
    BY <1>8
  <2> QED
    BY <2>1
<1>10. Lacking(v) = chosen
  BY DEF Lacking
<1>11. Alike(chosen, f, n)
  <2> HIDE DEF chosen, n
  <2>1. chosen[0] = 1
    BY <1>1, <1>9
  <2>2. \A i \in 1 .. n : chosen[i] = chosen[i - 1] - 1 + Following(v[i])
    BY <1>1, <1>9
  <2> QED
    BY <1>6, <1>7, <2>1, <2>2 DEF Alike
<1>12. \A i \in 0 .. n : chosen[i] = f[i]
  <2> HIDE DEF chosen, n
  <2> QED
    BY <1>1, <1>11, RecursionUnique
<1>13. chosen = f
  <2>1. chosen = [i \in 0 .. n |-> chosen[i]]
    BY <1>9
  <2> HIDE DEF chosen, n
  <2> QED
    BY <1>7, <1>12, <2>1
<1> QED
  BY <1>6, <1>7, <1>10, <1>13 DEF Counting

(* What remains of the wire after each node.                               *)
Coding(rest, v) ==
  /\ rest \in [0 .. Len(v) -> Seq(Bytes)]
  /\ rest[Len(v)] = <<>>
  /\ \A k \in 1 .. Len(v) : rest[k - 1] = Glue(Coded(v[k]), rest[k])

(* A packed node is bytes.                                                 *)
LEMMA CodedIsBytes == \A node \in Nodes \cup Lines : Coded(node) \in Seq(Bytes)
<1> SUFFICES ASSUME NEW node \in Nodes \cup Lines
             PROVE  Coded(node) \in Seq(Bytes)
  OBVIOUS
<1>1. /\ <<Mark(node)>> \in Seq(Bytes) /\ LineOf(node) \in Seq(Bytes)
      /\ TailOf(node) \in Seq(Bytes) /\ CRLF \in Seq(Bytes)
  BY CodedIs, SingleIs, LineTextIs, CRLFIs
<1>2. Glue(<<Mark(node)>>, Glue(LineOf(node), Glue(CRLF, TailOf(node)))) \in Seq(Bytes)
  BY <1>1, GlueIs
<1> QED
  BY <1>2, CodedIs

(* Every sequence of nodes has such parts.                                 *)
LEMMA CodingExists ==
  ASSUME NEW v \in Seq(Nodes \cup Lines)
  PROVE  \E rest : Coding(rest, v)
<1>1. PICK n : n = Len(v)
  OBVIOUS
<1>2. n \in Nat /\ \A i \in 1 .. n : v[i] \in Nodes \cup Lines
  BY <1>1
<1>3. PICK F : F = [i \in 1 .. n |-> [x \in Seq(Bytes) |-> Glue(Coded(v[n - i + 1]), x)]]
  OBVIOUS
<1>4. \A i \in 1 .. n : n - i + 1 \in 1 .. n /\ Coded(v[n - i + 1]) \in Seq(Bytes)
  BY <1>2, CodedIsBytes
<1>5. \A i \in 1 .. n : \A x \in Seq(Bytes) :
        F[i][x] = Glue(Coded(v[n - i + 1]), x) /\ F[i][x] \in Seq(Bytes)
  BY <1>3, <1>4, GlueIs
<1>6. <<>> \in Seq(Bytes)
  OBVIOUS
<1>7. PICK f : Recursion(f, Seq(Bytes), n, <<>>, F)
  BY <1>2, <1>5, <1>6, RecursionExists
<1>8. f \in [0 .. n -> Seq(Bytes)] /\ f[0] = <<>>
  BY <1>7 DEF Recursion
<1>9. PICK rest : rest = [k \in 0 .. n |-> f[n - k]]
  OBVIOUS
<1>10. rest \in [0 .. n -> Seq(Bytes)]
  BY <1>2, <1>8, <1>9
<1>11. rest[n] = <<>>
  <2>1. n \in 0 .. n /\ n - n = 0
    BY <1>2
  <2> QED
    BY <2>1, <1>8, <1>9
<1>12. \A k \in 1 .. n : rest[k - 1] = Glue(Coded(v[k]), rest[k])
  <2> TAKE k \in 1 .. n
  <2>1. PICK i : i = n - k + 1
    OBVIOUS
  <2>2. i \in 1 .. n /\ n - i + 1 = k /\ i - 1 = n - k /\ n - (k - 1) = i
    BY <2>1, <1>2
  <2>3. rest[k] = f[i - 1] /\ rest[k - 1] = f[i]
    <3>1. k \in 0 .. n /\ k - 1 \in 0 .. n
      BY <1>2
    <3> QED
      BY <1>9, <2>2, <3>1
  <2>4. f[i] = F[i][f[i - 1]] /\ f[i - 1] \in Seq(Bytes)
    <3>1. i - 1 \in 0 .. n
      BY <1>2, <2>2
    <3> QED
      BY <1>7, <1>8, <2>2, <3>1 DEF Recursion
  <2>5. F[i][f[i - 1]] = Glue(Coded(v[n - i + 1]), f[i - 1])
    BY <1>5, <2>2, <2>4
  <2> QED
    BY <2>2, <2>3, <2>4, <2>5
<1> QED
  BY <1>1, <1>10, <1>11, <1>12 DEF Coding

(* pack_resp sends just that.                                              *)
LEMMA PackedIsCoding ==
  ASSUME NEW v \in Seq(Nodes), NEW rest, Coding(rest, v)
  PROVE  pack_resp(v) = rest[0]
<1>1. PICK n : n = Len(v)
  OBVIOUS
<1>2. n \in Nat /\ \A i \in 1 .. n : v[i] \in Nodes \cup Lines /\ v[i] \in Nodes
  BY <1>1
<1>3. PICK parts : parts = [i \in 1 .. n |-> Packed(v[i])]
  OBVIOUS
<1>4. \A i \in 1 .. n : parts[i] = Coded(v[i]) /\ parts[i] \in Seq(Bytes)
  <2> TAKE i \in 1 .. n
  <2>1. v[i][1] \notin {"+", "-"}
    <3>1. v[i] \in Nodes
      BY <1>2
    <3> QED
      BY <3>1 DEF Nodes, Null
  <2>2. Coded(v[i]) = Packed(v[i])
    BY <2>1 DEF Coded
  <2> QED
    BY <1>2, <1>3, <2>2, CodedIsBytes
<1>5. Len(parts) = n /\ (n = 0 => parts = <<>>)
  <2>1. parts \in Seq(Seq(Bytes)) /\ DOMAIN parts = 1 .. n
    BY <1>2, <1>3, <1>4
  <2> QED
    BY <1>2, <2>1
<1>6. PICK flat : Flattening(flat, Bytes, parts, n) /\ FlattenSeq(parts) = flat[n]
  BY <1>2, <1>4, <1>5, FlattenSeqIs
<1>7. /\ flat \in [0 .. n -> Seq(Bytes)] /\ flat[0] = <<>>
      /\ \A i \in 1 .. n : flat[i] = Glue(flat[i - 1], parts[i])
  BY <1>6 DEF Flattening, Glue
<1>8. rest \in [0 .. n -> Seq(Bytes)] /\ rest[n] = <<>>
  BY <1>1 DEF Coding
<1> DEFINE S == {k \in 0 .. n : Glue(flat[k], rest[k]) = rest[0]}
<1>9. 0 \in S
  <2>1. rest[0] \in Seq(Bytes)
    BY <1>2, <1>8
  <2>2. Glue(<<>>, rest[0]) = rest[0]
    BY <2>1, GlueIs
  <2> QED
    BY <1>2, <1>7, <2>2
<1>10. \A k \in 0 .. n - 1 : k \in S => k + 1 \in S
  <2> SUFFICES ASSUME NEW k \in 0 .. n - 1, Glue(flat[k], rest[k]) = rest[0]
               PROVE  Glue(flat[k + 1], rest[k + 1]) = rest[0]
    BY <1>2
  <2>1. k + 1 \in 1 .. n /\ (k + 1) - 1 = k /\ k \in 0 .. n /\ k + 1 \in 0 .. n
    BY <1>2
  <2>2. flat[k + 1] = Glue(flat[k], parts[k + 1])
    BY <1>7, <2>1
  <2>3. rest[k] = Glue(parts[k + 1], rest[k + 1])
    BY <1>1, <1>4, <2>1 DEF Coding
  <2>4. flat[k] \in Seq(Bytes) /\ parts[k + 1] \in Seq(Bytes) /\ rest[k + 1] \in Seq(Bytes)
    BY <1>4, <1>7, <1>8, <2>1
  <2>5. Glue(Glue(flat[k], parts[k + 1]), rest[k + 1])
          = Glue(flat[k], Glue(parts[k + 1], rest[k + 1]))
    BY <2>4, GlueThree
  <2> QED
    BY <2>2, <2>3, <2>5
<1>11. \A k \in 0 .. n : k \in S
  <2> HIDE DEF S
  <2> QED
    BY <1>2, <1>9, <1>10, InductionTo
<1>12. Glue(flat[n], <<>>) = rest[0]
  <2>1. n \in S
    BY <1>2, <1>11
  <2> QED
    BY <1>8, <2>1
<1>13. flat[n] \in Seq(Bytes)
  BY <1>2, <1>7
<1>14. flat[n] = rest[0]
  BY <1>12, <1>13, GlueIs
<1> QED
  BY <1>1, <1>3, <1>6, <1>14 DEF pack_resp

-----------------------------------------------------------------------------
(* The stack of a reading machine owes as many values as are lacking.      *)

Stacks == Seq(Nat \ {0})

Owing(f, stack) ==
  /\ f \in [0 .. Len(stack) -> Nat \ {0}]
  /\ f[0] = 1
  /\ \A i \in 1 .. Len(stack) : f[i] = f[i - 1] + stack[i] - 1

Owes(stack, m) == \E f : Owing(f, stack) /\ f[Len(stack)] = m

(* Outside of every list one value is owed.                                *)
LEMMA OwesNothing == <<>> \in Stacks /\ Owes(<<>>, 1)
<1>1. PICK f : f = [i \in {0} |-> 1]
  OBVIOUS
<1>2. f \in [0 .. 0 -> Nat \ {0}] /\ f[0] = 1
  BY <1>1
<1>3. Owing(f, <<>>)
  BY <1>2 DEF Owing
<1> QED
  BY <1>2, <1>3 DEF Owes, Stacks

(* An inner list adds its items, but one.                                  *)
LEMMA OwesAppend ==
  ASSUME NEW stack \in Stacks, NEW m, Owes(stack, m), NEW n \in Nat \ {0}
  PROVE  Append(stack, n) \in Stacks /\ Owes(Append(stack, n), m + n - 1)
<1>1. PICK f : Owing(f, stack) /\ f[Len(stack)] = m
  BY DEF Owes
<1>2. PICK k : k = Len(stack)
  OBVIOUS
<1>3. k \in Nat /\ k \in 0 .. k
  BY <1>2 DEF Stacks
<1>4. /\ f \in [0 .. k -> Nat \ {0}] /\ f[0] = 1 /\ f[k] = m
      /\ \A i \in 1 .. k : f[i] = f[i - 1] + stack[i] - 1
  BY <1>1, <1>2 DEF Owing
<1>5. m \in Nat \ {0}
  BY <1>3, <1>4
<1>6. PICK more : more = Append(stack, n)
  OBVIOUS
<1>7. /\ more \in Stacks /\ Len(more) = k + 1
      /\ \A i \in 1 .. k : more[i] = stack[i]
      /\ more[k + 1] = n
  BY <1>2, <1>6, AppendProperties DEF Stacks
<1>8. PICK g : g = [i \in 0 .. k + 1 |-> IF i = k + 1 THEN m + n - 1 ELSE f[i]]
  OBVIOUS
<1>9. \A i \in 0 .. k : g[i] = f[i]
  BY <1>3, <1>8
<1>10. g[k + 1] = m + n - 1
  BY <1>3, <1>8
<1>11. g \in [0 .. k + 1 -> Nat \ {0}]
  <2>1. \A i \in 0 .. k + 1 : i = k + 1 \/ f[i] \in Nat \ {0}
    BY <1>3, <1>4
  <2> QED
    BY <1>5, <1>8, <2>1
<1>12. \A i \in 1 .. k + 1 : g[i] = g[i - 1] + more[i] - 1
  <2> TAKE i \in 1 .. k + 1
  <2>1. CASE i = k + 1
    BY <1>3, <1>4, <1>7, <1>9, <1>10, <2>1
  <2>2. CASE i # k + 1
    <3>1. i \in 1 .. k /\ i \in 0 .. k /\ i - 1 \in 0 .. k
      BY <1>3, <2>2
    <3> QED
      BY <1>4, <1>7, <1>9, <3>1
  <2> QED
    BY <2>1, <2>2
<1>13. Owing(g, more)
  <2>1. g[0] = 1
    BY <1>3, <1>4, <1>9
  <2> QED
    BY <1>7, <1>11, <1>12, <2>1 DEF Owing
<1> QED
  BY <1>6, <1>7, <1>10, <1>13 DEF Owes

(* The outer lists owe what they owed.                                     *)
LEMMA OwesFront ==
  ASSUME NEW stack \in Stacks, NEW f, Owing(f, stack), NEW j \in 0 .. Len(stack)
  PROVE  SubSeq(stack, 1, j) \in Stacks /\ Owes(SubSeq(stack, 1, j), f[j])
<1>1. PICK front : front = SubSeq(stack, 1, j)
  OBVIOUS
<1>2. j \in Nat /\ Len(stack) \in Nat /\ j <= Len(stack)
  BY DEF Stacks
<1>3. front \in Stacks /\ Len(front) = j /\ \A i \in 1 .. j : front[i] = stack[i]
  <2>1. \A i \in 1 .. j : stack[i] \in Nat \ {0}
    BY <1>2 DEF Stacks
  <2> QED
    BY <1>1, <1>2, <2>1, SubSeqProperties DEF Stacks
<1>4. PICK g : g = [i \in 0 .. j |-> f[i]]
  OBVIOUS
<1>5. \A i \in 0 .. j : i \in 0 .. Len(stack) /\ g[i] = f[i] /\ f[i] \in Nat \ {0}
  <2> TAKE i \in 0 .. j
  <2>1. i \in 0 .. Len(stack)
    BY <1>2
  <2> QED
    BY <1>4, <2>1 DEF Owing
<1>6. g \in [0 .. j -> Nat \ {0}]
  BY <1>4, <1>5
<1>7. \A i \in 1 .. j : g[i] = g[i - 1] + front[i] - 1
  <2> TAKE i \in 1 .. j
  <2>1. i \in 0 .. j /\ i - 1 \in 0 .. j /\ i \in 1 .. Len(stack)
    BY <1>2
  <2> QED
    BY <1>3, <1>5, <2>1 DEF Owing
<1>8. Owing(g, front)
  <2>1. g[0] = 1
    BY <1>2, <1>5 DEF Owing
  <2> QED
    BY <1>3, <1>6, <1>7, <2>1 DEF Owing
<1>9. g[Len(front)] = f[j]
  BY <1>2, <1>3, <1>5
<1> QED
  BY <1>1, <1>3, <1>8, <1>9 DEF Owes

(* Lists that lack their last item only owe nothing further.               *)
LEMMA OwesFlat ==
  ASSUME NEW stack \in Stacks, NEW f, Owing(f, stack), NEW j \in 0 .. Len(stack),
         \A i \in j + 1 .. Len(stack) : stack[i] = 1
  PROVE  f[Len(stack)] = f[j]
<1>1. PICK k : k = Len(stack)
  OBVIOUS
<1>2. k \in Nat /\ j \in 0 .. k
  BY <1>1 DEF Stacks
<1> DEFINE S == {d \in 0 .. k - j : f[j + d] = f[j]}
<1>3. 0 \in S
  BY <1>2
<1>4. \A d \in 0 .. k - j - 1 : d \in S => d + 1 \in S
  <2> SUFFICES ASSUME NEW d \in 0 .. k - j - 1, f[j + d] = f[j]
               PROVE  f[j + (d + 1)] = f[j]
    BY <1>2
  <2>1. PICK i : i = j + (d + 1)
    OBVIOUS
  <2>2. i \in 1 .. k /\ i \in j + 1 .. k /\ i - 1 = j + d /\ i - 1 \in 0 .. k
    BY <1>2, <2>1
  <2>3. f[i] = f[i - 1] + stack[i] - 1 /\ f[i - 1] \in Nat /\ stack[i] = 1
    BY <1>1, <2>2 DEF Owing
  <2> QED
    BY <2>1, <2>2, <2>3
<1>5. \A d \in 0 .. k - j : d \in S
  <2>1. k - j \in Nat
    BY <1>2
  <2> HIDE DEF S
  <2> QED
    BY <1>3, <1>4, <2>1, InductionTo
<1>6. k - j \in 0 .. k - j /\ j + (k - j) = k
  BY <1>2
<1> QED
  BY <1>1, <1>5, <1>6

(* A set of positions has a greatest one.                                  *)
LEMMA MaxIs ==
  ASSUME NEW n \in Nat, NEW S \in SUBSET (1 .. n), S # {}
  PROVE  Max(S) \in S /\ \A i \in S : i <= Max(S)
<1> DEFINE T == {n - i : i \in S}
<1>0. \A i \in S : i \in 1 .. n /\ n - i \in Nat
  OBVIOUS
<1>1. T \in SUBSET Nat /\ T # {}
  BY <1>0
<1>2. PICK t \in T : \A u \in T : t <= u
  <2> HIDE DEF T
  <2> QED
    BY <1>1, LeastNumber
<1>3. PICK x \in S : t = n - x
  BY <1>2
<1>4. \A y \in S : x >= y
  <2> TAKE y \in S
  <2>1. t <= n - y
    BY <1>2
  <2> QED
    BY <1>3, <2>1
<1>5. Max(S) \in S /\ \A y \in S : Max(S) >= y
  BY <1>3, <1>4 DEF Max
<1> QED
  BY <1>5

(* A machine at the start of a value, in these lists, with these nodes     *)
(* read.                                                                   *)
Starting(stack, nodes) == [Fresh EXCEPT !.stack = stack, !.value = nodes]

Finished(nodes) == [Fresh EXCEPT !.mode = "done", !.value = nodes]

(* A node that lacks nothing pays one of what is owed.                     *)
LEMMA CompletedIs ==
  ASSUME NEW r, r.stack \in Stacks, NEW m, Owes(r.stack, m), NEW node
  PROVE  /\ m \in Nat \ {0}
         /\ m = 1 => Completed(r, node) = Finished(Append(r.value, node))
         /\ m # 1 => \E s \in Stacks :
              /\ Owes(s, m - 1) /\ s # <<>>
              /\ Completed(r, node) = Starting(s, Append(r.value, node))
<1>1. PICK stack : stack = r.stack
  OBVIOUS
<1>2. PICK f : Owing(f, stack) /\ f[Len(stack)] = m
  BY <1>1 DEF Owes
<1>3. PICK k : k = Len(stack)
  OBVIOUS
<1>4. k \in Nat /\ k \in 0 .. k /\ stack \in Stacks
  BY <1>1, <1>3 DEF Stacks
<1>5. m \in Nat \ {0}
  BY <1>2, <1>3, <1>4 DEF Owing
<1>6. PICK more : more = {i \in 1 .. k : stack[i] > 1}
  OBVIOUS
<1>7. CASE more = {}
  <2>1. \A i \in 0 + 1 .. k : stack[i] = 1
    <3> TAKE i \in 0 + 1 .. k
    <3>1. stack[i] \in Nat \ {0} /\ i \in 1 .. k
      BY <1>3, <1>4 DEF Stacks
    <3>2. ~(stack[i] > 1)
      BY <1>6, <1>7, <3>1
    <3> QED
      BY <3>1, <3>2
  <2>2. f[k] = f[0]
    <3>1. 0 \in 0 .. k
      BY <1>4
    <3> QED
      BY <1>2, <1>3, <1>4, <2>1, <3>1, OwesFlat
  <2>3. m = 1
    BY <1>2, <1>3, <2>2 DEF Owing
  <2>4. Completed(r, node) = Finished(Append(r.value, node))
    BY <1>1, <1>3, <1>6, <1>7 DEF Completed, Finished
  <2> QED
    BY <1>5, <2>3, <2>4
<1>8. CASE more # {}
  <2>1. PICK j : j = Max(more)
    OBVIOUS
  <2>2. j \in 1 .. k /\ stack[j] > 1 /\ \A i \in more : i <= j
    <3>1. more \in SUBSET (1 .. k)
      BY <1>6
    <3>2. Max(more) \in more /\ \A i \in more : i <= Max(more)
      BY <1>4, <1>8, <3>1, MaxIs
    <3> QED
      BY <1>6, <2>1, <3>2
  <2>3. j \in Nat /\ j - 1 \in 0 .. k /\ j \in 0 .. k /\ stack[j] \in Nat
    BY <1>3, <1>4, <2>2 DEF Stacks
  <2>4. \A i \in j + 1 .. k : stack[i] = 1
    <3> TAKE i \in j + 1 .. k
    <3>1. i \in 1 .. k /\ ~(i <= j)
      BY <1>4, <2>3
    <3>2. stack[i] \in Nat \ {0}
      BY <1>3, <1>4, <3>1 DEF Stacks
    <3>3. ~(stack[i] > 1)
      BY <1>6, <2>2, <3>1
    <3> QED
      BY <3>2, <3>3
  <2>5. f[k] = f[j]
    BY <1>2, <1>3, <1>4, <2>3, <2>4, OwesFlat
  <2>6. f[j] = f[j - 1] + stack[j] - 1 /\ f[j - 1] \in Nat \ {0}
    BY <1>2, <1>3, <2>2, <2>3 DEF Owing
  <2>7. m # 1 /\ m - 1 = f[j - 1] + (stack[j] - 1) - 1
    BY <1>2, <1>3, <2>2, <2>3, <2>5, <2>6
  <2>8. PICK front : front = SubSeq(stack, 1, j - 1)
    OBVIOUS
  <2>9. front \in Stacks /\ Owes(front, f[j - 1])
    BY <1>2, <1>3, <1>4, <2>3, <2>8, OwesFront
  <2>10. stack[j] - 1 \in Nat \ {0}
    BY <2>2, <2>3
  <2>11. PICK s : s = Append(front, stack[j] - 1)
    OBVIOUS
  <2>12. s \in Stacks /\ Owes(s, m - 1)
    BY <2>7, <2>9, <2>10, <2>11, OwesAppend
  <2>13. s # <<>>
    BY <2>9, <2>10, <2>11, AppendProperties DEF Stacks
  <2>14. Completed(r, node) = Starting(s, Append(r.value, node))
    BY <1>1, <1>3, <1>6, <1>8, <2>1, <2>8, <2>11 DEF Completed, Starting
  <2> QED
    BY <1>5, <2>7, <2>12, <2>13, <2>14
<1> QED
  BY <1>7, <1>8

-----------------------------------------------------------------------------
(* The machine reads a message: a value, or an answer of one line.         *)

Message(v) ==
  /\ v \in Seq(Nodes \cup Lines)
  /\ \A k \in 0 .. Len(v) : Lacking(v)[k] > 0 <=> k < Len(v)
  /\ \A i \in 2 .. Len(v) : v[i] \notin Lines

FirstNodes(v, k) == SubSeq(v, 1, k)

(* It has read k nodes of it.                                              *)
At(r, v, k) ==
  IF k = Len(v) THEN r = Finished(v)
  ELSE \E s \in Stacks : /\ Owes(s, Lacking(v)[k])
                         /\ k = 0 => s = <<>>
                         /\ r = Starting(s, FirstNodes(v, k))

(* The fields of a machine that is before a value.                         *)
LEMMA StartingIs ==
  \A s, nodes : /\ Starting(s, nodes).stack = s /\ Starting(s, nodes).value = nodes
                /\ Starting(s, nodes).mode = "start" /\ Starting(s, nodes).want = 1
                /\ Starting(s, nodes).kind = ""
  BY DEF Starting, Fresh

(* What is known of the node that comes next.                              *)
LEMMA NextIs ==
  ASSUME NEW v, Message(v), NEW k \in 0 .. Len(v), k # Len(v)
  PROVE  /\ Len(v) \in Nat /\ k + 1 \in 1 .. Len(v) /\ k + 1 \in 0 .. Len(v) /\ k \in Nat
         /\ v[k + 1] \in Nodes \cup Lines
         /\ v[k + 1] \in Lines => k = 0
         /\ Following(v[k + 1]) \in Nat
         /\ Lacking(v)[k] \in Nat \ {0} /\ Lacking(v)[k + 1] \in Int
         /\ Lacking(v)[k + 1] = Lacking(v)[k] - 1 + Following(v[k + 1])
         /\ Lacking(v)[k + 1] > 0 <=> k + 1 # Len(v)
         /\ FirstNodes(v, k + 1) = Append(FirstNodes(v, k), v[k + 1])
         /\ FirstNodes(v, Len(v)) = v
<1>1. v \in Seq(Nodes \cup Lines) /\ Len(v) \in Nat
  BY DEF Message
<1>2. k + 1 \in 1 .. Len(v) /\ k + 1 \in 0 .. Len(v) /\ k \in Nat
  BY <1>1
<1>3. v[k + 1] \in Nodes \cup Lines
  BY <1>1, <1>2, ElementOfSeq
<1>4. v[k + 1] \in Lines => k = 0
  <2>1. k = 0 \/ k + 1 \in 2 .. Len(v)
    BY <1>2
  <2> QED
    BY <2>1 DEF Message
<1>5. Counting(Lacking(v), v)
  BY <1>1, LackingIs
<1>6. /\ Lacking(v)[k] \in Int /\ Lacking(v)[k + 1] \in Int
      /\ Lacking(v)[k + 1] = Lacking(v)[k] - 1 + Following(v[k + 1])
  <2>1. (k + 1) - 1 = k
    BY <1>2
  <2> QED
    BY <1>2, <1>5, <2>1 DEF Counting
<1>7. Lacking(v)[k] > 0
  BY <1>1, <1>2 DEF Message
<1>8. Lacking(v)[k + 1] > 0 <=> k + 1 # Len(v)
  BY <1>1, <1>2 DEF Message
<1>9. FirstNodes(v, Len(v)) = v
  BY <1>1, SubSeqFull DEF FirstNodes
<1>10. FirstNodes(v, k + 1) = Append(FirstNodes(v, k), v[k + 1])
  <2>1. SubSeq(v, 1, k + 1) = SubSeq(v, 1, (k + 1) - 1) \o <<v[k + 1]>>
    <3>1. 1 \in 1 .. Len(v) /\ k + 1 \in 1 .. Len(v)
      BY <1>2
    <3> QED
      BY <1>1, <3>1, SubSeqRecursiveSecond
  <2>2. SubSeq(v, 1, k) \in Seq(Nodes \cup Lines)
    <3>1. \A i \in 1 .. k : v[i] \in Nodes \cup Lines
      BY <1>1, <1>2
    <3> QED
      BY <1>2, <3>1, SubSeqProperties
  <2>3. (k + 1) - 1 = k
    BY <1>2
  <2>4. Append(SubSeq(v, 1, k), v[k + 1]) = SubSeq(v, 1, k) \o <<v[k + 1]>>
    BY <1>3, <2>2, AppendIsConcat
  <2> QED
    BY <2>1, <2>3, <2>4 DEF FirstNodes
<1>11. Following(v[k + 1]) \in Nat
  BY <1>3, FollowingIs
<1>12. Lacking(v)[k] \in Nat \ {0}
  BY <1>6, <1>7
<1> QED
  BY <1>1, <1>2, <1>3, <1>4, <1>6, <1>8, <1>9, <1>10, <1>11, <1>12

(* A node without items completes a value ...                              *)
LEMMA CompletedAt ==
  ASSUME NEW v, Message(v), NEW k \in 0 .. Len(v), k # Len(v), NEW r0, At(r0, v, k),
         NEW r, r.stack = r0.stack, r.value = r0.value, Following(v[k + 1]) = 0
  PROVE  At(Completed(r, v[k + 1]), v, k + 1)
<1>1. PICK s \in Stacks : /\ Owes(s, Lacking(v)[k])
                          /\ r0 = Starting(s, FirstNodes(v, k))
  BY DEF At
<1>2. PICK m : m = Lacking(v)[k]
  OBVIOUS
<1>3. r.stack = s /\ r.value = FirstNodes(v, k)
  BY <1>1, StartingIs
<1>4. PICK done : done = Completed(r, v[k + 1])
  OBVIOUS
<1>5. PICK read : read = FirstNodes(v, k + 1)
  OBVIOUS
<1>6. read = Append(r.value, v[k + 1])
  BY <1>3, <1>5, NextIs
<1>61. /\ m \in Nat \ {0}
       /\ m = 1 => Completed(r, v[k + 1]) = Finished(Append(r.value, v[k + 1]))
       /\ m # 1 => \E t \in Stacks :
            /\ Owes(t, m - 1) /\ t # <<>>
            /\ Completed(r, v[k + 1]) = Starting(t, Append(r.value, v[k + 1]))
  <2>1. r.stack \in Stacks /\ Owes(r.stack, m)
    BY <1>1, <1>2, <1>3
  <2> QED
    BY <2>1, CompletedIs
<1>7. /\ m \in Nat \ {0}
      /\ m = 1 => done = Finished(read)
      /\ m # 1 => \E t \in Stacks : Owes(t, m - 1) /\ t # <<>> /\ done = Starting(t, read)
  BY <1>4, <1>6, <1>61
<1>8. Lacking(v)[k + 1] = m - 1
  BY <1>2, <1>7, NextIs
<1>9. CASE k + 1 = Len(v)
  <2>1. m = 1
    BY <1>7, <1>8, <1>9, NextIs
  <2>2. read = v
    BY <1>5, <1>9, NextIs
  <2> QED
    BY <1>4, <1>7, <1>9, <2>1, <2>2 DEF At
<1>10. CASE k + 1 # Len(v)
  <2>1. m # 1
    BY <1>7, <1>8, <1>10, NextIs
  <2>2. k + 1 # 0
    BY NextIs
  <2> QED
    BY <1>4, <1>5, <1>7, <1>8, <1>10, <2>1, <2>2 DEF At
<1> QED
  BY <1>9, <1>10

(* ... and a list or a dict begins one, or is one when it is empty.        *)
LEMMA OpenedAt ==
  ASSUME NEW v, Message(v), NEW k \in 0 .. Len(v), k # Len(v), NEW r0, At(r0, v, k),
         NEW r, r.stack = r0.stack, r.value = r0.value, IsList(v[k + 1])
  PROVE  At(Opened(r, v[k + 1][1], v[k + 1][2]), v, k + 1)
<1>1. PICK node, type, n : node = v[k + 1] /\ type = node[1] /\ n = node[2]
  OBVIOUS
<1>2. node \in Nodes \cup Lines /\ IsList(node) /\ n \in Nat
  BY <1>1, NextIs, SymbolsAre DEF IsList
<1>3. node = <<type, n>>
  BY <1>1, <1>2, NodeForms
<1>4. CASE n = 0
  <2>1. Following(node) = 0
    <3>1. Following(node) = Items(type, n)
      BY <1>1, <1>2, FollowingIs
    <3> QED
      BY <1>4, <3>1 DEF Items
  <2>2. Opened(r, type, n) = Completed(r, node)
    BY <1>3, <1>4 DEF Opened
  <2> QED
    BY <1>1, <2>1, <2>2, CompletedAt
<1>5. CASE n # 0
  <2>1. Following(node) \in Nat \ {0} /\ Following(node) = Items(type, n)
    BY <1>1, <1>2, <1>5, FollowingIs
  <2>2. PICK s \in Stacks : Owes(s, Lacking(v)[k]) /\ r0 = Starting(s, FirstNodes(v, k))
    BY DEF At
  <2>3. r.stack = s /\ r.value = FirstNodes(v, k)
    BY <2>2, StartingIs
  <2>4. PICK t : t = Append(s, Items(type, n))
    OBVIOUS
  <2>5. t \in Stacks /\ Owes(t, Lacking(v)[k] + Items(type, n) - 1)
    BY <2>1, <2>2, <2>4, OwesAppend
  <2>6. Lacking(v)[k + 1] = Lacking(v)[k] + Items(type, n) - 1 /\ Lacking(v)[k + 1] > 0
    <3>1. /\ Lacking(v)[k + 1] = Lacking(v)[k] - 1 + Following(v[k + 1])
          /\ Lacking(v)[k] \in Nat \ {0}
      BY NextIs
    <3>2. Following(v[k + 1]) = Items(type, n) /\ Items(type, n) \in Nat \ {0}
      BY <1>1, <2>1
    <3> QED
      BY <3>1, <3>2
  <2>7. k + 1 # Len(v) /\ k + 1 # 0
    BY <2>6, NextIs
  <2>8. Opened(r, type, n) = Starting(t, FirstNodes(v, k + 1))
    <3>1. FirstNodes(v, k + 1) = Append(r.value, node)
      BY <1>1, <2>3, NextIs
    <3>2. Opened(r, type, n) = Starting(Append(r.stack, Items(type, n)), Append(r.value, <<type, n>>))
      BY <1>5 DEF Opened, Starting
    <3> QED
      BY <1>3, <2>3, <2>4, <3>1, <3>2
  <2> QED
    BY <1>1, <2>5, <2>6, <2>7, <2>8 DEF At
<1> QED
  BY <1>4, <1>5

-----------------------------------------------------------------------------
(* What the readers make of a line.                                        *)

(* A length is read as it was written.                                     *)
LEMMA IntOfText == \A n \in -1 .. MaxLength : IntOf(Text[n]) = n
  BY CodecAssumption DEF IntOf

(* The bytes of a str or bytes are read next.                              *)
Sizing(r0, node) ==
  [Begun(r0, Mark(node)) EXCEPT !.mode = "bytes", !.want = Len(node[2]) + 2]

(* The fields of a machine that is before the bytes of a value.            *)
LEMMA SizingIs ==
  ASSUME NEW stack, NEW nodes, NEW node
  PROVE  LET r0 == Starting(stack, nodes)  r == Sizing(r0, node)
         IN /\ r.mode = "bytes" /\ r.kind = Mark(node) /\ r.want = Len(node[2]) + 2
            /\ r.stack = stack /\ r.value = nodes
  BY DEF Sizing, Begun, Starting, Fresh

(* What the line of a node means to the machine.                           *)
LEMMA LineReadIs ==
  ASSUME NEW stack, NEW nodes, NEW node \in Nodes \cup Lines, node \notin Lines,
         NEW isServer \in BOOLEAN, isServer => node # Null
  PROVE  LET r0 == Starting(stack, nodes)  r == Begun(r0, Mark(node))
             next == LineRead(r, LineOf(node), isServer)
         IN IF IsBlob(node) THEN next = Sizing(r0, node)
            ELSE IF IsList(node) THEN next = Opened(r, node[1], node[2])
            ELSE next = Completed(r, node) /\ Following(node) = 0
<1>1. PICK r0, r, c : r0 = Starting(stack, nodes) /\ c = Mark(node) /\ r = Begun(r0, c)
  OBVIOUS
<1>2. r = [mode |-> "line", kind |-> c, want |-> 1, stack |-> stack, value |-> nodes]
      /\ r.kind = c
  BY <1>1 DEF Begun, Starting, Fresh
<1>3. node = <<node[1], node[2]>> /\ (IsLine(node) \/ IsBlob(node) \/ IsList(node) \/ node = Null)
  BY NodeForms
<1>4. CASE IsBlob(node)
  <2>1. PICK n : n = Len(node[2])
    OBVIOUS
  <2>2. n \in Nat /\ n \in -1 .. MaxLength /\ node[1] \in {"str", "bytes"}
    BY <1>4, <2>1, SymbolsAre DEF IsBlob
  <2>3. c \in {"$", "^"}
    BY <1>1, <1>4, MarksAre
  <2>4. LineOf(node) = <<Text[n]>>
    BY <2>1, <2>2 DEF LineOf
  <2>5. IntOf(LineOf(node)[1]) = n
    BY <2>2, <2>4, IntOfText
  <2>6. LineRead(r, LineOf(node), isServer) = Sized(r, n, isServer)
    BY <1>2, <2>3, <2>5 DEF LineRead
  <2>7. Sized(r, n, isServer) = [r EXCEPT !.mode = "bytes", !.want = n + 2, !.kind = r.kind]
    <3>1. ~(n < 0) /\ (IF n + 2 > 2 THEN n + 2 ELSE 2) = n + 2
      BY <2>2
    <3> QED
      BY <3>1, Zenon DEF Sized
  <2>8. [r EXCEPT !.mode = "bytes", !.want = n + 2, !.kind = r.kind]
          = [r EXCEPT !.mode = "bytes", !.want = n + 2]
    BY <1>2
  <2> QED
    BY <1>1, <1>4, <2>1, <2>6, <2>7, <2>8 DEF Sizing
<1>5. CASE IsList(node)
  <2>1. PICK n : n = node[2]
    OBVIOUS
  <2>2. n \in -1 .. MaxLength /\ node[1] \in {"list", "dict"}
    BY <1>5, <2>1, SymbolsAre DEF IsList
  <2>3. c = IF node[1] = "list" THEN "*" ELSE "%"
    BY <1>1, <1>5, MarksAre
  <2>4. LineOf(node) = <<Text[n]>>
    BY <2>1, <2>2 DEF LineOf
  <2>5. IntOf(LineOf(node)[1]) = n
    BY <2>2, <2>4, IntOfText
  <2>6. LineRead(r, LineOf(node), isServer) = Opened(r, node[1], n)
    BY <1>2, <2>2, <2>3, <2>5 DEF LineRead
  <2>7. ~IsBlob(node)
    BY <2>2 DEF IsBlob
  <2> QED
    BY <1>1, <1>5, <2>1, <2>6, <2>7
<1>6. CASE IsLine(node)
  <2>1. node[1] \in {"int", "float", "bool"}
    BY <1>3, <1>6 DEF IsLine, Lines
  <2>2. c = Scalars[node[1]] /\ LineOf(node) = node[2]
    <3>1. c = Scalars[node[1]]
      BY <1>1, <1>6, <2>1, MarksAre
    <3>2. LineOf(node) = node[2]
      BY <2>1 DEF LineOf
    <3> QED
      BY <3>1, <3>2
  <2>3. /\ DOMAIN Scalars = {"int", "float", "bool"}
        /\ Scalars["int"] = ":" /\ Scalars["float"] = "," /\ Scalars["bool"] = "#"
    BY DEF Scalars
  <2>4. (CHOOSE t \in DOMAIN Scalars : Scalars[t] = c) = node[1]
    BY <2>1, <2>2, <2>3
  <2>5. c \notin {"$", "^", "*", "%"}
    BY <2>1, <2>2, <2>3
  <2>6. LineRead(r, LineOf(node), isServer) = Completed(r, <<node[1], node[2]>>)
    BY <1>2, <2>2, <2>4, <2>5 DEF LineRead
  <2>7. ~IsBlob(node) /\ ~IsList(node)
    BY <2>1 DEF IsBlob, IsList
  <2> QED
    BY <1>1, <1>3, <2>6, <2>7, FollowingIs
<1>7. CASE node = Null
  <2>1. ~isServer /\ node[1] = "null"
    BY <1>7 DEF Null
  <2>2. c = "$"
    BY <1>1, <1>7, MarksAre
  <2>3. LineOf(node) = <<Text[-1]>> /\ -1 \in -1 .. MaxLength
    BY <2>1, SymbolsAre DEF LineOf
  <2>4. IntOf(LineOf(node)[1]) = -1
    BY <2>3, IntOfText
  <2>5. LineRead(r, LineOf(node), isServer) = Sized(r, -1, isServer)
    BY <1>2, <2>2, <2>4 DEF LineRead
  <2>6. Sized(r, -1, isServer) = Completed(r, node)
    BY <1>7, <2>1 DEF Sized
  <2>7. ~IsBlob(node) /\ ~IsList(node)
    BY <2>1 DEF IsBlob, IsList
  <2> QED
    BY <1>1, <2>5, <2>6, <2>7, FollowingIs
<1> QED
  BY <1>3, <1>4, <1>5, <1>6, <1>7

(* And of bytes with their terminator.                                     *)
LEMMA BytesReadIs ==
  ASSUME NEW stack, NEW nodes, NEW node \in Nodes \cup Lines, IsBlob(node)
  PROVE  LET r == Sizing(Starting(stack, nodes), node)
         IN BytesRead(r, Glue(node[2], CRLF)) = Completed(r, node)
<1>1. PICK r, of, data, n : /\ r = Sizing(Starting(stack, nodes), node)
                            /\ of = node[2] /\ data = Glue(of, CRLF) /\ n = Len(of)
  OBVIOUS
<1>2. of \in Seq(Bytes) /\ n \in Nat /\ node[1] \in {"str", "bytes"}
  BY <1>1 DEF IsBlob
<1>3. /\ data \in Seq(Bytes) /\ Len(data) = n + 2
      /\ \A i \in 1 .. n : data[i] = of[i]
      /\ data[n + 1] = CR /\ data[n + 2] = LF
  <2>1. PICK e \in Seq(Bytes) : e = CRLF
    BY CRLFIs
  <2>2. Len(e) = 2 /\ e[1] = CR /\ e[2] = LF
    BY <2>1, CRLFIs
  <2>3. /\ of \o e \in Seq(Bytes) /\ Len(of \o e) = n + 2
        /\ \A i \in 1 .. n + 2 : (of \o e)[i] = IF i <= n THEN of[i] ELSE e[i - n]
    <3>1. /\ of \o e \in Seq(Bytes) /\ Len(of \o e) = Len(of) + Len(e)
          /\ \A i \in 1 .. Len(of) + Len(e) :
               (of \o e)[i] = IF i <= Len(of) THEN of[i] ELSE e[i - Len(of)]
      BY <1>2, <2>1, ConcatProperties, Zenon
    <3> QED
      BY <1>1, <2>2, <3>1
  <2>4. data = of \o e
    BY <1>1, <2>1 DEF Glue
  <2>5. (n + 1) - n = 1 /\ (n + 2) - n = 2
    BY <1>2
  <2>6. /\ data \in Seq(Bytes) /\ Len(data) = n + 2
        /\ \A i \in 1 .. n + 2 : data[i] = IF i <= n THEN of[i] ELSE e[i - n]
    BY <2>3, <2>4
  <2>7. \A i \in 1 .. n : data[i] = of[i]
    BY <1>2, <2>6
  <2>8. data[n + 1] = CR /\ data[n + 2] = LF
    BY <1>2, <2>2, <2>5, <2>6
  <2> QED
    BY <2>6, <2>7, <2>8
<1>4. SubSeq(data, 1, n) = of
  <2>1. \A i \in 1 .. n : data[i] \in Bytes
    BY <1>2, <1>3
  <2>2. /\ SubSeq(data, 1, n) \in Seq(Bytes) /\ Len(SubSeq(data, 1, n)) = n
        /\ \A i \in 1 .. n : SubSeq(data, 1, n)[i] = data[i]
    BY <1>2, <2>1, SubSeqProperties
  <2> QED
    BY <1>1, <1>2, <1>3, <2>2, SeqEqual
<1>5. SubSeq(data, n + 1, n + 2) = CRLF
  <2>1. \A i \in n + 1 .. n + 2 : data[i] \in Bytes
    BY <1>2, <1>3, LineEndAssumption
  <2>2. PICK end : end = SubSeq(data, n + 1, n + 2)
    OBVIOUS
  <2>3. end \in Seq(Bytes) /\ Len(end) = 2 /\ end[1] = CR /\ end[2] = LF
    BY <1>2, <1>3, <2>1, <2>2, SubSeqProperties
  <2>4. \A i \in 1 .. 2 : i = 1 \/ i = 2
    OBVIOUS
  <2>5. \A i \in 1 .. Len(end) : end[i] = CRLF[i]
    BY <2>3, <2>4, CRLFIs
  <2>6. end = CRLF
    BY <2>3, <2>5, CRLFIs, SeqEqual
  <2> QED
    BY <2>2, <2>6
<1>6. EndsLine(data)
  <2>1. Len(data) - 1 = n + 1 /\ Len(data) >= 2
    BY <1>2, <1>3
  <2> QED
    BY <1>3, <1>5, <2>1 DEF EndsLine
<1>7. r.kind = IF node[1] = "str" THEN "$" ELSE "^"
  <2>1. r.kind = Mark(node)
    BY <1>1, SizingIs
  <2> QED
    BY <2>1, MarksAre
<1>8. <<IF r.kind = "^" THEN "bytes" ELSE "str", SubSeq(data, 1, Len(data) - 2)>> = node
  <2>1. Len(data) - 2 = n
    BY <1>2, <1>3
  <2>2. (IF r.kind = "^" THEN "bytes" ELSE "str") = node[1]
    BY <1>2, <1>7
  <2>3. node = <<node[1], of>>
    BY <1>1, NodeForms
  <2> QED
    BY <1>4, <2>1, <2>2, <2>3
<1>9. BytesRead(r, data) = Completed(r, node)
  BY <1>6, <1>7, <1>8 DEF BytesRead
<1> QED
  BY <1>1, <1>9

-----------------------------------------------------------------------------
(* A machine that reads the message v, with data still to come: before a   *)
(* node, in its line, or in its bytes.                                     *)

Before(r, v, rest, k, data) == At(r, v, k) /\ data = rest[k]

InLine(r, v, rest, k, data) ==
  /\ k # Len(v)
  /\ \E s \in Stacks :
       /\ At(Starting(s, FirstNodes(v, k)), v, k)
       /\ r = Begun(Starting(s, FirstNodes(v, k)), Mark(v[k + 1]))
  /\ data = Glue(LineOf(v[k + 1]), Glue(CRLF, Glue(TailOf(v[k + 1]), rest[k + 1])))

InBytes(r, v, rest, k, data) ==
  /\ k # Len(v) /\ IsBlob(v[k + 1])
  /\ \E s \in Stacks :
       /\ At(Starting(s, FirstNodes(v, k)), v, k)
       /\ r = Sizing(Starting(s, FirstNodes(v, k)), v[k + 1])
  /\ data = Glue(TailOf(v[k + 1]), rest[k + 1])

ReadingAt(r, v, rest, k, data) ==
  Before(r, v, rest, k, data) \/ InLine(r, v, rest, k, data) \/ InBytes(r, v, rest, k, data)

Reading(r, v, data) ==
  \E rest : Coding(rest, v) /\ \E k \in 0 .. Len(v) : ReadingAt(r, v, rest, k, data)

(* A place in the message is enough.                                       *)
LEMMA ReadingIs ==
  ASSUME NEW r, NEW v, NEW data, NEW rest, Coding(rest, v),
         NEW k \in 0 .. Len(v), ReadingAt(r, v, rest, k, data)
  PROVE  Reading(r, v, data)
  BY DEF Reading

(* Its mode tells which it is.                                             *)
LEMMA ModeTells ==
  ASSUME NEW r, NEW v, NEW rest, NEW k, NEW data, ReadingAt(r, v, rest, k, data)
  PROVE  /\ r.mode \in {"start", "line", "bytes", "done"}
         /\ r.mode = "done" => k = Len(v) /\ r = Finished(v) /\ data = rest[k]
         /\ r.mode = "start" => k # Len(v) /\ At(r, v, k) /\ data = rest[k]
         /\ r.mode = "line" => InLine(r, v, rest, k, data)
         /\ r.mode = "bytes" => InBytes(r, v, rest, k, data)
<1>1. CASE Before(r, v, rest, k, data)
  <2>1. CASE k = Len(v)
    <3>1. r = Finished(v) /\ r.mode = "done"
      BY <1>1, <2>1 DEF Before, At, Finished, Fresh
    <3> QED
      BY <1>1, <2>1, <3>1 DEF Before
  <2>2. CASE k # Len(v)
    <3>1. r.mode = "start"
      <4>1. PICK s \in Stacks : r = Starting(s, FirstNodes(v, k))
        BY <1>1, <2>2 DEF Before, At
      <4> QED
        BY <4>1, StartingIs
    <3> QED
      BY <1>1, <2>2, <3>1 DEF Before
  <2> QED
    BY <2>1, <2>2
<1>2. CASE InLine(r, v, rest, k, data)
  <2>1. r.mode = "line"
    BY <1>2 DEF InLine, Begun, Starting, Fresh
  <2> QED
    BY <1>2, <2>1
<1>3. CASE InBytes(r, v, rest, k, data)
  <2>1. r.mode = "bytes"
    BY <1>3, SizingIs DEF InBytes
  <2> QED
    BY <1>3, <2>1
<1> QED
  BY <1>1, <1>2, <1>3 DEF ReadingAt

(* It is done with the whole message, and nothing is to come.              *)
LEMMA DoneIs ==
  ASSUME NEW r, NEW v, NEW data, Reading(r, v, data)
  PROVE  /\ r.mode \in {"start", "line", "bytes", "done"}
         /\ r.mode = "done" => r.value = v /\ data = <<>>
<1>1. PICK rest, k : Coding(rest, v) /\ ReadingAt(r, v, rest, k, data)
  BY DEF Reading
<1>2. Finished(v).value = v
  BY DEF Finished, Fresh
<1> QED
  BY <1>1, <1>2, ModeTells DEF Coding

(* It begins.                                                              *)
LEMMA ReadingBegins ==
  ASSUME NEW v, Message(v), NEW rest, Coding(rest, v)
  PROVE  Reading(Fresh, v, rest[0]) /\ rest[0] \in Seq(Bytes)
<1>1. v \in Seq(Nodes \cup Lines) /\ 0 \in 0 .. Len(v) /\ Len(v) \in Nat
  BY DEF Message
<1>2. Lacking(v)[0] = 1
  BY <1>1, LackingIs DEF Counting
<1>3. 0 # Len(v)
  BY <1>1, <1>2 DEF Message
<1>4. FirstNodes(v, 0) = <<>>
  BY SubSeqEmpty DEF FirstNodes
<1>5. Fresh = Starting(<<>>, FirstNodes(v, 0))
  <2>1. ASSUME NEW e, NEW r, r = Starting(e, e)
        PROVE  r = [mode |-> "start", kind |-> "", want |-> 1, stack |-> e, value |-> e]
    BY <2>1 DEF Fresh, Starting
  <2>2. Starting(<<>>, <<>>) = Fresh
    BY <2>1 DEF Fresh
  <2> QED
    BY <1>4, <2>2
<1>6. At(Fresh, v, 0)
  BY <1>2, <1>3, <1>5, OwesNothing DEF At
<1>7. ReadingAt(Fresh, v, rest, 0, rest[0])
  BY <1>6 DEF ReadingAt, Before
<1> QED
  BY <1>1, <1>7, ReadingIs DEF Coding

(* The parts of what is to come are sequences of bytes.                    *)
LEMMA RestIs ==
  ASSUME NEW v, Message(v), NEW rest, Coding(rest, v), NEW k \in 0 .. Len(v), k # Len(v)
  PROVE  LET node == v[k + 1]  x == Glue(TailOf(node), rest[k + 1])
         IN /\ Mark(node) \in Bytes /\ LineOf(node) \in LineTexts /\ LineOf(node) \in Seq(Bytes)
            /\ TailOf(node) \in Seq(Bytes) /\ rest[k + 1] \in Seq(Bytes)
            /\ x \in Seq(Bytes) /\ Glue(CRLF, x) \in Seq(Bytes)
            /\ Glue(LineOf(node), Glue(CRLF, x)) \in Seq(Bytes)
            /\ rest[k] = Glue(<<Mark(node)>>, Glue(LineOf(node), Glue(CRLF, x)))
<1>1. PICK node, y : node = v[k + 1] /\ y = rest[k + 1]
  OBVIOUS
<1>2. node \in Nodes \cup Lines /\ k + 1 \in 0 .. Len(v) /\ k + 1 \in 1 .. Len(v) /\ (k + 1) - 1 = k
  BY <1>1, NextIs
<1>3. y \in Seq(Bytes) /\ rest[k] = Glue(Coded(node), y)
  <2>1. rest[(k + 1) - 1] = Glue(Coded(v[k + 1]), rest[k + 1])
    BY <1>2 DEF Coding
  <2> QED
    BY <1>1, <1>2, <2>1 DEF Coding
<1>4. PICK m, line, tail : m = <<Mark(node)>> /\ line = LineOf(node) /\ tail = TailOf(node)
  OBVIOUS
<1>5. /\ Mark(node) \in Bytes /\ line \in LineTexts /\ tail \in Seq(Bytes)
      /\ Coded(node) = Glue(m, Glue(line, Glue(CRLF, tail)))
  BY <1>2, <1>4, CodedIs
<1>6. m \in Seq(Bytes) /\ line \in Seq(Bytes) /\ CRLF \in Seq(Bytes)
  BY <1>4, <1>5, SingleIs, LineTextIs, CRLFIs
<1>7. /\ Glue(tail, y) \in Seq(Bytes) /\ Glue(CRLF, Glue(tail, y)) \in Seq(Bytes)
      /\ Glue(line, Glue(CRLF, Glue(tail, y))) \in Seq(Bytes)
  BY <1>3, <1>5, <1>6, GlueIs
<1>8. /\ Glue(CRLF, tail) \in Seq(Bytes) /\ Glue(line, Glue(CRLF, tail)) \in Seq(Bytes)
  BY <1>5, <1>6, GlueIs
<1>9. Glue(Glue(m, Glue(line, Glue(CRLF, tail))), y)
        = Glue(m, Glue(Glue(line, Glue(CRLF, tail)), y))
  BY <1>3, <1>6, <1>8, GlueThree
<1>10. Glue(Glue(line, Glue(CRLF, tail)), y) = Glue(line, Glue(Glue(CRLF, tail), y))
  BY <1>3, <1>6, <1>8, GlueThree
<1>11. Glue(Glue(CRLF, tail), y) = Glue(CRLF, Glue(tail, y))
  BY <1>3, <1>5, <1>6, GlueThree
<1>12. rest[k] = Glue(m, Glue(line, Glue(CRLF, Glue(tail, y))))
  BY <1>3, <1>5, <1>9, <1>10, <1>11
<1> QED
  BY <1>1, <1>3, <1>4, <1>5, <1>6, <1>7, <1>12

-----------------------------------------------------------------------------
(* A machine that reads a message goes on reading it.                      *)

In(node, v) == \E i \in 1 .. Len(v) : node = v[i]

(* The first byte of what is to come is that of the next node.             *)
LEMMA BeginReads ==
  ASSUME NEW v, Message(v), NEW r, NEW data, Reading(r, v, data), r.mode = "start",
         NEW c \in Bytes, NEW more \in Seq(Bytes), data = Glue(<<c>>, more)
  PROVE  \E node : /\ In(node, v) /\ c = Mark(node)
                   /\ node \in Lines => r.stack = <<>>
                   /\ Reading(Begun(r, c), v, more)
<1>1. PICK rest : Coding(rest, v) /\ \E k \in 0 .. Len(v) : ReadingAt(r, v, rest, k, data)
  BY DEF Reading
<1>2. PICK k \in 0 .. Len(v) : ReadingAt(r, v, rest, k, data)
  BY <1>1
<1>3. k # Len(v) /\ At(r, v, k) /\ data = rest[k]
  BY <1>2, ModeTells
<1>4. PICK node, x : node = v[k + 1] /\ x = Glue(TailOf(node), rest[k + 1])
  OBVIOUS
<1>5. PICK y : y = Glue(LineOf(node), Glue(CRLF, x))
  OBVIOUS
<1>6. Mark(node) \in Bytes /\ y \in Seq(Bytes) /\ rest[k] = Glue(<<Mark(node)>>, y)
  BY <1>1, <1>3, <1>4, <1>5, RestIs
<1>7. c = Mark(node) /\ more = y
  <2>1. PICK m, p : m = <<Mark(node)>> /\ p = <<c>>
    OBVIOUS
  <2>2. m \in Seq(Bytes) /\ p \in Seq(Bytes) /\ Len(m) = 1 /\ Len(p) = 1
    BY <1>6, <2>1, SingleIs
  <2>3. Glue(p, more) = Glue(m, y)
    BY <1>3, <1>6, <2>1
  <2>4. p = m /\ more = y
    BY <1>6, <2>2, <2>3, SameFront
  <2>5. p[1] = c /\ m[1] = Mark(node)
    BY <2>1
  <2> QED
    BY <2>4, <2>5
<1>8. PICK s \in Stacks : r = Starting(s, FirstNodes(v, k)) /\ (k = 0 => s = <<>>)
  BY <1>3 DEF At
<1>9. In(node, v)
  BY <1>3, <1>4, NextIs DEF In
<1>10. node \in Lines => r.stack = <<>>
  <2>1. node \in Lines => k = 0
    BY <1>3, <1>4, NextIs, Zenon
  <2> QED
    BY <1>8, <2>1, StartingIs, Zenon
<1>11. InLine(Begun(r, c), v, rest, k, more)
  BY <1>3, <1>4, <1>5, <1>7, <1>8 DEF InLine
<1>12. Reading(Begun(r, c), v, more)
  BY <1>1, <1>11, ReadingIs DEF ReadingAt
<1> QED
  BY <1>7, <1>9, <1>10, <1>12

(* The text is the first line of the data, by its length.                  *)
FirstLine(text, data) ==
  \A line \in LineTexts : \A x \in Seq(Bytes) :
    data = Glue(line, Glue(CRLF, x)) => Len(line) = Len(text)

(* A value that is complete is where the next one begins.                  *)
LEMMA CompletedReads ==
  ASSUME NEW v, Message(v), NEW rest, Coding(rest, v), NEW k \in 0 .. Len(v), k # Len(v),
         NEW r0, At(r0, v, k), NEW r, r.stack = r0.stack, r.value = r0.value,
         Following(v[k + 1]) = 0
  PROVE  Reading(Completed(r, v[k + 1]), v, rest[k + 1])
<1>1. At(Completed(r, v[k + 1]), v, k + 1)
  BY CompletedAt
<1>2. k + 1 \in 0 .. Len(v)
  BY NextIs
<1>3. ReadingAt(Completed(r, v[k + 1]), v, rest, k + 1, rest[k + 1])
  BY <1>1 DEF ReadingAt, Before
<1> QED
  BY <1>2, <1>3, ReadingIs

(* The first line of what is to come is that of the node.                  *)
LEMMA LineReads ==
  ASSUME NEW v, Message(v), NEW r, NEW data, Reading(r, v, data), r.mode = "line",
         NEW text \in Seq(Bytes), NEW more \in Seq(Bytes),
         data = Glue(text, Glue(CRLF, more)), FirstLine(text, data)
  PROVE  \E node :
           /\ In(node, v) /\ r.kind = Mark(node) /\ text = LineOf(node)
           /\ node \in Lines => Reading(Completed(r, node), v, more)
           /\ node \notin Lines =>
                \A isServer \in BOOLEAN :
                  (isServer => node # Null) => Reading(LineRead(r, text, isServer), v, more)
<1>1. PICK rest : Coding(rest, v) /\ \E k \in 0 .. Len(v) : ReadingAt(r, v, rest, k, data)
  BY DEF Reading
<1>2. PICK k \in 0 .. Len(v) : ReadingAt(r, v, rest, k, data)
  BY <1>1
<1>3. InLine(r, v, rest, k, data)
  BY <1>2, ModeTells
<1>4. k # Len(v)
  BY <1>3 DEF InLine
<1>5. PICK node, x : node = v[k + 1] /\ x = Glue(TailOf(node), rest[k + 1])
  OBVIOUS
<1>6. PICK s \in Stacks : /\ At(Starting(s, FirstNodes(v, k)), v, k)
                          /\ r = Begun(Starting(s, FirstNodes(v, k)), Mark(node))
  BY <1>3, <1>5 DEF InLine
<1>7. PICK line : line = LineOf(node)
  OBVIOUS
<1>8. data = Glue(line, Glue(CRLF, x))
  BY <1>3, <1>5, <1>7 DEF InLine
<1>9. /\ line \in LineTexts /\ line \in Seq(Bytes) /\ x \in Seq(Bytes)
      /\ Glue(CRLF, x) \in Seq(Bytes) /\ TailOf(node) \in Seq(Bytes) /\ rest[k + 1] \in Seq(Bytes)
  BY <1>1, <1>4, <1>5, <1>7, RestIs
<1>10. CRLF \in Seq(Bytes) /\ Glue(CRLF, more) \in Seq(Bytes)
  BY CRLFIs, GlueIs
<1>11. Len(line) = Len(text)
  BY <1>8, <1>9 DEF FirstLine
<1>12. line = text /\ Glue(CRLF, x) = Glue(CRLF, more)
  BY <1>8, <1>9, <1>10, <1>11, SameFront
<1>13. x = more
  BY <1>9, <1>10, <1>12, SameFront
<1>14. /\ In(node, v) /\ node \in Nodes \cup Lines /\ k + 1 \in 0 .. Len(v)
  BY <1>4, <1>5, NextIs DEF In
<1>15. PICK r0 : r0 = Starting(s, FirstNodes(v, k))
  OBVIOUS
<1>16. r.kind = Mark(node) /\ r.stack = r0.stack /\ r.value = r0.value
  BY <1>6, <1>15 DEF Begun, Starting, Fresh
<1>17. ASSUME ~IsBlob(node)
       PROVE  more = rest[k + 1]
  <2>1. node[1] \notin {"str", "bytes"}
    BY <1>14, <1>17, NodeForms DEF IsLine, IsBlob, IsList, Null
  <2>2. TailOf(node) = <<>>
    BY <2>1 DEF TailOf
  <2> QED
    <3>1. Glue(<<>>, rest[k + 1]) = rest[k + 1]
      BY <1>9, GlueIs
    <3> QED
      BY <1>5, <1>13, <2>2, <3>1
<1>18. ASSUME node \in Lines
       PROVE  Reading(Completed(r, node), v, more)
  <2>1. node[1] \in {"+", "-"}
    BY <1>18 DEF Lines
  <2>2. ~IsBlob(node) /\ ~IsList(node)
    BY <2>1 DEF IsBlob, IsList
  <2>3. Following(node) = 0
    BY <1>14, <2>2, FollowingIs
  <2>4. Reading(Completed(r, v[k + 1]), v, rest[k + 1])
    BY <1>1, <1>4, <1>5, <1>6, <1>15, <1>16, <2>3, CompletedReads
  <2> QED
    BY <1>5, <1>17, <2>2, <2>4
<1>19. ASSUME node \notin Lines, NEW isServer \in BOOLEAN, isServer => node # Null
       PROVE  Reading(LineRead(r, text, isServer), v, more)
  <2>1. PICK next : next = LineRead(r, text, isServer)
    OBVIOUS
  <2>2. IF IsBlob(node) THEN next = Sizing(r0, node)
        ELSE IF IsList(node) THEN next = Opened(r, node[1], node[2])
        ELSE next = Completed(r, node) /\ Following(node) = 0
    <3>1. PICK nodes : nodes = FirstNodes(v, k)
      OBVIOUS
    <3>2. PICK read : read = LineRead(Begun(Starting(s, nodes), Mark(node)), LineOf(node), isServer)
      OBVIOUS
    <3>3. IF IsBlob(node) THEN read = Sizing(Starting(s, nodes), node)
          ELSE IF IsList(node)
          THEN read = Opened(Begun(Starting(s, nodes), Mark(node)), node[1], node[2])
          ELSE /\ read = Completed(Begun(Starting(s, nodes), Mark(node)), node)
               /\ Following(node) = 0
      BY <1>14, <1>19, <3>2, LineReadIs
    <3>4. r = Begun(Starting(s, nodes), Mark(node)) /\ r0 = Starting(s, nodes) /\ read = next
      BY <1>6, <1>7, <1>12, <1>15, <2>1, <3>1, <3>2
    <3> QED
      BY <3>3, <3>4
  <2>3. CASE IsBlob(node)
    <3>1. InBytes(next, v, rest, k, more)
      BY <1>4, <1>5, <1>6, <1>13, <1>15, <2>2, <2>3 DEF InBytes
    <3> QED
      BY <1>1, <2>1, <3>1, ReadingIs DEF ReadingAt
  <2>4. CASE ~IsBlob(node) /\ IsList(node)
    <3>1. At(Opened(r, v[k + 1][1], v[k + 1][2]), v, k + 1)
      BY <1>4, <1>5, <1>6, <1>15, <1>16, <2>4, OpenedAt
    <3>2. At(next, v, k + 1)
      BY <1>5, <2>2, <2>4, <3>1
    <3>3. ReadingAt(next, v, rest, k + 1, more)
      BY <1>17, <2>4, <3>2 DEF ReadingAt, Before
    <3> QED
      BY <1>1, <1>14, <2>1, <3>3, ReadingIs
  <2>5. CASE ~IsBlob(node) /\ ~IsList(node)
    <3>1. Reading(Completed(r, v[k + 1]), v, rest[k + 1])
      BY <1>1, <1>4, <1>5, <1>6, <1>15, <1>16, <2>2, <2>5, CompletedReads
    <3> QED
      BY <1>5, <1>17, <2>1, <2>2, <2>5, <3>1
  <2> QED
    BY <2>3, <2>4, <2>5
<1> QED
  BY <1>7, <1>12, <1>14, <1>16, <1>18, <1>19

(* As many bytes as it wants are the bytes of the node.                    *)
LEMMA BytesReads ==
  ASSUME NEW v, Message(v), NEW r, NEW data, Reading(r, v, data), r.mode = "bytes",
         NEW portion \in Seq(Bytes), NEW more \in Seq(Bytes),
         data = Glue(portion, more), Len(portion) = r.want
  PROVE  Reading(BytesRead(r, portion), v, more)
<1>1. PICK rest : Coding(rest, v) /\ \E k \in 0 .. Len(v) : ReadingAt(r, v, rest, k, data)
  BY DEF Reading
<1>2. PICK k \in 0 .. Len(v) : ReadingAt(r, v, rest, k, data)
  BY <1>1
<1>3. InBytes(r, v, rest, k, data)
  BY <1>2, ModeTells
<1>4. k # Len(v)
  BY <1>3 DEF InBytes
<1>5. PICK node : node = v[k + 1]
  OBVIOUS
<1>6. PICK s \in Stacks : /\ At(Starting(s, FirstNodes(v, k)), v, k)
                          /\ r = Sizing(Starting(s, FirstNodes(v, k)), node)
  BY <1>3, <1>5 DEF InBytes
<1>7. IsBlob(node) /\ node \in Nodes \cup Lines /\ data = Glue(TailOf(node), rest[k + 1])
  BY <1>3, <1>4, <1>5, NextIs DEF InBytes
<1>8. TailOf(node) \in Seq(Bytes) /\ rest[k + 1] \in Seq(Bytes)
  BY <1>1, <1>4, <1>5, RestIs
<1>9. TailOf(node) = Glue(node[2], CRLF) /\ Len(TailOf(node)) = Len(node[2]) + 2
  <2>1. node[1] \in {"str", "bytes"} /\ node[2] \in Seq(Bytes)
    BY <1>7 DEF IsBlob
  <2>2. TailOf(node) = node[2] \o CRLF
    BY <2>1 DEF TailOf
  <2>3. Len(node[2] \o CRLF) = Len(node[2]) + 2
    <3>1. PICK of \in Seq(Bytes), e \in Seq(Bytes) : of = node[2] /\ e = CRLF
      BY <2>1, CRLFIs
    <3>2. Len(of \o e) = Len(of) + Len(e)
      BY <3>1, ConcatProperties
    <3> QED
      BY <3>1, <3>2, CRLFIs
  <2> QED
    BY <2>2, <2>3 DEF Glue
<1>10. r.want = Len(node[2]) + 2
  BY <1>6, SizingIs
<1>11. portion = TailOf(node) /\ more = rest[k + 1]
  <2>1. /\ Glue(portion, more) = Glue(TailOf(node), rest[k + 1])
        /\ Len(portion) = Len(TailOf(node))
    BY <1>7, <1>9, <1>10
  <2> QED
    BY <1>8, <2>1, SameFront
<1>12. BytesRead(r, portion) = Completed(r, node)
  BY <1>6, <1>7, <1>9, <1>11, BytesReadIs
<1>13. PICK r0 : r0 = Starting(s, FirstNodes(v, k))
  OBVIOUS
<1>14. r.stack = r0.stack /\ r.value = r0.value
  BY <1>6, <1>13 DEF Sizing, Begun, Starting, Fresh
<1>15. Following(node) = 0
  <2>1. ~IsList(node)
    BY <1>7 DEF IsBlob, IsList
  <2> QED
    BY <1>7, <2>1, FollowingIs
<1>16. Reading(Completed(r, v[k + 1]), v, rest[k + 1])
  BY <1>1, <1>4, <1>5, <1>6, <1>13, <1>14, <1>15, CompletedReads
<1> QED
  BY <1>5, <1>11, <1>12, <1>16

-----------------------------------------------------------------------------
(* The first line of what is to come.                                      *)

(* One byte of two parts.                                                  *)
LEMMA GlueAt ==
  ASSUME NEW a \in Seq(Bytes), NEW b \in Seq(Bytes)
  PROVE  /\ Glue(a, b) \in Seq(Bytes) /\ Len(Glue(a, b)) = Len(a) + Len(b)
         /\ Len(a) \in Nat /\ Len(b) \in Nat
         /\ \A i \in 1 .. Len(a) + Len(b) :
              Glue(a, b)[i] = IF i <= Len(a) THEN a[i] ELSE b[i - Len(a)]
  BY ConcatProperties DEF Glue

(* A text, the end of its line, and what follows.                          *)
LEMMA TextAt ==
  ASSUME NEW text \in Seq(Bytes), NEW x \in Seq(Bytes)
  PROVE  /\ Len(text) \in Nat
         /\ \A i \in 1 .. Len(text) : Glue(text, Glue(CRLF, x))[i] = text[i]
         /\ Glue(text, Glue(CRLF, x))[Len(text) + 1] = CR
         /\ Glue(text, Glue(CRLF, x))[Len(text) + 2] = LF
         /\ Len(Glue(text, Glue(CRLF, x))) >= Len(text) + 2
<1>1. CRLF \in Seq(Bytes) /\ Len(CRLF) = 2 /\ CRLF[1] = CR /\ CRLF[2] = LF
  BY CRLFIs
<1>2. PICK y : y = Glue(CRLF, x)
  OBVIOUS
<1>3. /\ y \in Seq(Bytes) /\ Len(y) = 2 + Len(x) /\ Len(x) \in Nat
      /\ \A i \in 1 .. 2 + Len(x) : y[i] = IF i <= 2 THEN CRLF[i] ELSE x[i - 2]
  <2>1. /\ Glue(CRLF, x) \in Seq(Bytes) /\ Len(Glue(CRLF, x)) = Len(CRLF) + Len(x)
        /\ Len(x) \in Nat
        /\ \A i \in 1 .. Len(CRLF) + Len(x) :
             Glue(CRLF, x)[i] = IF i <= Len(CRLF) THEN CRLF[i] ELSE x[i - Len(CRLF)]
    BY <1>1, GlueAt
  <2> QED
    BY <1>1, <1>2, <2>1
<1>4. y[1] = CR /\ y[2] = LF
  BY <1>1, <1>3
<1>5. /\ Len(Glue(text, y)) = Len(text) + Len(y)
      /\ \A i \in 1 .. Len(text) + Len(y) :
           Glue(text, y)[i] = IF i <= Len(text) THEN text[i] ELSE y[i - Len(text)]
  BY <1>3, GlueAt
<1>6. PICK data : data = Glue(text, y)
  OBVIOUS
<1>7. PICK n, m : n = Len(text) /\ m = Len(x)
  OBVIOUS
<1>8. n \in Nat /\ m \in Nat
  BY <1>7
<1>9. /\ Len(data) = n + (2 + m)
      /\ \A i \in 1 .. n + (2 + m) : data[i] = IF i <= n THEN text[i] ELSE y[i - n]
  BY <1>3, <1>5, <1>6, <1>7
<1>10. (n + 1) - n = 1 /\ (n + 2) - n = 2
  BY <1>8
<1>11. data[n + 1] = CR /\ data[n + 2] = LF
  BY <1>4, <1>8, <1>9, <1>10
<1>12. /\ Len(text) \in Nat
       /\ \A i \in 1 .. Len(text) : data[i] = text[i]
       /\ data[Len(text) + 1] = CR /\ data[Len(text) + 2] = LF
       /\ Len(data) >= Len(text) + 2
  BY <1>7, <1>8, <1>9, <1>11
<1> QED
  BY <1>2, <1>6, <1>12

(* What readline returns: it has no LF.                                    *)
LEMMA NoLFIsFirst ==
  ASSUME NEW text \in Seq(Bytes), NEW more \in Seq(Bytes), NEW data,
         data = Glue(text, Glue(CRLF, more)), \A j \in 1 .. Len(text) : text[j] # LF
  PROVE  FirstLine(text, data)
<1> SUFFICES ASSUME NEW line \in LineTexts, NEW x \in Seq(Bytes),
                    data = Glue(line, Glue(CRLF, x))
             PROVE  Len(line) = Len(text)
  BY DEF FirstLine
<1>1. line \in Seq(Bytes) /\ \A i \in 1 .. Len(line) : line[i] # LF /\ line[i] # CR
  BY LineTextIs
<1>2. PICK n, m : n = Len(line) /\ m = Len(text)
  OBVIOUS
<1>3. /\ n \in Nat /\ data[n + 1] = CR /\ data[n + 2] = LF
      /\ \A i \in 1 .. n : data[i] # LF
  <2>1. /\ Len(line) \in Nat
        /\ \A i \in 1 .. Len(line) : Glue(line, Glue(CRLF, x))[i] = line[i]
        /\ Glue(line, Glue(CRLF, x))[Len(line) + 1] = CR
        /\ Glue(line, Glue(CRLF, x))[Len(line) + 2] = LF
    BY <1>1, TextAt
  <2> QED
    BY <1>1, <1>2, <2>1
<1>4. /\ m \in Nat /\ data[m + 1] = CR /\ data[m + 2] = LF
      /\ \A i \in 1 .. m : data[i] # LF
  <2>1. /\ Len(text) \in Nat
        /\ \A i \in 1 .. Len(text) : Glue(text, Glue(CRLF, more))[i] = text[i]
        /\ Glue(text, Glue(CRLF, more))[Len(text) + 1] = CR
        /\ Glue(text, Glue(CRLF, more))[Len(text) + 2] = LF
    BY TextAt
  <2> QED
    BY <1>2, <2>1
<1>5. CR # LF
  BY LineEndAssumption
<1>6. ~(n < m)
  <2>1. CASE m = n + 1
    <3>1. m + 1 = n + 2
      BY <1>3, <2>1
    <3> QED
      BY <1>3, <1>4, <1>5, <3>1
  <2>2. CASE n < m /\ m # n + 1
    <3>1. n + 2 \in 1 .. m
      BY <1>3, <1>4, <2>2
    <3> QED
      BY <1>3, <1>4, <3>1
  <2> QED
    BY <1>3, <1>4, <2>1, <2>2
<1>7. ~(m < n)
  <2>1. CASE n = m + 1
    <3>1. n + 1 = m + 2
      BY <1>4, <2>1
    <3> QED
      BY <1>4, <1>3, <1>5, <3>1
  <2>2. CASE m < n /\ n # m + 1
    <3>1. m + 2 \in 1 .. n
      BY <1>4, <1>3, <2>2
    <3> QED
      BY <1>4, <1>3, <3>1
  <2> QED
    BY <1>4, <1>3, <2>1, <2>2
<1> QED
  BY <1>2, <1>3, <1>4, <1>6, <1>7

(* What readuntil returns: it ends with the first CRLF.                    *)
LEMMA FirstCRLFIsFirst ==
  ASSUME NEW box \in Seq(Bytes), NEW z \in Seq(Bytes), NEW data, data = Glue(box, z),
         NEW p \in 2 .. Len(box), box[p - 1] = CR, box[p] = LF,
         \A i \in 2 .. Len(box) : box[i - 1] = CR /\ box[i] = LF => p <= i,
         NEW text, Len(text) = p - 2
  PROVE  FirstLine(text, data)
<1> SUFFICES ASSUME NEW line \in LineTexts, NEW x \in Seq(Bytes),
                    data = Glue(line, Glue(CRLF, x))
             PROVE  Len(line) = Len(text)
  BY DEF FirstLine
<1>1. line \in Seq(Bytes) /\ \A i \in 1 .. Len(line) : line[i] # LF /\ line[i] # CR
  BY LineTextIs
<1>2. PICK n, b : n = Len(line) /\ b = Len(box)
  OBVIOUS
<1>3. /\ n \in Nat /\ data[n + 1] = CR /\ data[n + 2] = LF
      /\ \A i \in 1 .. n : data[i] # LF
  <2>1. /\ Len(line) \in Nat
        /\ \A i \in 1 .. Len(line) : Glue(line, Glue(CRLF, x))[i] = line[i]
        /\ Glue(line, Glue(CRLF, x))[Len(line) + 1] = CR
        /\ Glue(line, Glue(CRLF, x))[Len(line) + 2] = LF
    BY <1>1, TextAt
  <2> QED
    BY <1>1, <1>2, <2>1
<1>4. b \in Nat /\ \A i \in 1 .. b : data[i] = box[i]
  <2>1. /\ Len(box) \in Nat /\ Len(z) \in Nat
        /\ \A i \in 1 .. Len(box) + Len(z) :
             Glue(box, z)[i] = IF i <= Len(box) THEN box[i] ELSE z[i - Len(box)]
    BY GlueAt
  <2> QED
    BY <1>2, <2>1
<1>5. CR # LF
  BY LineEndAssumption
<1>6. p \in Nat /\ p >= 2 /\ p <= b /\ p - 1 \in 1 .. b /\ p \in 1 .. b
  BY <1>2, <1>4
<1>7. data[p] = LF
  BY <1>4, <1>6
<1>8. n + 2 <= p
  <2>1. ~(p <= n)
    BY <1>3, <1>6, <1>7
  <2>2. p # n + 1
    BY <1>3, <1>5, <1>7
  <2> QED
    BY <1>3, <1>6, <2>1, <2>2
<1>9. p <= n + 2
  <2>1. n + 2 \in 2 .. b /\ n + 1 \in 1 .. b /\ (n + 2) - 1 = n + 1 /\ n + 2 \in 1 .. b
    BY <1>3, <1>4, <1>6, <1>8
  <2>2. box[(n + 2) - 1] = CR /\ box[n + 2] = LF
    BY <1>3, <1>4, <2>1
  <2> QED
    BY <1>2, <2>1, <2>2
<1>10. Len(text) = n
  BY <1>3, <1>6, <1>8, <1>9
<1> QED
  BY <1>2, <1>10

-----------------------------------------------------------------------------
(* The client and the server read what the other packed.                   *)

(* A one-line answer begins as no value does.                              *)
LEMMA MarkKinds ==
  /\ \A node \in Nodes : /\ Mark(node) \in {":", ",", "#", "$", "^", "*", "%"}
                         /\ node \notin Lines
  /\ \A node \in Lines : /\ Mark(node) \in {"+", "-"}
                         /\ node = <<Mark(node), LineOf(node)>>
<1>1. ASSUME NEW node \in Nodes
      PROVE  Mark(node) \in {":", ",", "#", "$", "^", "*", "%"} /\ node \notin Lines
  <2>1. node[1] \in {"int", "float", "bool", "str", "bytes", "list", "dict", "null"}
    BY DEF Nodes, Null
  <2>2. node \notin Lines
    BY <2>1 DEF Lines
  <2>3. /\ Scalars["int"] = ":" /\ Scalars["float"] = "," /\ Scalars["bool"] = "#"
    BY DEF Scalars
  <2> QED
    BY <2>1, <2>2, <2>3 DEF Mark
<1>2. ASSUME NEW node \in Lines
      PROVE  Mark(node) \in {"+", "-"} /\ node = <<Mark(node), LineOf(node)>>
  <2>1. node[1] \in {"+", "-"} /\ node = <<node[1], node[2]>>
    BY DEF Lines
  <2>2. Mark(node) = node[1] /\ LineOf(node) = node[2]
    BY <2>1 DEF Mark, LineOf
  <2> QED
    BY <2>1, <2>2
<1> QED
  BY <1>1, <1>2

(* A message consists of nodes.                                            *)
LEMMA InMessage ==
  ASSUME NEW v, Message(v), NEW node, In(node, v)
  PROVE  node \in Nodes \cup Lines
  BY ElementOfSeq DEF Message, In

(* The client takes the first byte of a value ...                          *)
LEMMA ClientStarts ==
  ASSUME NEW v, Message(v), NEW r, NEW data, Reading(r, v, data), r.mode = "start",
         NEW c \in Bytes, NEW more \in Seq(Bytes), data = Glue(<<c>>, more)
  PROVE  Reading(ClientStart(r, c), v, more)
<1>1. PICK node : /\ In(node, v) /\ c = Mark(node)
                  /\ node \in Lines => r.stack = <<>>
                  /\ Reading(Begun(r, c), v, more)
  BY BeginReads
<1>2. node \in Nodes \cup Lines
  BY <1>1, InMessage
<1>3. ClientStart(r, c) = Begun(r, c)
  BY <1>1, <1>2, MarkKinds DEF ClientStart
<1> QED
  BY <1>1, <1>3

(* ... and a line.                                                         *)
LEMMA ClientLines ==
  ASSUME NEW v, Message(v), NEW r, NEW data, Reading(r, v, data), r.mode = "line",
         NEW text \in Seq(Bytes), NEW more \in Seq(Bytes),
         data = Glue(text, Glue(CRLF, more)), FirstLine(text, data)
  PROVE  Reading(ClientLine(r, text), v, more)
<1>1. PICK node :
           /\ In(node, v) /\ r.kind = Mark(node) /\ text = LineOf(node)
           /\ node \in Lines => Reading(Completed(r, node), v, more)
           /\ node \notin Lines =>
                \A isServer \in BOOLEAN :
                  (isServer => node # Null) => Reading(LineRead(r, text, isServer), v, more)
  BY LineReads
<1>2. node \in Nodes \cup Lines
  BY <1>1, InMessage
<1>3. CASE node \in Lines
  <2>1. r.kind \in {"+", "-"} /\ <<r.kind, text>> = node
    BY <1>1, <1>3, MarkKinds
  <2>2. ClientLine(r, text) = Completed(r, node)
    BY <2>1 DEF ClientLine
  <2> QED
    BY <1>1, <1>3, <2>2
<1>4. CASE node \in Nodes
  <2>1. r.kind \notin {"+", "-"} /\ node \notin Lines
    BY <1>1, <1>4, MarkKinds
  <2>2. ClientLine(r, text) = LineRead(r, text, FALSE)
    BY <2>1 DEF ClientLine
  <2>3. Reading(LineRead(r, text, FALSE), v, more)
    BY <1>1, <2>1
  <2> QED
    BY <2>2, <2>3
<1> QED
  BY <1>2, <1>3, <1>4

(* A command is a value that the server can read.                          *)
Readable(v) == \A i \in 1 .. Len(v) : v[i][1] \in {"list", "str", "int", "float"}

(* The server knows how each value of a command begins.                    *)
LEMMA ReadableIs ==
  ASSUME NEW v, Message(v), Readable(v), NEW node, In(node, v)
  PROVE  node \notin Lines /\ node # Null /\ Mark(node) \in {":", "$", "*", ","}
<1>1. node[1] \in {"list", "str", "int", "float"}
  BY DEF Readable, In
<1>2. node \notin Lines /\ node # Null
  BY <1>1 DEF Lines, Null
<1>3. Scalars["int"] = ":" /\ Scalars["float"] = ","
  BY DEF Scalars
<1> QED
  BY <1>1, <1>2, <1>3 DEF Mark

(* The server takes the first byte of a value ...                          *)
LEMMA ServerStarts ==
  ASSUME NEW v, Message(v), Readable(v), NEW r, NEW data, Reading(r, v, data), r.mode = "start",
         NEW c \in Bytes, NEW more \in Seq(Bytes), data = Glue(<<c>>, more)
  PROVE  Reading(ServerStart(r, c), v, more)
<1>1. PICK node : In(node, v) /\ c = Mark(node) /\ Reading(Begun(r, c), v, more)
  BY BeginReads
<1>2. ServerStart(r, c) = Begun(r, c)
  BY <1>1, ReadableIs DEF ServerStart
<1> QED
  BY <1>1, <1>2

(* ... and a line.                                                         *)
LEMMA ServerLines ==
  ASSUME NEW v, Message(v), Readable(v), NEW r, NEW data, Reading(r, v, data), r.mode = "line",
         NEW text \in Seq(Bytes), NEW more \in Seq(Bytes),
         data = Glue(text, Glue(CRLF, more)), FirstLine(text, data)
  PROVE  Reading(ServerLine(r, text), v, more)
<1>1. PICK node :
           /\ In(node, v) /\ r.kind = Mark(node)
           /\ node \notin Lines =>
                \A isServer \in BOOLEAN :
                  (isServer => node # Null) => Reading(LineRead(r, text, isServer), v, more)
  BY LineReads
<1>2. node \notin Lines /\ node # Null /\ r.kind # "inline"
  BY <1>1, ReadableIs
<1>3. ServerLine(r, text) = LineRead(r, text, TRUE)
  BY <1>2 DEF ServerLine
<1>4. Reading(LineRead(r, text, TRUE), v, more)
  BY <1>1, <1>2
<1> QED
  BY <1>3, <1>4

-----------------------------------------------------------------------------
(* Commands and answers are messages.                                      *)

(* A value is a message, and pack_resp gives its parts.                    *)
LEMMA ValueIsMessage ==
  ASSUME NEW v, IsValue(v)
  PROVE  /\ Message(v)
         /\ \E rest : Coding(rest, v) /\ pack_resp(v) = rest[0]
<1>1. v \in Seq(Nodes) /\ v \in Seq(Nodes \cup Lines)
  BY DEF IsValue
<1>2. \A k \in 0 .. Len(v) : Lacking(v)[k] > 0 <=> k < Len(v)
  BY DEF IsValue
<1>3. Len(v) \in Nat
  BY <1>1, LenProperties
<1>4. \A k \in 0 .. Len(v) : k < Len(v) <=> k # Len(v)
  BY <1>3
<1>5. ASSUME NEW i \in 1 .. Len(v), v[i] \in Lines PROVE FALSE
  <2>1. v[i] \in Nodes
    BY <1>1, <1>5, ElementOfSeq
  <2> QED
    BY <1>5, <2>1, MarkKinds
<1>6. Message(v)
  BY <1>1, <1>2, <1>4, <1>5 DEF Message
<1>7. PICK rest : Coding(rest, v)
  BY <1>1, CodingExists
<1>8. pack_resp(v) = rest[0]
  BY <1>1, <1>7, PackedIsCoding
<1> QED
  BY <1>6, <1>7, <1>8

(* A command is one that the server can read.                              *)
LEMMA CommandIs ==
  ASSUME NEW c \in Commands
  PROVE  /\ Message(c) /\ Readable(c) /\ AsCommand(c) = c
         /\ \E rest : Coding(rest, c) /\ pack_resp(c) = rest[0]
<1>1. /\ IsValue(c) /\ c[1][1] = "list"
      /\ \A i \in 1 .. Len(c) : c[i][1] \in {"list", "str", "int", "float"}
  BY SessionAssumption
<1>2. Readable(c) /\ AsCommand(c) = c
  BY <1>1 DEF Readable, AsCommand
<1>3. Message(c) /\ \E rest : Coding(rest, c) /\ pack_resp(c) = rest[0]
  BY <1>1, ValueIsMessage
<1> QED
  BY <1>2, <1>3

(* An answer is a message.                                                 *)
LEMMA AnswerIs ==
  ASSUME NEW a \in Answers
  PROVE  /\ Message(a)
         /\ \E rest : Coding(rest, a) /\ Bytestring(a) = rest[0]
<1>1. CASE IsValue(a)
  <2>1. a \in Seq(Nodes) /\ Len(a) \in Nat
    BY <1>1 DEF IsValue
  <2>2. Len(a) # 0
    <3>1. Lacking(a)[0] = 1 /\ 0 \in 0 .. Len(a)
      <4>1. a \in Seq(Nodes \cup Lines)
        BY <2>1
      <4> QED
        BY <2>1, <4>1, LackingIs DEF Counting
    <3>2. Lacking(a)[0] > 0 <=> 0 < Len(a)
      BY <1>1, <3>1 DEF IsValue
    <3> QED
      BY <3>1, <3>2
  <2>3. a[1] \in Nodes
    BY <2>1, <2>2, ElementOfSeq
  <2>4. a[1][1] \notin {"+", "-"}
    <3>1. a[1][1] \in {"int", "float", "bool", "str", "bytes", "list", "dict", "null"}
      BY <2>3 DEF Nodes, Null
    <3> QED
      BY <3>1
  <2>5. Bytestring(a) = pack_resp(a)
    BY <2>4 DEF Bytestring
  <2> QED
    BY <1>1, <2>5, ValueIsMessage
<1>2. CASE a \in Seq({"+", "-"} \X LineTexts) /\ Len(a) = 1
  <2>1. a \in Seq(Lines) /\ 1 \in 1 .. Len(a)
    BY <1>2 DEF Lines
  <2>2. a[1] \in Lines
    BY <2>1, ElementOfSeq
  <2>3. a \in Seq(Nodes \cup Lines)
    BY <2>1
  <2>4. Following(a[1]) = 0
    <3>1. a[1][1] \in {"+", "-"}
      BY <2>2 DEF Lines
    <3> QED
      BY <3>1 DEF Following
  <2>5. Lacking(a)[0] = 1 /\ Lacking(a)[1] = 0
    <3>1. Counting(Lacking(a), a)
      BY <2>3, LackingIs
    <3> QED
      BY <1>2, <2>1, <2>4, <3>1 DEF Counting
  <2>6. Message(a)
    <3>1. \A k \in 0 .. Len(a) : Lacking(a)[k] > 0 <=> k # Len(a)
      BY <1>2, <2>5
    <3>2. \A i \in 1 .. Len(a) : a[i] \in Lines => i = 1
      BY <1>2
    <3> QED
      BY <2>3, <3>1, <3>2 DEF Message
  <2>7. PICK rest : Coding(rest, a)
    BY <2>3, CodingExists
  <2>8. rest[0] = Coded(a[1])
    <3>1. rest[1] = <<>> /\ rest[0] = Glue(Coded(a[1]), rest[1])
      BY <1>2, <2>1, <2>7 DEF Coding
    <3>2. Coded(a[1]) \in Seq(Bytes)
      BY <2>2, CodedIsBytes
    <3> QED
      BY <3>1, <3>2, GlueIs
  <2>9. a[1][1] \in {"+", "-"}
    BY <2>2 DEF Lines
  <2>10. Bytestring(a) = Coded(a[1])
    BY <2>9 DEF Bytestring, Coded
  <2> QED
    BY <2>6, <2>7, <2>8, <2>10
<1> QED
  BY <1>1, <1>2, SessionAssumption

-----------------------------------------------------------------------------
(* A command in plain text: before it, in its line, and read.              *)

InPlainText(c) == [Begun(Fresh, "inline") EXCEPT !.value = <<c>>]

Inline(r, t, data) ==
  \/ r = Fresh /\ data = Glue(t, CRLF)
  \/ r = InPlainText(t[1]) /\ data = Glue(Tail(t), CRLF)
  \/ r = Finished(ListOf(Words(t))) /\ data = <<>>

(* The fields of the machine in these places.                              *)
LEMMA InlineModes ==
  /\ Fresh.mode = "start" /\ Fresh.want = 1 /\ Fresh.stack = <<>>
  /\ \A c : /\ InPlainText(c).mode = "line" /\ InPlainText(c).kind = "inline"
            /\ InPlainText(c).value = <<c>>
  /\ \A v : Finished(v).mode = "done" /\ Finished(v).value = v
  BY DEF InPlainText, Begun, Fresh, Finished

(* A command in plain text begins as no value does.                        *)
LEMMA RawTextIs ==
  ASSUME NEW t \in RawTexts
  PROVE  /\ t \in LineTexts /\ t \in Seq(Bytes) /\ Tail(t) \in LineTexts /\ Tail(t) \in Seq(Bytes)
         /\ t[1] \in Bytes /\ t[1] \notin {":", "$", "*", ","}
         /\ t = Glue(<<t[1]>>, Tail(t))
<1>1. t \in LineTexts /\ t # <<>> /\ t[1] \notin {":", "$", "*", ","}
  BY SessionAssumption
<1>2. t \in Seq(Bytes \ {CR, LF})
  BY <1>1 DEF LineTexts
<1>3. /\ Tail(t) \in Seq(Bytes \ {CR, LF}) /\ Len(Tail(t)) = Len(t) - 1
      /\ \A i \in 1 .. Len(Tail(t)) : Tail(t)[i] = t[i + 1]
  BY <1>1, <1>2, HeadTailProperties
<1>4. Len(t) \in Nat /\ Len(t) # 0
  BY <1>1, <1>2, LenProperties, EmptySeq
<1>5. 1 \in 1 .. Len(t)
  BY <1>4
<1>6. t[1] \in Bytes \ {CR, LF}
  BY <1>2, <1>5, ElementOfSeq
<1>7. Tail(t) \in LineTexts /\ Tail(t) \in Seq(Bytes) /\ t \in Seq(Bytes) /\ <<t[1]>> \in Seq(Bytes)
  BY <1>1, <1>3, <1>6, LineTextIs, SingleIs DEF LineTexts
<1>8. PICK u, e : u = Tail(t) /\ e = <<t[1]>>
  OBVIOUS
<1>9. u \in Seq(Bytes) /\ e \in Seq(Bytes) /\ Len(e) = 1 /\ e[1] = t[1]
  BY <1>7, <1>8
<1>10. /\ Glue(e, u) \in Seq(Bytes) /\ Len(Glue(e, u)) = Len(e) + Len(u)
       /\ \A i \in 1 .. Len(e) + Len(u) :
            Glue(e, u)[i] = IF i <= Len(e) THEN e[i] ELSE u[i - Len(e)]
  BY <1>9, GlueAt
<1>11. Len(u) = Len(t) - 1 /\ \A i \in 1 .. Len(u) : u[i] = t[i + 1]
  BY <1>3, <1>8
<1>12. PICK n : n = Len(t)
  OBVIOUS
<1>13. n \in Nat /\ n # 0 /\ Len(u) = n - 1
  BY <1>4, <1>11, <1>12
<1>14. PICK g : g = Glue(e, u)
  OBVIOUS
<1>15. g \in Seq(Bytes) /\ Len(g) = n /\ \A i \in 1 .. n : g[i] = IF i <= 1 THEN e[i] ELSE u[i - 1]
  BY <1>9, <1>10, <1>13, <1>14
<1>16. ASSUME NEW i \in 1 .. n PROVE g[i] = t[i]
  <2>1. CASE i = 1
    BY <1>9, <1>15, <2>1
  <2>2. CASE i # 1
    <3>1. i - 1 \in 1 .. Len(u) /\ (i - 1) + 1 = i /\ ~(i <= 1)
      BY <1>13, <2>2
    <3> QED
      BY <1>11, <1>15, <3>1
  <2> QED
    BY <2>1, <2>2
<1>17. g = t
  BY <1>7, <1>12, <1>15, <1>16, SeqEqual
<1> QED
  BY <1>1, <1>6, <1>7, <1>8, <1>14, <1>17

(* Its first byte is taken, and kept ...                                   *)
LEMMA InlineStarts ==
  ASSUME NEW t \in RawTexts, NEW r, NEW data, Inline(r, t, data), r.mode = "start",
         NEW c \in Bytes, NEW more \in Seq(Bytes), data = Glue(<<c>>, more)
  PROVE  Inline(ServerStart(r, c), t, more)
<1>1. r = Fresh /\ data = Glue(t, CRLF)
  BY InlineModes DEF Inline
<1>2. PICK e, u : e = <<t[1]>> /\ u = Tail(t)
  OBVIOUS
<1>3. e \in Seq(Bytes) /\ u \in Seq(Bytes) /\ t = Glue(e, u) /\ CRLF \in Seq(Bytes)
  BY <1>2, RawTextIs, SingleIs, CRLFIs
<1>4. Glue(Glue(e, u), CRLF) = Glue(e, Glue(u, CRLF))
  BY <1>3, GlueThree
<1>5. Glue(u, CRLF) \in Seq(Bytes)
  BY <1>3, GlueIs
<1>6. PICK d, y : d = <<c>> /\ y = Glue(u, CRLF)
  OBVIOUS
<1>7. d \in Seq(Bytes) /\ y \in Seq(Bytes) /\ Len(d) = Len(e) /\ d[1] = c /\ e[1] = t[1]
  BY <1>2, <1>5, <1>6, SingleIs
<1>8. Glue(d, more) = Glue(e, y)
  BY <1>1, <1>3, <1>4, <1>6
<1>9. d = e /\ more = y
  BY <1>3, <1>7, <1>8, SameFront
<1>10. c = t[1] /\ more = Glue(Tail(t), CRLF)
  BY <1>2, <1>6, <1>7, <1>9
<1>11. ServerStart(r, c) = InPlainText(t[1])
  BY <1>1, <1>10, RawTextIs, InlineModes DEF ServerStart, InPlainText
<1> QED
  BY <1>10, <1>11 DEF Inline

(* ... and the rest of its line.                                           *)
LEMMA InlineLines ==
  ASSUME NEW t \in RawTexts, NEW r, NEW data, Inline(r, t, data), r.mode = "line",
         NEW text \in Seq(Bytes), NEW more \in Seq(Bytes),
         data = Glue(text, Glue(CRLF, more)), FirstLine(text, data)
  PROVE  Inline(ServerLine(r, text), t, more)
<1>1. r = InPlainText(t[1]) /\ data = Glue(Tail(t), CRLF)
  BY InlineModes DEF Inline
<1>2. PICK u : u = Tail(t)
  OBVIOUS
<1>3. u \in LineTexts /\ u \in Seq(Bytes) /\ t = Glue(<<t[1]>>, u)
  BY <1>2, RawTextIs
<1>4. CRLF \in Seq(Bytes) /\ <<>> \in Seq(Bytes) /\ Glue(CRLF, <<>>) = CRLF
  BY CRLFIs, GlueIs, EmptySeq
<1>5. data = Glue(u, Glue(CRLF, <<>>))
  BY <1>1, <1>2, <1>4
<1>6. Len(u) = Len(text)
  BY <1>3, <1>4, <1>5 DEF FirstLine
<1>7. PICK y : y = Glue(CRLF, more)
  OBVIOUS
<1>8. y \in Seq(Bytes)
  BY <1>4, <1>7, GlueIs
<1>9. Glue(text, y) = Glue(u, CRLF)
  BY <1>4, <1>5, <1>7
<1>10. text = u /\ y = CRLF
  BY <1>3, <1>4, <1>6, <1>8, <1>9, SameFront
<1>11. more = <<>>
  <2>1. Glue(CRLF, more) = Glue(CRLF, <<>>) /\ Len(CRLF) = Len(CRLF)
    BY <1>4, <1>7, <1>10
  <2> QED
    BY <1>4, <2>1, SameFront
<1>12. <<t[1]>> \o text = t
  BY <1>3, <1>10 DEF Glue
<1>13. ServerLine(r, text) = Finished(ListOf(Words(t)))
  <2>1. r.kind = "inline" /\ r.value \o text = t
    BY <1>1, <1>12, InlineModes
  <2> QED
    BY <2>1 DEF ServerLine, Finished
<1> QED
  BY <1>11, <1>13 DEF Inline

(* It is a list already.                                                   *)
LEMMA InlineIsCommand ==
  ASSUME NEW t \in RawTexts
  PROVE  AsCommand(ListOf(Words(t))) = ListOf(Words(t))
<1> DEFINE blanks == {i \in 1 .. Len(t) : t[i] = "SP"}
<1>1. Len(t) \in Nat
  <2>1. t \in Seq(Bytes)
    BY RawTextIs
  <2> QED
    BY <2>1, LenProperties
<1>2. Cardinality(blanks) \in Nat
  <2>1. IsFiniteSet(1 .. Len(t)) /\ blanks \subseteq 1 .. Len(t)
    BY <1>1, FS_Interval
  <2> QED
    BY <2>1, FS_Subset, FS_CardinalityType
<1> DEFINE n == Cardinality(blanks) + 1
           word(i) == LET cuts == SetToSortSeq(blanks \cup {0, Len(t) + 1}, <)
                      IN <<"str", SubSeq(t, cuts[i] + 1, cuts[i + 1] - 1)>>
           S == {word(i) : i \in 1 .. n} \cup {<<"list", Len(Words(t))>>}
<1>3. Words(t) = [i \in 1 .. n |-> word(i)]
  BY DEF Words
<1>4. n \in Nat
  BY <1>2
<1> HIDE DEF n, word
<1>5. Words(t) \in Seq(S)
  <2>1. [i \in 1 .. n |-> word(i)] \in [1 .. n -> S]
    OBVIOUS
  <2> QED
    BY <1>3, <1>4, <2>1
<1>6. PICK head : head = <<"list", Len(Words(t))>>
  OBVIOUS
<1>7. <<head>> \in Seq(S) /\ Len(<<head>>) = 1 /\ <<head>>[1] = head
  BY <1>6
<1> HIDE DEF S
<1>8. PICK e, w : e = <<head>> /\ w = Words(t)
  OBVIOUS
<1>9. e \in Seq(S) /\ w \in Seq(S) /\ Len(e) = 1 /\ e[1] = head
  BY <1>5, <1>7, <1>8
<1>10. (e \o w)[1] = e[1]
  <2>1. Len(w) \in Nat
    BY <1>9, LenProperties
  <2>2. \A i \in 1 .. Len(e) + Len(w) :
          (e \o w)[i] = IF i <= Len(e) THEN e[i] ELSE w[i - Len(e)]
    BY <1>9, ConcatProperties, Zenon
  <2> QED
    BY <1>9, <2>1, <2>2
<1>11. ListOf(Words(t)) = e \o w
  BY <1>6, <1>8 DEF ListOf
<1>12. ListOf(Words(t))[1][1] = "list"
  BY <1>6, <1>9, <1>10, <1>11
<1> QED
  BY <1>12 DEF AsCommand

-----------------------------------------------------------------------------
(* What the reader wants next is a number of bytes.                        *)
LEMMA WantIs ==
  ASSUME NEW v, Message(v), NEW r, NEW data, Reading(r, v, data)
  PROVE  /\ r.mode = "start" => r.want = 1
         /\ r.mode = "bytes" => r.want \in Nat /\ r.want >= 2
<1>1. PICK rest, k : Coding(rest, v) /\ k \in 0 .. Len(v) /\ ReadingAt(r, v, rest, k, data)
  BY DEF Reading
<1>2. CASE r.mode = "start"
  <2>1. k # Len(v) /\ At(r, v, k)
    BY <1>1, <1>2, ModeTells
  <2>2. PICK s : r = Starting(s, FirstNodes(v, k))
    BY <2>1 DEF At
  <2> QED
    BY <1>2, <2>2, StartingIs
<1>3. CASE r.mode = "bytes"
  <2>1. InBytes(r, v, rest, k, data)
    BY <1>1, <1>3, ModeTells
  <2>2. PICK s : r = Sizing(Starting(s, FirstNodes(v, k)), v[k + 1])
    BY <2>1 DEF InBytes
  <2>3. PICK node : node = v[k + 1]
    OBVIOUS
  <2>4. IsBlob(node)
    BY <2>1, <2>3 DEF InBytes
  <2>5. Len(node[2]) \in Nat
    BY <2>4, LenProperties DEF IsBlob
  <2>6. r.want = Len(node[2]) + 2
    BY <2>2, <2>3, SizingIs
  <2> QED
    BY <1>3, <2>5, <2>6
<1> QED
  BY <1>2, <1>3

-----------------------------------------------------------------------------
(* The server receives a command: a packed one, or one in plain text.      *)

Request(command, payload) ==
  \/ command \in Commands /\ payload = pack_resp(command)
  \/ \E t \in RawTexts : command = ListOf(Words(t)) /\ payload = t \o CRLF

Receiving(r, command, data) ==
  \/ command \in Commands /\ Reading(r, command, data)
  \/ \E t \in RawTexts : command = ListOf(Words(t)) /\ Inline(r, t, data)

(* A reader that is fresh begins with a request.                           *)
LEMMA ReceivingBegins ==
  ASSUME NEW command, NEW payload, Request(command, payload)
  PROVE  Receiving(Fresh, command, payload) /\ payload \in Seq(Bytes)
<1>1. CASE command \in Commands /\ payload = pack_resp(command)
  <2>1. Message(command)
    BY <1>1, CommandIs
  <2>2. PICK rest : Coding(rest, command) /\ pack_resp(command) = rest[0]
    BY <1>1, CommandIs
  <2>3. Reading(Fresh, command, rest[0]) /\ rest[0] \in Seq(Bytes)
    BY <2>1, <2>2, ReadingBegins
  <2> QED
    BY <1>1, <2>2, <2>3 DEF Receiving
<1>2. ASSUME NEW t \in RawTexts, command = ListOf(Words(t)), payload = t \o CRLF
      PROVE  Receiving(Fresh, command, payload) /\ payload \in Seq(Bytes)
  <2>1. t \in Seq(Bytes) /\ CRLF \in Seq(Bytes)
    BY RawTextIs, CRLFIs
  <2>2. payload = Glue(t, CRLF)
    BY <1>2 DEF Glue
  <2>3. payload \in Seq(Bytes)
    BY <2>1, <2>2, GlueIs
  <2> QED
    BY <1>2, <2>2, <2>3 DEF Receiving, Inline
<1> QED
  BY <1>1, <1>2 DEF Request

(* What the reader wants, and what it has when it is done.                 *)
LEMMA ReceivingIs ==
  ASSUME NEW r, NEW command, NEW data, Receiving(r, command, data)
  PROVE  /\ r.mode \in {"start", "line", "bytes", "done"}
         /\ r.mode = "done" => AsCommand(r.value) = command /\ data = <<>>
         /\ r.mode = "start" => r.want = 1
         /\ r.mode = "bytes" => r.want \in Nat /\ r.want >= 2
<1>1. CASE command \in Commands /\ Reading(r, command, data)
  <2>1. Message(command) /\ AsCommand(command) = command
    BY <1>1, CommandIs
  <2>2. /\ r.mode \in {"start", "line", "bytes", "done"}
        /\ r.mode = "done" => r.value = command /\ data = <<>>
    BY <1>1, DoneIs
  <2>3. /\ r.mode = "start" => r.want = 1
        /\ r.mode = "bytes" => r.want \in Nat /\ r.want >= 2
    BY <1>1, <2>1, WantIs
  <2> QED
    BY <2>1, <2>2, <2>3
<1>2. ASSUME NEW t \in RawTexts, command = ListOf(Words(t)), Inline(r, t, data)
      PROVE  /\ r.mode \in {"start", "line", "done"}
             /\ r.mode = "done" => AsCommand(r.value) = command /\ data = <<>>
             /\ r.mode = "start" => r.want = 1
  <2>1. AsCommand(command) = command
    BY <1>2, InlineIsCommand
  <2> QED
    BY <1>2, <2>1, InlineModes DEF Inline
<1> QED
  BY <1>1, <1>2 DEF Receiving

(* It takes one byte, ...                                                  *)
LEMMA ReceivingStarts ==
  ASSUME NEW r, NEW command, NEW data, Receiving(r, command, data), r.mode = "start",
         NEW c \in Bytes, NEW more \in Seq(Bytes), data = Glue(<<c>>, more)
  PROVE  Receiving(ServerStart(r, c), command, more)
<1>1. CASE command \in Commands /\ Reading(r, command, data)
  <2>1. Message(command) /\ Readable(command)
    BY <1>1, CommandIs
  <2>2. Reading(ServerStart(r, c), command, more)
    BY <1>1, <2>1, ServerStarts
  <2> QED
    BY <1>1, <2>2 DEF Receiving
<1>2. ASSUME NEW t \in RawTexts, command = ListOf(Words(t)), Inline(r, t, data)
      PROVE  Receiving(ServerStart(r, c), command, more)
  <2>1. Inline(ServerStart(r, c), t, more)
    BY <1>2, InlineStarts
  <2> QED
    BY <1>2, <2>1 DEF Receiving
<1> QED
  BY <1>1, <1>2 DEF Receiving

(* ... a line, ...                                                         *)
LEMMA ReceivingLines ==
  ASSUME NEW r, NEW command, NEW data, Receiving(r, command, data), r.mode = "line",
         NEW text \in Seq(Bytes), NEW more \in Seq(Bytes),
         data = Glue(text, Glue(CRLF, more)), FirstLine(text, data)
  PROVE  Receiving(ServerLine(r, text), command, more)
<1>1. CASE command \in Commands /\ Reading(r, command, data)
  <2>1. Message(command) /\ Readable(command)
    BY <1>1, CommandIs
  <2>2. Reading(ServerLine(r, text), command, more)
    BY <1>1, <2>1, ServerLines
  <2> QED
    BY <1>1, <2>2 DEF Receiving
<1>2. ASSUME NEW t \in RawTexts, command = ListOf(Words(t)), Inline(r, t, data)
      PROVE  Receiving(ServerLine(r, text), command, more)
  <2>1. Inline(ServerLine(r, text), t, more)
    BY <1>2, InlineLines
  <2> QED
    BY <1>2, <2>1 DEF Receiving
<1> QED
  BY <1>1, <1>2 DEF Receiving

(* ... or a number of bytes.                                               *)
LEMMA ReceivingBytes ==
  ASSUME NEW r, NEW command, NEW data, Receiving(r, command, data), r.mode = "bytes",
         NEW portion \in Seq(Bytes), NEW more \in Seq(Bytes),
         data = Glue(portion, more), Len(portion) = r.want
  PROVE  Receiving(BytesRead(r, portion), command, more)
<1>1. CASE command \in Commands /\ Reading(r, command, data)
  <2>1. Message(command)
    BY <1>1, CommandIs
  <2>2. Reading(BytesRead(r, portion), command, more)
    BY <1>1, <2>1, BytesReads
  <2> QED
    BY <1>1, <2>2 DEF Receiving
<1>2. ASSUME NEW t \in RawTexts, command = ListOf(Words(t)), Inline(r, t, data)
      PROVE  FALSE
  BY <1>2, InlineModes DEF Inline
<1> QED
  BY <1>1, <1>2 DEF Receiving

-----------------------------------------------------------------------------
(* What the server takes from its inbox.                                   *)

(* A sequence is cut anywhere.                                             *)
LEMMA GlueCut ==
  ASSUME NEW s \in Seq(Bytes), NEW n \in Nat, n <= Len(s)
  PROVE  /\ SubSeq(s, 1, n) \in Seq(Bytes) /\ SubSeq(s, n + 1, Len(s)) \in Seq(Bytes)
         /\ Len(SubSeq(s, 1, n)) = n
         /\ s = Glue(SubSeq(s, 1, n), SubSeq(s, n + 1, Len(s)))
<1>1. 1 \in Nat \ {0} /\ n + 1 \in Nat \ {0} /\ Len(s) \in Nat
  BY LenProperties
<1>2. /\ SubSeq(s, 1, n) \in Seq(Bytes)
      /\ Len(SubSeq(s, 1, n)) = IF 1 <= n THEN n - 1 + 1 ELSE 0
  BY <1>1, SubSeqIn
<1>3. SubSeq(s, n + 1, Len(s)) \in Seq(Bytes)
  BY <1>1, SubSeqIn
<1>4. SubSeq(s, 1, n) \o SubSeq(s, n + 1, Len(s)) = SubSeq(s, 1, Len(s))
  <2>1. 1 \in 1 .. Len(s) + 1 /\ n \in 1 - 1 .. Len(s) /\ Len(s) \in n .. Len(s)
    BY <1>1
  <2> QED
    BY <2>1, ConcatAdjacentSubSeq
<1>5. SubSeq(s, 1, Len(s)) = s
  BY SubSeqFull
<1>6. s = Glue(SubSeq(s, 1, n), SubSeq(s, n + 1, Len(s)))
  BY <1>4, <1>5 DEF Glue
<1>7. Len(SubSeq(s, 1, n)) = n
  BY <1>1, <1>2
<1> QED
  BY <1>2, <1>3, <1>6, <1>7

(* Two bytes are CRLF.                                                     *)
LEMMA PairIs ==
  ASSUME NEW s \in Seq(Bytes), NEW i \in 2 .. Len(s)
  PROVE  SubSeq(s, i - 1, i) = CRLF <=> s[i - 1] = CR /\ s[i] = LF
<1>1. Len(s) \in Nat /\ i \in Nat /\ i - 1 \in Nat \ {0} /\ i <= Len(s)
  BY LenProperties
<1>2. /\ SubSeq(s, i - 1, i) \in Seq(Bytes)
      /\ Len(SubSeq(s, i - 1, i)) = IF i - 1 <= i THEN i - (i - 1) + 1 ELSE 0
      /\ \A j \in 1 .. i - (i - 1) + 1 : SubSeq(s, i - 1, i)[j] = s[(i - 1) + j - 1]
  BY <1>1, SubSeqIn
<1>3. PICK p : p = SubSeq(s, i - 1, i)
  OBVIOUS
<1>4. p \in Seq(Bytes) /\ Len(p) = 2
  BY <1>1, <1>2, <1>3
<1>5. p[1] = s[i - 1] /\ p[2] = s[i]
  <2>1. 1 \in 1 .. i - (i - 1) + 1 /\ 2 \in 1 .. i - (i - 1) + 1
    BY <1>1
  <2>2. (i - 1) + 1 - 1 = i - 1 /\ (i - 1) + 2 - 1 = i
    BY <1>1
  <2> QED
    BY <1>2, <1>3, <2>1, <2>2
<1>6. p = CRLF <=> p[1] = CR /\ p[2] = LF
  <2>1. ASSUME p[1] = CR, p[2] = LF PROVE p = CRLF
    <3>1. \A j \in 1 .. 2 : p[j] = CRLF[j]
      BY <2>1, CRLFIs
    <3> QED
      BY <1>4, <3>1, CRLFIs, SeqEqual
  <2> QED
    BY <2>1, CRLFIs
<1> QED
  BY <1>3, <1>5, <1>6

(* A set of positions has a least one.                                     *)
LEMMA LeastIs ==
  ASSUME NEW n \in Nat, NEW S \in SUBSET (1 .. n), S # {}
  PROVE  \E i \in S : \A j \in S : i <= j
<1> DEFINE T == {(n + 1) - i : i \in S}
<1>1. T \in SUBSET (1 .. n) /\ T # {}
  <2>1. ASSUME NEW i \in S PROVE (n + 1) - i \in 1 .. n
    <3>1. i \in 1 .. n
      OBVIOUS
    <3> QED
      BY <3>1
  <2>2. \E i : i \in S
    OBVIOUS
  <2> QED
    BY <2>1, <2>2
<1>2. Max(T) \in T /\ \A i \in T : i <= Max(T)
  BY <1>1, MaxIs
<1>3. PICK i \in S : Max(T) = (n + 1) - i
  BY <1>2
<1>4. ASSUME NEW j \in S PROVE i <= j
  <2>1. (n + 1) - j <= (n + 1) - i
    BY <1>2, <1>3
  <2> QED
    BY <2>1
<1> QED
  BY <1>4

(* The least end of a line in the inbox.                                   *)
LEMMA LineEndIs ==
  ASSUME inbox \in Seq(Bytes), server.mode = "line", PortionEnd > 0
  PROVE  /\ PortionEnd \in 2 .. Len(inbox)
         /\ inbox[PortionEnd - 1] = CR /\ inbox[PortionEnd] = LF
         /\ \A i \in 2 .. Len(inbox) : inbox[i - 1] = CR /\ inbox[i] = LF => PortionEnd <= i
<1> DEFINE ends == {i \in 2 .. Len(inbox) : SubSeq(inbox, i - 1, i) = CRLF}
           least == CHOOSE i \in ends : \A j \in ends : i <= j
<1>1. PortionEnd = IF ends = {} THEN 0 ELSE least
  BY DEF PortionEnd
<1>2. ends # {} /\ PortionEnd = least
  <2> HIDE DEF ends, least
  <2> QED
    BY <1>1
<1>3. PICK n : n = Len(inbox)
  OBVIOUS
<1>4. n \in Nat
  BY <1>3, LenProperties
<1>5. ends \in SUBSET (1 .. n)
  BY <1>3, <1>4
<1>6. \E i \in ends : \A j \in ends : i <= j
  <2> HIDE DEF ends
  <2> QED
    BY <1>2, <1>4, <1>5, LeastIs
<1>7. PortionEnd \in ends /\ \A j \in ends : PortionEnd <= j
  BY <1>2, <1>6
<1>8. PortionEnd \in 2 .. Len(inbox) /\ SubSeq(inbox, PortionEnd - 1, PortionEnd) = CRLF
  BY <1>7
<1>9. ASSUME NEW i \in 2 .. Len(inbox), inbox[i - 1] = CR, inbox[i] = LF PROVE PortionEnd <= i
  <2>1. SubSeq(inbox, i - 1, i) = CRLF
    BY <1>9, PairIs
  <2> QED
    BY <1>7, <2>1
<1>10. inbox[PortionEnd - 1] = CR /\ inbox[PortionEnd] = LF
  BY <1>8, PairIs
<1> QED
  BY <1>8, <1>9, <1>10

(* What the reader waits for is in the inbox.                              *)
LEMMA PortionIs ==
  ASSUME inbox \in Seq(Bytes), server.mode \in {"start", "line", "bytes"}, PortionEnd > 0,
         server.mode \in {"start", "bytes"} => server.want \in Nat
  PROVE  /\ PortionEnd \in 1 .. Len(inbox)
         /\ server.mode \in {"start", "bytes"} => PortionEnd = server.want
<1>1. CASE server.mode \in {"start", "bytes"}
  <2>1. PortionEnd = IF server.want <= Len(inbox) THEN server.want ELSE 0
    BY <1>1 DEF PortionEnd
  <2>2. Len(inbox) \in Nat
    BY LenProperties
  <2> QED
    BY <1>1, <2>1, <2>2
<1>2. CASE server.mode = "line"
  BY <1>2, LineEndIs
<1> QED
  BY <1>1, <1>2

(* What the server makes of a portion of the command it is receiving.      *)
LEMMA ServerReadsOn ==
  ASSUME inbox \in Seq(Bytes), ServerReads, NEW command, NEW z \in Seq(Bytes),
         Receiving(server, command, Glue(inbox, z))
  PROVE  /\ inbox' \in Seq(Bytes)
         /\ Receiving(server', command, Glue(inbox', z))
<1> DEFINE portion == SubSeq(inbox, 1, PortionEnd)
           kept == SubSeq(inbox, PortionEnd + 1, Len(inbox))
<1>1. /\ server.mode \in {"start", "line", "bytes"} /\ PortionEnd > 0 /\ inbox' = kept
      /\ server.mode = "start" => server' = ServerStart(server, portion[1])
      /\ server.mode = "line" =>
           server' = ServerLine(server, SubSeq(portion, 1, Len(portion) - 2))
      /\ server.mode = "bytes" => server' = BytesRead(server, portion)
  BY DEF ServerReads
<1>2. /\ server.mode = "start" => server.want = 1
      /\ server.mode = "bytes" => server.want \in Nat /\ server.want >= 2
  BY ReceivingIs
<1>3. /\ PortionEnd \in 1 .. Len(inbox)
      /\ server.mode \in {"start", "bytes"} => PortionEnd = server.want
  BY <1>1, <1>2, PortionIs
<1>4. PortionEnd \in Nat /\ PortionEnd <= Len(inbox) /\ PortionEnd >= 1
  BY <1>3, LenProperties
<1>5. /\ portion \in Seq(Bytes) /\ kept \in Seq(Bytes) /\ Len(portion) = PortionEnd
      /\ inbox = Glue(portion, kept)
  BY <1>4, GlueCut
<1> HIDE DEF portion, kept
<1>6. Glue(kept, z) \in Seq(Bytes) /\ Glue(Glue(portion, kept), z) = Glue(portion, Glue(kept, z))
  BY <1>5, GlueIs, GlueThree
<1>7. PICK data, more : data = Glue(inbox, z) /\ more = Glue(kept, z)
  OBVIOUS
<1>8. /\ Receiving(server, command, data) /\ data = Glue(portion, more) /\ more \in Seq(Bytes)
  BY <1>5, <1>6, <1>7
<1>9. Receiving(server', command, more)
  <2>1. CASE server.mode = "start"
    <3>1. Len(portion) = 1
      BY <1>2, <1>3, <1>5, <2>1
    <3>2. portion[1] \in Bytes /\ portion = <<portion[1]>>
      <4>1. 1 \in 1 .. Len(portion)
        BY <3>1
      <4>2. portion[1] \in Bytes
        BY <1>5, <4>1, ElementOfSeq
      <4>3. PICK e : e = <<portion[1]>>
        OBVIOUS
      <4>4. e \in Seq(Bytes) /\ Len(e) = 1 /\ e[1] = portion[1]
        BY <4>2, <4>3, SingleIs
      <4>5. portion = e
        BY <1>5, <3>1, <4>4, SeqEqual
      <4> QED
        BY <4>2, <4>3, <4>5
    <3>3. data = Glue(<<portion[1]>>, more)
      BY <1>8, <3>2
    <3>4. Receiving(ServerStart(server, portion[1]), command, more)
      BY <1>8, <2>1, <3>2, <3>3, ReceivingStarts
    <3> QED
      BY <1>1, <2>1, <3>4
  <2>2. CASE server.mode = "bytes"
    <3>1. Receiving(BytesRead(server, portion), command, more)
      BY <1>3, <1>5, <1>8, <2>2, ReceivingBytes
    <3> QED
      BY <1>1, <2>2, <3>1
  <2>3. CASE server.mode = "line"
    <3>1. /\ PortionEnd \in 2 .. Len(inbox)
          /\ inbox[PortionEnd - 1] = CR /\ inbox[PortionEnd] = LF
          /\ \A i \in 2 .. Len(inbox) : inbox[i - 1] = CR /\ inbox[i] = LF => PortionEnd <= i
      BY <1>1, <2>3, LineEndIs
    <3>2. PICK p : p = PortionEnd
      OBVIOUS
    <3>3. PICK text : text = SubSeq(portion, 1, Len(portion) - 2)
      OBVIOUS
    <3>4. /\ p \in Nat /\ p >= 2 /\ Len(portion) = p
          /\ Len(portion) - 2 = p - 2 /\ p - 2 \in Nat /\ p - 2 <= Len(portion)
      BY <1>4, <1>5, <3>1, <3>2
    <3>5. /\ text \in Seq(Bytes) /\ Len(text) = p - 2
          /\ SubSeq(portion, (p - 2) + 1, Len(portion)) \in Seq(Bytes)
          /\ portion = Glue(text, SubSeq(portion, (p - 2) + 1, Len(portion)))
      BY <1>5, <3>3, <3>4, GlueCut
    <3>6. SubSeq(portion, (p - 2) + 1, Len(portion)) = CRLF
      <4>1. (p - 2) + 1 = p - 1 /\ p \in 2 .. Len(portion)
        BY <3>4
      <4>2. portion[p - 1] = inbox[p - 1] /\ portion[p] = inbox[p]
        <5>1. \A i \in 1 .. Len(portion) + Len(kept) :
                Glue(portion, kept)[i] = IF i <= Len(portion) THEN portion[i] ELSE kept[i - Len(portion)]
          BY <1>5, GlueAt
        <5>2. /\ p - 1 \in 1 .. Len(portion) + Len(kept) /\ p \in 1 .. Len(portion) + Len(kept)
              /\ p - 1 <= Len(portion) /\ p <= Len(portion)
          <6>1. Len(kept) \in Nat
            BY <1>5, LenProperties
          <6> QED
            BY <3>4, <6>1
        <5> QED
          BY <1>5, <5>1, <5>2
      <4>3. portion[p - 1] = CR /\ portion[p] = LF
        BY <3>1, <3>2, <4>2
      <4>4. SubSeq(portion, p - 1, p) = CRLF
        BY <1>5, <4>1, <4>3, PairIs
      <4> QED
        BY <3>4, <4>1, <4>4
    <3>7. data = Glue(text, Glue(CRLF, more))
      <4>1. portion = Glue(text, CRLF) /\ CRLF \in Seq(Bytes)
        BY <3>5, <3>6, CRLFIs
      <4>2. Glue(Glue(text, CRLF), more) = Glue(text, Glue(CRLF, more))
        BY <1>8, <3>5, <4>1, GlueThree
      <4> QED
        BY <1>8, <4>1, <4>2
    <3>8. FirstLine(text, data)
      <4>1. p \in 2 .. Len(inbox) /\ inbox[p - 1] = CR /\ inbox[p] = LF
        BY <3>1, <3>2
      <4>2. \A i \in 2 .. Len(inbox) : inbox[i - 1] = CR /\ inbox[i] = LF => p <= i
        BY <3>1, <3>2
      <4>3. FirstLine(text, Glue(inbox, z))
        BY <3>5, <4>1, <4>2, FirstCRLFIsFirst
      <4> QED
        BY <1>7, <4>3
    <3>9. Receiving(ServerLine(server, text), command, more)
      BY <1>8, <2>3, <3>5, <3>7, <3>8, ReceivingLines
    <3> QED
      BY <1>1, <2>3, <3>3, <3>9
  <2> QED
    BY <1>1, <2>1, <2>2, <2>3
<1> QED
  BY <1>1, <1>5, <1>7, <1>9

-----------------------------------------------------------------------------
(* What the client takes from its buffer.                                  *)

(* What is pending is bytes, before a step and after it.                   *)
LEMMA PendingOf ==
  ASSUME NEW b \in Seq(Bytes), NEW w \in Seq(Bytes), NEW m \in Nat, NEW n \in Nat, n <= Len(b)
  PROVE  SubSeq(b, m + 1, n) \in Seq(Bytes) /\ SubSeq(b, m + 1, n) \o w \in Seq(Bytes)
<1>1. m + 1 \in Nat \ {0}
  OBVIOUS
<1>2. PICK s : s = SubSeq(b, m + 1, n)
  OBVIOUS
<1>3. s \in Seq(Bytes)
  BY <1>1, <1>2, SubSeqIn
<1>4. s \o w \in Seq(Bytes)
  BY <1>3, ConcatProperties
<1> QED
  BY <1>2, <1>3, <1>4

(* What is pending is a sequence of bytes.                                 *)
LEMMA PendingIs == ASSUME BufferInv PROVE Pending \in Seq(Bytes)
<1>1. /\ buffer \in Seq(Bytes) /\ wire \in Seq(Bytes) /\ bytes_read \in Nat
      /\ bytes_written \in Nat /\ bytes_written <= Len(buffer)
  BY DEF BufferInv, BufferTypeOK
<1> QED
  BY <1>1, PendingOf DEF Pending

(* And after the step.                                                     *)
LEMMA PendingWillBe == ASSUME BufferInv' PROVE Pending' \in Seq(Bytes)
<1>1. /\ buffer' \in Seq(Bytes) /\ wire' \in Seq(Bytes) /\ bytes_read' \in Nat
      /\ bytes_written' \in Nat /\ bytes_written' <= Len(buffer')
  BY DEF BufferInv, BufferTypeOK
<1>2. SubSeq(buffer', bytes_read' + 1, bytes_written') \o wire' \in Seq(Bytes)
  BY <1>1, PendingOf
<1> QED
  BY <1>2 DEF Pending

(* When nothing is pending the buffer has been purged.                     *)
LEMMA NothingPending ==
  ASSUME BufferInv, Pending = <<>>
  PROVE  wire = <<>> /\ buffer = <<>> /\ bytes_written = 0
<1>1. /\ buffer \in Seq(Bytes) /\ wire \in Seq(Bytes) /\ bytes_read \in Nat
      /\ bytes_written \in Nat /\ bytes_written = Len(buffer) /\ bytes_read <= bytes_written
      /\ bytes_read = bytes_written => bytes_written = 0
  BY DEF BufferInv, BufferTypeOK
<1>2. PICK s : s = SubSeq(buffer, bytes_read + 1, bytes_written)
  OBVIOUS
<1>3. bytes_read + 1 \in Nat \ {0}
  BY <1>1
<1>4. /\ s \in Seq(Bytes)
      /\ Len(s) = IF bytes_read + 1 <= bytes_written THEN bytes_written - (bytes_read + 1) + 1 ELSE 0
  BY <1>1, <1>2, <1>3, SubSeqIn
<1>5. s \o wire = <<>>
  BY <1>2 DEF Pending
<1>6. Len(s \o wire) = Len(s) + Len(wire) /\ Len(s \o wire) = 0
  BY <1>1, <1>4, <1>5, ConcatProperties
<1>7. Len(s) \in Nat /\ Len(wire) \in Nat
  BY <1>1, <1>4, LenProperties
<1>8. Len(s) = 0 /\ Len(wire) = 0
  BY <1>6, <1>7
<1>9. bytes_read = bytes_written
  BY <1>1, <1>4, <1>8
<1> QED
  BY <1>1, <1>8, <1>9, EmptySeq

(* The call that is under way is what the reader wants.                    *)
Wanted(r) ==
  \/ asked = Line /\ r.mode = "line"
  \/ asked = r.want /\ r.mode \in {"start", "bytes"}

(* What the client makes of what its buffer returns.                       *)
LEMMA ClientReadsOn ==
  ASSUME BufferInv, BufferInv', Wanted(client), ClientReads,
         NEW v, Message(v), NEW z \in Seq(Bytes), Reading(client, v, Glue(Pending, z))
  PROVE  Reading(client', v, Glue(Pending', z))
<1>1. ReadStep
  BY StepIsExact
<1>2. PICK kept : kept = Pending'
  OBVIOUS
<1>3. kept \in Seq(Bytes)
  BY <1>2, PendingWillBe
<1>4. PICK data, more : data = Glue(Pending, z) /\ more = Glue(kept, z)
  OBVIOUS
<1>5. more \in Seq(Bytes)
  BY <1>3, <1>4, GlueIs
<1>6. CASE client.mode \in {"start", "bytes"} /\ ReadReturns
  <2>1. Len(ReadResult) = asked /\ Pending = ReadResult \o Pending'
    BY <1>1, <1>6 DEF ReadStep
  <2>2. ReadResult \in Seq(Bytes)
    BY <1>6, ReadHasEnough
  <2>3. PICK portion : portion = ReadResult
    OBVIOUS
  <2>4. asked = client.want
    BY <1>6 DEF Wanted
  <2>5. portion \in Seq(Bytes) /\ Len(portion) = client.want /\ Pending = Glue(portion, kept)
    BY <1>2, <2>1, <2>2, <2>3, <2>4 DEF Glue
  <2>6. Glue(Glue(portion, kept), z) = Glue(portion, Glue(kept, z))
    BY <1>3, <2>5, GlueThree
  <2>7. data = Glue(portion, more) /\ Reading(client, v, data)
    BY <1>4, <2>5, <2>6
  <2>8. CASE client.mode = "start"
    <3>1. Len(portion) = 1
      BY <2>5, <2>7, <2>8, WantIs
    <3>2. portion[1] \in Bytes /\ portion = <<portion[1]>>
      <4>1. 1 \in 1 .. Len(portion)
        BY <3>1
      <4>2. portion[1] \in Bytes
        BY <2>5, <4>1, ElementOfSeq
      <4>3. PICK e : e = <<portion[1]>>
        OBVIOUS
      <4>4. e \in Seq(Bytes) /\ Len(e) = 1 /\ e[1] = portion[1]
        BY <4>2, <4>3, SingleIs
      <4>5. portion = e
        BY <2>5, <3>1, <4>4, SeqEqual
      <4> QED
        BY <4>2, <4>3, <4>5
    <3>3. data = Glue(<<portion[1]>>, more)
      BY <2>7, <3>2
    <3>4. Reading(ClientStart(client, portion[1]), v, more)
      BY <1>5, <2>7, <2>8, <3>2, <3>3, ClientStarts
    <3>5. client' = ClientStart(client, portion[1])
      BY <2>3, <2>8 DEF ClientReads
    <3> QED
      BY <1>2, <1>4, <3>4, <3>5
  <2>9. CASE client.mode = "bytes"
    <3>1. Reading(BytesRead(client, portion), v, more)
      BY <1>5, <2>5, <2>7, <2>9, BytesReads
    <3>2. client' = BytesRead(client, portion)
      BY <2>3, <2>9 DEF ClientReads
    <3> QED
      BY <1>2, <1>4, <3>1, <3>2
  <2> QED
    BY <1>6, <2>8, <2>9
<1>7. CASE client.mode = "line" /\ ReadlineReturns
  <2>1. /\ \A j \in 1 .. Len(LineResult) : LineResult[j] # LF
        /\ Pending = LineResult \o CRLF \o Pending'
    BY <1>1, <1>7 DEF ReadStep
  <2>2. LineResult \in Seq(Bytes)
    BY <1>7, LineIsCut
  <2>3. PICK text : text = LineResult
    OBVIOUS
  <2>4. /\ text \in Seq(Bytes) /\ \A j \in 1 .. Len(text) : text[j] # LF
        /\ Pending = Glue(Glue(text, CRLF), kept)
    BY <1>2, <2>1, <2>2, <2>3 DEF Glue
  <2>5. CRLF \in Seq(Bytes) /\ Glue(text, CRLF) \in Seq(Bytes)
    BY <2>4, CRLFIs, GlueIs
  <2>6. Glue(Glue(Glue(text, CRLF), kept), z) = Glue(Glue(text, CRLF), Glue(kept, z))
    BY <1>3, <2>5, GlueThree
  <2>7. Glue(Glue(text, CRLF), more) = Glue(text, Glue(CRLF, more))
    BY <1>5, <2>4, <2>5, GlueThree
  <2>8. data = Glue(text, Glue(CRLF, more)) /\ Reading(client, v, data)
    BY <1>4, <2>4, <2>6, <2>7
  <2>9. FirstLine(text, data)
    BY <1>5, <2>4, <2>8, NoLFIsFirst
  <2>10. Reading(ClientLine(client, text), v, more)
    BY <1>5, <1>7, <2>4, <2>8, <2>9, ClientLines
  <2>11. client' = ClientLine(client, text)
    BY <1>7, <2>3 DEF ClientReads
  <2> QED
    BY <1>2, <1>4, <2>10, <2>11
<1> QED
  BY <1>6, <1>7 DEF ClientReads

(* A machine that reads can be told that the stream has ended.             *)
LEMMA EndedIs ==
  ASSUME NEW r, NEW command, NEW data, Receiving(r, command, data)
  PROVE  [r EXCEPT !.mode = "ended"].mode = "ended"
<1> DEFINE Ends(s) == [s EXCEPT !.mode = "ended"].mode = "ended"
<1>1. Ends(Fresh) /\ \A c : Ends(InPlainText(c))
  BY DEF Fresh, InPlainText, Begun
<1>2. /\ \A n : Ends(Finished(n))
      /\ \A s, n : Ends(Starting(s, n))
      /\ \A s, n, c : Ends(Begun(Starting(s, n), c))
      /\ \A s, n, node : Ends(Sizing(Starting(s, n), node))
  BY DEF Fresh, Finished, Starting, Begun, Sizing
<1> HIDE DEF Ends
<1>3. ASSUME NEW v, Reading(r, v, data) PROVE Ends(r)
  BY <1>2, <1>3 DEF Reading, ReadingAt, Before, InLine, InBytes, At
<1>4. ASSUME NEW t \in RawTexts, Inline(r, t, data) PROVE Ends(r)
  BY <1>1, <1>2, <1>4 DEF Inline
<1>5. Ends(r)
  BY <1>3, <1>4 DEF Receiving
<1> QED
  BY <1>5 DEF Ends

-----------------------------------------------------------------------------
(* The invariant of the session.  A request and its answer are on their    *)
(* way one after the other, and what was cut off with the connection is    *)
(* all that can be missing of the one that is on its way.                  *)

SessionTypes ==
  /\ uplink \in Seq(Bytes) /\ inbox \in Seq(Bytes)
  /\ lost \in BOOLEAN /\ phase \in {"idle", "waiting"}
  /\ lost => uplink = <<>> /\ wire = <<>>

CallsAreWanted == asked # NoCall => phase = "waiting" /\ Wanted(client)

RequestIsSent == phase = "waiting" => Request(sent, request)

Reads == server = Fresh \/ (lost /\ server.mode = "ended")

Missing(missing) == missing \in Seq(Bytes) /\ (lost \/ missing = <<>>)

(* Nobody waits for anything.                                              *)
Idle ==
  /\ phase = "idle" /\ Reads
  /\ client = Fresh \/ (client.mode = "done" /\ client.value = answered)
  /\ uplink = <<>> /\ inbox = <<>> /\ Pending = <<>>

(* The server has not got the whole command yet, or executes it.           *)
Arriving ==
  /\ phase = "waiting" /\ client = Fresh /\ Pending = <<>>
  /\ \/ lost /\ server.mode = "ended"
     \/ \E missing : /\ Missing(missing)
                     /\ Receiving(server, sent, Glue(inbox, Glue(uplink, missing)))

(* The client reads the answer.                                            *)
Answering ==
  /\ phase = "waiting" /\ Reads
  /\ uplink = <<>> /\ inbox = <<>>
  /\ answered \in Answers
  /\ \E missing : Missing(missing) /\ Reading(client, answered, Glue(Pending, missing))

SessionInv ==
  /\ BufferInv /\ SessionTypes /\ CallsAreWanted /\ RequestIsSent
  /\ Idle \/ Arriving \/ Answering

(* The empty sequence.                                                     *)
LEMMA Nothing ==
  /\ <<>> \in Seq(Bytes) /\ Glue(<<>>, <<>>) = <<>>
  /\ \A a \in Seq(Bytes) : Glue(<<>>, a) = a /\ Glue(a, <<>>) = a
  BY GlueIs, EmptySeq

(* A reader that is fresh wants one byte, and finds none.                  *)
LEMMA FreshReads ==
  /\ Fresh.mode = "start" /\ Fresh.want = 1
  /\ server = Fresh /\ inbox = <<>> => PortionEnd = 0
<1>1. Fresh.mode = "start" /\ Fresh.want = 1
  BY InlineModes
<1>2. Len(<<>>) = 0
  BY EmptySeq
<1>3. ASSUME server = Fresh, inbox = <<>> PROVE PortionEnd = 0
  <2>1. server.mode = "start" /\ server.want = 1 /\ Len(inbox) = 0
    BY <1>1, <1>2, <1>3
  <2> QED
    BY <2>1 DEF PortionEnd
<1> QED
  BY <1>1, <1>3

(* Nothing that is empty is the end of something.                          *)
LEMMA NothingIn ==
  ASSUME NEW a \in Seq(Bytes), NEW b \in Seq(Bytes), Glue(a, b) = <<>>
  PROVE  a = <<>> /\ b = <<>>
<1>1. Len(Glue(a, b)) = Len(a) + Len(b) /\ Len(a) \in Nat /\ Len(b) \in Nat
  BY GlueAt
<1>2. Len(Glue(a, b)) = 0
  BY EmptySeq
<1> QED
  BY <1>1, <1>2, EmptySeq

-----------------------------------------------------------------------------
(* It holds initially.                                                     *)
LEMMA SessionBegins == SessionInit => SessionInv
<1> SUFFICES ASSUME SessionInit PROVE SessionInv
  OBVIOUS
<1>1. BufferInv
  BY BufferInitInv DEF SessionInit
<1>2. Pending = <<>>
  <2>1. buffer = <<>> /\ wire = <<>> /\ bytes_read = 0 /\ bytes_written = 0
    BY DEF SessionInit, BufferInit
  <2>2. SubSeq(buffer, bytes_read + 1, bytes_written) = <<>>
    BY <2>1, SubSeqEmpty
  <2>3. Pending = Glue(<<>>, <<>>)
    BY <2>1, <2>2 DEF Pending, Glue
  <2> QED
    BY <2>3, Nothing
<1>3. SessionTypes /\ CallsAreWanted /\ RequestIsSent
  BY EmptySeq DEF SessionInit, BufferInit, SessionTypes, CallsAreWanted, RequestIsSent
<1>4. Idle
  BY <1>2 DEF SessionInit, Idle, Reads
<1> QED
  BY <1>1, <1>3, <1>4 DEF SessionInv

(* A request is put on its way: nothing else was.                          *)
LEMMA SendCommandKeeps == ASSUME SessionInv, SendCommand PROVE SessionInv'
<1>1. PICK command, payload : Request(command, payload) /\ SendPayload(command, payload)
  BY DEF SendCommand, Request
<1>2. /\ phase = "idle" /\ lost = FALSE /\ phase' = "waiting" /\ client' = Fresh
      /\ sent' = command /\ request' = payload /\ uplink' = uplink \o payload
      /\ UNCHANGED <<wire, bufferVars, lost, inbox, server, answered>>
  BY <1>1 DEF SendPayload, serverSide, SessionInv, SessionTypes
<1>3. Idle
  BY <1>2 DEF SessionInv, Arriving, Answering
<1>4. Receiving(Fresh, command, payload) /\ payload \in Seq(Bytes)
  BY <1>1, ReceivingBegins
<1>5. uplink' = payload /\ inbox' = <<>> /\ server' = Fresh
  <2>1. uplink' = Glue(<<>>, payload)
    BY <1>2, <1>3 DEF Idle, Glue
  <2> QED
    BY <1>2, <1>3, <1>4, <2>1, Nothing DEF Idle, Reads
<1>6. BufferInv' /\ Pending' = Pending /\ asked = NoCall
  <2>1. BufferInv'
    BY <1>2, BufferInvKept DEF SessionInv
  <2>2. asked = NoCall
    BY <1>2 DEF SessionInv, CallsAreWanted
  <2> QED
    BY <1>2, <2>1, <2>2 DEF Pending, bufferVars
<1>7. SessionTypes' /\ CallsAreWanted' /\ RequestIsSent'
  <2>1. SessionTypes'
    BY <1>2, <1>4, <1>5, EmptySeq DEF SessionTypes
  <2>2. CallsAreWanted'
    BY <1>2, <1>6 DEF CallsAreWanted, bufferVars
  <2>3. RequestIsSent'
    BY <1>1, <1>2 DEF RequestIsSent
  <2> QED
    BY <2>1, <2>2, <2>3
<1>8. Arriving'
  <2>1. Glue(inbox', Glue(uplink', <<>>)) = payload
    BY <1>4, <1>5, Nothing
  <2>2. Receiving(server', sent', Glue(inbox', Glue(uplink', <<>>)))
    BY <1>2, <1>4, <1>5, <2>1
  <2>3. Missing(<<>>)'
    BY Nothing DEF Missing
  <2>4. phase' = "waiting" /\ client' = Fresh /\ Pending' = <<>>
    BY <1>2, <1>3, <1>6 DEF Idle
  <2> QED
    BY <2>2, <2>3, <2>4 DEF Arriving
<1> QED
  BY <1>6, <1>7, <1>8 DEF SessionInv

(* A piece of the request goes from the way to the inbox.                  *)
LEMMA DataReceivedKeeps ==
  ASSUME SessionInv, NEW n \in 1 .. Len(uplink), DataReceived(n) PROVE SessionInv'
<1>1. /\ lost = FALSE /\ inbox' = inbox \o SubSeq(uplink, 1, n)
      /\ uplink' = SubSeq(uplink, n + 1, Len(uplink))
      /\ UNCHANGED <<wire, bufferVars, lost, client, phase, sent, request, server, answered>>
  BY DEF DataReceived, clientSide, SessionInv, SessionTypes
<1>2. uplink \in Seq(Bytes) /\ inbox \in Seq(Bytes)
  BY DEF SessionInv, SessionTypes
<1>3. n \in Nat /\ n <= Len(uplink) /\ n >= 1
  BY <1>2, LenProperties
<1>4. PICK piece : piece = SubSeq(uplink, 1, n)
  OBVIOUS
<1>5. /\ piece \in Seq(Bytes) /\ uplink' \in Seq(Bytes) /\ uplink = Glue(piece, uplink')
  BY <1>1, <1>2, <1>3, <1>4, GlueCut
<1>6. inbox' = Glue(inbox, piece) /\ inbox' \in Seq(Bytes)
  <2>1. inbox' = Glue(inbox, piece)
    BY <1>1, <1>4 DEF Glue
  <2> QED
    BY <1>2, <1>5, <2>1, GlueIs
<1>7. BufferInv' /\ Pending' = Pending
  <2>1. BufferInv'
    BY <1>1, BufferInvKept DEF SessionInv
  <2> QED
    BY <1>1, <2>1 DEF Pending, bufferVars
<1>8. SessionTypes' /\ CallsAreWanted' /\ RequestIsSent'
  BY <1>1, <1>5, <1>6
     DEF SessionInv, SessionTypes, CallsAreWanted, RequestIsSent, Wanted, bufferVars
<1>9. Arriving
  <2>1. Len(<<>>) = 0
    BY EmptySeq
  <2>2. uplink # <<>>
    BY <1>3, <2>1
  <2> QED
    BY <2>2 DEF SessionInv, Idle, Answering
<1>10. PICK missing : /\ Missing(missing)
                      /\ Receiving(server, sent, Glue(inbox, Glue(uplink, missing)))
  BY <1>1, <1>9 DEF Arriving
<1>11. missing \in Seq(Bytes) /\ Missing(missing)'
  BY <1>1, <1>10 DEF Missing
<1>12. Glue(inbox, Glue(uplink, missing)) = Glue(inbox', Glue(uplink', missing))
  <2>1. PICK up : up = uplink'
    OBVIOUS
  <2>2. up \in Seq(Bytes) /\ uplink = Glue(piece, up) /\ Glue(up, missing) \in Seq(Bytes)
    BY <1>5, <1>11, <2>1, GlueIs
  <2>3. Glue(Glue(piece, up), missing) = Glue(piece, Glue(up, missing))
    BY <1>5, <1>11, <2>2, GlueThree
  <2>4. Glue(Glue(inbox, piece), Glue(up, missing)) = Glue(inbox, Glue(piece, Glue(up, missing)))
    BY <1>2, <1>5, <2>2, GlueThree
  <2> QED
    BY <1>6, <2>1, <2>2, <2>3, <2>4
<1>13. Receiving(server', sent', Glue(inbox', Glue(uplink', missing)))
  BY <1>1, <1>10, <1>12
<1>14. Arriving'
  BY <1>1, <1>7, <1>9, <1>11, <1>13 DEF Arriving
<1> QED
  BY <1>7, <1>8, <1>14 DEF SessionInv

(* The reader takes a portion, which is there only of a request.           *)
LEMMA ServerReadsKeeps == ASSUME SessionInv, ServerReads PROVE SessionInv'
<1>1. /\ server.mode \in {"start", "line", "bytes"} /\ PortionEnd > 0
      /\ UNCHANGED <<wire, bufferVars, uplink, lost, client, phase, sent, request, answered>>
  BY DEF ServerReads, clientSide
<1>2. uplink \in Seq(Bytes) /\ inbox \in Seq(Bytes)
  BY DEF SessionInv, SessionTypes
<1>3. ~(Reads /\ inbox = <<>>)
  BY <1>1, FreshReads DEF Reads
<1>4. Arriving
  BY <1>3 DEF SessionInv, Idle, Answering
<1>5. PICK missing : /\ Missing(missing)
                     /\ Receiving(server, sent, Glue(inbox, Glue(uplink, missing)))
  BY <1>1, <1>4 DEF Arriving
<1>6. missing \in Seq(Bytes) /\ Missing(missing)'
  BY <1>1, <1>5 DEF Missing
<1>7. PICK z : z = Glue(uplink, missing)
  OBVIOUS
<1>8. z \in Seq(Bytes) /\ Receiving(server, sent, Glue(inbox, z))
  BY <1>2, <1>5, <1>6, <1>7, GlueIs
<1>9. inbox' \in Seq(Bytes) /\ Receiving(server', sent, Glue(inbox', z))
  BY <1>2, <1>8, ServerReadsOn
<1>10. BufferInv' /\ Pending' = Pending
  <2>1. BufferInv'
    BY <1>1, BufferInvKept DEF SessionInv
  <2> QED
    BY <1>1, <2>1 DEF Pending, bufferVars
<1>11. SessionTypes' /\ CallsAreWanted' /\ RequestIsSent'
  BY <1>1, <1>9
     DEF SessionInv, SessionTypes, CallsAreWanted, RequestIsSent, Wanted, bufferVars
<1>12. Receiving(server', sent', Glue(inbox', Glue(uplink', missing)))
  BY <1>1, <1>7, <1>9
<1>13. Arriving'
  BY <1>1, <1>4, <1>6, <1>10, <1>12 DEF Arriving
<1> QED
  BY <1>10, <1>11, <1>13 DEF SessionInv

(* The answer is on its way, or all of it is missing.                      *)
LEMMA ServerAnswersKeeps ==
  ASSUME SessionInv, NEW answer \in Answers, ServerAnswers(answer) PROVE SessionInv'
<1>1. /\ server.mode = "done" /\ server' = Fresh /\ answered' = answer
      /\ wire' = IF lost THEN wire ELSE wire \o Bytestring(answer)
      /\ UNCHANGED <<bufferVars, uplink, lost, client, phase, sent, request, inbox>>
  BY DEF ServerAnswers, clientSide
<1>2. uplink \in Seq(Bytes) /\ inbox \in Seq(Bytes) /\ lost \in BOOLEAN /\ wire \in Seq(Bytes)
  BY DEF SessionInv, SessionTypes, BufferInv, BufferTypeOK
<1>3. server # Fresh /\ server.mode # "ended"
  BY <1>1, FreshReads
<1>4. Arriving
  BY <1>3 DEF SessionInv, Idle, Answering, Reads
<1>5. PICK missing : /\ Missing(missing)
                     /\ Receiving(server, sent, Glue(inbox, Glue(uplink, missing)))
  BY <1>3, <1>4 DEF Arriving
<1>6. inbox = <<>> /\ uplink = <<>>
  <2>1. missing \in Seq(Bytes)
    BY <1>5 DEF Missing
  <2>2. PICK y : y = Glue(uplink, missing)
    OBVIOUS
  <2>3. y \in Seq(Bytes)
    BY <1>2, <2>1, <2>2, GlueIs
  <2>4. Glue(inbox, y) = <<>>
    BY <1>1, <1>5, <2>2, ReceivingIs
  <2>5. inbox = <<>> /\ y = <<>>
    BY <1>2, <2>3, <2>4, NothingIn
  <2> QED
    BY <1>2, <2>1, <2>2, <2>5, NothingIn
<1>7. PICK bytes : bytes = Bytestring(answer)
  OBVIOUS
<1>8. /\ bytes \in Seq(Bytes) /\ Reading(Fresh, answer, bytes)
  <2>1. PICK rest : Coding(rest, answer) /\ Bytestring(answer) = rest[0]
    BY AnswerIs
  <2>2. Message(answer)
    BY AnswerIs
  <2> QED
    BY <1>7, <2>1, <2>2, ReadingBegins
<1>9. BufferInv'
  <2>1. CASE lost
    BY <1>1, <2>1, BufferInvKept DEF SessionInv
  <2>2. CASE ~lost
    <3>1. Send(bytes)
      BY <1>1, <1>7, <2>2 DEF Send
    <3> QED
      BY <1>8, <3>1, BufferInvKept DEF SessionInv, BufferNext
  <2> QED
    BY <2>1, <2>2
<1>10. Pending' = IF lost THEN <<>> ELSE bytes
  <2>1. Pending = <<>>
    BY <1>4 DEF Arriving
  <2>2. CASE lost
    BY <1>1, <2>1, <2>2 DEF Pending, bufferVars
  <2>3. CASE ~lost
    <3>1. wire = <<>> /\ buffer = <<>> /\ bytes_written = 0
      BY <2>1, NothingPending DEF SessionInv
    <3>2. bytes_read = 0
      BY <3>1 DEF SessionInv, BufferInv, BufferTypeOK
    <3>3. SubSeq(buffer', bytes_read' + 1, bytes_written') = <<>>
      <4>1. SubSeq(buffer, bytes_read + 1, bytes_written) = <<>>
        BY <3>1, <3>2, SubSeqEmpty
      <4> QED
        BY <1>1, <4>1 DEF bufferVars
    <3>4. wire' = Glue(<<>>, bytes)
      BY <1>1, <1>7, <2>3, <3>1 DEF Glue
    <3>5. wire' = bytes
      BY <1>8, <3>4, Nothing
    <3>6. Pending' = Glue(<<>>, bytes)
      BY <3>3, <3>5 DEF Pending, Glue
    <3> QED
      BY <1>8, <2>3, <3>6, Nothing
  <2> QED
    BY <2>2, <2>3
<1>11. SessionTypes' /\ CallsAreWanted' /\ RequestIsSent'
  BY <1>1, <1>2
     DEF SessionInv, SessionTypes, CallsAreWanted, RequestIsSent, Wanted, bufferVars
<1>12. PICK cut : cut = IF lost THEN bytes ELSE <<>>
  OBVIOUS
<1>13. Missing(cut)'
  BY <1>1, <1>8, <1>12, Nothing DEF Missing
<1>14. Glue(Pending', cut) = bytes
  BY <1>8, <1>10, <1>12, Nothing
<1>15. Reading(client', answered', Glue(Pending', cut))
  BY <1>1, <1>4, <1>8, <1>14 DEF Arriving
<1>16. Answering'
  <2>1. phase' = "waiting" /\ Reads' /\ uplink' = <<>> /\ inbox' = <<>> /\ answered' \in Answers
    BY <1>1, <1>4, <1>6 DEF Arriving, Reads
  <2> QED
    BY <1>13, <1>15, <2>1 DEF Answering
<1> QED
  BY <1>9, <1>11, <1>16 DEF SessionInv

(* The reader of a connection that is lost gives up.                       *)
LEMMA ReceiveCommandsEndKeeps == ASSUME SessionInv, ReceiveCommandsEnd PROVE SessionInv'
<1>1. /\ lost /\ server.mode \in {"start", "line", "bytes"}
      /\ server' = [server EXCEPT !.mode = "ended"]
      /\ UNCHANGED <<wire, bufferVars, uplink, lost, client, phase, sent, request, inbox, answered>>
  BY DEF ReceiveCommandsEnd, clientSide
<1>2. BufferInv' /\ Pending' = Pending
  <2>1. BufferInv'
    BY <1>1, BufferInvKept DEF SessionInv
  <2> QED
    BY <1>1, <2>1 DEF Pending, bufferVars
<1>3. SessionTypes' /\ CallsAreWanted' /\ RequestIsSent'
  BY <1>1 DEF SessionInv, SessionTypes, CallsAreWanted, RequestIsSent, Wanted, bufferVars
<1>4. server'.mode = "ended"
  <2>1. CASE server = Fresh
    BY <1>1, <2>1 DEF Fresh
  <2>2. CASE Arriving
    BY <1>1, <2>2, EndedIs DEF Arriving
  <2> QED
    BY <1>1, <2>1, <2>2 DEF SessionInv, Idle, Answering, Reads
<1>5. Reads'
  BY <1>1, <1>4 DEF Reads
<1>6. CASE Idle
  BY <1>1, <1>2, <1>3, <1>5, <1>6 DEF SessionInv, Idle
<1>7. CASE Arriving
  <2>1. Arriving'
    BY <1>1, <1>2, <1>4, <1>7 DEF Arriving
  <2> QED
    BY <1>2, <1>3, <2>1 DEF SessionInv
<1>8. CASE Answering
  <2>1. PICK missing : Missing(missing) /\ Reading(client, answered, Glue(Pending, missing))
    BY <1>8 DEF Answering
  <2>2. Missing(missing)' /\ Reading(client', answered', Glue(Pending', missing))
    BY <1>1, <1>2, <2>1 DEF Missing
  <2>3. Answering'
    BY <1>1, <1>5, <1>8, <2>2 DEF Answering
  <2> QED
    BY <1>2, <1>3, <2>3 DEF SessionInv
<1> QED
  BY <1>6, <1>7, <1>8 DEF SessionInv

(* The client waits for something only when it is not done.                *)
LEMMA ClientWants ==
  ASSUME SessionInv, phase = "waiting"
  PROVE  /\ client.mode \in {"start", "line", "bytes", "done"}
         /\ client.mode \in {"start", "bytes"} => client.want \in Nat
<1>1. CASE Arriving
  BY <1>1, FreshReads DEF Arriving
<1>2. CASE Answering
  <2>1. PICK missing : Reading(client, answered, Glue(Pending, missing))
    BY <1>2 DEF Answering
  <2>2. Message(answered)
    BY <1>2, AnswerIs DEF Answering
  <2>3. /\ client.mode = "start" => client.want = 1
        /\ client.mode = "bytes" => client.want \in Nat /\ client.want >= 2
    BY <2>1, <2>2, WantIs
  <2>4. client.mode \in {"start", "line", "bytes", "done"}
    BY <2>1, DoneIs
  <2> QED
    BY <2>3, <2>4
<1> QED
  BY <1>1, <1>2 DEF SessionInv, Idle

(* The client asks for what its reader wants.                              *)
LEMMA ClientCallsKeeps == ASSUME SessionInv, ClientCalls PROVE SessionInv'
<1>1. /\ phase = "waiting"
      /\ UNCHANGED <<uplink, lost, client, phase, sent, request, inbox, server, answered>>
  BY DEF ClientCalls, clientSide, serverSide
<1>2. \/ client.mode \in {"start", "bytes"} /\ CallRead(client.want)
      \/ client.mode = "line" /\ CallReadline
  BY DEF ClientCalls
<1>3. UNCHANGED <<wire, buffer, bytes_written, bytes_read>>
  BY <1>2 DEF CallRead, CallReadline
<1>4. BufferInv'
  <2>1. BufferNext
    BY <1>1, <1>2, ClientWants DEF BufferNext
  <2> QED
    BY <2>1, BufferInvKept DEF SessionInv
<1>5. Pending' = Pending
  BY <1>3 DEF Pending
<1>6. CallsAreWanted'
  BY <1>1, <1>2 DEF CallsAreWanted, Wanted, CallRead, CallReadline
<1>7. SessionTypes' /\ RequestIsSent'
  BY <1>1, <1>3 DEF SessionInv, SessionTypes, RequestIsSent
<1>8. (Idle \/ Arriving \/ Answering)'
  BY <1>1, <1>5 DEF SessionInv, Idle, Arriving, Answering, Reads, Missing
<1> QED
  BY <1>4, <1>6, <1>7, <1>8 DEF SessionInv

(* A piece of the answer goes from the way to the buffer.                  *)
LEMMA ClientReceivesKeeps == ASSUME SessionInv, ClientReceives PROVE SessionInv'
<1>1. UNCHANGED <<uplink, lost, client, phase, sent, request, inbox, server, answered>> /\ ~lost
  BY DEF ClientReceives, clientSide, serverSide
<1>2. PICK n \in 1 .. Len(wire) : Recv(n)
  BY DEF ClientReceives
<1>3. n \in Nat
  BY LenProperties DEF SessionInv, BufferInv, BufferTypeOK
<1>4. BufferInv' /\ Pending' = Pending
  BY <1>2, <1>3, RecvKeeps DEF SessionInv
<1>5. asked' = asked
  BY <1>2 DEF Recv
<1>6. CallsAreWanted' /\ SessionTypes' /\ RequestIsSent'
  BY <1>1, <1>5 DEF SessionInv, CallsAreWanted, Wanted, SessionTypes, RequestIsSent
<1>7. (Idle \/ Arriving \/ Answering)'
  BY <1>1, <1>4 DEF SessionInv, Idle, Arriving, Answering, Reads, Missing
<1> QED
  BY <1>4, <1>6, <1>7 DEF SessionInv

(* The client reads on, and there is something to read only of an answer.  *)
LEMMA ClientReadsKeeps == ASSUME SessionInv, ClientReads PROVE SessionInv'
<1>1. UNCHANGED <<uplink, lost, phase, sent, request, inbox, server, answered>>
  BY DEF ClientReads, serverSide
<1>2. ReadReturns \/ ReadlineReturns
  BY DEF ClientReads
<1>3. asked' = NoCall /\ wire' = wire /\ asked # NoCall
  BY <1>2 DEF ReadReturns, ReadlineReturns, NoCall, Line
<1>4. BufferInv'
  BY <1>2, ReturnKeeps DEF SessionInv
<1>5. phase = "waiting" /\ Wanted(client)
  BY <1>3 DEF SessionInv, CallsAreWanted
<1>6. Pending # <<>>
  <2>1. ReadStep
    BY StepIsExact DEF SessionInv
  <2>2. PICK kept : kept = Pending'
    OBVIOUS
  <2>3. kept \in Seq(Bytes)
    BY <1>4, <2>2, PendingWillBe
  <2>4. CASE ReadReturns
    <3>1. ReadResult \in Seq(Bytes) /\ Len(ReadResult) = asked /\ asked > 0
      BY <2>4, ReadHasEnough DEF SessionInv, ReadReturns
    <3>2. Pending = Glue(ReadResult, kept)
      BY <2>1, <2>2, <2>4 DEF ReadStep, Glue
    <3>3. ReadResult # <<>>
      <4>1. Len(<<>>) = 0
        BY EmptySeq
      <4> QED
        BY <3>1, <4>1
    <3> QED
      BY <2>3, <3>1, <3>2, <3>3, NothingIn
  <2>5. CASE ReadlineReturns
    <3>1. Pending = Glue(Glue(LineResult, CRLF), kept)
      BY <2>1, <2>2, <2>5 DEF ReadStep, Glue
    <3>2. LineResult \in Seq(Bytes)
      BY <2>5, LineIsCut DEF SessionInv
    <3>3. CRLF \in Seq(Bytes) /\ Glue(LineResult, CRLF) \in Seq(Bytes) /\ CRLF # <<>>
      <4>1. CRLF \in Seq(Bytes) /\ Len(CRLF) = 2
        BY CRLFIs
      <4>2. Len(<<>>) = 0
        BY EmptySeq
      <4>3. Glue(LineResult, CRLF) \in Seq(Bytes)
        BY <3>2, <4>1, GlueIs
      <4>4. CRLF # <<>>
        BY <4>1, <4>2
      <4> QED
        BY <4>1, <4>3, <4>4
    <3> QED
      BY <2>3, <3>1, <3>2, <3>3, NothingIn
  <2> QED
    BY <1>2, <2>4, <2>5
<1>7. Answering
  BY <1>5, <1>6 DEF SessionInv, Idle, Arriving
<1>8. PICK missing : Missing(missing) /\ Reading(client, answered, Glue(Pending, missing))
  BY <1>7 DEF Answering
<1>9. Message(answered)
  BY <1>7, AnswerIs DEF Answering
<1>10. missing \in Seq(Bytes) /\ Missing(missing)'
  BY <1>1, <1>8 DEF Missing
<1>11. Reading(client', answered, Glue(Pending', missing))
  BY <1>4, <1>5, <1>8, <1>9, <1>10, ClientReadsOn DEF SessionInv
<1>12. CallsAreWanted' /\ SessionTypes' /\ RequestIsSent'
  BY <1>1, <1>3 DEF SessionInv, CallsAreWanted, SessionTypes, RequestIsSent
<1>13. Reading(client', answered', Glue(Pending', missing))
  BY <1>1, <1>11
<1>14. Answering'
  BY <1>1, <1>7, <1>10, <1>13 DEF Answering, Reads
<1> QED
  BY <1>4, <1>12, <1>14 DEF SessionInv

(* The answer has been read to its end.                                    *)
LEMMA ClientReturnsKeeps == ASSUME SessionInv, ClientReturns PROVE SessionInv'
<1>1. /\ phase = "waiting" /\ client.mode = "done" /\ phase' = "idle"
      /\ UNCHANGED <<wire, bufferVars, uplink, lost, client, sent, request, inbox, server, answered>>
  BY DEF ClientReturns, serverSide
<1>2. BufferInv' /\ Pending' = Pending
  <2>1. BufferInv'
    BY <1>1, BufferInvKept DEF SessionInv
  <2> QED
    BY <1>1, <2>1 DEF Pending, bufferVars
<1>3. Answering
  BY <1>1, FreshReads DEF SessionInv, Idle, Arriving
<1>4. PICK missing : Missing(missing) /\ Reading(client, answered, Glue(Pending, missing))
  BY <1>3 DEF Answering
<1>5. client.value = answered /\ Pending = <<>>
  <2>1. client.value = answered /\ Glue(Pending, missing) = <<>>
    BY <1>1, <1>4, DoneIs
  <2>2. Pending \in Seq(Bytes) /\ missing \in Seq(Bytes)
    BY <1>4, PendingIs DEF SessionInv, Missing
  <2> QED
    BY <2>1, <2>2, NothingIn
<1>6. asked = NoCall
  BY <1>1 DEF SessionInv, CallsAreWanted, Wanted
<1>7. CallsAreWanted' /\ SessionTypes' /\ RequestIsSent'
  BY <1>1, <1>6 DEF SessionInv, CallsAreWanted, SessionTypes, RequestIsSent, bufferVars
<1>8. Idle'
  BY <1>1, <1>2, <1>3, <1>5 DEF Answering, Idle, Reads
<1> QED
  BY <1>2, <1>7, <1>8 DEF SessionInv

(* What was on the wire is cut off: it is the front of what is missing.    *)
LEMMA LoseKeeps == ASSUME SessionInv, Lose PROVE SessionInv'
<1>1. /\ lost = FALSE /\ lost' = TRUE /\ uplink' = <<>> /\ wire' = <<>>
      /\ UNCHANGED <<bufferVars, client, phase, sent, request, inbox, server, answered>>
  BY DEF Lose, clientSide, serverSide, SessionInv, SessionTypes
<1>2. /\ uplink \in Seq(Bytes) /\ inbox \in Seq(Bytes) /\ wire \in Seq(Bytes)
      /\ buffer \in Seq(Bytes) /\ bytes_read \in Nat /\ bytes_written \in Nat
      /\ bytes_written <= Len(buffer)
  BY DEF SessionInv, SessionTypes, BufferInv, BufferTypeOK
<1>3. BufferInv'
  BY <1>1, EmptySeq
     DEF SessionInv, BufferInv, BufferTypeOK, bufferVars, NoLine, HasLine, LineEnds
<1>4. PICK ahead : ahead = SubSeq(buffer, bytes_read + 1, bytes_written)
  OBVIOUS
<1>5. ahead \in Seq(Bytes) /\ Pending = Glue(ahead, wire) /\ Pending' = ahead
  <2>1. ahead \in Seq(Bytes)
    BY <1>2, <1>4, PendingOf
  <2>2. Pending = Glue(ahead, wire)
    BY <1>4 DEF Pending, Glue
  <2>3. Pending' = Glue(ahead, <<>>)
    BY <1>1, <1>4 DEF Pending, Glue, bufferVars
  <2> QED
    BY <2>1, <2>2, <2>3, Nothing
<1>6. Pending = <<>> => Pending' = <<>>
  BY <1>2, <1>5, NothingIn
<1>7. SessionTypes' /\ CallsAreWanted' /\ RequestIsSent'
  BY <1>1, EmptySeq
     DEF SessionInv, SessionTypes, CallsAreWanted, RequestIsSent, Wanted, bufferVars
<1>8. Reads => Reads'
  BY <1>1 DEF Reads
<1>9. CASE Idle
  BY <1>1, <1>3, <1>6, <1>7, <1>8, <1>9 DEF SessionInv, Idle
<1>10. CASE Arriving
  <2>1. PICK missing : /\ Missing(missing)
                       /\ Receiving(server, sent, Glue(inbox, Glue(uplink, missing)))
    BY <1>1, <1>10 DEF Arriving
  <2>2. PICK cut : cut = Glue(uplink, missing)
    OBVIOUS
  <2>3. cut \in Seq(Bytes)
    <3>1. missing \in Seq(Bytes)
      BY <2>1 DEF Missing
    <3> QED
      BY <1>2, <2>2, <3>1, GlueIs
  <2>4. Missing(cut)'
    BY <1>1, <2>3 DEF Missing
  <2>5. Glue(inbox', Glue(uplink', cut)) = Glue(inbox, Glue(uplink, missing))
    BY <1>1, <2>2, <2>3, Nothing
  <2>6. Receiving(server', sent', Glue(inbox', Glue(uplink', cut)))
    BY <1>1, <2>1, <2>5
  <2>7. Arriving'
    BY <1>1, <1>6, <1>10, <2>4, <2>6 DEF Arriving
  <2> QED
    BY <1>3, <1>7, <2>7 DEF SessionInv
<1>11. CASE Answering
  <2>1. PICK missing : Missing(missing) /\ Reading(client, answered, Glue(Pending, missing))
    BY <1>11 DEF Answering
  <2>2. missing \in Seq(Bytes)
    BY <2>1 DEF Missing
  <2>3. PICK cut : cut = Glue(wire, missing)
    OBVIOUS
  <2>4. cut \in Seq(Bytes)
    BY <1>2, <2>2, <2>3, GlueIs
  <2>5. Missing(cut)'
    BY <1>1, <2>4 DEF Missing
  <2>6. Glue(Pending', cut) = Glue(Pending, missing)
    <3>1. Glue(Glue(ahead, wire), missing) = Glue(ahead, Glue(wire, missing))
      BY <1>2, <1>5, <2>2, GlueThree
    <3> QED
      BY <1>5, <2>3, <3>1
  <2>7. Reading(client', answered', Glue(Pending', cut))
    BY <1>1, <2>1, <2>6
  <2>8. Answering'
    BY <1>1, <1>8, <1>11, <2>5, <2>7 DEF Answering
  <2> QED
    BY <1>3, <1>7, <2>8 DEF SessionInv
<1> QED
  BY <1>9, <1>10, <1>11 DEF SessionInv

(* A new connection begins with the request, or with nothing.              *)
LEMMA ReconnectKeeps == ASSUME SessionInv, Reconnect PROVE SessionInv'
<1>1. /\ lost' = FALSE /\ wire' = <<>>
      /\ buffer' = <<>> /\ bytes_written' = 0 /\ bytes_read' = 0
      /\ asked' = NoCall /\ lacking' = 0
      /\ inbox' = <<>> /\ server' = Fresh /\ client' = Fresh
      /\ UNCHANGED <<sent, request, answered>>
  BY DEF Reconnect
<1>2. BufferInv'
  BY <1>1, EmptySeq DEF BufferInv, BufferTypeOK, NoCall, Line
<1>3. Pending' = <<>>
  <2>1. SubSeq(buffer', bytes_read' + 1, bytes_written') = <<>>
    <3>1. SubSeq(<<>>, 0 + 1, 0) = <<>>
      BY SubSeqEmpty
    <3> QED
      BY <1>1, <3>1
  <2>2. Pending' = Glue(<<>>, <<>>)
    BY <1>1, <2>1 DEF Pending, Glue
  <2> QED
    BY <2>2, Nothing
<1>4. CallsAreWanted' /\ Reads'
  BY <1>1 DEF CallsAreWanted, Reads
<1>5. CASE phase = "waiting" /\ uplink' = request /\ UNCHANGED phase
  <2>1. Request(sent, request)
    BY <1>5 DEF SessionInv, RequestIsSent
  <2>2. Receiving(Fresh, sent, request) /\ request \in Seq(Bytes)
    BY <2>1, ReceivingBegins
  <2>3. SessionTypes' /\ RequestIsSent'
    BY <1>1, <1>5, <2>1, <2>2, EmptySeq DEF SessionTypes, RequestIsSent
  <2>4. Glue(inbox', Glue(uplink', <<>>)) = request
    BY <1>1, <1>5, <2>2, Nothing
  <2>5. Receiving(server', sent', Glue(inbox', Glue(uplink', <<>>)))
    BY <1>1, <2>2, <2>4
  <2>6. Missing(<<>>)'
    BY Nothing DEF Missing
  <2>7. Arriving'
    BY <1>1, <1>3, <1>5, <2>5, <2>6 DEF Arriving
  <2> QED
    BY <1>2, <1>4, <2>3, <2>7 DEF SessionInv
<1>6. CASE uplink' = <<>> /\ phase' = "idle"
  <2>1. SessionTypes' /\ RequestIsSent'
    BY <1>1, <1>6, EmptySeq DEF SessionTypes, RequestIsSent
  <2>2. Idle'
    BY <1>1, <1>3, <1>4, <1>6 DEF Idle
  <2> QED
    BY <1>2, <1>4, <2>1, <2>2 DEF SessionInv
<1> QED
  BY <1>5, <1>6 DEF Reconnect

(* Every step keeps it.                                                    *)
LEMMA SessionInvKept == ASSUME SessionInv, [SessionNext]_sessionVars PROVE SessionInv'
<1>1. CASE UNCHANGED sessionVars
  <2>1. UNCHANGED <<wire, bufferVars>>
    BY <1>1 DEF sessionVars
  <2>2. BufferInv'
    BY <2>1, BufferInvKept DEF SessionInv
  <2>3. Pending' = Pending
    BY <2>1 DEF bufferVars, Pending
  <2>4. UNCHANGED <<wire, bufferVars, uplink, lost, client, phase, sent, request, inbox, server, answered>>
    BY <1>1 DEF sessionVars, clientSide, serverSide
  <2>5. SessionTypes' /\ CallsAreWanted' /\ RequestIsSent'
    BY <2>4 DEF SessionInv, SessionTypes, CallsAreWanted, RequestIsSent, Wanted, bufferVars
  <2>6. (Idle \/ Arriving \/ Answering)'
    BY <2>3, <2>4 DEF SessionInv, Idle, Arriving, Answering, Reads, Missing
  <2> QED
    BY <2>2, <2>5, <2>6 DEF SessionInv
<1>2. CASE SendCommand
  BY <1>2, SendCommandKeeps
<1>3. CASE Transfer
  <2>1. ASSUME NEW n \in 1 .. Len(uplink), DataReceived(n) PROVE SessionInv'
    BY <2>1, DataReceivedKeeps
  <2>2. CASE ServerReads
    BY <2>2, ServerReadsKeeps
  <2>3. ASSUME NEW answer \in Answers, ServerAnswers(answer) PROVE SessionInv'
    BY <2>3, ServerAnswersKeeps
  <2>4. CASE ReceiveCommandsEnd
    BY <2>4, ReceiveCommandsEndKeeps
  <2>5. CASE ClientCalls
    BY <2>5, ClientCallsKeeps
  <2>6. CASE ClientReceives
    BY <2>6, ClientReceivesKeeps
  <2>7. CASE ClientReads
    BY <2>7, ClientReadsKeeps
  <2>8. CASE ClientReturns
    BY <2>8, ClientReturnsKeeps
  <2> QED
    BY <1>3, <2>1, <2>2, <2>3, <2>4, <2>5, <2>6, <2>7, <2>8 DEF Transfer
<1>4. CASE Lose
  BY <1>4, LoseKeeps
<1>5. CASE Reconnect
  BY <1>5, ReconnectKeeps
<1> QED
  BY <1>1, <1>2, <1>3, <1>4, <1>5 DEF SessionNext

(* It holds throughout.                                                    *)
LEMMA SessionInvariant == SessionSpec => []SessionInv
  BY SessionBegins, SessionInvKept, PTL DEF SessionSpec

-----------------------------------------------------------------------------
(* Every command that the server's reader hands on is the one that the     *)
(* client sent: the machine that reads it has been on that command from    *)
(* its first byte, whatever pieces the bytes came in, and a connection     *)
(* that ends leaves it short of its end.                                   *)
THEOREM CommandsAlwaysArriveWhole == SessionSpec => []CommandsArriveWhole
<1>1. ASSUME SessionInv PROVE CommandsArriveWhole
  <2> SUFFICES ASSUME server.mode = "done" PROVE AsCommand(server.value) = sent
    BY DEF CommandsArriveWhole
  <2>1. server # Fresh /\ server.mode # "ended"
    BY FreshReads
  <2>2. PICK missing : Receiving(server, sent, Glue(inbox, Glue(uplink, missing)))
    BY <1>1, <2>1 DEF SessionInv, Idle, Answering, Reads, Arriving
  <2> QED
    BY <2>2, ReceivingIs
<1> QED
  BY <1>1, SessionInvariant, PTL

(* Every answer that the client returns is the one that the server gave.   *)
THEOREM AnswersAlwaysArriveWhole == SessionSpec => []AnswersArriveWhole
<1>1. ASSUME SessionInv PROVE AnswersArriveWhole
  <2> SUFFICES ASSUME client.mode = "done" PROVE client.value = answered
    BY DEF AnswersArriveWhole
  <2>1. client # Fresh
    BY FreshReads
  <2>2. CASE Idle
    BY <2>1, <2>2 DEF Idle
  <2>3. CASE Answering
    BY <2>3, DoneIs DEF Answering
  <2> QED
    BY <1>1, <2>1, <2>2, <2>3 DEF SessionInv, Arriving
<1> QED
  BY <1>1, SessionInvariant, PTL

(* Neither side ever meets a byte that its readers do not expect.          *)
THEOREM ReadersAlwaysUnderstand == SessionSpec => []ReadersUnderstand
<1>1. ASSUME SessionInv PROVE ReadersUnderstand
  <2>1. server.mode # "raises"
    <3>1. CASE Reads
      BY <3>1, FreshReads DEF Reads
    <3>2. CASE Arriving
      BY <3>2, ReceivingIs DEF Arriving
    <3> QED
      BY <1>1, <3>1, <3>2 DEF SessionInv, Idle, Answering
  <2>2. client.mode # "raises"
    <3>1. CASE phase = "waiting"
      BY <1>1, <3>1, ClientWants
    <3>2. CASE Idle
      BY <3>2, FreshReads DEF Idle
    <3> QED
      BY <1>1, <3>1, <3>2 DEF SessionInv, Arriving, Answering
  <2> QED
    BY <2>1, <2>2 DEF ReadersUnderstand
<1> QED
  BY <1>1, SessionInvariant, PTL

(* Every call leaves the buffer empty for the next one.                    *)
THEOREM NothingIsEverLeftBetweenCalls == SessionSpec => []NothingIsLeftBetweenCalls
<1>1. ASSUME SessionInv PROVE NothingIsLeftBetweenCalls
  <2> SUFFICES ASSUME phase = "idle"
               PROVE  wire = <<>> /\ buffer = <<>> /\ bytes_written = 0
    BY DEF NothingIsLeftBetweenCalls
  <2>1. Pending = <<>>
    BY <1>1 DEF SessionInv, Idle, Arriving, Answering
  <2> QED
    BY <1>1, <2>1, NothingPending DEF SessionInv
<1> QED
  BY <1>1, SessionInvariant, PTL

(* The buffer is type-correct and exact in the session too: the readers    *)
(* are one of its callers.                                                 *)
THEOREM SessionReadsAreCorrect == SessionSpec => []BufferTypeOK /\ ReadsAreExact
<1>1. SessionInv => BufferTypeOK
  BY DEF SessionInv, BufferInv
<1>2. ASSUME SessionInv PROVE [ReadStep]_<<wire, bufferVars>>
  BY <1>2, StepIsExact DEF SessionInv
<1> QED
  BY <1>1, <1>2, SessionInvariant, PTL DEF ReadsAreExact
=============================================================================
