------------------------------ MODULE ByteStream ------------------------------
(***************************************************************************)
(* What goes over a connection: a sequence of bytes, in which CR LF ends a *)
(* line.                                                                   *)
(***************************************************************************)
EXTENDS Integers, Sequences

CONSTANTS
  Bytes,   \* the bytes of the stream
  CR, LF   \* the two that end a line

ASSUME LineEndAssumption == CR \in Bytes /\ LF \in Bytes /\ CR # LF

CRLF == <<CR, LF>>

LineTexts == Seq(Bytes \ {CR, LF})
=============================================================================
