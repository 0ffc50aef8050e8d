------------------------------- MODULE RespCodec -------------------------------
(***************************************************************************)
(* The wire format: how livelock/shared.py packs a value and how the       *)
(* readers of the client (livelock/client.py, _read_* and _receive_resp)   *)
(* and of the server (livelock/server.py, the same names) make a value     *)
(* from what they read.                                                    *)
(*                                                                         *)
(* The text of a number is one byte here: only its length matters. A value *)
(* is the sequence of its nodes, in the order in which they are packed and *)
(* read: a scalar <<type, text>>, or <<type, n>> for a list of n items or  *)
(* a dict of n pairs, which follow it.                                     *)
(*                                                                         *)
(* The readers are recursive in the code and read as they go. Here they    *)
(* are a machine that says what it reads next: one byte, a line or a       *)
(* number of bytes; the recursion is a stack of the lists it is in, with   *)
(* the number of items that each of them lacks.                            *)
(***************************************************************************)
EXTENDS ByteStream, SequencesExt

CONSTANTS
  MaxLength,   \* the greatest length that is stated
  Text         \* how str() writes a number, and int() reads it

Punctuation == {":", ",", "#", "$", "^", "*", "%", "+", "-"}

ASSUME CodecAssumption ==
  /\ MaxLength \in Nat
  /\ Punctuation \subseteq Bytes \ {CR, LF}
  /\ Text \in [-1 .. MaxLength -> Bytes \ {CR, LF}]
  /\ \A m, n \in -1 .. MaxLength : Text[m] = Text[n] => m = n

IntOf(text) == CHOOSE n \in -1 .. MaxLength : Text[n] = text

Scalars == [int |-> ":", float |-> ",", bool |-> "#"]

Null == <<"null", 0>>

(* How many values follow a list or a dict of length n.                    *)
Items(type, n) == IF type = "dict" THEN 2 * n ELSE n

Following(node) == IF node[1] \in {"list", "dict"} THEN Items(node[1], node[2]) ELSE 0

(* The values: a line of text, bytes of a stated length, a list or a dict; *)
(* after each node some values are lacking, and after the last one none.   *)
Nodes ==
  ({"int", "float", "bool"} \X LineTexts)
    \cup ({"str", "bytes"} \X {of \in Seq(Bytes) : Len(of) <= MaxLength})
    \cup ({"list", "dict"} \X (0 .. MaxLength)) \cup {Null}

Lacking(v) ==
  LET lacking[k \in 0 .. Len(v)] ==
        IF k = 0 THEN 1 ELSE lacking[k - 1] - 1 + Following(v[k])
  IN lacking

IsValue(v) ==
  /\ v \in Seq(Nodes)
  /\ \A k \in 0 .. Len(v) : Lacking(v)[k] > 0 <=> k < Len(v)

(* pack_resp and its _pack_*: the null has one CRLF, every other value     *)
(* that states a length has two.                                           *)
Header(c, n) == <<c, Text[n]>> \o CRLF

Packed(node) ==
  LET of == node[2]
  IN CASE node[1] = "null"  -> Header("$", -1)
       [] node[1] = "str"   -> Header("$", Len(of)) \o of \o CRLF
       [] node[1] = "bytes" -> Header("^", Len(of)) \o of \o CRLF
       [] node[1] = "list"  -> Header("*", of)
       [] node[1] = "dict"  -> Header("%", of)
       [] OTHER             -> <<Scalars[node[1]]>> \o of \o CRLF

pack_resp(v) == FlattenSeq([i \in 1 .. Len(v) |-> Packed(v[i])])

-----------------------------------------------------------------------------
(* The reading machine.                                                    *)

Fresh == [mode |-> "start", kind |-> "", want |-> 1, stack |-> <<>>, value |-> <<>>]

Raises == [Fresh EXCEPT !.mode = "raises"]

(* A value is complete with its last node: it is the result, or an item of *)
(* the innermost list, which it may complete in turn, and so on.           *)
Completed(r, node) ==
  LET lacking_more == {i \in 1 .. Len(r.stack) : r.stack[i] > 1}
      inner == Max(lacking_more)
      read == Append(r.value, node)
  IN IF lacking_more = {} THEN [Fresh EXCEPT !.mode = "done", !.value = read]
     ELSE [Fresh EXCEPT !.stack = Append(SubSeq(r.stack, 1, inner - 1), r.stack[inner] - 1),
                        !.value = read]

(* _read_array, _read_dict: a list begins.                                 *)
Opened(r, type, n) ==
  IF n = 0 THEN Completed(r, <<type, n>>)
  ELSE [Fresh EXCEPT !.stack = Append(r.stack, Items(type, n)),
                     !.value = Append(r.value, <<type, n>>)]

(* Mutant: the terminator is not counted.                                  *)
SizedBare(r, n, isServer) ==
  IF n < 0 /\ ~isServer
  THEN Completed(r, Null)
  ELSE [r EXCEPT !.mode = "bytes", !.want = IF n > 2 THEN n ELSE 2,
                 !.kind = IF n < 0 THEN "null" ELSE r.kind]

(* _read_bytes: what follows the length.  The client returns at once when  *)
(* it is negative; the server reads the two bytes of a terminator first.   *)
Sized(r, n, isServer) ==
  IF n < 0 /\ ~isServer
  THEN Completed(r, Null)
  ELSE [r EXCEPT !.mode = "bytes", !.want = IF n + 2 > 2 THEN n + 2 ELSE 2,
                 !.kind = IF n < 0 THEN "null" ELSE r.kind]

EndsLine(data) == Len(data) >= 2 /\ SubSeq(data, Len(data) - 1, Len(data)) = CRLF

(* _read_bytes: the bytes and their terminator have been read.             *)
BytesRead(r, data) ==
  IF ~EndsLine(data) THEN Raises
  ELSE Completed(r, IF r.kind = "null" THEN Null
                    ELSE <<IF r.kind = "^" THEN "bytes" ELSE "str", SubSeq(data, 1, Len(data) - 2)>>)

(* What a line means, after the byte that begins a value.                  *)
LineRead(r, text, isServer) ==
  CASE r.kind \in {"$", "^"} -> Sized(r, IntOf(text[1]), isServer)
    [] r.kind = "*" -> Opened(r, "list", IntOf(text[1]))
    [] r.kind = "%" -> Opened(r, "dict", IntOf(text[1]))
    [] OTHER -> Completed(r, <<CHOOSE t \in DOMAIN Scalars : Scalars[t] = r.kind, text>>)

Begun(r, c) == [r EXCEPT !.mode = "line", !.kind = c]

-----------------------------------------------------------------------------
(* The client: _receive_resp, and at the outermost level _read_response,   *)
(* which also knows the one-line answers and the errors.                   *)

ClientStart(r, c) ==
  IF c \in {":", "^", "*", "$", "%", "#", ","} \/ (r.stack = <<>> /\ c \in {"+", "-"})
  THEN Begun(r, c) ELSE Raises

ClientLine(r, text) ==
  IF r.kind \in {"+", "-"} THEN Completed(r, <<r.kind, text>>)
  ELSE LineRead(r, text, FALSE)

(* The server: _receive_resp, and at the outermost level receive_commands, *)
(* which takes any other byte for the first of a command in plain text.    *)
ServerStart(r, c) ==
  IF c \in {":", "$", "*", ","} THEN Begun(r, c)
  ELSE IF r.stack = <<>> THEN [Begun(r, "inline") EXCEPT !.value = <<c>>]
  ELSE Raises

Words(text) ==
  LET blanks == {i \in 1 .. Len(text) : text[i] = "SP"}
      cuts == SetToSortSeq(blanks \cup {0, Len(text) + 1}, <)
  IN [i \in 1 .. Cardinality(blanks) + 1 |-> <<"str", SubSeq(text, cuts[i] + 1, cuts[i + 1] - 1)>>]

(* The list of these values.                                               *)
ListOf(values) == <<<<"list", Len(values)>>>> \o values

ServerLine(r, text) ==
  IF r.kind = "inline"
  THEN [Fresh EXCEPT !.mode = "done", !.value = ListOf(Words(r.value \o text))]
  ELSE LineRead(r, text, TRUE)

(* receive_commands: a value that is no list is a command without          *)
(* arguments.                                                              *)
AsCommand(v) == IF v[1][1] = "list" THEN v ELSE ListOf(v)
=============================================================================
