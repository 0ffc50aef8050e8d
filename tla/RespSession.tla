------------------------------ MODULE RespSession ------------------------------
(***************************************************************************)
(* A request and its answer on the wire: the client packs a command        *)
(* (livelock/client.py, send_command), the server's reader task makes a    *)
(* command of the bytes as they come (livelock/server.py, CommandProtocol),*)
(* and the client reads the answer through its SocketBuffer.  Both streams *)
(* arrive in pieces of any size, and the connection may be lost at any     *)
(* byte; then the client sends the command again on a new one, or gives    *)
(* up.  What the server does about a command is left open: it gives any    *)
(* of the answers.  kill_active is false throughout.                       *)
(***************************************************************************)
EXTENDS RespCodec, SocketBuffer

CONSTANTS
  Commands,   \* the commands clients send: lists of arguments
  RawTexts,   \* and those send_raw_command sends as a line of text
  Answers     \* the server's answers: one line of text, or a value

(* Clients send lists of what the server can read, or a line of text that  *)
(* does not begin like one of these.                                       *)
ASSUME SessionAssumption ==
  /\ \A c \in Commands :
       /\ IsValue(c) /\ c[1][1] = "list"
       /\ \A i \in 1 .. Len(c) : c[i][1] \in {"list", "str", "int", "float"}
  /\ \A t \in RawTexts :
       t \in LineTexts /\ t # <<>> /\ t[1] \notin {":", "$", "*", ","}
  /\ \A a \in Answers :
       IsValue(a) \/ (a \in Seq({"+", "-"} \X LineTexts) /\ Len(a) = 1)

VARIABLES
  uplink,     \* bytes on their way to the server
  inbox,      \* the server's StreamReader
  lost,       \* has the connection ended
  server,     \* the reading machine of receive_commands; it may have "ended"
  client,     \* that of _read_response
  phase,      \* the client: "idle", "waiting"
  sent,       \* the command it sent last, as the server should see it
  request,    \* its bytes
  answered    \* the answer the server gave to it

clientSide == <<client, phase, sent, request>>

serverSide == <<inbox, server, answered>>

sessionVars == <<wire, bufferVars, uplink, lost, clientSide, serverSide>>

SessionInit ==
  /\ wire = <<>> /\ BufferInit
  /\ uplink = <<>> /\ inbox = <<>> /\ lost = FALSE
  /\ server = Fresh /\ client = Fresh
  /\ phase = "idle" /\ sent = <<>> /\ request = <<>> /\ answered = <<>>

-----------------------------------------------------------------------------
(* send_command and send_raw_command: the payload is sent, an answer is    *)
(* awaited.                                                                *)
SendPayload(command, payload) ==
  /\ phase = "idle" /\ ~lost
  /\ phase' = "waiting" /\ client' = Fresh
  /\ sent' = command /\ request' = payload
  /\ uplink' = uplink \o payload
  /\ UNCHANGED <<wire, bufferVars, lost, serverSide>>

SendCommand ==
  \/ \E c \in Commands : SendPayload(c, pack_resp(c))
  \/ \E t \in RawTexts : SendPayload(ListOf(Words(t)), t \o CRLF)

(* data_received.                                                          *)
DataReceived(n) ==
  /\ ~lost /\ n \in 1 .. Len(uplink)
  /\ inbox' = inbox \o SubSeq(uplink, 1, n)
  /\ uplink' = SubSeq(uplink, n + 1, Len(uplink))
  /\ UNCHANGED <<wire, bufferVars, lost, clientSide, server, answered>>

(* Mutant: read(n) takes what is there, as readexactly does not.           *)
PortionEndAtHand ==
  IF server.mode \in {"start", "bytes"}
  THEN IF server.want <= Len(inbox) THEN server.want ELSE Len(inbox)
  ELSE LET ends == {i \in 2 .. Len(inbox) : SubSeq(inbox, i - 1, i) = CRLF}
       IN IF ends = {} THEN 0 ELSE CHOOSE i \in ends : \A j \in ends : i <= j

(* StreamReader.readexactly and readuntil: the end of the first portion of *)
(* the inbox that the reader waits for, 0 when it is not there yet.        *)
PortionEnd ==
  IF server.mode \in {"start", "bytes"}
  THEN IF server.want <= Len(inbox) THEN server.want ELSE 0
  ELSE LET ends == {i \in 2 .. Len(inbox) : SubSeq(inbox, i - 1, i) = CRLF}
       IN IF ends = {} THEN 0 ELSE CHOOSE i \in ends : \A j \in ends : i <= j

(* receive_commands and the readers it calls take one portion.             *)
ServerReads ==
  /\ server.mode \in {"start", "line", "bytes"} /\ PortionEnd > 0
  /\ LET portion == SubSeq(inbox, 1, PortionEnd)
     IN server' = CASE server.mode = "start" -> ServerStart(server, portion[1])
                    [] server.mode = "line"  -> ServerLine(server, SubSeq(portion, 1, Len(portion) - 2))
                    [] server.mode = "bytes" -> BytesRead(server, portion)
  /\ inbox' = SubSeq(inbox, PortionEnd + 1, Len(inbox))
  /\ UNCHANGED <<wire, bufferVars, uplink, lost, clientSide, answered>>

(* on_command_received: the command is executed and answered.  Nothing is  *)
(* written to a connection that is gone.                                   *)
Bytestring(answer) ==
  IF answer[1][1] \in {"+", "-"} THEN <<answer[1][1]>> \o answer[1][2] \o CRLF
  ELSE pack_resp(answer)

ServerAnswers(answer) ==
  /\ server.mode = "done"
  /\ server' = Fresh
  /\ answered' = answer
  /\ wire' = IF lost THEN wire ELSE wire \o Bytestring(answer)
  /\ UNCHANGED <<bufferVars, uplink, lost, clientSide, inbox>>

(* IncompleteReadError: the connection ended before the portion came.      *)
ReceiveCommandsEnd ==
  /\ lost /\ server.mode \in {"start", "line", "bytes"} /\ PortionEnd = 0
  /\ server' = [server EXCEPT !.mode = "ended"]
  /\ UNCHANGED <<wire, bufferVars, uplink, lost, clientSide, inbox, answered>>

-----------------------------------------------------------------------------
(* The client's readers call the buffer for what they want next ...        *)
ClientCalls ==
  /\ phase = "waiting"
  /\ \/ client.mode \in {"start", "bytes"} /\ CallRead(client.want)
     \/ client.mode = "line" /\ CallReadline
  /\ UNCHANGED <<uplink, lost, clientSide, serverSide>>

ClientReceives ==
  /\ ~lost
  /\ \E n \in 1 .. Len(wire) : Recv(n)
  /\ UNCHANGED <<uplink, lost, clientSide, serverSide>>

(* ... and go on with what it returns.                                     *)
ClientReads ==
  /\ \/ /\ client.mode = "start" /\ ReadReturns
        /\ client' = ClientStart(client, ReadResult[1])
     \/ /\ client.mode = "bytes" /\ ReadReturns
        /\ client' = BytesRead(client, ReadResult)
     \/ /\ client.mode = "line" /\ ReadlineReturns
        /\ client' = ClientLine(client, LineResult)
  /\ UNCHANGED <<uplink, lost, phase, sent, request, serverSide>>

ClientReturns ==
  /\ phase = "waiting" /\ client.mode = "done"
  /\ phase' = "idle"
  /\ UNCHANGED <<wire, bufferVars, uplink, lost, client, sent, request, serverSide>>

-----------------------------------------------------------------------------
(* The connection breaks; what was on its way either way is gone.          *)
Lose ==
  /\ ~lost
  /\ lost' = TRUE
  /\ uplink' = <<>> /\ wire' = <<>>
  /\ UNCHANGED <<bufferVars, clientSide, serverSide>>

(* recv or the next send fails, and _reconnect makes a new socket and      *)
(* buffer, the server a new reader task; the command is sent again, unless *)
(* the client gives up or had its answer.  (That a server may still be     *)
(* busy with the old connection is LiveLockClient's subject.)              *)
Reconnect ==
  /\ lost /\ server.mode \in {"ended", "raises"}
  /\ phase = "idle" \/ lacking > 0
  /\ lost' = FALSE
  /\ wire' = <<>>
  /\ buffer' = <<>> /\ bytes_written' = 0 /\ bytes_read' = 0
  /\ asked' = NoCall /\ lacking' = 0
  /\ inbox' = <<>> /\ server' = Fresh /\ client' = Fresh
  /\ \/ phase = "waiting" /\ uplink' = request /\ UNCHANGED phase
     \/ uplink' = <<>> /\ phase' = "idle"
  /\ UNCHANGED <<sent, request, answered>>

Transfer ==
  \/ \E n \in 1 .. Len(uplink) : DataReceived(n)
  \/ ServerReads
  \/ \E answer \in Answers : ServerAnswers(answer)
  \/ ReceiveCommandsEnd
  \/ ClientCalls \/ ClientReceives \/ ClientReads \/ ClientReturns

SessionNext == SendCommand \/ Transfer \/ Lose \/ Reconnect

(* What was sent arrives as long as the connection lasts, and both sides   *)
(* go on reading; nobody has to send a command or to reconnect.            *)
SessionSpec ==
  SessionInit /\ [][SessionNext]_sessionVars /\ WF_sessionVars(Transfer)

-----------------------------------------------------------------------------
(* The server executes what was sent: a command that its reader hands on   *)
(* is the one the client packed, complete and with its arguments apart,    *)
(* also when the connection is cut in the middle of it.  (The lengths of   *)
(* pack_resp against readexactly and readuntil; IncompleteReadError.)      *)
CommandsArriveWhole == server.mode = "done" => AsCommand(server.value) = sent

(* And the client returns what the server answered.  (_read_response over  *)
(* the SocketBuffer.)                                                      *)
AnswersArriveWhole == client.mode = "done" => client.value = answered

(* The reader task ends only with its connection, and the client never     *)
(* takes an answer for garbage: neither side meets a byte its readers do   *)
(* not expect.  (The exceptions that receive_commands does not catch leave *)
(* a connection open that nobody reads.)                                   *)
ReadersUnderstand == server.mode # "raises" /\ client.mode # "raises"

(* Nothing is left of an answer when the call returns: the next call finds *)
(* an empty buffer.  (The purge, "so it doesn't grow forever".)            *)
NothingIsLeftBetweenCalls ==
  phase = "idle" /\ ~lost => wire = <<>> /\ buffer = <<>> /\ bytes_written = 0

(* While the connection lasts the two sides never wait for each other: a   *)
(* command that was sent gets its answer.                                  *)
CommandsAreAnswered == phase = "waiting" ~> (phase = "idle" \/ lost)
=============================================================================
