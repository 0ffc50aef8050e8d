------------------------------ MODULE SendCommand ------------------------------
(***************************************************************************)
(* The retries of the client library (livelock/client.py): _send_command   *)
(* connects when it has no socket and, after an error, connects again and  *)
(* repeats the command; connecting sends CONN and CONNINFO by _send_command*)
(* itself, which may fail and retry in turn.  The calls in progress are a  *)
(* stack of frames, and an exception goes up it.                           *)
(*                                                                         *)
(* The network may refuse, break or time out whatever it is asked for.     *)
(* The server answers every command, CONN and CONNINFO never with an error *)
(* (no password is configured).  What happens to the locks is              *)
(* LiveLockClient's subject, and a call here is one step's worth of it.    *)
(***************************************************************************)
EXTENDS Naturals, Sequences

CONSTANT Attempts   \* _reconnect_attempts

ASSUME AttemptsAssumption == Attempts \in Nat \ {0}

VARIABLES
  frames,      \* the calls of _send_command in progress, the innermost last
  exception,   \* on its way up: "none", "failed" (an OSError), "error" (an error answer)
  sock,        \* _sock: "none", "open", or "closed" but not forgotten
  introduced,  \* has the server answered CONN on it
  unread,      \* the answers on it that nobody has read
  connects,    \* connections made by the call so far
  sends        \* how often it has sent its request

sendVars == <<frames, exception, sock, introduced, unread, connects, sends>>

MostConnects == 3 * Attempts - 2

(* The counters stop one past what they may reach.                         *)
Counted(n, most) == IF n > most THEN n ELSE n + 1

Commands == {"CONN", "CONNINFO", "REQUEST"}

Frames ==
  [command : Commands, reconnect : BOOLEAN, do_conn : BOOLEAN, left : 1 .. Attempts,
   reconnect_phase : BOOLEAN, tries : 1 .. Attempts,
   at : {"connect", "conn", "conninfo", "send", "receive"}]

SendTypeOK ==
  /\ frames \in Seq(Frames)
  /\ exception \in {"none", "failed", "error"}
  /\ sock \in {"none", "open", "closed"}
  /\ introduced \in BOOLEAN
  /\ unread \in Nat /\ connects \in Nat /\ sends \in Nat

SendInit ==
  /\ frames = <<>> /\ exception = "none"
  /\ sock = "none" /\ introduced = FALSE /\ unread = 0
  /\ connects = 0 /\ sends = 0

-----------------------------------------------------------------------------
Top == frames[Len(frames)]

Callers == SubSeq(frames, 1, Len(frames) - 1)

Runs(place) == frames # <<>> /\ exception = "none" /\ Top.at = place

Frame(command, reconnect, do_conn, at) ==
  [command |-> command, reconnect |-> reconnect, do_conn |-> do_conn, left |-> Attempts,
   reconnect_phase |-> FALSE, tries |-> Attempts, at |-> at]

(* A command is to be sent.  A socket that was closed is still a socket.   *)
Begin(reconnect) ==
  /\ frames = <<>>
  /\ frames' = <<Frame("REQUEST", reconnect, TRUE,
                       IF sock = "none" THEN "connect" ELSE "send")>>
  /\ connects' = 0 /\ sends' = 0
  /\ UNCHANGED <<exception, sock, introduced, unread>>

(* Mutants: a new connection is only introduced the first time, or is      *)
(* introduced as if it were the first.                                     *)
IntroductionOnce ==
  IF Top.do_conn /\ ~Top.reconnect_phase
  THEN <<[Top EXCEPT !.at = "conn"], Frame("CONN", Top.reconnect, FALSE, "send")>>
  ELSE <<[Top EXCEPT !.at = "send", !.reconnect_phase = FALSE]>>

IntroductionWithRetries ==
  IF Top.do_conn
  THEN <<[Top EXCEPT !.at = "conn"], Frame("CONN", Top.reconnect, FALSE, "send")>>
  ELSE <<[Top EXCEPT !.at = "send", !.reconnect_phase = FALSE]>>

(* The new connection says CONN, unless CONN is what it is for.  While the *)
(* caller reconnects, its introduction does not retry by itself.           *)
Introduction ==
  IF Top.do_conn
  THEN <<[Top EXCEPT !.at = "conn"],
         Frame("CONN", Top.reconnect /\ ~Top.reconnect_phase, FALSE, "send")>>
  ELSE <<[Top EXCEPT !.at = "send", !.reconnect_phase = FALSE]>>

Connected ==
  /\ Runs("connect")
  /\ frames' = Callers \o Introduction
  /\ sock' = "open" /\ introduced' = FALSE /\ unread' = 0
  /\ connects' = Counted(connects, MostConnects)
  /\ UNCHANGED <<exception, sends>>

(* Mutant: the last refusal is not the last try.                           *)
RefusedOnceMore ==
  /\ Runs("connect")
  /\ frames' = Append(Callers, [Top EXCEPT !.tries = @ - 1])
  /\ UNCHANGED <<exception, sock, introduced, unread, connects, sends>>

(* connect is refused: it is tried again, after a pause.                   *)
Refused ==
  /\ Runs("connect")
  /\ \/ /\ Top.tries > 1
        /\ frames' = Append(Callers, [Top EXCEPT !.tries = @ - 1])
        /\ UNCHANGED exception
     \/ /\ Top.tries = 1
        /\ exception' = "failed"
        /\ UNCHANGED frames
  /\ UNCHANGED <<sock, introduced, unread, connects, sends>>

Sent ==
  /\ Runs("send") /\ sock = "open"
  /\ frames' = Append(Callers, [Top EXCEPT !.at = "receive"])
  /\ unread' = unread + 1
  /\ sends' = IF Top.command = "REQUEST" THEN Counted(sends, Attempts) ELSE sends
  /\ UNCHANGED <<exception, sock, introduced, connects>>

(* An OSError of connect, sendall or recv, on a closed socket always.      *)
Breaks ==
  /\ Runs("connect") \/ Runs("send") \/ Runs("receive")
  /\ exception' = "failed"
  /\ UNCHANGED <<frames, sock, introduced, unread, connects, sends>>

(* What the caller of a command that was answered does next.               *)
Resumed ==
  LET caller == Callers[Len(Callers)]
      outer == SubSeq(Callers, 1, Len(Callers) - 1)
  IN CASE Top.command = "CONN" ->
            outer \o <<[caller EXCEPT !.at = "conninfo"],
                       Frame("CONNINFO", Top.reconnect, TRUE, "send")>>
       [] Top.command = "CONNINFO" ->
            outer \o <<[caller EXCEPT !.at = "send", !.reconnect_phase = FALSE]>>
       [] Top.command = "REQUEST" -> <<>>

Answered ==
  /\ Runs("receive") /\ unread > 0
  /\ introduced \/ Top.command = "CONN"
  /\ frames' = Resumed
  /\ unread' = unread - 1
  /\ introduced' = TRUE
  /\ UNCHANGED <<exception, sock, connects, sends>>

(* An error answer, which is no OSError: the connection is kept.           *)
AnsweredError ==
  /\ Runs("receive") /\ unread > 0
  /\ Top.command = "REQUEST"
  /\ exception' = "error"
  /\ unread' = unread - 1
  /\ UNCHANGED <<frames, sock, introduced, connects, sends>>

-----------------------------------------------------------------------------
(* An exception reaches a frame.                                           *)

(* Its first _connect is outside of the try, _reconnect is inside.         *)
InTry == Top.reconnect_phase \/ Top.at \in {"send", "receive"}

Retries ==
  exception = "failed" /\ frames # <<>> /\ InTry /\ Top.reconnect /\ Top.left > 1

Reconnecting(n) ==
  Append(Callers, [Top EXCEPT !.left = n, !.reconnect_phase = TRUE, !.at = "connect",
                              !.tries = Attempts])

(* Mutants: the attempts are not counted; the command is repeated on the   *)
(* connection that there is.                                               *)
RetryForever ==
  /\ Retries
  /\ frames' = Reconnecting(Top.left)
  /\ sock' = "none" /\ introduced' = FALSE /\ unread' = 0
  /\ exception' = "none"
  /\ UNCHANGED <<connects, sends>>

RetryOnSocket ==
  /\ Retries
  /\ frames' = Append(Callers, [Top EXCEPT !.left = @ - 1, !.at = "send"])
  /\ exception' = "none"
  /\ UNCHANGED <<sock, introduced, unread, connects, sends>>

(* The socket is closed and forgotten, and another one connected.          *)
Retry ==
  /\ Retries
  /\ frames' = Reconnecting(Top.left - 1)
  /\ sock' = "none" /\ introduced' = FALSE /\ unread' = 0
  /\ exception' = "none"
  /\ UNCHANGED <<connects, sends>>

(* Mutant: the socket is left as it is.                                    *)
RaiseUnclosed ==
  /\ exception # "none" /\ frames # <<>> /\ ~Retries
  /\ frames' = Callers
  /\ exception' = IF Callers = <<>> THEN "none" ELSE exception
  /\ UNCHANGED <<sock, introduced, unread, connects, sends>>

(* The frame ends with the exception, and its handler closes the socket of *)
(* an OSError.                                                             *)
Raise ==
  /\ exception # "none" /\ frames # <<>> /\ ~Retries
  /\ frames' = Callers
  /\ exception' = IF Callers = <<>> THEN "none" ELSE exception
  /\ IF exception = "failed" /\ InTry /\ sock = "open"
     THEN sock' = "closed" /\ introduced' = FALSE /\ unread' = 0
     ELSE UNCHANGED <<sock, introduced, unread>>
  /\ UNCHANGED <<connects, sends>>

Progress ==
  Connected \/ Refused \/ Sent \/ Breaks \/ Answered \/ AnsweredError \/ Retry \/ Raise

SendNext == (\E reconnect \in BOOLEAN : Begin(reconnect)) \/ Progress

(* Every socket operation ends, by its timeout if not otherwise.           *)
SendSpec == SendInit /\ [][SendNext]_sendVars /\ WF_sendVars(Progress)

-----------------------------------------------------------------------------
(* No command gets the answer of an earlier one: there is an unread answer *)
(* on the open socket only while the innermost call waits for it.          *)
NoStaleAnswer ==
  sock = "open" /\ exception = "none" =>
    unread = IF Runs("receive") THEN 1 ELSE 0

(* Whatever fails during an introduction or its retry, each connection     *)
(* says CONN exactly once, before anything else.  (do_conn_on_reconnect:   *)
(* "causes double CONN command sent".)                                     *)
ConnComesFirstAndOnce ==
  Runs("receive") => (introduced <=> Top.command # "CONN")

(* The retries of a call and of the introductions in it do not multiply: a *)
(* request is sent at most as often as there are attempts, and once if it  *)
(* is not to reconnect; the connections made are those of three loops, one *)
(* after the other.  ("do not reconnect on inner commands fail")           *)
RetriesDoNotMultiply ==
  /\ sends <= Attempts /\ connects <= MostConnects /\ Len(frames) <= 3
  /\ frames # <<>> /\ ~frames[1].reconnect => sends <= 1 /\ connects <= 1

(* Every call returns or raises, however the network behaves.              *)
CallsEnd == frames # <<>> ~> frames = <<>>

(* The calls are those of LiveLockClient, where the number of attempts is  *)
(* open: as soon as something fails the client has no connection, and is   *)
(* connecting until it has another.                                        *)
Usable == sock = "open" /\ exception # "failed"

Call == INSTANCE ClientCall WITH
  has_sock <- Usable,
  doing <- IF frames = <<>> THEN "idle"
           ELSE IF ~Usable THEN "connecting"
           ELSE IF Len(frames) > 1 THEN "introducing" ELSE "waiting"

ImplementsCall == Call!CallSpec
=============================================================================
