--------------------------- MODULE SendCommand_proofs ---------------------------
(***************************************************************************)
(* Proofs about the retries of _send_command, for any number of attempts.  *)
(*                                                                         *)
(* The properties rest on the shape of the stack (Stack): a frame retries  *)
(* only while its caller does not, so a stack is at most three frames deep *)
(* and only one of its frames counts its attempts down at any time.  With  *)
(* that, what each connection has seen follows from its innermost frame    *)
(* (Talk), and how many sends and connections there were from the attempts *)
(* that the outer two frames have left (Sends, Connects).                  *)
(***************************************************************************)
EXTENDS SendCommand, SequenceTheorems, TLAPS

(* What holds of a frame by itself.  A frame of an introduction begins with*)
(* a socket and connects only when it retries.                             *)
Sound(f) ==
  /\ f \in Frames
  /\ f.do_conn <=> f.command # "CONN"
  /\ f.reconnect_phase => f.reconnect /\ f.left < Attempts
  /\ ~f.reconnect => f.left = Attempts
  /\ f.at \in {"send", "receive"} => ~f.reconnect_phase
  /\ f.command # "REQUEST" /\ f.at \notin {"send", "receive"} => f.reconnect_phase
  /\ f.command = "CONN" => f.at \notin {"conn", "conninfo"}

(* What holds of a frame and the frame it called.                          *)
Called(f, g) ==
  /\ g.command = IF f.at = "conn" THEN "CONN" ELSE "CONNINFO"
  /\ f.at \in {"conn", "conninfo"}
  /\ g.reconnect <=> f.reconnect /\ ~f.reconnect_phase

Stack(fs) ==
  /\ fs \in Seq(Frames)
  /\ \A i \in 1 .. Len(fs) : Sound(fs[i])
  /\ \A i \in 1 .. Len(fs) - 1 : Called(fs[i], fs[i + 1])
  /\ fs # <<>> => fs[1].command = "REQUEST"

(* How far an exception has come.                                          *)
Up ==
  /\ exception = "none" /\ frames # <<>> => Top.at \in {"connect", "send", "receive"}
  /\ exception # "none" => frames # <<>>
  /\ exception = "error" => Len(frames) = 1 /\ Top.at = "receive" /\ sock = "open"

Talk ==
  /\ sock # "open" => ~introduced /\ unread = 0
  /\ sock = "open" /\ exception # "failed" =>
       /\ unread = IF Runs("receive") THEN 1 ELSE 0
       /\ introduced <=> frames = <<>> \/ Top.command # "CONN"
  /\ Runs("receive") => sock = "open"
  /\ frames # <<>> /\ Top.at = "connect" => sock = "none"
  /\ exception = "failed" /\ sock = "open" => Top.at \in {"send", "receive"}

One(condition) == IF condition THEN 1 ELSE 0

Sends ==
  /\ sends \in Nat /\ sends <= Attempts
  /\ frames # <<>> =>
       sends <= Attempts - frames[1].left + One(frames[1].at = "receive")

(* Each of the three loops: CONN's and CONNINFO's of the first introduction*)
(* (n attempts used up before it), and the request's own.                  *)
ConnectsOfLoop(n, last) ==
  IF Len(frames) > 1
  THEN connects + One(frames[2].at = "connect") <= n + Attempts - frames[2].left
  ELSE connects <= last

Connects ==
  /\ connects \in Nat /\ connects <= MostConnects
  /\ frames # <<>> =>
       /\ frames[1].at = "connect" /\ ~frames[1].reconnect_phase => connects = 0
       /\ frames[1].at = "conn" /\ ~frames[1].reconnect_phase =>
            ConnectsOfLoop(1, Attempts)
       /\ frames[1].at = "conninfo" /\ ~frames[1].reconnect_phase =>
            ConnectsOfLoop(Attempts, 2 * Attempts - 1)
       /\ frames[1].at \in {"send", "receive"} \/ frames[1].reconnect_phase =>
            connects + One(frames[1].at = "connect") <= 3 * Attempts - 1 - frames[1].left
       /\ ~frames[1].reconnect => connects <= 1

SendInv == SendTypeOK /\ Stack(frames) /\ Up /\ Talk /\ Sends /\ Connects

-----------------------------------------------------------------------------
(* The three changes of a stack.                                           *)

Below(fs) == SubSeq(fs, 1, Len(fs) - 1)

(* A sequence with one or two frames put on top of it.                     *)
LEMMA Extended ==
  ASSUME NEW S, NEW b \in Seq(S), NEW f \in S, NEW g \in S
  PROVE  /\ Append(b, f) = b \o <<f>>
         /\ b \o <<f>> \in Seq(S) /\ Len(b \o <<f>>) = Len(b) + 1
         /\ (b \o <<f>>)[Len(b) + 1] = f
         /\ \A i \in 1 .. Len(b) : (b \o <<f>>)[i] = b[i]
         /\ b \o <<f, g>> \in Seq(S) /\ Len(b \o <<f, g>>) = Len(b) + 2
         /\ (b \o <<f, g>>)[Len(b) + 1] = f /\ (b \o <<f, g>>)[Len(b) + 2] = g
         /\ \A i \in 1 .. Len(b) : (b \o <<f, g>>)[i] = b[i]
<1>1. /\ <<f>> \in Seq(S) /\ Len(<<f>>) = 1 /\ <<f>>[1] = f
      /\ <<f, g>> \in Seq(S) /\ Len(<<f, g>>) = 2 /\ <<f, g>>[1] = f /\ <<f, g>>[2] = g
  OBVIOUS
<1>2. Len(b) \in Nat
  BY LenProperties
<1>3. Append(b, f) = b \o <<f>>
  BY AppendIsConcat
<1>4. /\ b \o <<f>> \in Seq(S) /\ Len(b \o <<f>>) = Len(b) + 1
      /\ \A i \in 1 .. Len(b) + 1 :
           (b \o <<f>>)[i] = IF i <= Len(b) THEN b[i] ELSE <<f>>[i - Len(b)]
  BY <1>1, ConcatProperties
<1>5. /\ b \o <<f, g>> \in Seq(S) /\ Len(b \o <<f, g>>) = Len(b) + 2
      /\ \A i \in 1 .. Len(b) + 2 :
           (b \o <<f, g>>)[i] = IF i <= Len(b) THEN b[i] ELSE <<f, g>>[i - Len(b)]
  BY <1>1, ConcatProperties
<1> DEFINE c == b \o <<f>>
           d == b \o <<f, g>>
           one == <<f>>
           two == <<f, g>>
           n == Len(b)
<1>6. /\ c[n + 1] = f /\ \A i \in 1 .. n : c[i] = b[i]
  <2>1. /\ n \in Nat /\ one[1] = f
        /\ \A i \in 1 .. n + 1 : c[i] = IF i <= n THEN b[i] ELSE one[i - n]
    BY <1>1, <1>2, <1>4
  <2> HIDE DEF c, one, n
  <2> QED
    BY <2>1
<1>7. /\ d[n + 1] = f /\ d[n + 2] = g /\ \A i \in 1 .. n : d[i] = b[i]
  <2>1. /\ n \in Nat /\ two[1] = f /\ two[2] = g
        /\ \A i \in 1 .. n + 2 : d[i] = IF i <= n THEN b[i] ELSE two[i - n]
    BY <1>1, <1>2, <1>5
  <2> HIDE DEF d, two, n
  <2>2. n + 1 \in 1 .. n + 2 /\ n + 2 \in 1 .. n + 2 /\ n + 1 - n = 1 /\ n + 2 - n = 2
    BY <2>1
  <2> QED
    BY <2>1, <2>2
<1> QED
  BY <1>3, <1>4, <1>5, <1>6, <1>7

(* The callers of the top frame are a stack themselves.                    *)
LEMMA BelowStack ==
  ASSUME NEW fs, Stack(fs), fs # <<>>
  PROVE  /\ Len(fs) \in Nat \ {0}
         /\ Below(fs) \in Seq(Frames) /\ Len(Below(fs)) = Len(fs) - 1
         /\ \A i \in 1 .. Len(fs) - 1 : Below(fs)[i] = fs[i]
         /\ Stack(Below(fs))
<1>1. fs \in Seq(Frames) /\ Len(fs) \in Nat \ {0}
  BY DEF Stack
<1>2. /\ Below(fs) \in Seq(Frames) /\ Len(Below(fs)) = Len(fs) - 1
      /\ \A i \in 1 .. Len(fs) - 1 : Below(fs)[i] = fs[i]
  <2>1. \A i \in 1 .. Len(fs) - 1 : fs[i] \in Frames
    BY <1>1, ElementOfSeq
  <2> DEFINE n == Len(fs) - 1
  <2>2. 1 \in Int /\ n \in Int /\ n \in Nat
    BY <1>1
  <2> HIDE DEF n
  <2>3. /\ SubSeq(fs, 1, n) \in Seq(Frames)
        /\ Len(SubSeq(fs, 1, n)) = IF 1 <= n THEN n - 1 + 1 ELSE 0
        /\ \A i \in 1 .. n - 1 + 1 : SubSeq(fs, 1, n)[i] = fs[1 + i - 1]
    BY <2>1, <2>2, SubSeqProperties DEF n
  <2>4. /\ Len(SubSeq(fs, 1, n)) = n
        /\ \A i \in 1 .. n : SubSeq(fs, 1, n)[i] = fs[i]
    BY <2>2, <2>3
  <2> QED
    BY <2>3, <2>4 DEF Below, n
<1>3. Stack(Below(fs))
  BY <1>1, <1>2 DEF Stack
<1> QED
  BY <1>1, <1>2, <1>3

(* The top frame goes on, in another place.                                *)
LEMMA ReplacedStack ==
  ASSUME NEW fs, Stack(fs), fs # <<>>,
         NEW f, Sound(f), f.command = fs[Len(fs)].command, f.reconnect = fs[Len(fs)].reconnect,
         NEW gs, gs = Append(Below(fs), f) \/ gs = Below(fs) \o <<f>>
  PROVE  /\ Len(gs) = Len(fs) /\ gs[Len(fs)] = f
         /\ \A i \in 1 .. Len(fs) - 1 : gs[i] = fs[i]
         /\ Stack(gs)
<1>1. /\ fs \in Seq(Frames) /\ Len(fs) \in Nat \ {0} /\ f \in Frames
      /\ Below(fs) \in Seq(Frames) /\ Len(Below(fs)) = Len(fs) - 1
      /\ \A i \in 1 .. Len(fs) - 1 : Below(fs)[i] = fs[i]
  BY BelowStack DEF Stack, Sound
<1>2. /\ gs \in Seq(Frames) /\ Len(gs) = Len(Below(fs)) + 1
      /\ gs[Len(Below(fs)) + 1] = f
      /\ \A i \in 1 .. Len(Below(fs)) : gs[i] = Below(fs)[i]
  <2>1. gs = Below(fs) \o <<f>>
    BY <1>1, AppendIsConcat
  <2> QED
    BY <1>1, <2>1, Extended
<1>3. /\ Len(gs) = Len(fs) /\ gs[Len(fs)] = f
      /\ \A i \in 1 .. Len(fs) - 1 : gs[i] = fs[i]
  BY <1>1, <1>2
<1>4. \A i \in 1 .. Len(gs) : Sound(gs[i])
  BY SMTT(30), <1>1, <1>2, <1>3 DEF Stack
<1>5. \A i \in 1 .. Len(gs) - 1 : Called(gs[i], gs[i + 1])
  <2> SUFFICES ASSUME NEW i \in 1 .. Len(gs) - 1 PROVE Called(gs[i], gs[i + 1])
    OBVIOUS
  <2>1. gs[i] = fs[i] /\ Called(fs[i], fs[i + 1])
    BY <1>1, <1>2, <1>3 DEF Stack
  <2>2. gs[i + 1] = IF i + 1 = Len(fs) THEN f ELSE fs[i + 1]
    <3>1. i + 1 = Len(fs) \/ i + 1 \in 1 .. Len(fs) - 1
      BY <1>1, <1>3
    <3> QED
      BY <1>3, <3>1
  <2> QED
    BY <2>1, <2>2 DEF Called
<1>6. gs[1].command = "REQUEST"
  BY <1>1, <1>2, <1>3 DEF Stack
<1> QED
  BY <1>2, <1>3, <1>4, <1>5, <1>6 DEF Stack

(* The top frame calls another one.                                        *)
LEMMA PushedStack ==
  ASSUME NEW fs, Stack(fs), fs # <<>>,
         NEW f, Sound(f), f.command = fs[Len(fs)].command, f.reconnect = fs[Len(fs)].reconnect,
         NEW g, Sound(g), Called(f, g)
  PROVE  LET gs == Below(fs) \o <<f, g>> IN
         /\ Len(gs) = Len(fs) + 1 /\ gs[Len(fs)] = f /\ gs[Len(fs) + 1] = g
         /\ \A i \in 1 .. Len(fs) - 1 : gs[i] = fs[i]
         /\ Stack(gs)
<1> DEFINE hs == Append(Below(fs), f)
           gs == Below(fs) \o <<f, g>>
<1>1. /\ fs \in Seq(Frames) /\ Len(fs) \in Nat \ {0} /\ f \in Frames /\ g \in Frames
      /\ Below(fs) \in Seq(Frames) /\ Len(Below(fs)) = Len(fs) - 1
      /\ \A i \in 1 .. Len(fs) - 1 : Below(fs)[i] = fs[i]
  BY BelowStack DEF Stack, Sound
<1>2. /\ Len(hs) = Len(fs) /\ hs[Len(fs)] = f /\ Stack(hs)
      /\ \A i \in 1 .. Len(fs) - 1 : hs[i] = fs[i]
  <2>1. hs = Append(Below(fs), f) \/ hs = Below(fs) \o <<f>>
    OBVIOUS
  <2> HIDE DEF hs
  <2> QED
    BY <2>1, ReplacedStack
<1> DEFINE n == Len(Below(fs))
<1>a. /\ gs \in Seq(Frames) /\ Len(gs) = n + 2
      /\ gs[n + 1] = f /\ gs[n + 2] = g
      /\ \A i \in 1 .. n : gs[i] = Below(fs)[i]
  BY <1>1, Extended
<1>b. n \in Nat /\ n = Len(fs) - 1 /\ n + 1 = Len(fs) /\ n + 2 = Len(fs) + 1
  BY <1>1
<1> HIDE DEF n, gs, hs
<1>3. gs \in Seq(Frames) /\ Len(gs) = Len(fs) + 1
  BY <1>1, <1>a, <1>b
<1>4. gs[Len(fs)] = f /\ gs[Len(fs) + 1] = g
  BY <1>a, <1>b
<1>5. \A i \in 1 .. Len(fs) : gs[i] = hs[i]
  BY <1>1, <1>2, <1>4, <1>a, <1>b
<1>6. \A i \in 1 .. Len(gs) : Sound(gs[i])
  BY SMTT(30), <1>1, <1>2, <1>3, <1>4, <1>5 DEF Stack
<1>7. \A i \in 1 .. Len(gs) - 1 : Called(gs[i], gs[i + 1])
  <2> SUFFICES ASSUME NEW i \in 1 .. Len(gs) - 1 PROVE Called(gs[i], gs[i + 1])
    OBVIOUS
  <2>1. CASE i = Len(fs)
    BY <1>4, <2>1
  <2>2. CASE i # Len(fs)
    <3>1. i \in 1 .. Len(hs) - 1 /\ gs[i] = hs[i] /\ gs[i + 1] = hs[i + 1]
      BY <1>1, <1>2, <1>3, <1>5, <2>2
    <3> QED
      BY <1>2, <3>1 DEF Stack
  <2> QED
    BY <2>1, <2>2
<1>8. gs # <<>> => gs[1].command = "REQUEST"
  BY <1>1, <1>2, <1>5 DEF Stack
<1>9. Stack(gs)
  BY <1>3, <1>6, <1>7, <1>8 DEF Stack
<1>10. \A i \in 1 .. Len(fs) - 1 : gs[i] = fs[i]
  BY <1>1, <1>2, <1>5
<1> QED
  BY <1>3, <1>4, <1>9, <1>10 DEF gs

(* A frame that connects again leaves no retry to the frames it calls.     *)
LEMMA AtMostThree ==
  ASSUME NEW fs, Stack(fs)
  PROVE  /\ Len(fs) <= 3
         /\ Len(fs) = 3 => fs[3].at \in {"send", "receive"} /\ ~fs[3].reconnect
<1>1. Len(fs) \in Nat
  BY DEF Stack
<1>2. Len(fs) >= 3 => fs[3].at \in {"send", "receive"} /\ ~fs[3].reconnect
  <2> HAVE Len(fs) >= 3
  <2>1. Called(fs[1], fs[2]) /\ Called(fs[2], fs[3]) /\ Sound(fs[2]) /\ Sound(fs[3])
    BY <1>1 DEF Stack
  <2>2. fs[2].command # "REQUEST" /\ fs[3].command # "REQUEST"
    BY <2>1 DEF Called
  <2>3. fs[2].reconnect_phase
    BY <2>1, <2>2 DEF Called, Sound
  <2> QED
    BY <2>1, <2>2, <2>3 DEF Called, Sound
<1>3. Len(fs) < 4
  <2> SUFFICES ASSUME Len(fs) >= 4 PROVE FALSE
    BY <1>1
  <2>1. Called(fs[3], fs[4])
    BY <1>1 DEF Stack
  <2> QED
    BY <1>2, <2>1 DEF Called
<1> QED
  BY <1>1, <1>2, <1>3

-----------------------------------------------------------------------------
(* The steps.                                                              *)

(* The stack of a call, from its top and from its bottom.                  *)
LEMMA TopFacts ==
  ASSUME SendInv, frames # <<>>
  PROVE  /\ Len(frames) \in {1, 2, 3} /\ Top = frames[Len(frames)] /\ Callers = Below(frames)
         /\ Sound(Top) /\ Top \in Frames
         /\ Sound(frames[1]) /\ frames[1] \in Frames /\ frames[1].command = "REQUEST"
         /\ (Len(frames) = 1) <=> (Top.command = "REQUEST")
         /\ Len(frames) > 1 => Called(frames[1], frames[2]) /\ Sound(frames[2]) /\ frames[2] \in Frames
         /\ Len(frames) = 3 => /\ Called(frames[2], frames[3])
                               /\ Top.at \in {"send", "receive"} /\ ~Top.reconnect
<1>1. /\ Len(frames) \in {1, 2, 3}
      /\ Len(frames) = 3 => Top.at \in {"send", "receive"} /\ ~Top.reconnect
  <2>1. Len(frames) \in Nat \ {0}
    BY BelowStack DEF SendInv
  <2>2. /\ Len(frames) <= 3
        /\ Len(frames) = 3 => frames[3].at \in {"send", "receive"} /\ ~frames[3].reconnect
    BY AtMostThree DEF SendInv
  <2>3. Len(frames) \in {1, 2, 3}
    <3> DEFINE n == Len(frames)
    <3>1. n \in Nat \ {0} /\ n <= 3
      BY <2>1, <2>2
    <3> HIDE DEF n
    <3>2. n \in {1, 2, 3}
      BY <3>1
    <3> QED
      BY <3>2 DEF n
  <2>4. Len(frames) = 3 => Top = frames[3]
    BY DEF Top
  <2> QED
    BY <2>2, <2>3, <2>4
<1>2. \A i \in 1 .. Len(frames) : Sound(frames[i]) /\ frames[i] \in Frames
  BY DEF SendInv, Stack, Sound
<1>3. frames[1].command = "REQUEST"
  BY DEF SendInv, Stack
<1>4. \A i \in 1 .. Len(frames) - 1 : Called(frames[i], frames[i + 1])
  BY DEF SendInv, Stack
<1>5. Len(frames) > 1 => frames[Len(frames)].command # "REQUEST"
  BY <1>1, <1>4 DEF Called
<1>6. Sound(Top) /\ Top \in Frames
  BY <1>1, <1>2 DEF Top
<1>7. (Len(frames) = 1) <=> (Top.command = "REQUEST")
  BY <1>1, <1>3, <1>5 DEF Top
<1>8. Sound(frames[1]) /\ frames[1] \in Frames
  BY <1>1, <1>2
<1>9. Len(frames) > 1 => Called(frames[1], frames[2]) /\ Sound(frames[2]) /\ frames[2] \in Frames
  BY <1>1, <1>2, <1>4
<1>10. Len(frames) = 3 => Called(frames[2], frames[3])
  BY <1>1, <1>4
<1>11. Callers = Below(frames)
  BY DEF Callers, Below
<1> QED
  BY <1>1, <1>3, <1>6, <1>7, <1>8, <1>9, <1>10, <1>11 DEF Top

(* frames' has f on top, and is as deep as before.                         *)
OnTop(f) ==
  /\ Stack(frames') /\ frames' # <<>> /\ Len(frames') = Len(frames)
  /\ frames'[Len(frames)] = f /\ Top' = f
  /\ \A i \in 1 .. Len(frames) - 1 : frames'[i] = frames[i]

(* A step that changes the top frame only keeps the stack.                 *)
LEMMA NewTop ==
  ASSUME SendInv, frames # <<>>, NEW f, Sound(f),
         f.command = Top.command, f.reconnect = Top.reconnect,
         frames' = Append(Callers, f) \/ frames' = Callers \o <<f>>
  PROVE  OnTop(f)
<1>1. /\ Callers = Below(frames) /\ Top = frames[Len(frames)] /\ Stack(frames)
      /\ Len(frames) \in {1, 2, 3}
  BY TopFacts DEF SendInv
<1>2. /\ Len(frames') = Len(frames) /\ frames'[Len(frames)] = f
      /\ \A i \in 1 .. Len(frames) - 1 : frames'[i] = frames[i]
      /\ Stack(frames')
  <2> DEFINE gs == frames'
  <2>1. gs = Append(Below(frames), f) \/ gs = Below(frames) \o <<f>>
    BY <1>1
  <2> HIDE DEF gs
  <2>2. /\ Len(gs) = Len(frames) /\ gs[Len(frames)] = f
        /\ \A i \in 1 .. Len(frames) - 1 : gs[i] = frames[i]
        /\ Stack(gs)
    BY <1>1, <2>1, ReplacedStack
  <2> QED
    BY <2>2 DEF gs
<1>3. frames' # <<>>
  BY <1>1, <1>2
<1> QED
  BY <1>2, <1>3 DEF OnTop, Top

(* A command that has just been called.                                    *)
LEMMA NewFrame ==
  ASSUME NEW reconnect \in BOOLEAN, NEW at \in {"connect", "send"}, NEW f,
         \/ f = Frame("REQUEST", reconnect, TRUE, at)
         \/ f = Frame("CONN", reconnect, FALSE, "send") /\ at = "send"
         \/ f = Frame("CONNINFO", reconnect, TRUE, "send") /\ at = "send"
  PROVE  /\ Sound(f) /\ f \in Frames
         /\ f.reconnect = reconnect /\ f.at = at /\ f.left = Attempts /\ ~f.reconnect_phase
         /\ f = Frame("REQUEST", reconnect, TRUE, at) => f.command = "REQUEST"
         /\ f = Frame("CONN", reconnect, FALSE, "send") => f.command = "CONN"
         /\ f = Frame("CONNINFO", reconnect, TRUE, "send") => f.command = "CONNINFO"
<1>1. Attempts \in 1 .. Attempts
  BY AttemptsAssumption
<1>2. f \in Frames
  <2>1. ASSUME NEW command \in Commands, NEW do_conn \in BOOLEAN
        PROVE  Frame(command, reconnect, do_conn, at) \in Frames
    BY <1>1 DEF Frame, Frames
  <2>2. "REQUEST" \in Commands /\ "CONN" \in Commands /\ "CONNINFO" \in Commands
    BY DEF Commands
  <2>3. CASE f = Frame("REQUEST", reconnect, TRUE, at)
    BY <2>1, <2>2, <2>3
  <2>4. CASE f = Frame("CONN", reconnect, FALSE, "send") /\ at = "send"
    BY <2>1, <2>2, <2>4
  <2>5. CASE f = Frame("CONNINFO", reconnect, TRUE, "send") /\ at = "send"
    BY <2>1, <2>2, <2>5
  <2> QED
    BY <2>3, <2>4, <2>5
<1>3. /\ f.reconnect = reconnect /\ f.at = at /\ f.left = Attempts /\ ~f.reconnect_phase
      /\ f.do_conn <=> f.command # "CONN"
      /\ at = "connect" => f.command = "REQUEST"
  BY DEF Frame
<1>4. Sound(f)
  BY <1>2, <1>3 DEF Sound
<1>5. /\ f = Frame("REQUEST", reconnect, TRUE, at) => f.command = "REQUEST"
      /\ f = Frame("CONN", reconnect, FALSE, "send") => f.command = "CONN"
      /\ f = Frame("CONNINFO", reconnect, TRUE, "send") => f.command = "CONNINFO"
  BY DEF Frame
<1> QED
  BY <1>2, <1>3, <1>4, <1>5

(* A call begins with one frame.                                           *)
LEMMA BeginKeepsInv ==
  ASSUME SendInv, NEW reconnect \in BOOLEAN, Begin(reconnect)
  PROVE  SendInv'
<1> DEFINE at == IF sock = "none" THEN "connect" ELSE "send"
           f == Frame("REQUEST", reconnect, TRUE, at)
<1>1. /\ frames = <<>> /\ frames' = <<f>> /\ connects' = 0 /\ sends' = 0
      /\ UNCHANGED <<exception, sock, introduced, unread>>
  BY DEF Begin
<1>a. at \in {"connect", "send"} /\ f = Frame("REQUEST", reconnect, TRUE, at)
  OBVIOUS
<1> HIDE DEF at, f
<1>b. Sound(f) /\ f \in Frames /\ f.command = "REQUEST" /\ f.at = at /\ f.left = Attempts
      /\ ~f.reconnect_phase /\ f.reconnect = reconnect
  BY <1>a, NewFrame
<1>2. f \in Frames /\ Sound(f) /\ f.command = "REQUEST" /\ ~f.reconnect_phase /\ f.left = Attempts
  BY <1>b
<1>3. f.at = IF sock = "none" THEN "connect" ELSE "send"
  BY <1>b DEF at
<1>4. /\ Len(frames') = 1 /\ frames'[1] = f /\ Top' = f /\ frames' # <<>> /\ frames' \in Seq(Frames)
  <2>1. /\ Len(<<f>>) = 1 /\ <<f>>[1] = f /\ <<f>> # <<>> /\ <<f>> \in Seq(Frames)
    BY <1>2
  <2> QED
    BY <1>1, <2>1 DEF Top
<1>5. Stack(frames')
  BY <1>2, <1>4 DEF Stack
<1>6. exception = "none"
  BY <1>1 DEF SendInv, Up, SendTypeOK
<1>7. Up'
  BY <1>1, <1>3, <1>4, <1>6 DEF Up
<1>8. Talk'
  BY <1>1, <1>3, <1>4, <1>6, <1>2 DEF Talk, Runs, SendInv, SendTypeOK
<1>9. Sends'
  BY <1>1, <1>2, <1>3, <1>4, AttemptsAssumption DEF Sends, One
<1>10. Connects'
  BY <1>1, <1>2, <1>3, <1>4, AttemptsAssumption DEF Connects, One, MostConnects, ConnectsOfLoop
<1>11. SendTypeOK'
  BY <1>1, <1>4 DEF SendInv, SendTypeOK
<1> QED
  BY <1>5, <1>7, <1>8, <1>9, <1>10, <1>11 DEF SendInv

(* What the changes of a frame leave of it.                                *)
LEMMA ChangedFrame ==
  ASSUME NEW t \in Frames
  PROVE  /\ \A at \in {"conn", "conninfo", "receive"} :
              LET f == [t EXCEPT !.at = at] IN
              /\ f \in Frames /\ f.at = at
              /\ f.command = t.command /\ f.reconnect = t.reconnect /\ f.do_conn = t.do_conn
              /\ f.left = t.left /\ f.reconnect_phase = t.reconnect_phase
         /\ LET f == [t EXCEPT !.at = "send", !.reconnect_phase = FALSE] IN
              /\ f \in Frames /\ f.at = "send"
              /\ f.command = t.command /\ f.reconnect = t.reconnect /\ f.do_conn = t.do_conn
              /\ f.left = t.left /\ f.reconnect_phase = FALSE
         /\ t.tries > 1 =>
              LET f == [t EXCEPT !.tries = @ - 1] IN
              /\ f \in Frames /\ f.at = t.at
              /\ f.command = t.command /\ f.reconnect = t.reconnect /\ f.do_conn = t.do_conn
              /\ f.left = t.left /\ f.reconnect_phase = t.reconnect_phase
         /\ t.left > 1 =>
              LET f == [t EXCEPT !.left = t.left - 1, !.reconnect_phase = TRUE, !.at = "connect",
                                 !.tries = Attempts] IN
              /\ f \in Frames /\ f.at = "connect"
              /\ f.command = t.command /\ f.reconnect = t.reconnect /\ f.do_conn = t.do_conn
              /\ f.left = t.left - 1 /\ f.reconnect_phase = TRUE
<1>1. \A at \in {"conn", "conninfo", "receive"} :
         LET f == [t EXCEPT !.at = at] IN
         /\ f \in Frames /\ f.at = at
         /\ f.command = t.command /\ f.reconnect = t.reconnect /\ f.do_conn = t.do_conn
         /\ f.left = t.left /\ f.reconnect_phase = t.reconnect_phase
  BY DEF Frames
<1>2. LET f == [t EXCEPT !.at = "send", !.reconnect_phase = FALSE] IN
        /\ f \in Frames /\ f.at = "send"
        /\ f.command = t.command /\ f.reconnect = t.reconnect /\ f.do_conn = t.do_conn
        /\ f.left = t.left /\ f.reconnect_phase = FALSE
  BY DEF Frames
<1>3. t.tries > 1 =>
        LET f == [t EXCEPT !.tries = @ - 1] IN
        /\ f \in Frames /\ f.at = t.at
        /\ f.command = t.command /\ f.reconnect = t.reconnect /\ f.do_conn = t.do_conn
        /\ f.left = t.left /\ f.reconnect_phase = t.reconnect_phase
  BY AttemptsAssumption DEF Frames
<1>4. t.left > 1 =>
        LET f == [t EXCEPT !.left = t.left - 1, !.reconnect_phase = TRUE, !.at = "connect",
                           !.tries = Attempts] IN
        /\ f \in Frames /\ f.at = "connect"
        /\ f.command = t.command /\ f.reconnect = t.reconnect /\ f.do_conn = t.do_conn
        /\ f.left = t.left - 1 /\ f.reconnect_phase = TRUE
  <2> SUFFICES ASSUME t.left > 1
               PROVE  LET f == [t EXCEPT !.left = t.left - 1, !.reconnect_phase = TRUE,
                                         !.at = "connect", !.tries = Attempts] IN
                      /\ f \in Frames /\ f.at = "connect"
                      /\ f.command = t.command /\ f.reconnect = t.reconnect
                      /\ f.do_conn = t.do_conn
                      /\ f.left = t.left - 1 /\ f.reconnect_phase = TRUE
    OBVIOUS
  <2> DEFINE n == t.left - 1
  <2>1. n \in 1 .. Attempts /\ Attempts \in 1 .. Attempts
    BY AttemptsAssumption DEF Frames
  <2> HIDE DEF n
  <2>2. LET f == [t EXCEPT !.left = n, !.reconnect_phase = TRUE,
                           !.at = "connect", !.tries = Attempts] IN
        /\ f \in Frames /\ f.at = "connect"
        /\ f.command = t.command /\ f.reconnect = t.reconnect /\ f.do_conn = t.do_conn
        /\ f.left = n /\ f.reconnect_phase = TRUE
    BY <2>1 DEF Frames
  <2> QED
    BY <2>2 DEF n
<1> QED
  BY <1>1, <1>2, <1>3, <1>4

(* The outer two frames, which the counts are about.                       *)
LEMMA OuterFrames ==
  ASSUME SendInv, frames # <<>>, NEW f, OnTop(f)
  PROVE  /\ Len(frames) = 1 => frames'[1] = f /\ Top = frames[1]
         /\ Len(frames) = 2 => frames'[1] = frames[1] /\ frames'[2] = f /\ Top = frames[2]
         /\ Len(frames) = 3 => frames'[1] = frames[1] /\ frames'[2] = frames[2]
  BY TopFacts DEF OnTop

(* A refused connection costs the frame one of its tries, the last one     *)
(* raises.                                                                 *)
LEMMA RefusedKeepsInv ==
  ASSUME SendInv, Refused
  PROVE  SendInv'
<1> DEFINE f == [Top EXCEPT !.tries = @ - 1]
<1>1. /\ frames # <<>> /\ exception = "none" /\ Top.at = "connect"
      /\ UNCHANGED <<sock, introduced, unread, connects, sends>>
  BY DEF Refused, Runs
<1>2. CASE exception' = "failed" /\ UNCHANGED frames
  <2>1. Top' = Top
    BY <1>2 DEF Top
  <2>2. Up' /\ Talk'
    BY <1>1, <1>2, <2>1 DEF SendInv, Up, Talk, Runs
  <2>3. Sends' /\ Connects'
    BY <1>1, <1>2 DEF SendInv, Sends, Connects, ConnectsOfLoop
  <2> QED
    BY <1>1, <1>2, <2>2, <2>3 DEF SendInv, SendTypeOK
<1>3. CASE Top.tries > 1 /\ frames' = Append(Callers, f) /\ UNCHANGED exception
  <2>1. /\ f.at = Top.at /\ f.command = Top.command /\ f.reconnect = Top.reconnect
        /\ f.left = Top.left /\ f.reconnect_phase = Top.reconnect_phase /\ Sound(f)
    <3>1. /\ f \in Frames /\ f.at = Top.at
          /\ f.command = Top.command /\ f.reconnect = Top.reconnect /\ f.do_conn = Top.do_conn
          /\ f.left = Top.left /\ f.reconnect_phase = Top.reconnect_phase
      BY <1>1, <1>3, TopFacts, ChangedFrame
    <3> HIDE DEF f
    <3> QED
      BY <1>1, <3>1, TopFacts DEF Sound
  <2> HIDE DEF f
  <2>2. OnTop(f)
    BY <1>1, <1>3, <2>1, NewTop
  <2>3. Up' /\ Talk'
    BY <1>1, <1>3, <2>1, <2>2 DEF SendInv, Up, Talk, Runs, OnTop
  <2>4. Sends' /\ Connects'
    BY <1>1, <1>3, <2>1, <2>2, OuterFrames, TopFacts
       DEF SendInv, Sends, Connects, ConnectsOfLoop, OnTop
  <2> QED
    BY <1>1, <1>3, <2>2, <2>3, <2>4 DEF SendInv, SendTypeOK, OnTop, Stack
<1> QED
  BY <1>2, <1>3 DEF Refused

(* A connection that breaks raises in the frame that uses it.              *)
LEMMA BreaksKeepsInv ==
  ASSUME SendInv, Breaks
  PROVE  SendInv'
<1>1. /\ frames # <<>> /\ Top.at \in {"connect", "send", "receive"}
      /\ exception' = "failed"
      /\ UNCHANGED <<frames, sock, introduced, unread, connects, sends>>
  BY DEF Breaks, Runs
<1>2. Top' = Top
  BY <1>1 DEF Top
<1>3. Up' /\ Talk'
  BY <1>1, <1>2 DEF SendInv, Up, Talk, Runs
<1>4. Sends' /\ Connects'
  BY <1>1 DEF SendInv, Sends, Connects, ConnectsOfLoop
<1> QED
  BY <1>1, <1>3, <1>4 DEF SendInv, SendTypeOK

(* A new connection is introduced by CONN before anything else.            *)
LEMMA ConnectedKeepsInv ==
  ASSUME SendInv, Connected
  PROVE  SendInv'
<1>1. /\ frames # <<>> /\ exception = "none" /\ Top.at = "connect"
      /\ sock' = "open" /\ introduced' = FALSE /\ unread' = 0
      /\ UNCHANGED <<exception, sends>> /\ frames' = Callers \o Introduction
  BY DEF Connected, Runs
<1>2. connects' = connects + 1 /\ connects \in Nat /\ Attempts \in Nat \ {0}
  BY AttemptsAssumption DEF Connected, Counted, SendInv, Connects, MostConnects
<1>3. CASE ~Top.do_conn
  <2> DEFINE f == [Top EXCEPT !.at = "send", !.reconnect_phase = FALSE]
  <2>1. frames' = Callers \o <<f>>
    BY <1>1, <1>3 DEF Introduction
  <2>2. /\ f \in Frames /\ f.at = "send" /\ f.command = Top.command /\ f.reconnect = Top.reconnect
        /\ f.do_conn = Top.do_conn /\ f.left = Top.left /\ f.reconnect_phase = FALSE
    BY <1>1, TopFacts, ChangedFrame
  <2> HIDE DEF f
  <2>3. Top.command = "CONN" /\ Top.reconnect_phase /\ Top.reconnect /\ Top.left \in 1 .. Attempts
    BY <1>1, <1>3, TopFacts DEF Sound, Frames
  <2>4. Sound(f)
    BY <2>2, <2>3, <1>3, <1>1, TopFacts DEF Sound
  <2>5. OnTop(f)
    BY <1>1, <2>1, <2>2, <2>4, NewTop
  <2>6. Len(frames) = 2
    BY <1>1, <2>3, TopFacts
  <2>7. Top = frames[2] /\ frames'[1] = frames[1] /\ frames'[2] = f
    BY <1>1, <2>5, <2>6, OuterFrames
  <2>8. frames[1].at = "conn" /\ frames[1].reconnect /\ ~frames[1].reconnect_phase
    BY <1>1, <2>3, <2>6, <2>7, TopFacts DEF Called
  <2>9. connects + 1 <= 1 + Attempts - Top.left
    BY <1>1, <1>2, <2>6, <2>7, <2>8 DEF SendInv, Connects, ConnectsOfLoop, One
  <2>10. Up' /\ Talk'
    BY <1>1, <2>2, <2>3, <2>5 DEF SendInv, Up, Talk, Runs, OnTop
  <2>11. Sends'
    BY <1>1, <2>5, <2>7 DEF SendInv, Sends, OnTop
  <2>12. Connects'
    BY <1>1, <1>2, <2>2, <2>3, <2>5, <2>6, <2>7, <2>8, <2>9
       DEF Connects, ConnectsOfLoop, One, MostConnects, OnTop
  <2> QED
    BY <1>1, <2>5, <2>10, <2>11, <2>12 DEF SendInv, SendTypeOK, OnTop, Stack, Connects
<1>4. CASE Top.do_conn
  <2> DEFINE f == [Top EXCEPT !.at = "conn"]
             g == Frame("CONN", Top.reconnect /\ ~Top.reconnect_phase, FALSE, "send")
  <2>1. frames' = Below(frames) \o <<f, g>>
    BY <1>1, <1>4, TopFacts DEF Introduction
  <2>2. /\ f \in Frames /\ f.at = "conn" /\ f.command = Top.command /\ f.reconnect = Top.reconnect
        /\ f.do_conn = Top.do_conn /\ f.left = Top.left /\ f.reconnect_phase = Top.reconnect_phase
    BY ZenonT(30), <1>1, TopFacts, ChangedFrame
  <2>3. /\ Sound(g) /\ g \in Frames /\ g.command = "CONN" /\ g.at = "send" /\ g.left = Attempts
        /\ ~g.reconnect_phase
        /\ g.reconnect = (Top.reconnect /\ ~Top.reconnect_phase)
    BY NewFrame
  <2> HIDE DEF f, g
  <2>4. Top.command # "CONN" /\ Top.left \in 1 .. Attempts
    BY <1>1, <1>4, TopFacts DEF Sound, Frames
  <2>5. Sound(f)
    BY <2>2, <2>4, <1>4, <1>1, TopFacts DEF Sound
  <2>6. Called(f, g)
    BY <2>2, <2>3 DEF Called
  <2>7. /\ Len(frames') = Len(frames) + 1 /\ frames'[Len(frames)] = f
        /\ frames'[Len(frames) + 1] = g
        /\ \A i \in 1 .. Len(frames) - 1 : frames'[i] = frames[i]
        /\ Stack(frames')
    <3> DEFINE gs == Below(frames) \o <<f, g>>
    <3>1. /\ Stack(frames) /\ f.command = frames[Len(frames)].command
          /\ f.reconnect = frames[Len(frames)].reconnect
      BY <1>1, <2>2, TopFacts DEF SendInv
    <3>2. /\ Len(gs) = Len(frames) + 1 /\ gs[Len(frames)] = f
          /\ gs[Len(frames) + 1] = g
          /\ \A i \in 1 .. Len(frames) - 1 : gs[i] = frames[i]
          /\ Stack(gs)
      BY <1>1, <2>3, <2>5, <2>6, <3>1, PushedStack
    <3> QED
      BY <2>1, <3>2
  <2>8. frames' # <<>> /\ Top' = g /\ Len(frames) \in {1, 2}
    BY <1>1, <2>7, TopFacts DEF Top
  <2>9. Up' /\ Talk'
    BY <1>1, <2>3, <2>8 DEF SendInv, Up, Talk, Runs
  <2>10. CASE Len(frames) = 1
    <3>1. Top = frames[1] /\ frames'[1] = f /\ frames'[2] = g /\ Len(frames') = 2
      BY <1>1, <2>7, <2>10, TopFacts
    <3>2. Sends'
      BY <1>1, <2>2, <2>8, <3>1 DEF SendInv, Sends, One
    <3>3. /\ ~Top.reconnect_phase => connects = 0
          /\ Top.reconnect_phase => connects + 1 <= 3 * Attempts - 1 - Top.left
          /\ Top.reconnect_phase => Top.reconnect
      <4>1. Top.reconnect_phase => Top.reconnect
        BY <1>1, TopFacts DEF Sound
      <4> QED
        BY <1>1, <1>2, <3>1, <4>1 DEF SendInv, Connects, One
    <3>4. connects' <= 3 * Attempts - 2
      BY <1>2, <2>4, <3>3
    <3>5. ConnectsOfLoop(1, Attempts)' \/ Top.reconnect_phase
      BY <1>2, <2>3, <3>1, <3>3 DEF ConnectsOfLoop, One
    <3>6. Connects'
      BY <1>2, <2>2, <2>8, <3>1, <3>3, <3>4, <3>5 DEF Connects, One, MostConnects
    <3> QED
      BY <1>1, <2>7, <2>9, <3>2, <3>6 DEF SendInv, SendTypeOK, Stack, Connects
  <2>11. CASE Len(frames) = 2
    <3>1. /\ Top = frames[2] /\ frames'[1] = frames[1] /\ frames'[2] = f /\ Len(frames') = 3
      BY <1>1, <2>7, <2>11, TopFacts
    <3>2. /\ frames[1].at = "conninfo" /\ frames[1].reconnect /\ ~frames[1].reconnect_phase
      BY <1>1, <2>4, <2>11, <3>1, TopFacts DEF Called, Sound
    <3>3. Sends'
      BY <1>1, <2>8, <3>1 DEF SendInv, Sends
    <3>4. connects + 1 <= Attempts + Attempts - Top.left
      BY <1>1, <1>2, <2>11, <3>1, <3>2 DEF SendInv, Connects, ConnectsOfLoop, One
    <3>5. Connects'
      BY <1>1, <1>2, <2>2, <2>4, <2>8, <3>1, <3>2, <3>4
         DEF Connects, ConnectsOfLoop, One, MostConnects
    <3> QED
      BY <1>1, <2>7, <2>9, <3>3, <3>5 DEF SendInv, SendTypeOK, Stack, Connects
  <2> QED
    BY <2>8, <2>10, <2>11
<1> QED
  BY <1>3, <1>4

(* A frame that has sent its command waits for the answer.                 *)
LEMMA SentKeepsInv ==
  ASSUME SendInv, Sent
  PROVE  SendInv'
<1> DEFINE f == [Top EXCEPT !.at = "receive"]
<1>1. /\ frames # <<>> /\ exception = "none" /\ Top.at = "send" /\ sock = "open"
      /\ frames' = Append(Callers, f) /\ unread' = unread + 1
      /\ UNCHANGED <<exception, sock, introduced, connects>>
  BY DEF Sent, Runs
<1>2. unread = 0 /\ (introduced <=> Top.command # "CONN")
  BY <1>1 DEF SendInv, Talk, Runs
<1>3. /\ f \in Frames /\ f.at = "receive" /\ f.command = Top.command
      /\ f.reconnect = Top.reconnect /\ f.do_conn = Top.do_conn
      /\ f.left = Top.left /\ f.reconnect_phase = Top.reconnect_phase
  BY <1>1, TopFacts, ChangedFrame
<1> HIDE DEF f
<1>4. Sound(f)
  BY <1>1, <1>3, TopFacts DEF Sound
<1>5. OnTop(f)
  BY <1>1, <1>3, <1>4, NewTop
<1>6. Up' /\ Talk'
  BY <1>1, <1>2, <1>3, <1>5 DEF SendInv, Up, Talk, Runs, OnTop
<1>7. Sends'
  <2>1. CASE Len(frames) = 1
    <3>1. Top = frames[1] /\ frames'[1] = f /\ Top.command = "REQUEST"
      BY <1>1, <1>5, <2>1, OuterFrames, TopFacts
    <3>2. Top.left \in 1 .. Attempts /\ Attempts \in Nat
      BY <1>1, TopFacts, AttemptsAssumption DEF Frames
    <3>3. sends \in Nat /\ sends <= Attempts - Top.left
      <4>1. frames[1].at # "receive" /\ One(frames[1].at = "receive") = 0
        BY <1>1, <3>1 DEF One
      <4>2. sends \in Nat /\ sends <= Attempts - frames[1].left + One(frames[1].at = "receive")
        BY <1>1 DEF SendInv, Sends
      <4> QED
        BY <3>1, <3>2, <4>1, <4>2
    <3>4. sends' = sends + 1
      BY <1>1, <3>1, <3>2, <3>3 DEF Sent, Counted
    <3> QED
      BY <1>3, <1>5, <3>1, <3>2, <3>3, <3>4 DEF Sends, One, OnTop
  <2>2. CASE Len(frames) # 1
    <3>1. sends' = sends
      BY <1>1, <2>2, TopFacts DEF Sent
    <3>2. frames'[1] = frames[1]
      BY <1>1, <1>5, <2>2, OuterFrames, TopFacts
    <3> QED
      BY <1>1, <1>5, <3>1, <3>2 DEF SendInv, Sends, OnTop
  <2> QED
    BY <2>1, <2>2
<1>8. Connects'
  BY <1>1, <1>3, <1>5, OuterFrames, TopFacts
     DEF SendInv, Connects, ConnectsOfLoop, One, OnTop
<1> QED
  BY <1>1, <1>2, <1>5, <1>6, <1>7, <1>8 DEF SendInv, SendTypeOK, OnTop, Stack, Sends

(* An error answer is raised, and the connection kept.                     *)
LEMMA AnsweredErrorKeepsInv ==
  ASSUME SendInv, AnsweredError
  PROVE  SendInv'
<1>1. /\ frames # <<>> /\ exception = "none" /\ Top.at = "receive" /\ Top.command = "REQUEST"
      /\ exception' = "error" /\ unread' = unread - 1
      /\ UNCHANGED <<frames, sock, introduced, connects, sends>>
  BY DEF AnsweredError, Runs
<1>2. sock = "open" /\ unread = 1 /\ introduced
  BY <1>1 DEF SendInv, Talk, Runs
<1>3. Len(frames) = 1 /\ Top' = Top
  BY <1>1, TopFacts DEF Top
<1>4. Up' /\ Talk'
  BY <1>1, <1>2, <1>3 DEF Up, Talk, Runs
<1>5. Sends' /\ Connects'
  BY <1>1 DEF SendInv, Sends, Connects, ConnectsOfLoop
<1> QED
  BY <1>1, <1>2, <1>4, <1>5 DEF SendInv, SendTypeOK

(* A failed attempt starts another one when the frame may reconnect and    *)
(* has attempts left.                                                      *)
LEMMA RetryKeepsInv ==
  ASSUME SendInv, Retry
  PROVE  SendInv'
<1> DEFINE f == [Top EXCEPT !.left = Top.left - 1, !.reconnect_phase = TRUE, !.at = "connect",
                            !.tries = Attempts]
<1>1. /\ frames # <<>> /\ exception = "failed" /\ InTry /\ Top.reconnect /\ Top.left > 1
      /\ frames' = Append(Callers, f)
      /\ sock' = "none" /\ introduced' = FALSE /\ unread' = 0 /\ exception' = "none"
      /\ UNCHANGED <<connects, sends>>
  BY DEF Retry, Retries, Reconnecting
<1>2. /\ f \in Frames /\ f.at = "connect" /\ f.command = Top.command
      /\ f.reconnect = Top.reconnect /\ f.do_conn = Top.do_conn
      /\ f.left = Top.left - 1 /\ f.reconnect_phase = TRUE
  BY <1>1, TopFacts, ChangedFrame
<1> HIDE DEF f
<1>3. Top.left \in 1 .. Attempts /\ Attempts \in Nat
  BY <1>1, TopFacts, AttemptsAssumption DEF Frames
<1>4. Sound(f)
  BY <1>1, <1>2, <1>3, TopFacts DEF Sound
<1>5. OnTop(f)
  BY <1>1, <1>2, <1>4, NewTop
<1>6. Up' /\ Talk'
  BY <1>1, <1>2, <1>5 DEF Up, Talk, Runs, OnTop
<1>7. CASE Len(frames) = 1
  <2>1. Top = frames[1] /\ frames'[1] = f /\ Len(frames') = 1 /\ frames' # <<>>
    BY <1>1, <1>5, <1>7, OuterFrames DEF OnTop
  <2>2. sends \in Nat /\ sends <= Attempts - Top.left + 1
    BY <1>1, <1>3, <2>1 DEF SendInv, Sends, One
  <2>3. Sends'
    BY <1>1, <1>2, <1>3, <2>1, <2>2 DEF SendInv, Sends, One
  <2>4. connects \in Nat /\ connects <= 3 * Attempts - 1 - Top.left
    BY <1>1, <1>3, <2>1 DEF SendInv, Connects, One, InTry
  <2>5. Connects'
    <3>1. connects' = connects /\ connects <= MostConnects
      BY <1>1 DEF SendInv, Connects
    <3>2. connects + One(f.at = "connect") <= 3 * Attempts - 1 - f.left
      BY <1>2, <1>3, <2>4 DEF One
    <3>3. f.reconnect /\ f.reconnect_phase /\ f.at = "connect"
      BY <1>1, <1>2
    <3> QED
      BY <2>1, <2>4, <3>1, <3>2, <3>3 DEF Connects, MostConnects
  <2> QED
    BY <1>1, <1>5, <1>6, <2>3, <2>5 DEF SendInv, SendTypeOK, OnTop, Stack
<1>8. CASE Len(frames) = 2
  <2>1. Top = frames[2] /\ frames'[1] = frames[1] /\ frames'[2] = f /\ Len(frames') = 2
        /\ frames' # <<>>
    BY <1>1, <1>5, <1>8, OuterFrames DEF OnTop
  <2>2. /\ frames[1].at \in {"conn", "conninfo"} /\ frames[1].reconnect
        /\ ~frames[1].reconnect_phase
    BY <1>1, <1>8, <2>1, TopFacts DEF Called
  <2>3. Sends'
    BY <1>1, <2>1 DEF SendInv, Sends
  <2>4. Connects'
    BY <1>1, <1>2, <1>3, <1>8, <2>1, <2>2 DEF SendInv, Connects, ConnectsOfLoop, One
  <2> QED
    BY <1>1, <1>5, <1>6, <2>3, <2>4 DEF SendInv, SendTypeOK, OnTop, Stack
<1> QED
  BY <1>1, <1>7, <1>8, TopFacts

(* An exception that is not retried ends the frame.                        *)
LEMMA RaiseKeepsInv ==
  ASSUME SendInv, Raise
  PROVE  SendInv'
<1>1. /\ frames # <<>> /\ exception # "none" /\ exception \in {"failed", "error"}
      /\ frames' = Below(frames) /\ exception' = IF Below(frames) = <<>> THEN "none" ELSE exception
      /\ UNCHANGED <<connects, sends>>
  BY TopFacts DEF Raise, SendInv, SendTypeOK
<1>2. /\ exception = "failed" => sock' \in {"none", "closed"} /\ introduced' = FALSE /\ unread' = 0
      /\ exception = "error" => UNCHANGED <<sock, introduced, unread>>
  <2>1. exception = "failed" /\ sock = "open" => InTry
    BY DEF SendInv, Talk, InTry
  <2>2. sock # "open" => ~introduced /\ unread = 0 /\ introduced = FALSE /\ sock \in {"none", "closed"}
    BY DEF SendInv, Talk, SendTypeOK
  <2> QED
    BY <1>1, <2>1, <2>2 DEF Raise
<1>3. /\ Below(frames) \in Seq(Frames) /\ Len(Below(frames)) = Len(frames) - 1
      /\ \A i \in 1 .. Len(frames) - 1 : Below(frames)[i] = frames[i]
      /\ Stack(Below(frames))
  BY <1>1, BelowStack DEF SendInv
<1>6. SendTypeOK'
  <2>1. frames' \in Seq(Frames) /\ exception' \in {"none", "failed", "error"}
    BY <1>1, <1>3
  <2>2. sock' \in {"none", "open", "closed"} /\ introduced' \in BOOLEAN /\ unread' \in Nat
    <3>1. CASE exception = "failed"
      <4>1. sock' \in {"none", "closed"} /\ introduced' = FALSE /\ unread' = 0
        BY <1>2, <3>1
      <4> QED
        BY <4>1
    <3>2. CASE exception = "error"
      <4>1. sock' = sock /\ introduced' = introduced /\ unread' = unread
        BY <1>2, <3>2
      <4>2. sock \in {"none", "open", "closed"} /\ introduced \in BOOLEAN /\ unread \in Nat
        BY DEF SendInv, SendTypeOK
      <4> QED
        BY <4>1, <4>2
    <3> QED
      BY <1>1, <3>1, <3>2
  <2>3. connects' \in Nat /\ sends' \in Nat
    BY <1>1 DEF SendInv, SendTypeOK
  <2> QED
    BY <2>1, <2>2, <2>3 DEF SendTypeOK
<1>4. CASE Len(frames) = 1
  <2>1. frames' = <<>> /\ exception' = "none"
    BY <1>1, <1>3, <1>4
  <2>2. exception = "error" => sock = "open" /\ unread = 0 /\ introduced
    <3> HAVE exception = "error"
    <3>1. sock = "open" /\ Top.command = "REQUEST"
      BY <1>1, <1>4, TopFacts DEF SendInv, Up
    <3>2. ~Runs("receive")
      BY <1>1 DEF Runs
    <3> QED
      BY <1>1, <3>1, <3>2 DEF SendInv, Talk
  <2>3. Up' /\ Talk'
    BY <1>1, <1>2, <2>1, <2>2 DEF Up, Talk, Runs
  <2>4. Sends' /\ Connects'
    BY <1>1, <2>1 DEF SendInv, Sends, Connects
  <2> QED
    BY <1>1, <1>3, <1>6, <2>3, <2>4 DEF SendInv
<1>5. CASE Len(frames) \in {2, 3}
  <2>1. exception = "failed"
    BY <1>1, <1>5 DEF SendInv, Up
  <2>2. frames' # <<>> /\ Len(frames') = Len(frames) - 1 /\ exception' = "failed"
    BY <1>1, <1>3, <1>5, <2>1
  <2>3. /\ Top'.at \in {"conn", "conninfo"} /\ frames'[1] = frames[1]
        /\ Len(frames) = 3 => frames'[2] = frames[2]
    <3>1. CASE Len(frames) = 2
      <4>1. frames'[1] = frames[1] /\ Top' = frames[1]
        BY <1>1, <1>3, <2>2, <3>1 DEF Top
      <4> QED
        BY <1>1, <3>1, <4>1, TopFacts DEF Called
    <3>2. CASE Len(frames) = 3
      <4>1. frames'[1] = frames[1] /\ frames'[2] = frames[2] /\ Top' = frames[2]
        BY <1>1, <1>3, <2>2, <3>2 DEF Top
      <4> QED
        BY <1>1, <3>2, <4>1, TopFacts DEF Called
    <3> QED
      BY <1>5, <3>1, <3>2
  <2>4. Up' /\ Talk'
    BY <1>2, <2>1, <2>2, <2>3 DEF Up, Talk, Runs
  <2>5. Sends'
    BY <1>1, <2>2, <2>3 DEF SendInv, Sends
  <2>6. Connects'
    <3>1. CASE Len(frames) = 2
      <4>1. frames[2].left \in 1 .. Attempts /\ Attempts \in Nat /\ connects \in Nat
        BY <1>1, <3>1, TopFacts, AttemptsAssumption DEF Frames, SendInv, Connects
      <4> QED
        BY <1>1, <2>2, <2>3, <3>1, <4>1 DEF SendInv, Connects, ConnectsOfLoop, One
    <3>2. CASE Len(frames) = 3
      BY <1>1, <2>2, <2>3, <3>2 DEF SendInv, Connects, ConnectsOfLoop
    <3> QED
      BY <1>5, <3>1, <3>2
  <2> QED
    BY <1>1, <1>3, <1>6, <2>4, <2>5, <2>6 DEF SendInv
<1> QED
  BY <1>1, <1>4, <1>5, TopFacts

(* An answered command returns to its caller, or ends the call.            *)
LEMMA AnsweredKeepsInv ==
  ASSUME SendInv, Answered
  PROVE  SendInv'
<1>1. /\ frames # <<>> /\ exception = "none" /\ Top.at = "receive"
      /\ frames' = Resumed /\ unread' = unread - 1 /\ introduced' = TRUE
      /\ UNCHANGED <<exception, sock, connects, sends>>
  BY DEF Answered, Runs
<1>2. sock = "open" /\ unread' = 0
  BY <1>1 DEF SendInv, Talk, Runs
<1>3. /\ Callers \in Seq(Frames) /\ Len(Callers) = Len(frames) - 1
      /\ \A i \in 1 .. Len(frames) - 1 : Callers[i] = frames[i]
      /\ Stack(Callers)
  BY <1>1, TopFacts, BelowStack DEF SendInv
<1>4. CASE Top.command = "REQUEST"
  <2>1. frames' = <<>>
    BY <1>1, <1>4 DEF Resumed
  <2>2. Stack(frames')
    <3>1. Len(frames) = 1
      BY <1>1, <1>4, TopFacts
    <3>2. Callers = <<>>
      BY <1>3, <3>1
    <3> QED
      BY <1>3, <2>1, <3>2
  <2>3. Up' /\ Talk'
    BY <1>1, <1>2, <2>1 DEF Up, Talk, Runs
  <2>4. Sends' /\ Connects'
    BY <1>1, <2>1 DEF SendInv, Sends, Connects
  <2>5. SendTypeOK'
    BY <1>1, <1>2, <2>2 DEF SendInv, SendTypeOK, Stack
  <2> QED
    BY <2>2, <2>3, <2>4, <2>5 DEF SendInv
<1>5. CASE Top.command # "REQUEST"
  <2> DEFINE c == Callers[Len(Callers)]
             m == Len(Callers)
  <2>1. /\ Len(frames) \in {2, 3} /\ Callers # <<>> /\ m = Len(frames) - 1 /\ c = frames[m]
        /\ Called(c, Top) /\ Sound(c) /\ c \in Frames
    <3>1. Len(frames) \in {2, 3}
      BY <1>1, <1>5, TopFacts
    <3>2. Callers # <<>> /\ m = Len(frames) - 1 /\ m \in 1 .. Len(frames) - 1
      BY <1>3, <3>1
    <3>3. c = frames[m]
      BY <1>3, <3>2
    <3>4. Called(frames[m], frames[m + 1]) /\ Sound(frames[m])
      BY <3>1, <3>2 DEF SendInv, Stack
    <3>5. Top = frames[m + 1]
      BY <3>1, <3>2 DEF Top
    <3> QED
      BY <3>1, <3>2, <3>3, <3>4, <3>5 DEF Sound
  <2>2. c.left \in 1 .. Attempts /\ Attempts \in Nat /\ Top.left \in 1 .. Attempts
    BY <1>1, <2>1, TopFacts, AttemptsAssumption DEF Frames
  <2>3. CASE Top.command = "CONN"
    <3> DEFINE f == [c EXCEPT !.at = "conninfo"]
               g == Frame("CONNINFO", Top.reconnect, TRUE, "send")
    <3>1. frames' = Below(Callers) \o <<f, g>>
      BY <1>1, <2>3 DEF Resumed, Below
    <3>2. /\ f \in Frames /\ f.at = "conninfo" /\ f.command = c.command
          /\ f.reconnect = c.reconnect /\ f.do_conn = c.do_conn
          /\ f.left = c.left /\ f.reconnect_phase = c.reconnect_phase
      BY <2>1, ChangedFrame
    <3>3. Top.reconnect \in BOOLEAN
      BY <1>1, TopFacts DEF Frames
    <3>4. /\ Sound(g) /\ g \in Frames /\ g.command = "CONNINFO" /\ g.at = "send"
          /\ g.left = Attempts /\ ~g.reconnect_phase /\ g.reconnect = Top.reconnect
      BY ZenonT(30), <3>3, NewFrame
    <3> HIDE DEF f, g
    <3>5. c.at = "conn" /\ c.command # "CONN"
      BY <2>1, <2>3 DEF Called, Sound
    <3>6. Sound(f) /\ Called(f, g)
      BY <2>1, <3>2, <3>4, <3>5 DEF Called, Sound
    <3>7. /\ Len(frames') = m + 1 /\ frames'[m] = f /\ frames'[m + 1] = g
          /\ \A i \in 1 .. m - 1 : frames'[i] = Callers[i]
          /\ Stack(frames')
      <4> DEFINE gs == Below(Callers) \o <<f, g>>
      <4>1. f.command = Callers[Len(Callers)].command /\ f.reconnect = Callers[Len(Callers)].reconnect
        BY <3>2
      <4>2. /\ Len(gs) = Len(Callers) + 1 /\ gs[Len(Callers)] = f
            /\ gs[Len(Callers) + 1] = g
            /\ \A i \in 1 .. Len(Callers) - 1 : gs[i] = Callers[i]
            /\ Stack(gs)
        BY SMTT(30), <1>3, <2>1, <3>4, <3>6, <4>1, PushedStack
      <4> QED
        BY <3>1, <4>2
    <3>8. /\ frames' # <<>> /\ Top' = g /\ Len(frames') = Len(frames)
      BY <2>1, <3>7 DEF Top
    <3>9. Up' /\ Talk'
      BY <1>1, <1>2, <3>4, <3>8 DEF Up, Talk, Runs
    <3>10. CASE Len(frames) = 2
      <4>1. /\ c = frames[1] /\ frames'[1] = f /\ frames'[2] = g /\ Top = frames[2]
        BY <2>1, <3>7, <3>10 DEF Top
      <4>2. Sends'
        BY <1>1, <3>2, <3>5, <3>8, <4>1 DEF SendInv, Sends, One
      <4>3. /\ ~c.reconnect_phase => connects <= 1 + Attempts - Top.left
            /\ c.reconnect_phase => connects <= 3 * Attempts - 1 - c.left
            /\ ~c.reconnect => connects <= 1
            /\ connects \in Nat /\ connects <= MostConnects
        BY <1>1, <2>2, <3>5, <3>10, <4>1 DEF SendInv, Connects, ConnectsOfLoop, One
      <4>4. Connects'
        BY <1>1, <2>2, <3>2, <3>4, <3>8, <3>10, <4>1, <4>3 DEF Connects, ConnectsOfLoop, One
      <4> QED
        BY <1>1, <1>2, <3>7, <3>9, <4>2, <4>4 DEF SendInv, SendTypeOK, Stack
    <3>11. CASE Len(frames) = 3
      <4>1. /\ c = frames[2] /\ frames'[1] = frames[1] /\ frames'[2] = f
        <5>1. m = 2 /\ 1 \in 1 .. m - 1 /\ 1 \in 1 .. Len(frames) - 1
          BY <2>1, <3>11
        <5> QED
          BY <1>3, <2>1, <3>7, <5>1
      <4>2. Sends'
        BY <1>1, <3>8, <4>1 DEF SendInv, Sends
      <4>3. Connects'
        BY <1>1, <2>2, <3>2, <3>5, <3>8, <3>11, <4>1 DEF SendInv, Connects, ConnectsOfLoop, One
      <4> QED
        BY <1>1, <1>2, <3>7, <3>9, <4>2, <4>3 DEF SendInv, SendTypeOK, Stack
    <3> QED
      BY <2>1, <3>10, <3>11
  <2>4. CASE Top.command = "CONNINFO"
    <3> DEFINE f == [c EXCEPT !.at = "send", !.reconnect_phase = FALSE]
    <3>1. frames' = Below(Callers) \o <<f>>
      BY <1>1, <2>4 DEF Resumed, Below
    <3>2. /\ f \in Frames /\ f.at = "send" /\ f.command = c.command
          /\ f.reconnect = c.reconnect /\ f.do_conn = c.do_conn
          /\ f.left = c.left /\ f.reconnect_phase = FALSE
      BY <2>1, ChangedFrame
    <3> HIDE DEF f
    <3>3. c.at = "conninfo" /\ c.command # "CONN"
      BY <2>1, <2>4 DEF Called, Sound
    <3>4. Sound(f)
      BY <2>1, <3>2, <3>3 DEF Sound
    <3>5. /\ Len(frames') = m /\ frames'[m] = f
          /\ \A i \in 1 .. m - 1 : frames'[i] = Callers[i]
          /\ Stack(frames')
      <4> DEFINE gs == frames'
      <4>1. f.command = Callers[Len(Callers)].command /\ f.reconnect = Callers[Len(Callers)].reconnect
        BY <3>2
      <4>2. gs = Append(Below(Callers), f) \/ gs = Below(Callers) \o <<f>>
        BY <3>1
      <4> HIDE DEF gs
      <4>3. /\ Len(gs) = Len(Callers) /\ gs[Len(Callers)] = f
            /\ \A i \in 1 .. Len(Callers) - 1 : gs[i] = Callers[i]
            /\ Stack(gs)
        BY <1>3, <2>1, <3>4, <4>1, <4>2, ReplacedStack
      <4> QED
        BY <4>3 DEF gs
    <3>6. frames' # <<>> /\ Top' = f /\ Len(frames') = Len(frames) - 1
      BY <2>1, <3>5 DEF Top
    <3>7. Up' /\ Talk'
      BY <1>1, <1>2, <3>2, <3>3, <3>6 DEF Up, Talk, Runs
    <3>8. CASE Len(frames) = 2
      <4>1. c = frames[1] /\ frames'[1] = f /\ Top = frames[2]
        BY <2>1, <3>5, <3>8 DEF Top
      <4>2. Sends'
        BY <1>1, <3>2, <3>3, <3>6, <4>1 DEF SendInv, Sends, One
      <4>3. /\ ~c.reconnect_phase => connects <= 2 * Attempts - Top.left
            /\ c.reconnect_phase => connects <= 3 * Attempts - 1 - c.left
            /\ ~c.reconnect => connects <= 1
            /\ connects \in Nat /\ connects <= MostConnects
        BY <1>1, <2>2, <3>3, <3>8, <4>1 DEF SendInv, Connects, ConnectsOfLoop, One
      <4>4. Connects'
        BY SMTT(30), <1>1, <2>2, <3>2, <3>6, <4>1, <4>3 DEF Connects, One
      <4> QED
        BY <1>1, <1>2, <3>5, <3>7, <4>2, <4>4 DEF SendInv, SendTypeOK, Stack
    <3>9. CASE Len(frames) = 3
      <4>1. c = frames[2] /\ frames'[1] = frames[1] /\ frames'[2] = f
        <5>1. m = 2 /\ 1 \in 1 .. m - 1 /\ 1 \in 1 .. Len(frames) - 1
          BY <2>1, <3>9
        <5> QED
          BY <1>3, <2>1, <3>5, <5>1
      <4>2. Sends'
        BY <1>1, <3>6, <4>1 DEF SendInv, Sends
      <4>3. Connects'
        BY <1>1, <2>2, <3>2, <3>3, <3>6, <3>9, <4>1 DEF SendInv, Connects, ConnectsOfLoop, One
      <4> QED
        BY <1>1, <1>2, <3>5, <3>7, <4>2, <4>3 DEF SendInv, SendTypeOK, Stack
    <3> QED
      BY <2>1, <3>8, <3>9
  <2> QED
    BY <2>1, <2>3, <2>4 DEF Called
<1> QED
  BY <1>4, <1>5

-----------------------------------------------------------------------------
(* The theorems.                                                           *)

(* So the invariant of the stack holds always.                             *)
LEMMA SendInvHolds == SendSpec => []SendInv
<1>1. SendInit => SendInv
  <2> SUFFICES ASSUME SendInit PROVE SendInv
    OBVIOUS
  <2>1. frames = <<>> /\ exception = "none" /\ sock = "none" /\ introduced = FALSE
        /\ unread = 0 /\ connects = 0 /\ sends = 0
    BY DEF SendInit
  <2>2. Len(<<>>) = 0 /\ <<>> \in Seq(Frames)
    OBVIOUS
  <2>3. SendTypeOK
    BY <2>1, <2>2 DEF SendTypeOK
  <2>4. Stack(frames)
    BY <2>1, <2>2 DEF Stack
  <2>5. Up /\ Talk
    BY <2>1 DEF Up, Talk, Runs
  <2>6. Sends /\ Connects
    BY <2>1, AttemptsAssumption DEF Sends, Connects, MostConnects
  <2> QED
    BY <2>3, <2>4, <2>5, <2>6 DEF SendInv
<1>2. SendInv /\ [SendNext]_sendVars => SendInv'
  <2> SUFFICES ASSUME SendInv, [SendNext]_sendVars PROVE SendInv'
    OBVIOUS
  <2>1. CASE UNCHANGED sendVars
    BY <2>1 DEF sendVars, SendInv, SendTypeOK, Stack, Up, Talk, Top, Runs, Sends, Connects,
                ConnectsOfLoop
  <2>2. CASE SendNext
    BY <2>2, BeginKeepsInv, ConnectedKeepsInv, RefusedKeepsInv, SentKeepsInv, BreaksKeepsInv,
       AnsweredKeepsInv, AnsweredErrorKeepsInv, RetryKeepsInv, RaiseKeepsInv
       DEF SendNext, Progress
  <2> QED
    BY <2>1, <2>2
<1> QED
  BY <1>1, <1>2, PTL DEF SendSpec

(* The stack, the exception on it and the socket stay within their types,  *)
(* for any number of attempts.                                             *)
THEOREM SendTypeCorrect == SendSpec => []SendTypeOK
<1>1. SendInv => SendTypeOK
  BY DEF SendInv
<1> QED
  BY <1>1, SendInvHolds, PTL

(* No command reads the answer of an earlier one (client.py:288: after an  *)
(* error "protocol state is unknown and disable connection reuse").        *)
THEOREM AnswersAreFresh == SendSpec => []NoStaleAnswer
<1>1. SendInv => NoStaleAnswer
  BY DEF SendInv, Talk, NoStaleAnswer
<1> QED
  BY <1>1, SendInvHolds, PTL

(* Every connection says CONN exactly once, and first, also when it was    *)
(* made by a retry in the middle of an introduction.                       *)
THEOREM ConnOnce == SendSpec => []ConnComesFirstAndOnce
<1>1. SendInv => ConnComesFirstAndOnce
  BY DEF SendInv, Talk, ConnComesFirstAndOnce, Runs
<1> QED
  BY <1>1, SendInvHolds, PTL

(* A call with n attempts sends its request at most n times and connects at*)
(* most 3n - 2 times, whatever fails.                                      *)
THEOREM RetriesAreBounded == SendSpec => []RetriesDoNotMultiply
<1>1. SendInv => RetriesDoNotMultiply
  <2> SUFFICES ASSUME SendInv PROVE RetriesDoNotMultiply
    OBVIOUS
  <2>1. sends <= Attempts /\ connects <= MostConnects
    BY DEF SendInv, Sends, Connects
  <2>2. Len(frames) <= 3
    BY AtMostThree DEF SendInv
  <2>3. frames # <<>> /\ ~frames[1].reconnect => sends <= 1 /\ connects <= 1
    <3> SUFFICES ASSUME frames # <<>>, ~frames[1].reconnect
                 PROVE  sends <= 1 /\ connects <= 1
      OBVIOUS
    <3>1. frames[1].left = Attempts
      BY TopFacts DEF Sound
    <3>2. sends <= Attempts - Attempts + 1 /\ sends \in Nat
      BY <3>1, AttemptsAssumption DEF SendInv, Sends, One
    <3> QED
      BY <3>2, AttemptsAssumption DEF SendInv, Connects
  <2> QED
    BY <2>1, <2>2, <2>3 DEF RetriesDoNotMultiply
<1> QED
  BY <1>1, SendInvHolds, PTL

-----------------------------------------------------------------------------
(* The steps are steps of ClientCall.                                      *)

Doing ==
  IF frames = <<>> THEN "idle"
  ELSE IF ~Usable THEN "connecting"
  ELSE IF Len(frames) > 1 THEN "introducing" ELSE "waiting"

(* The outermost frame, and only it, is the request.                       *)
LEMMA Depths ==
  ASSUME NEW fs, Stack(fs), fs # <<>>
  PROVE  /\ \A f : Append(Below(fs), f) # <<>> /\ Len(Append(Below(fs), f)) = Len(fs)
         /\ (Len(fs) = 1) <=> (fs[Len(fs)].command = "REQUEST")
<1>1. /\ Len(fs) \in Nat \ {0} /\ Below(fs) \in Seq(Frames) /\ Len(Below(fs)) = Len(fs) - 1
  BY BelowStack
<1>2. ASSUME NEW f
      PROVE  Append(Below(fs), f) # <<>> /\ Len(Append(Below(fs), f)) = Len(fs)
  <2> DEFINE S == Frames \cup {f}
             b == Below(fs)
  <2>1. b \in Seq(S) /\ f \in S
    BY <1>1, SeqMonotonic
  <2> HIDE DEF S, b
  <2>2. Append(b, f) # <<>> /\ Len(Append(b, f)) = Len(b) + 1
    BY <2>1, AppendProperties
  <2> QED
    BY <1>1, <2>2 DEF b
<1>3. fs[1].command = "REQUEST"
  BY DEF Stack
<1>4. Len(fs) > 1 => fs[Len(fs)].command # "REQUEST"
  <2> HAVE Len(fs) > 1
  <2> DEFINE i == Len(fs) - 1
  <2>1. i \in 1 .. Len(fs) - 1 /\ i + 1 = Len(fs)
    BY <1>1
  <2>2. Called(fs[i], fs[i + 1])
    BY <2>1 DEF Stack
  <2> QED
    BY <2>1, <2>2 DEF Called
<1> QED
  BY <1>1, <1>2, <1>3, <1>4

(* What is left of the stack when a command is answered.                   *)
LEMMA AnsweredDepths ==
  ASSUME SendInv, Answered
  PROVE  /\ Top.command = "REQUEST" => Len(frames) = 1 /\ frames' = <<>>
         /\ Top.command = "CONN" => Len(frames) > 1 /\ Len(frames') = Len(frames)
         /\ Top.command = "CONNINFO" => Len(frames) > 1 /\ Len(frames') = Len(frames) - 1
         /\ Top.command \in Commands
<1>1. frames # <<>> /\ frames' = Resumed
  BY DEF Answered, Runs
<1>2. /\ Top.command \in Commands
      /\ (Len(frames) = 1) <=> (Top.command = "REQUEST")
  BY <1>1, TopFacts DEF Frames
<1>3. /\ Len(frames) \in {1, 2, 3} /\ Callers = Below(frames) /\ Stack(Callers)
      /\ Len(Callers) = Len(frames) - 1
  BY <1>1, TopFacts, BelowStack DEF SendInv
<1>4. Top.command = "REQUEST" => Len(frames) = 1 /\ frames' = <<>>
  BY <1>1, <1>2 DEF Resumed
<1>5. ASSUME Top.command # "REQUEST"
      PROVE  Len(frames) > 1 /\ Below(Callers) \in Seq(Frames)
             /\ Len(Below(Callers)) = Len(frames) - 2 /\ Len(frames) \in Nat
  <2>1. Len(frames) > 1 /\ Len(Callers) = Len(frames) - 1 /\ Len(frames) \in Nat
    BY <1>2, <1>3, <1>5
  <2>2. Callers # <<>>
    BY <2>1
  <2> QED
    BY <1>3, <2>1, <2>2, BelowStack
<1>6. Top.command = "CONN" => Len(frames) > 1 /\ Len(frames') = Len(frames)
  <2> HAVE Top.command = "CONN"
  <2> DEFINE f == [Callers[Len(Callers)] EXCEPT !.at = "conninfo"]
             g == Frame("CONNINFO", Top.reconnect, TRUE, "send")
             b == Below(Callers)
  <2>1. frames' = b \o <<f, g>>
    BY <1>1 DEF Resumed, Below
  <2>2. b \in Seq(Frames) /\ Len(b) = Len(frames) - 2
    BY <1>5
  <2> HIDE DEF f, g, b
  <2>3. Len(b \o <<f, g>>) = Len(b) + 2
    BY <2>2
  <2> QED
    BY <1>5, <2>1, <2>2, <2>3
<1>7. Top.command = "CONNINFO" => Len(frames) > 1 /\ Len(frames') = Len(frames) - 1
  <2> HAVE Top.command = "CONNINFO"
  <2> DEFINE f == [Callers[Len(Callers)] EXCEPT !.at = "send", !.reconnect_phase = FALSE]
             b == Below(Callers)
  <2>1. frames' = b \o <<f>>
    BY <1>1 DEF Resumed, Below
  <2>2. b \in Seq(Frames) /\ Len(b) = Len(frames) - 2
    BY <1>5
  <2> HIDE DEF f, b
  <2>3. Len(b \o <<f>>) = Len(b) + 1
    BY <2>2
  <2> QED
    BY <1>5, <2>1, <2>2, <2>3
<1> QED
  BY <1>2, <1>4, <1>6, <1>7

(* What a call does and whether it has a connection change as LiveLock-    *)
(* Client takes for granted.                                               *)
THEOREM CallsAreCalls == SendSpec => ImplementsCall
<1>1. SendInit => Call!CallInit
  BY DEF SendInit, Call!CallInit, Usable
<1>2. SendInv /\ SendInv' /\ [SendNext]_sendVars => [Call!CallNext]_(Call!callVars)
  <2> SUFFICES ASSUME SendInv, SendInv', [SendNext]_sendVars
               PROVE  [Call!CallNext]_(Call!callVars)
    OBVIOUS
  <2> DEFINE Same == Doing' = Doing /\ Usable' = Usable
  <2>a. Same => UNCHANGED Call!callVars
    BY DEF Call!callVars, Doing
  <2>b. /\ Doing = "idle" /\ Doing' = (IF Usable THEN "waiting" ELSE "connecting")
        /\ Usable' = Usable
        => Call!Begin
    BY DEF Call!Begin, Doing
  <2>c. Doing = "connecting" /\ Doing' = "introducing" /\ Usable' = TRUE => Call!Connect
    BY DEF Call!Connect, Doing
  <2>d. Doing = "introducing" /\ Doing' = "waiting" /\ Usable' = Usable => Call!Introduced
    BY DEF Call!Introduced, Doing
  <2>e. Doing = "waiting" /\ Doing' = "idle" /\ Usable' = Usable => Call!Return
    BY DEF Call!Return, Doing
  <2>f. Doing # "idle" /\ Doing' \in {"connecting", "idle"} /\ Usable' = FALSE => Call!Fail
    BY DEF Call!Fail, Doing
  <2> HIDE DEF Same
  <2>1. CASE UNCHANGED sendVars
    BY <2>1, <2>a DEF Same, sendVars, Doing, Usable
  <2>2. CASE \E reconnect \in BOOLEAN : Begin(reconnect)
    <3>1. frames = <<>> /\ frames' # <<>> /\ Len(frames') = 1 /\ UNCHANGED <<exception, sock>>
      BY <2>2 DEF Begin
    <3> QED
      BY <3>1, <2>b DEF Doing, Usable, Call!CallNext
  <2>3. CASE Connected
    <3>1. /\ frames # <<>> /\ exception = "none" /\ Top.at = "connect"
          /\ sock' = "open" /\ introduced' = FALSE /\ exception' = "none"
      BY <2>3 DEF Connected, Runs
    <3>2. sock = "none"
      BY <3>1 DEF SendInv, Talk
    <3>3. frames' # <<>> /\ Top'.command = "CONN"
      BY <3>1 DEF SendInv, Talk
    <3>4. Len(frames') # 1 /\ Len(frames') \in Nat \ {0}
      BY <3>3, Depths, BelowStack DEF SendInv, Top
    <3> QED
      <4>1. Doing = "connecting"
        BY <3>1, <3>2 DEF Doing, Usable
      <4>2. Usable' = TRUE
        BY <3>1 DEF Usable
      <4>3. Len(frames') > 1
        BY <3>4
      <4>4. Doing' = "introducing"
        BY <3>3, <4>2, <4>3 DEF Doing
      <4> QED
        BY <4>1, <4>2, <4>4, <2>c DEF Call!CallNext
  <2>4. CASE Refused
    <3>1. frames # <<>> /\ Top.at = "connect" /\ sock' = sock
      BY <2>4 DEF Refused, Runs
    <3>2. sock = "none"
      BY <3>1 DEF SendInv, Talk
    <3>3. frames' # <<>>
      BY <2>4, <3>1, Depths, TopFacts DEF Refused, SendInv
    <3> QED
      BY <3>1, <3>2, <3>3, <2>a DEF Same, Doing, Usable
  <2>5. CASE Sent
    <3>1. frames # <<>> /\ sock = "open" /\ UNCHANGED <<exception, sock>>
      BY <2>5 DEF Sent, Runs
    <3>2. frames' # <<>> /\ Len(frames') = Len(frames)
      BY <2>5, <3>1, Depths, TopFacts DEF Sent, SendInv
    <3> QED
      BY <3>1, <3>2, <2>a DEF Same, Doing, Usable
  <2>6. CASE Breaks
    <3>1. frames # <<>> /\ exception' = "failed" /\ UNCHANGED <<frames, sock>>
      BY <2>6 DEF Breaks, Runs
    <3> QED
      BY <3>1, <2>f DEF Doing, Usable, Call!CallNext
  <2>7. CASE Answered
    <3>1. /\ frames # <<>> /\ exception = "none" /\ UNCHANGED <<exception, sock>>
          /\ Runs("receive")
      BY <2>7 DEF Answered, Runs
    <3>2. sock = "open" /\ Len(frames) \in {1, 2, 3}
      BY <3>1, TopFacts DEF SendInv, Talk
    <3>3. CASE Top.command = "REQUEST"
      <4>1. Len(frames) = 1 /\ frames' = <<>>
        BY <2>7, <3>3, AnsweredDepths
      <4>2. Doing = "waiting" /\ Doing' = "idle" /\ Usable' = Usable
        BY <3>1, <3>2, <4>1 DEF Doing, Usable
      <4> QED
        BY <4>2, <2>e DEF Call!CallNext
    <3>4. CASE Top.command = "CONN"
      <4>1. Len(frames) > 1 /\ Len(frames') = Len(frames) /\ frames' # <<>>
        BY <2>7, <3>2, <3>4, AnsweredDepths
      <4> QED
        BY <3>1, <3>2, <4>1, <2>a DEF Same, Doing, Usable
    <3>5. CASE Top.command = "CONNINFO"
      <4>1. Len(frames) > 1 /\ Len(frames') = Len(frames) - 1 /\ frames' # <<>>
        BY <2>7, <3>2, <3>5, AnsweredDepths
      <4>2. CASE Len(frames) = 2
        BY <3>1, <3>2, <4>1, <4>2, <2>d DEF Doing, Usable, Call!CallNext
      <4>3. CASE Len(frames) = 3
        BY <3>1, <3>2, <4>1, <4>3, <2>a DEF Same, Doing, Usable
      <4> QED
        BY <3>2, <4>1, <4>2, <4>3
    <3> QED
      BY <2>7, <3>3, <3>4, <3>5, AnsweredDepths DEF Commands
  <2>8. CASE AnsweredError
    <3>1. /\ frames # <<>> /\ exception = "none" /\ exception' = "error"
          /\ UNCHANGED <<frames, sock>>
      BY <2>8 DEF AnsweredError, Runs
    <3> QED
      BY <3>1, <2>a DEF Same, Doing, Usable
  <2>9. CASE Retry
    <3>1. frames # <<>> /\ exception = "failed" /\ sock' = "none"
      BY <2>9 DEF Retry, Retries
    <3>2. frames' # <<>>
      BY <2>9, <3>1, Depths, TopFacts DEF Retry, Reconnecting, SendInv
    <3> QED
      BY <3>1, <3>2, <2>a DEF Same, Doing, Usable
  <2>10. CASE Raise
    <3>1. frames # <<>> /\ exception \in {"failed", "error"}
      BY <2>10 DEF Raise, SendInv, SendTypeOK
    <3>2. CASE exception = "failed"
      <4>1. sock = "open" => InTry
        BY <3>2 DEF SendInv, Talk, InTry
      <4>2. sock' # "open"
        BY <2>10, <3>2, <4>1 DEF Raise
      <4> QED
        BY <3>1, <3>2, <4>2, <2>f DEF Doing, Usable, Call!CallNext
    <3>3. CASE exception = "error"
      <4>1. Len(frames) = 1 /\ sock = "open" /\ UNCHANGED sock
        BY <2>10, <3>3 DEF Raise, SendInv, Up
      <4>2. Callers = <<>>
        <5>1. Callers = Below(frames) /\ Stack(frames)
          BY <3>1, TopFacts DEF SendInv
        <5>2. Below(frames) \in Seq(Frames) /\ Len(Below(frames)) = Len(frames) - 1
          BY <3>1, <5>1, BelowStack
        <5>3. Len(Below(frames)) = 0
          BY <4>1, <5>2
        <5> QED
          BY <5>1, <5>2, <5>3
      <4>3. frames' = <<>> /\ exception' = "none"
        BY <2>10, <4>2 DEF Raise
      <4> QED
        BY <3>1, <3>3, <4>1, <4>3, <2>e DEF Doing, Usable, Call!CallNext
    <3> QED
      BY <3>1, <3>2, <3>3
  <2> QED
    BY <2>1, <2>2, <2>3, <2>4, <2>5, <2>6, <2>7, <2>8, <2>9, <2>10 DEF SendNext, Progress
<1> QED
  BY <1>1, <1>2, SendInvHolds, PTL DEF SendSpec, ImplementsCall, Call!CallSpec
=============================================================================
