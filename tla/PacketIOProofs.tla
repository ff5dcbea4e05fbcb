--------------------------- MODULE PacketIOProofs ---------------------------
(***************************************************************************)
(* Both directions of the connection.  What two threads that send and log  *)
(* without a lock still get right, for any frames, any number of parts and *)
(* any interleaving; and that commands come out of the stream whole,       *)
(* whatever their lengths and however recv cuts them up.                   *)
(***************************************************************************)
EXTENDS PacketIO, CommandReader, SequenceTheorems, TLAPS

-----------------------------------------------------------------------------
(* The inductive invariant.                                                *)

Part == [frame : Frames, part : 1..Parts]

LogItem == {Record(w, f) : w \in {"header", "data"}, f \in Frames}

\* A thread in a call: the frame is the thread's own, and only a write may
\* have sent some of its parts already.
Busy(t) ==
    {c \in [pc : {"log", "logdata", "check", "write"}, frame : Frames,
            left : 1..Parts] :
        c.frame.by = t /\ (c.pc # "write" => c.left = Parts)}

PacketIOTypeOK ==
    /\ DOMAIN call = Thread
    /\ \A t \in Thread : call[t] \in {Idle} \cup Busy(t)
    /\ stream \in Seq(Part)
    /\ logfile \in Seq(LogItem)

\* Element i is the last that thread t added to seq.
LastOf(seq, t, i) ==
    /\ seq[i].frame.by = t
    /\ \A k \in DOMAIN seq : k > i => seq[k].frame.by # t

\* Between two messages the last part a thread has in the stream ends one or
\* belongs to one that was refused; within a message it is the part before
\* those that are left.
StreamInStep(t) ==
    IF call[t].pc = "write" /\ call[t].left < Parts
    THEN \E i \in DOMAIN stream :
            /\ LastOf(stream, t, i)
            /\ stream[i] = [frame |-> call[t].frame, part |-> Parts - call[t].left]
    ELSE \A i \in DOMAIN stream :
            LastOf(stream, t, i) => stream[i].part = Parts \/ stream[i].frame \in Refused

\* A frame has its result only once the call for it has returned.
FreshInCall ==
    \A t \in Thread : call[t].pc # "idle" => call[t].frame \notin DOMAIN result

\* What is in the stream is of a frame that has its result, or of one that is
\* being written and that has these parts behind it.
PartsAccounted ==
    \A i \in DOMAIN stream :
        \/ stream[i].frame \in DOMAIN result
        \/ \E t \in Thread :
              /\ call[t].pc = "write"
              /\ call[t].frame = stream[i].frame
              /\ stream[i].part <= Parts - call[t].left

\* The last item a thread has in the log is the header of the frame whose
\* data comes next, or it is the data of a frame.
LogInStep(t) ==
    IF call[t].pc = "logdata"
    THEN \E i \in DOMAIN logfile :
            LastOf(logfile, t, i) /\ logfile[i] = Record("header", call[t].frame)
    ELSE \A i \in DOMAIN logfile : LastOf(logfile, t, i) => logfile[i].what = "data"

Logged(log, f) == \E i \in DOMAIN log : log[i] = Record("data", f)

\* With the log open a frame is past the log only once it is in it.
LoggedBeforeUse ==
    logstate = "open" =>
        /\ \A t \in Thread : call[t].pc \in {"check", "write"} => Logged(logfile, call[t].frame)
        /\ \A f \in DOMAIN result : f.len >= EthernetHeader => Logged(logfile, f)
        /\ \A i \in DOMAIN stream : Logged(logfile, stream[i].frame)

-----------------------------------------------------------------------------
(* A sequence that one thread has added to.                                *)

Extends(s, longer) ==
    Len(s) <= Len(longer) /\ \A i \in 1..Len(s) : longer[i] = s[i]

\* What the threads other than t added last is still what they added last.
LEMMA OthersLast ==
    ASSUME NEW X, NEW s \in Seq(X), NEW longer \in Seq(X), Extends(s, longer),
           NEW t, NEW u, u # t,
           \A i \in (Len(s) + 1)..Len(longer) : longer[i].frame.by = t
    PROVE  \A i : i \in DOMAIN longer /\ LastOf(longer, u, i)
                    <=> i \in DOMAIN s /\ LastOf(s, u, i)
<1>0. /\ DOMAIN s = 1..Len(s) /\ Len(s) \in Nat
      /\ DOMAIN longer = 1..Len(longer) /\ Len(longer) \in Nat
  OBVIOUS
<1>1. ASSUME NEW i \in DOMAIN longer, LastOf(longer, u, i)
      PROVE  i \in DOMAIN s /\ LastOf(s, u, i)
  BY <1>0, <1>1 DEF LastOf, Extends
<1>2. ASSUME NEW i \in DOMAIN s, LastOf(s, u, i)
      PROVE  i \in DOMAIN longer /\ LastOf(longer, u, i)
  <2>1. i \in DOMAIN longer /\ longer[i].frame.by = u
    BY <1>0, <1>2 DEF LastOf, Extends
  <2>2. ASSUME NEW k \in DOMAIN longer, k > i PROVE longer[k].frame.by # u
    <3>1. CASE k \in DOMAIN s
      BY <1>0, <1>2, <2>2, <3>1 DEF LastOf, Extends
    <3>2. CASE k \notin DOMAIN s
      BY <1>0, <3>2
    <3> QED  BY <3>1, <3>2
  <2> QED  BY <2>1, <2>2 DEF LastOf
<1> QED  BY <1>1, <1>2

\* Which element precedes which does not change.
LEMMA PrecedesKept ==
    ASSUME NEW X, NEW s \in Seq(X), NEW longer \in Seq(X), Extends(s, longer),
           NEW i \in DOMAIN s
    PROVE  /\ i \in DOMAIN longer /\ longer[i] = s[i]
           /\ \A j : j \in DOMAIN longer /\ Precedes(longer, j, i)
                     <=> j \in DOMAIN s /\ Precedes(s, j, i)
<1>0. /\ DOMAIN s = 1..Len(s) /\ Len(s) \in Nat
      /\ DOMAIN longer = 1..Len(longer) /\ Len(longer) \in Nat
  OBVIOUS
<1>1. ASSUME NEW j \in DOMAIN s
      PROVE  Precedes(longer, j, i) <=> Precedes(s, j, i)
  <2>1. \A k \in (j + 1)..(i - 1) : longer[k] = s[k]
    BY <1>0 DEF Extends
  <2> QED  BY <1>0, <2>1 DEF Precedes, Extends
<1>2. \A j \in DOMAIN longer : Precedes(longer, j, i) => j \in DOMAIN s
  BY <1>0 DEF Precedes
<1> QED  BY <1>0, <1>1, <1>2 DEF Extends

\* The first new element is preceded by what its thread had added last.
LEMMA FirstAdded ==
    ASSUME NEW X, NEW s \in Seq(X), NEW longer \in Seq(X), Extends(s, longer),
           NEW t, Len(s) + 1 <= Len(longer), longer[Len(s) + 1].frame.by = t
    PROVE  \A j : j \in DOMAIN longer /\ Precedes(longer, j, Len(s) + 1)
                     <=> j \in DOMAIN s /\ LastOf(s, t, j)
<1>0. /\ DOMAIN s = 1..Len(s) /\ Len(s) \in Nat
      /\ DOMAIN longer = 1..Len(longer) /\ Len(longer) \in Nat
  OBVIOUS
<1>1. ASSUME NEW j \in DOMAIN s
      PROVE  Precedes(longer, j, Len(s) + 1) <=> LastOf(s, t, j)
  <2>1. \A k \in (j + 1)..Len(s) : longer[k] = s[k]
    BY <1>0 DEF Extends
  <2>2. \A k \in DOMAIN s : k > j <=> k \in (j + 1)..Len(s)
    BY <1>0
  <2>3. Len(s) + 1 - 1 = Len(s) /\ j < Len(s) + 1 /\ longer[j] = s[j]
    BY <1>0 DEF Extends
  <2>4. Precedes(longer, j, Len(s) + 1)
          <=> s[j].frame.by = t /\ \A k \in (j + 1)..Len(s) : s[k].frame.by # t
    BY <2>1, <2>3 DEF Precedes
  <2>5. (j + 1)..Len(s) \subseteq DOMAIN s
    BY <1>0
  <2> QED  BY <2>2, <2>4, <2>5 DEF LastOf
<1>2. \A j \in DOMAIN longer : Precedes(longer, j, Len(s) + 1) => j \in DOMAIN s
  BY <1>0 DEF Precedes
<1>3. DOMAIN s \subseteq DOMAIN longer
  BY <1>0
<1> QED  BY <1>1, <1>2, <1>3

\* fwrite adds one item to the log.
LEMMA AppendFacts ==
    ASSUME NEW X, NEW s \in Seq(X), NEW x \in X
    PROVE  /\ Append(s, x) \in Seq(X)
           /\ Extends(s, Append(s, x))
           /\ Len(Append(s, x)) = Len(s) + 1
           /\ Append(s, x)[Len(s) + 1] = x
BY DEF Extends

\* A write adds n parts of the frame, the first of those that were left first.
LEMMA TakenFacts ==
    ASSUME PacketIOTypeOK, NEW t \in Thread, call[t] \in Busy(t),
           NEW n \in 1..call[t].left
    PROVE  LET longer == stream \o Taken(t, n) IN
           /\ longer \in Seq(Part)
           /\ Extends(stream, longer)
           /\ Len(longer) = Len(stream) + n
           /\ \A k \in 1..n : longer[Len(stream) + k] =
                 [frame |-> call[t].frame, part |-> Parts - call[t].left + k]
<1> DEFINE u == Taken(t, n)
           f == call[t].frame
           d == Parts - call[t].left
<1>1. f \in Frames /\ call[t].left \in 1..Parts /\ Parts \in Nat /\ n \in Nat
  BY PacketIOAssumption DEF Busy
<1>2. d \in Nat /\ \A k \in 1..n : d + k \in 1..Parts
  BY <1>1
<1>3. \A k \in 1..n : d + 1 + k - 1 = d + k
  BY <1>2
<1>4. u = [k \in 1..n |-> [frame |-> f, part |-> d + 1 + k - 1]]
  BY DEF Taken
<1> HIDE DEF u, d, f
<1>5. \A k \in 1..n : u[k] = [frame |-> f, part |-> d + k]
  BY <1>3, <1>4
<1>6. u \in Seq(Part) /\ Len(u) = n
  <2>1. \A k \in 1..n : [frame |-> f, part |-> d + k] \in Part
    BY <1>1, <1>2 DEF Part
  <2>2. u \in [1..n -> Part]
    BY <1>4, <1>5, <2>1
  <2> QED  BY <1>1, <2>2
<1>7. stream \in Seq(Part)
  BY DEF PacketIOTypeOK
<1>8. /\ stream \o u \in Seq(Part)
      /\ Len(stream \o u) = Len(stream) + n
      /\ \A i \in 1..(Len(stream) + n) :
            (stream \o u)[i] = IF i <= Len(stream) THEN stream[i] ELSE u[i - Len(stream)]
  BY <1>6, <1>7, ConcatProperties
<1>9. Len(stream) \in Nat
  BY <1>7
<1>10. Extends(stream, stream \o u)
  BY <1>1, <1>8, <1>9 DEF Extends
<1>11. ASSUME NEW k \in 1..n
       PROVE  (stream \o u)[Len(stream) + k] = [frame |-> f, part |-> d + k]
  <2>1. Len(stream) + k \in 1..(Len(stream) + n) /\ ~(Len(stream) + k <= Len(stream))
        /\ Len(stream) + k - Len(stream) = k
    BY <1>1, <1>9
  <2> QED  BY <1>5, <1>8, <2>1
<1> QED  BY <1>8, <1>10, <1>11 DEF u, d, f

-----------------------------------------------------------------------------
(* What the actions do to the calls.                                       *)

\* A thread that is not idle is in one of its own calls.
LEMMA InCall ==
    ASSUME PacketIOTypeOK, NEW t \in Thread, call[t].pc # "idle"
    PROVE  call[t] \in Busy(t)
BY DEF PacketIOTypeOK, Idle

\* A step of thread t leaves the other thread's call alone.
LEMMA CallChanged ==
    ASSUME PacketIOTypeOK, NEW t \in Thread, NEW c \in {Idle} \cup Busy(t),
           call' = [call EXCEPT ![t] = c]
    PROVE  /\ DOMAIN call' = Thread
           /\ \A u \in Thread : call'[u] \in {Idle} \cup Busy(u)
           /\ call'[t] = c
           /\ \A u \in Thread : u # t => call'[u] = call[u]
BY DEF PacketIOTypeOK

\* The calls a thread may make or be in next.
LEMMA NextCalls ==
    ASSUME NEW t \in Thread
    PROVE  /\ \A f \in Frames, place \in {"log", "check"} :
                f.by = t => [pc |-> place, frame |-> f, left |-> Parts] \in Busy(t)
           /\ \A c \in Busy(t) : c.pc # "write" =>
                \A place \in {"log", "logdata", "check", "write"} :
                   [c EXCEPT !.pc = place] \in Busy(t)
           /\ \A c \in Busy(t) : c.pc = "write" =>
                \A n \in 1..(c.left - 1) : [c EXCEPT !.left = c.left - n] \in Busy(t)
<1>1. Parts \in 1..Parts /\ Parts \in Nat
  BY PacketIOAssumption
<1>2. ASSUME NEW c \in Busy(t), c.pc = "write", NEW n \in 1..(c.left - 1)
      PROVE  [c EXCEPT !.left = c.left - n] \in Busy(t)
  <2>1. c.left - n \in 1..Parts
    BY <1>1 DEF Busy
  <2> QED  BY <1>2, <2>1 DEF Busy
<1>3. ASSUME NEW c \in Busy(t), c.pc # "write",
             NEW place \in {"log", "logdata", "check", "write"}
      PROVE  [c EXCEPT !.pc = place] \in Busy(t)
  BY <1>3 DEF Busy
<1> QED  BY <1>1, <1>2, <1>3 DEF Busy

\* How each action changes the acting thread's call.
LEMMA CallSteps ==
    ASSUME PacketIOTypeOK, NEW t \in Thread
    PROVE  /\ \A f \in Frames : Begin(t, f) => \E c \in {Idle} \cup Busy(t) :
                /\ call' = [call EXCEPT ![t] = c]
                /\ c.pc \in {"idle", "log", "check"}
                /\ c.pc = "check" => logstate = "none"
                /\ IF c.pc = "idle"
                   THEN f.len < EthernetHeader /\ DOMAIN result' = DOMAIN result \cup {f}
                   ELSE result' = result
           /\ LogHeader(t) =>
                /\ call[t] \in Busy(t) /\ call[t].pc = "log"
                /\ [call[t] EXCEPT !.pc = "logdata"] \in Busy(t)
                /\ call' = [call EXCEPT ![t] = [call[t] EXCEPT !.pc = "logdata"]]
           /\ LogData(t) =>
                /\ call[t] \in Busy(t) /\ call[t].pc = "logdata"
                /\ [call[t] EXCEPT !.pc = "check"] \in Busy(t)
                /\ call' = [call EXCEPT ![t] = [call[t] EXCEPT !.pc = "check"]]
           /\ Check(t) => \E c \in {Idle} \cup Busy(t) :
                /\ call[t] \in Busy(t) /\ call[t].pc = "check"
                /\ call' = [call EXCEPT ![t] = c]
                /\ \/ c = Idle /\ DOMAIN result' = DOMAIN result \cup {call[t].frame}
                   \/ c = [call[t] EXCEPT !.pc = "write"] /\ result' = result
           /\ WriteFails(t) =>
                /\ call[t] \in Busy(t) /\ call[t].pc = "write"
                /\ call' = [call EXCEPT ![t] = Idle]
                /\ DOMAIN result' = DOMAIN result \cup {call[t].frame}
           /\ Write(t) => \E n \in 1..call[t].left : \E c \in {Idle} \cup Busy(t) :
                /\ call[t] \in Busy(t) /\ call[t].pc = "write"
                /\ stream' = stream \o Taken(t, n)
                /\ call' = [call EXCEPT ![t] = c]
                /\ \/ /\ n = call[t].left
                      /\ c = Idle
                      /\ DOMAIN result' = DOMAIN result \cup {call[t].frame}
                   \/ /\ n < call[t].left
                      /\ c = [call[t] EXCEPT !.left = call[t].left - n]
                      /\ result' = result
<1>1. ASSUME NEW f \in Frames, Begin(t, f)
      PROVE  \E c \in {Idle} \cup Busy(t) :
                /\ call' = [call EXCEPT ![t] = c]
                /\ c.pc \in {"idle", "log", "check"}
                /\ c.pc = "check" => logstate = "none"
                /\ IF c.pc = "idle"
                   THEN f.len < EthernetHeader /\ DOMAIN result' = DOMAIN result \cup {f}
                   ELSE result' = result
  <2>1. CASE f.dir = "out" /\ f.len < EthernetHeader
    <3>1. call' = [call EXCEPT ![t] = Idle] /\ DOMAIN result' = DOMAIN result \cup {f}
      BY <1>1, <2>1 DEF Begin, Return
    <3>2. Idle.pc = "idle" /\ Idle \in {Idle} \cup Busy(t)
      BY DEF Idle
    <3> QED  BY <2>1, <3>1, <3>2, Zenon
  <2>2. CASE ~(f.dir = "out" /\ f.len < EthernetHeader)
    <3> DEFINE place == IF logstate = "none" THEN "check" ELSE "log"
               c == [pc |-> place, frame |-> f, left |-> Parts]
    <3>1. call' = [call EXCEPT ![t] = c] /\ result' = result /\ f.by = t
      BY <1>1, <2>2 DEF Begin, Enter, Fresh
    <3>2. c \in Busy(t)
      BY <3>1, NextCalls
    <3>3. c.pc \in {"log", "check"} /\ c.pc # "idle" /\ (c.pc = "check" => logstate = "none")
      OBVIOUS
    <3> HIDE DEF c
    <3> QED  BY <3>1, <3>2, <3>3, Zenon
  <2> QED  BY <2>1, <2>2
<1>2. ASSUME LogHeader(t) \/ LogData(t) \/ Check(t) \/ Write(t) \/ WriteFails(t)
      PROVE  call[t] \in Busy(t)
  BY <1>2, InCall DEF LogHeader, LogData, Check, Write, WriteFails, At
<1>3. DOMAIN call = Thread
  BY DEF PacketIOTypeOK
<1>4. ASSUME LogHeader(t)
      PROVE  /\ call[t].pc = "log"
             /\ [call[t] EXCEPT !.pc = "logdata"] \in Busy(t)
             /\ call' = [call EXCEPT ![t] = [call[t] EXCEPT !.pc = "logdata"]]
  BY <1>2, <1>3, <1>4, NextCalls DEF LogHeader, At
<1>5. ASSUME LogData(t)
      PROVE  /\ call[t].pc = "logdata"
             /\ [call[t] EXCEPT !.pc = "check"] \in Busy(t)
             /\ call' = [call EXCEPT ![t] = [call[t] EXCEPT !.pc = "check"]]
  BY <1>2, <1>3, <1>5, NextCalls DEF LogData, At
<1>6. ASSUME Check(t)
      PROVE  /\ call[t].pc = "check"
             /\ [call[t] EXCEPT !.pc = "write"] \in Busy(t)
             /\ \/ /\ call' = [call EXCEPT ![t] = Idle]
                   /\ DOMAIN result' = DOMAIN result \cup {call[t].frame}
                \/ /\ call' = [call EXCEPT ![t] = [call[t] EXCEPT !.pc = "write"]]
                   /\ result' = result
  <2>1. call[t] \in Busy(t) /\ call[t].pc = "check"
    BY <1>2, <1>6 DEF Check, At
  <2>2. [call[t] EXCEPT !.pc = "write"] \in Busy(t)
    BY <2>1, NextCalls
  <2> QED  BY <1>3, <1>6, <2>1, <2>2 DEF Check, Return
<1>7. ASSUME WriteFails(t)
      PROVE  /\ call[t].pc = "write"
             /\ call' = [call EXCEPT ![t] = Idle]
             /\ DOMAIN result' = DOMAIN result \cup {call[t].frame}
  BY <1>7 DEF WriteFails, At, Return
<1>8. ASSUME Write(t)
      PROVE  \E n \in 1..call[t].left : \E c \in {Idle} \cup Busy(t) :
                /\ call[t].pc = "write"
                /\ stream' = stream \o Taken(t, n)
                /\ call' = [call EXCEPT ![t] = c]
                /\ \/ /\ n = call[t].left
                      /\ c = Idle
                      /\ DOMAIN result' = DOMAIN result \cup {call[t].frame}
                   \/ /\ n < call[t].left
                      /\ c = [call[t] EXCEPT !.left = call[t].left - n]
                      /\ result' = result
  <2>1. PICK n \in 1..call[t].left :
              /\ stream' = stream \o Taken(t, n)
              /\ IF n = call[t].left THEN Return(t, call[t].frame, 0)
                 ELSE call' = [call EXCEPT ![t].left = @ - n] /\ UNCHANGED result
    BY <1>8 DEF Write
  <2>2. call[t] \in Busy(t) /\ call[t].pc = "write"
    BY <1>2, <1>8 DEF Write, At
  <2>3. CASE n = call[t].left
    BY <2>1, <2>2, <2>3 DEF Return
  <2>4. CASE n # call[t].left
    <3>1. n \in 1..(call[t].left - 1) /\ n < call[t].left
      BY <2>2, <2>4 DEF Busy
    <3>2. [call[t] EXCEPT !.left = call[t].left - n] \in Busy(t)
      BY <2>2, <3>1, NextCalls
    <3>3. call' = [call EXCEPT ![t] = [call[t] EXCEPT !.left = call[t].left - n]]
      BY <1>3, <2>1, <2>4
    <3> QED  BY <2>1, <2>2, <2>4, <3>1, <3>2, <3>3
  <2> QED  BY <2>3, <2>4
<1> QED  BY <1>1, <1>2, <1>4, <1>5, <1>6, <1>7, <1>8

\* The steps that change no call, and neither stream nor log.
LEMMA OtherSteps ==
    ASSUME \/ \E t \in Thread : LogClosed(t)
           \/ Disconnect \/ Destroy \/ Stopped \/ UNCHANGED vars
    PROVE  /\ UNCHANGED <<call, stream, logfile, result>>
           /\ logstate' = "open" => logstate = "open"
BY DEF LogClosed, Disconnect, Destroy, Stopped, vars

\* Every step is one of those or a thread's step.
LEMMA StepCases ==
    ASSUME [Next]_vars
    PROVE  \/ \E t \in Thread :
                \/ \E f \in Frames : Begin(t, f)
                \/ LogHeader(t) \/ LogData(t) \/ Check(t) \/ Write(t) \/ WriteFails(t)
           \/ /\ UNCHANGED <<call, stream, logfile, result>>
              /\ logstate' = "open" => logstate = "open"
BY OtherSteps DEF Next

\* Calls, stream and log stay well formed.
LEMMA TypeNext ==
    ASSUME PacketIOTypeOK, [Next]_vars
    PROVE  PacketIOTypeOK'
<1>1. ASSUME NEW t \in Thread, NEW f \in Frames, Begin(t, f)
      PROVE  PacketIOTypeOK'
  <2>1. PICK c \in {Idle} \cup Busy(t) : call' = [call EXCEPT ![t] = c]
    BY <1>1, CallSteps
  <2>2. stream' = stream /\ logfile' = logfile
    BY <1>1 DEF Begin
  <2> QED  BY <2>1, <2>2, CallChanged DEF PacketIOTypeOK
<1>2. ASSUME NEW t \in Thread, LogHeader(t) \/ LogData(t)
      PROVE  PacketIOTypeOK'
  <2>1. PICK w \in {"header", "data"}, c \in Busy(t) :
              /\ call[t] \in Busy(t)
              /\ call' = [call EXCEPT ![t] = c]
              /\ logfile' = Append(logfile, Record(w, call[t].frame))
              /\ stream' = stream
    BY <1>2, CallSteps DEF LogHeader, LogData
  <2>2. Record(w, call[t].frame) \in LogItem
    BY <2>1 DEF LogItem, Busy
  <2>3. logfile' \in Seq(LogItem)
    BY <2>1, <2>2 DEF PacketIOTypeOK
  <2> QED  BY <2>1, <2>3, CallChanged DEF PacketIOTypeOK
<1>3. ASSUME NEW t \in Thread, Check(t) \/ WriteFails(t)
      PROVE  PacketIOTypeOK'
  <2>1. PICK c \in {Idle} \cup Busy(t) : call' = [call EXCEPT ![t] = c]
    BY <1>3, CallSteps
  <2>2. stream' = stream /\ logfile' = logfile
    BY <1>3 DEF Check, WriteFails
  <2> QED  BY <2>1, <2>2, CallChanged DEF PacketIOTypeOK
<1>4. ASSUME NEW t \in Thread, Write(t)
      PROVE  PacketIOTypeOK'
  <2>1. PICK n \in 1..call[t].left : \E c \in {Idle} \cup Busy(t) :
              /\ call[t] \in Busy(t)
              /\ stream' = stream \o Taken(t, n)
              /\ call' = [call EXCEPT ![t] = c]
    <3>1. \E n \in 1..call[t].left : \E c \in {Idle} \cup Busy(t) :
              /\ call[t] \in Busy(t) /\ call[t].pc = "write"
              /\ stream' = stream \o Taken(t, n)
              /\ call' = [call EXCEPT ![t] = c]
              /\ \/ n = call[t].left /\ c = Idle
                 \/ n < call[t].left /\ c = [call[t] EXCEPT !.left = call[t].left - n]
      BY <1>4, CallSteps
    <3> QED  BY <3>1, Zenon
  <2>2. stream' \in Seq(Part)
    BY <2>1, TakenFacts
  <2>3. logfile' = logfile
    BY <1>4 DEF Write
  <2> QED  BY <2>1, <2>2, <2>3, CallChanged DEF PacketIOTypeOK
<1>5. CASE UNCHANGED <<call, stream, logfile, result>>
  BY <1>5 DEF PacketIOTypeOK
<1> QED  BY <1>1, <1>2, <1>3, <1>4, <1>5, StepCases

-----------------------------------------------------------------------------
(* The stream.                                                             *)

StreamInv ==
    /\ \A t \in Thread : StreamInStep(t)
    /\ BreaksReported

\* A result is final: each frame is sent once.
LEMMA ResultsFinal ==
    ASSUME PacketIOTypeOK, FreshInCall, [Next]_vars
    PROVE  /\ \A g \in DOMAIN result : g \in DOMAIN result' /\ result'[g] = result[g]
           /\ Refused \subseteq Refused'
<1>1. \A g \in DOMAIN result : g \in DOMAIN result' /\ result'[g] = result[g]
  <2>1. ASSUME NEW t \in Thread, NEW f, NEW r, f \notin DOMAIN result, Return(t, f, r)
        PROVE  \A g \in DOMAIN result : g \in DOMAIN result' /\ result'[g] = result[g]
    BY <2>1 DEF Return
  <2>2. ASSUME NEW t \in Thread, NEW f \in Frames, Begin(t, f)
        PROVE  result' = result \/ (f \notin DOMAIN result /\ Return(t, f, -1))
    BY <2>2 DEF Begin, Fresh
  <2>3. ASSUME NEW t \in Thread, Check(t) \/ Write(t) \/ WriteFails(t)
        PROVE  /\ call[t].frame \notin DOMAIN result
               /\ result' = result \/ \E r \in {0, -1} : Return(t, call[t].frame, r)
    BY <2>3 DEF Check, Write, WriteFails, At, FreshInCall
  <2> QED  BY <2>1, <2>2, <2>3, StepCases DEF LogHeader, LogData
<1> QED  BY <1>1 DEF Refused

\* A step that sends nothing and neither starts nor ends within a message.
LEMMA StreamQuiet ==
    ASSUME PacketIOTypeOK, StreamInv, NEW t \in Thread, NEW c \in {Idle} \cup Busy(t),
           call' = [call EXCEPT ![t] = c], stream' = stream, Refused \subseteq Refused',
           call[t].pc # "write", c.pc = "write" => c.left = Parts
    PROVE  StreamInv'
<1>1. /\ call'[t] = c
      /\ \A u \in Thread : u # t => call'[u] = call[u]
  BY CallChanged
<1>2. Parts \in Nat
  BY PacketIOAssumption
<1>3. BreaksReported'
  BY DEF StreamInv, BreaksReported, Precedes
<1>4. ASSUME NEW u \in Thread PROVE StreamInStep(u)'
  <2>1. StreamInStep(u)
    BY DEF StreamInv
  <2>2. CASE u = t
    <3>1. ~(call'[u].pc = "write" /\ call'[u].left < Parts)
      BY <1>1, <1>2, <2>2
    <3> QED  BY <2>1, <2>2, <3>1 DEF StreamInStep, LastOf
  <2>3. CASE u # t
    BY <1>1, <2>1, <2>3 DEF StreamInStep, LastOf
  <2> QED  BY <2>2, <2>3
<1> QED  BY <1>3, <1>4 DEF StreamInv

\* Whatever part of the rest the kernel takes, the stream stays in step.
LEMMA StreamWrite ==
    ASSUME PacketIOTypeOK, StreamInv, NEW t \in Thread, Write(t), Refused \subseteq Refused'
    PROVE  StreamInv'
<1>1. PICK n \in 1..call[t].left : \E c \in {Idle} \cup Busy(t) :
            /\ call[t] \in Busy(t) /\ call[t].pc = "write"
            /\ stream' = stream \o Taken(t, n)
            /\ call' = [call EXCEPT ![t] = c]
            /\ \/ n = call[t].left /\ c = Idle
               \/ n < call[t].left /\ c = [call[t] EXCEPT !.left = call[t].left - n]
  BY CallSteps
<1>2. PICK c \in {Idle} \cup Busy(t) :
            /\ call[t] \in Busy(t) /\ call[t].pc = "write"
            /\ stream' = stream \o Taken(t, n)
            /\ call' = [call EXCEPT ![t] = c]
            /\ \/ n = call[t].left /\ c = Idle
               \/ n < call[t].left /\ c = [call[t] EXCEPT !.left = call[t].left - n]
  BY <1>1
<1>3. PICK f, left : f = call[t].frame /\ left = call[t].left
  OBVIOUS
<1>4. /\ f \in Frames /\ f.by = t /\ left \in 1..Parts /\ Parts \in Nat
      /\ n \in Nat /\ n \in 1..left
  BY <1>2, <1>3, PacketIOAssumption DEF Busy
<1>5. PICK s, longer : s = stream /\ longer = stream'
  OBVIOUS
<1>6. PICK m \in Nat : m = Len(s)
  BY <1>5 DEF PacketIOTypeOK
<1>7. /\ s \in Seq(Part) /\ longer \in Seq(Part) /\ Extends(s, longer)
      /\ Len(longer) = m + n
      /\ \A k \in 1..n : longer[m + k] = [frame |-> f, part |-> Parts - left + k]
  BY <1>2, <1>3, <1>5, <1>6, TakenFacts DEF PacketIOTypeOK
<1>8. DOMAIN s = 1..m /\ DOMAIN longer = 1..(m + n)
  BY <1>6, <1>7
<1>9. \A i \in (m + 1)..(m + n) :
         longer[i] = [frame |-> f, part |-> Parts - left + (i - m)]
  <2>1. ASSUME NEW i \in (m + 1)..(m + n)
        PROVE  i - m \in 1..n /\ m + (i - m) = i
    BY <1>4
  <2> QED  BY <1>7, <2>1
<1>10. \A i \in (Len(s) + 1)..Len(longer) : longer[i].frame.by = t
  <2>1. ASSUME NEW i \in (Len(s) + 1)..Len(longer)
        PROVE  longer[i].frame = f
    <3>1. longer[i] = [frame |-> f, part |-> Parts - left + (i - m)]
      BY <1>6, <1>7, <1>9
    <3> QED  BY <3>1
  <2> QED  BY <1>4, <2>1
<1>11. /\ call'[t] = c
       /\ \A u \in Thread : u # t => call'[u] = call[u]
  BY <1>2, CallChanged
<1>12. PICK R, R2 : R = Refused /\ R2 = Refused' /\ R \subseteq R2
  OBVIOUS
<1>13. BreaksReported /\ \A u \in Thread : StreamInStep(u)
  BY DEF StreamInv
<1>14. IF left < Parts
       THEN \E i \in DOMAIN s :
               LastOf(s, t, i) /\ s[i] = [frame |-> f, part |-> Parts - left]
       ELSE \A i \in DOMAIN s : LastOf(s, t, i) => s[i].part = Parts \/ s[i].frame \in R
  BY <1>2, <1>3, <1>5, <1>12, <1>13 DEF StreamInStep
<1>15. ASSUME NEW i \in DOMAIN longer
       PROVE  IF longer[i].part = 1
              THEN \A j \in DOMAIN longer :
                      Precedes(longer, j, i) =>
                          longer[j].part = Parts \/ longer[j].frame \in R2
              ELSE \E j \in DOMAIN longer :
                      /\ Precedes(longer, j, i)
                      /\ longer[j] = [frame |-> longer[i].frame,
                                      part |-> longer[i].part - 1]
  <2>1. CASE i \in DOMAIN s
    <3>1. IF s[i].part = 1
          THEN \A j \in DOMAIN s :
                  Precedes(s, j, i) => s[j].part = Parts \/ s[j].frame \in R
          ELSE \E j \in DOMAIN s :
                  /\ Precedes(s, j, i)
                  /\ s[j] = [frame |-> s[i].frame, part |-> s[i].part - 1]
      BY <1>5, <1>12, <1>13, <2>1 DEF BreaksReported
    <3>2. /\ longer[i] = s[i]
          /\ \A j : j \in DOMAIN longer /\ Precedes(longer, j, i)
                    <=> j \in DOMAIN s /\ Precedes(s, j, i)
      BY <1>7, <2>1, PrecedesKept
    <3>3. \A j \in DOMAIN s : longer[j] = s[j] /\ j \in DOMAIN longer
      BY <1>4, <1>6, <1>7, <1>8 DEF Extends
    <3> QED  BY <1>12, <3>1, <3>2, <3>3
  <2>2. CASE i = m + 1
    <3>1. longer[i] = [frame |-> f, part |-> Parts - left + 1]
      BY <1>4, <1>9, <2>2
    <3>2. \A j : j \in DOMAIN longer /\ Precedes(longer, j, i)
                   <=> j \in DOMAIN s /\ LastOf(s, t, j)
      <4>1. Len(s) + 1 <= Len(longer) /\ i = Len(s) + 1 /\ longer[Len(s) + 1].frame.by = t
        BY <1>4, <1>6, <1>7, <2>2, <3>1
      <4> QED  BY <1>7, <4>1, FirstAdded
    <3>3. \A j \in DOMAIN s : longer[j] = s[j] /\ j \in DOMAIN longer
      BY <1>4, <1>6, <1>7, <1>8 DEF Extends
    <3>4. longer[i].part = 1 <=> ~(left < Parts)
      BY <1>4, <3>1
    <3>5. (Parts - left + 1) - 1 = Parts - left
      BY <1>4
    <3> QED  BY <1>12, <1>14, <3>1, <3>2, <3>3, <3>4, <3>5
  <2>3. CASE i \in (m + 2)..(m + n)
    <3>1. PICK p \in Int : p = Parts - left + (i - m)
      BY <1>4, <2>3
    <3>2. /\ i \in (m + 1)..(m + n) /\ i - 1 \in (m + 1)..(m + n)
          /\ i - 1 \in 1..(m + n) /\ i - 1 < i /\ (i - 1 + 1)..(i - 1) = {}
          /\ p # 1 /\ Parts - left + (i - 1 - m) = p - 1
      BY <1>4, <2>3, <3>1
    <3>3. longer[i] = [frame |-> f, part |-> p]
      BY <1>9, <3>1, <3>2
    <3>4. longer[i - 1] = [frame |-> f, part |-> p - 1]
      BY <1>9, <3>2, Zenon
    <3>5. longer[i].frame = f /\ longer[i].part = p /\ longer[i - 1].frame = f
      BY <3>3, <3>4
    <3>6. Precedes(longer, i - 1, i)
      BY <3>2, <3>5 DEF Precedes
    <3> QED  BY <1>8, <3>2, <3>4, <3>5, <3>6
  <2> QED  BY <1>4, <1>8, <2>1, <2>2, <2>3
<1>16. ASSUME NEW u \in Thread, u # t
       PROVE  IF call[u].pc = "write" /\ call[u].left < Parts
              THEN \E i \in DOMAIN longer :
                      /\ LastOf(longer, u, i)
                      /\ longer[i] = [frame |-> call[u].frame,
                                      part |-> Parts - call[u].left]
              ELSE \A i \in DOMAIN longer :
                      LastOf(longer, u, i) => longer[i].part = Parts \/ longer[i].frame \in R2
  <2>1. \A i : i \in DOMAIN longer /\ LastOf(longer, u, i)
                 <=> i \in DOMAIN s /\ LastOf(s, u, i)
    BY <1>7, <1>10, <1>16, OthersLast
  <2>2. \A i \in DOMAIN s : longer[i] = s[i]
    BY <1>6, <1>7, <1>8 DEF Extends
  <2> QED  BY <1>5, <1>12, <1>13, <1>16, <2>1, <2>2 DEF StreamInStep
<1>17. /\ m + n \in DOMAIN longer
       /\ longer[m + n] = [frame |-> f, part |-> Parts - left + n]
       /\ LastOf(longer, t, m + n)
       /\ \A i \in DOMAIN longer : LastOf(longer, t, i) => i = m + n
  <2>1. m + n \in 1..(m + n) /\ m + n \in (m + 1)..(m + n) /\ m + n - m = n
    BY <1>4
  <2>2. longer[m + n] = [frame |-> f, part |-> Parts - left + n]
    BY <1>9, <2>1
  <2>3. LastOf(longer, t, m + n)
    BY <1>4, <1>8, <2>2 DEF LastOf
  <2>4. ASSUME NEW i \in DOMAIN longer, LastOf(longer, t, i) PROVE i = m + n
    BY <1>4, <1>8, <2>1, <2>2, <2>4 DEF LastOf
  <2> QED  BY <1>8, <2>1, <2>2, <2>3, <2>4
<1>18. IF c.pc = "write" /\ c.left < Parts
       THEN \E i \in DOMAIN longer :
               /\ LastOf(longer, t, i)
               /\ longer[i] = [frame |-> c.frame, part |-> Parts - c.left]
       ELSE \A i \in DOMAIN longer :
               LastOf(longer, t, i) => longer[i].part = Parts \/ longer[i].frame \in R2
  <2>1. CASE n = left /\ c = Idle
    <3>1. c.pc # "write" /\ Parts - left + n = Parts
      BY <1>4, <2>1 DEF Idle
    <3> QED  BY <1>17, <3>1
  <2>2. CASE n < left /\ c = [call[t] EXCEPT !.left = left - n]
    <3>1. c.pc = "write" /\ c.left = left - n /\ c.frame = f
      BY <1>2, <1>3, <2>2 DEF Busy
    <3>2. c.left < Parts /\ Parts - left + n = Parts - c.left
      BY <1>4, <2>2, <3>1
    <3> QED  BY <1>17, <3>1, <3>2
  <2> QED  BY <1>2, <1>3, <2>1, <2>2
<1>19. ASSUME NEW u \in Thread PROVE StreamInStep(u)'
  <2>1. CASE u = t
    BY <1>5, <1>11, <1>12, <1>18, <2>1 DEF StreamInStep, LastOf
  <2>2. CASE u # t
    BY <1>5, <1>11, <1>12, <1>16, <2>2 DEF StreamInStep, LastOf
  <2> QED  BY <2>1, <2>2
<1>20. BreaksReported'
  BY <1>5, <1>12, <1>15 DEF BreaksReported, Precedes
<1> QED  BY <1>19, <1>20 DEF StreamInv

\* A write that comes back short leaves its message incomplete and refused.
LEMMA StreamFails ==
    ASSUME PacketIOTypeOK, StreamInv, NEW t \in Thread, WriteFails(t), Refused \subseteq Refused'
    PROVE  StreamInv'
<1>1. /\ call[t] \in Busy(t) /\ call[t].pc = "write" /\ call' = [call EXCEPT ![t] = Idle]
      /\ stream' = stream /\ Return(t, call[t].frame, -1)
  BY CallSteps DEF WriteFails
<1>2. call[t].frame \in Refused'
  BY <1>1 DEF Return, Refused
<1>3. /\ call'[t] = Idle /\ Idle.pc # "write"
      /\ \A u \in Thread : u # t => call'[u] = call[u]
  BY <1>1, CallChanged DEF Idle
<1>4. BreaksReported'
  BY <1>1 DEF StreamInv, BreaksReported, Precedes
<1>5. ASSUME NEW i \in DOMAIN stream, LastOf(stream, t, i)
      PROVE  stream[i].part = Parts \/ stream[i].frame \in Refused'
  <2>1. StreamInStep(t)
    BY DEF StreamInv
  <2>2. CASE call[t].left < Parts
    <3>1. PICK k \in DOMAIN stream : LastOf(stream, t, k) /\ stream[k].frame = call[t].frame
      BY <1>1, <2>1, <2>2 DEF StreamInStep
    <3>2. i \in Nat /\ k \in Nat
      BY DEF PacketIOTypeOK
    <3>3. i = k
      BY <1>5, <3>1, <3>2 DEF LastOf
    <3> QED  BY <1>2, <3>1, <3>3
  <2>3. CASE ~(call[t].left < Parts)
    BY <1>5, <2>1, <2>3 DEF StreamInStep
  <2> QED  BY <2>2, <2>3
<1>6. ASSUME NEW u \in Thread PROVE StreamInStep(u)'
  <2>1. CASE u = t
    BY <1>1, <1>3, <1>5, <2>1 DEF StreamInStep, LastOf
  <2>2. CASE u # t
    <3>1. StreamInStep(u)
      BY DEF StreamInv
    <3> QED  BY <1>1, <1>3, <2>2, <3>1 DEF StreamInStep, LastOf
  <2> QED  BY <2>1, <2>2
<1> QED  BY <1>4, <1>6 DEF StreamInv

\* Every step keeps the stream in step.
LEMMA StreamNext ==
    ASSUME PacketIOTypeOK, StreamInv, FreshInCall, [Next]_vars
    PROVE  StreamInv'
<1>0. Refused \subseteq Refused'
  BY ResultsFinal
<1>1. ASSUME NEW t \in Thread, NEW f \in Frames, Begin(t, f)
      PROVE  StreamInv'
  <2>1. PICK c \in {Idle} \cup Busy(t) :
              call' = [call EXCEPT ![t] = c] /\ c.pc \in {"idle", "log", "check"}
    BY <1>1, CallSteps
  <2>2. stream' = stream /\ call[t].pc # "write"
    BY <1>1 DEF Begin, Fresh, At
  <2> QED  BY <1>0, <2>1, <2>2, StreamQuiet
<1>2. ASSUME NEW t \in Thread, LogHeader(t) \/ LogData(t)
      PROVE  StreamInv'
  <2>1. PICK c \in Busy(t) :
              /\ call' = [call EXCEPT ![t] = c]
              /\ call[t].pc # "write" /\ c.pc # "write"
              /\ stream' = stream
    <3>1. /\ call[t].pc # "write" /\ stream' = stream
          /\ call[t] \in Busy(t)
      BY <1>2, CallSteps DEF LogHeader, LogData
    <3>2. PICK place \in {"logdata", "check"} :
              /\ [call[t] EXCEPT !.pc = place] \in Busy(t)
              /\ call' = [call EXCEPT ![t] = [call[t] EXCEPT !.pc = place]]
      BY <1>2, CallSteps
    <3>3. [call[t] EXCEPT !.pc = place].pc # "write"
      BY <3>1 DEF Busy
    <3> QED  BY <3>1, <3>2, <3>3
  <2> QED  BY <1>0, <2>1, StreamQuiet
<1>3. ASSUME NEW t \in Thread, Check(t)
      PROVE  StreamInv'
  <2>1. PICK c \in {Idle} \cup Busy(t) :
              /\ call[t] \in Busy(t) /\ call[t].pc = "check"
              /\ call' = [call EXCEPT ![t] = c]
              /\ c = Idle \/ c = [call[t] EXCEPT !.pc = "write"]
    BY <1>3, CallSteps
  <2>2. c.pc = "write" => c.left = Parts
    BY <2>1 DEF Busy, Idle
  <2>3. stream' = stream
    BY <1>3 DEF Check
  <2> QED  BY <1>0, <2>1, <2>2, <2>3, StreamQuiet
<1>4. CASE UNCHANGED <<call, stream, logfile, result>>
  BY <1>4 DEF StreamInv, StreamInStep, LastOf, BreaksReported, Precedes, Refused
<1> QED  BY <1>0, <1>1, <1>2, <1>3, <1>4, StreamWrite, StreamFails, StepCases

-----------------------------------------------------------------------------
(* The results.                                                            *)

ReportInv == FreshInCall /\ PartsAccounted /\ SuccessMeansSent

\* While a frame has no result, what is in the stream of it are the parts its
\* own thread has written.
LEMMA NotYetSent ==
    ASSUME PacketIOTypeOK, ReportInv, NEW t \in Thread, NEW f \in Frames,
           f.by = t, f \notin DOMAIN result,
           NEW i \in DOMAIN stream, stream[i].frame = f
    PROVE  call[t].pc = "write" /\ stream[i].part <= Parts - call[t].left
<1>1. PICK u \in Thread : /\ call[u].pc = "write" /\ call[u].frame = f
                          /\ stream[i].part <= Parts - call[u].left
  BY DEF ReportInv, PartsAccounted
<1>2. call[u].frame.by = u
  BY <1>1, InCall DEF Busy
<1> QED  BY <1>1, <1>2

\* A call that goes on: the frame is the same, or it is new.
LEMMA ReportGoesOn ==
    ASSUME PacketIOTypeOK, ReportInv, NEW t \in Thread, NEW c \in Busy(t),
           call' = [call EXCEPT ![t] = c], result' = result, stream' = stream,
           c.frame \notin DOMAIN result, call[t].pc # "write"
    PROVE  ReportInv'
<1>1. call'[t] = c /\ \A u \in Thread : u # t => call'[u] = call[u]
  BY CallChanged
<1>2. FreshInCall'
  BY <1>1 DEF ReportInv, FreshInCall
<1>3. PartsAccounted'
  BY <1>1 DEF ReportInv, PartsAccounted
<1>4. SuccessMeansSent'
  BY DEF ReportInv, SuccessMeansSent
<1> QED  BY <1>2, <1>3, <1>4 DEF ReportInv

\* A call that returns: the frame gets its result, which must tell whether the
\* last part is in the stream, old and new.
LEMMA ReportReturns ==
    ASSUME PacketIOTypeOK, ReportInv, NEW t \in Thread, NEW f \in Frames, NEW r,
           f.by = t, f \notin DOMAIN result, Return(t, f, r),
           call[t].pc # "idle" => call[t].frame = f,
           stream' \in Seq(Part), Extends(stream, stream'),
           \A i \in (Len(stream) + 1)..Len(stream') : stream'[i].frame = f,
           f.dir = "out" => (r = 0 <=> \E i \in DOMAIN stream' :
                                          stream'[i] = [frame |-> f, part |-> Parts])
    PROVE  ReportInv'
<1>1. /\ DOMAIN result' = DOMAIN result \cup {f} /\ result'[f] = r
      /\ \A g \in DOMAIN result : result'[g] = result[g]
      /\ call' = [call EXCEPT ![t] = Idle]
  BY DEF Return
<1>2. /\ call'[t].pc = "idle"
      /\ \A u \in Thread : u # t => call'[u] = call[u]
  BY <1>1, CallChanged DEF Idle
<1>3. FreshInCall'
  <2>1. ASSUME NEW u \in Thread, u # t, call[u].pc # "idle" PROVE call[u].frame # f
    BY <2>1, InCall DEF Busy
  <2> QED  BY <1>1, <1>2, <2>1 DEF ReportInv, FreshInCall
<1>4. /\ stream \in Seq(Part) /\ Len(stream) \in Nat /\ Len(stream') \in Nat
      /\ DOMAIN stream = 1..Len(stream) /\ DOMAIN stream' = 1..Len(stream')
      /\ Len(stream) <= Len(stream')
      /\ \A i \in DOMAIN stream : stream'[i] = stream[i]
  BY DEF PacketIOTypeOK, Extends
<1>5. \A i \in DOMAIN stream' : i \in DOMAIN stream \/ stream'[i].frame = f
  BY <1>4
<1>6. PartsAccounted'
  <2>1. ASSUME NEW i \in DOMAIN stream, stream[i].frame \notin DOMAIN result'
        PROVE  \E u \in Thread : /\ call'[u].pc = "write" /\ call'[u].frame = stream[i].frame
                                  /\ stream[i].part <= Parts - call'[u].left
    <3>1. PICK u \in Thread : /\ call[u].pc = "write" /\ call[u].frame = stream[i].frame
                              /\ stream[i].part <= Parts - call[u].left
      BY <1>1, <2>1 DEF ReportInv, PartsAccounted
    <3>2. u # t
      BY <1>1, <2>1, <3>1
    <3> QED  BY <1>2, <3>1, <3>2
  <2> QED  BY <1>1, <1>4, <1>5, <2>1 DEF PartsAccounted
<1>7. SuccessMeansSent'
  <2>1. ASSUME NEW g \in DOMAIN result, g.dir = "out"
        PROVE  result[g] = 0 <=> \E i \in DOMAIN stream' :
                                    stream'[i] = [frame |-> g, part |-> Parts]
    <3>1. result[g] = 0 <=> \E i \in DOMAIN stream : stream[i] = [frame |-> g, part |-> Parts]
      BY <2>1 DEF ReportInv, SuccessMeansSent
    <3>2. \A i \in DOMAIN stream' : stream'[i] = [frame |-> g, part |-> Parts] => i \in DOMAIN stream
      BY <1>5
    <3>3. DOMAIN stream \subseteq DOMAIN stream'
      BY <1>4
    <3> QED  BY <1>4, <3>1, <3>2, <3>3
  <2> QED  BY <1>1, <2>1 DEF SuccessMeansSent
<1> QED  BY <1>3, <1>6, <1>7 DEF ReportInv

\* A write: the parts taken are behind the call, or they are all there are.
LEMMA ReportWrite ==
    ASSUME PacketIOTypeOK, ReportInv, NEW t \in Thread, Write(t)
    PROVE  ReportInv'
<1>1. PICK n \in 1..call[t].left :
        /\ stream' = stream \o Taken(t, n)
        /\ IF n = call[t].left THEN Return(t, call[t].frame, 0)
           ELSE call' = [call EXCEPT ![t].left = @ - n] /\ UNCHANGED result
  BY DEF Write
<1>2. call[t] \in Busy(t) /\ call[t].pc = "write"
  BY CallSteps
<1>3. PICK f, left : f = call[t].frame /\ left = call[t].left
  OBVIOUS
<1>4. /\ f \in Frames /\ f.by = t /\ left \in 1..Parts /\ Parts \in Nat
      /\ n \in Nat /\ n \in 1..left /\ f \notin DOMAIN result
  BY <1>1, <1>2, <1>3, PacketIOAssumption DEF Busy, ReportInv, FreshInCall
<1>5. PICK m \in Nat : m = Len(stream)
  BY DEF PacketIOTypeOK
<1>6. /\ stream' \in Seq(Part) /\ Extends(stream, stream')
      /\ Len(stream') = m + n
      /\ \A k \in 1..n : stream'[m + k] = [frame |-> f, part |-> Parts - left + k]
  BY <1>1, <1>2, <1>3, <1>5, TakenFacts
<1>7. /\ DOMAIN stream = 1..m /\ DOMAIN stream' = 1..(m + n)
      /\ \A i \in DOMAIN stream : stream'[i] = stream[i]
  BY <1>5, <1>6 DEF PacketIOTypeOK, Extends
<1>8. ASSUME NEW i \in (m + 1)..(m + n)
      PROVE  stream'[i].frame = f /\ stream'[i].part <= Parts - (left - n)
  <2>1. PICK k \in 1..n : i = m + k
    <3>1. i - m \in 1..n /\ m + (i - m) = i
      BY <1>4
    <3> QED  BY <3>1
  <2>2. stream'[i] = [frame |-> f, part |-> Parts - left + k]
    BY <1>6, <2>1
  <2>3. Parts - left + k <= Parts - (left - n)
    BY <1>4
  <2> QED  BY <2>2, <2>3
<1>9. CASE n = left
  <2>1. Return(t, f, 0)
    BY <1>1, <1>3, <1>9
  <2>2. \A i \in (Len(stream) + 1)..Len(stream') : stream'[i].frame = f
    BY <1>5, <1>6, <1>8
  <2>3. \E i \in DOMAIN stream' : stream'[i] = [frame |-> f, part |-> Parts]
    <3>1. n \in 1..n /\ Parts - left + n = Parts /\ m + n \in 1..(m + n)
      BY <1>4, <1>9
    <3> QED  BY <1>6, <1>7, <3>1
  <2> QED  BY <1>3, <1>4, <1>6, <2>1, <2>2, <2>3, ReportReturns
<1>10. CASE n # left
  <2>1. call' = [call EXCEPT ![t].left = left - n] /\ result' = result
    BY <1>1, <1>3, <1>10
  <2>2. DOMAIN call = Thread
    BY DEF PacketIOTypeOK
  <2>3. /\ call'[t].pc = "write" /\ call'[t].frame = f /\ call'[t].left = left - n
        /\ \A u \in Thread : u # t => call'[u] = call[u]
    BY <1>2, <1>3, <2>1, <2>2 DEF Busy
  <2>4. FreshInCall'
    BY <1>4, <2>1, <2>3 DEF ReportInv, FreshInCall
  <2>5. PartsAccounted'
    <3>1. ASSUME NEW i \in DOMAIN stream, stream[i].frame \notin DOMAIN result
          PROVE  \E u \in Thread : /\ call'[u].pc = "write" /\ call'[u].frame = stream[i].frame
                                    /\ stream[i].part <= Parts - call'[u].left
      <4>1. PICK u \in Thread : /\ call[u].pc = "write" /\ call[u].frame = stream[i].frame
                                /\ stream[i].part <= Parts - call[u].left
        BY <3>1 DEF ReportInv, PartsAccounted
      <4>2. CASE u # t
        BY <2>3, <4>1, <4>2
      <4>3. CASE u = t
        <5>1. stream[i].part \in Int
          <6>1. stream \in Seq(Part)
            BY DEF PacketIOTypeOK
          <6>2. stream[i] \in Part
            BY <6>1
          <6> QED  BY <1>4, <6>2 DEF Part
        <5>2. stream[i].part <= Parts - (left - n)
          BY <1>3, <1>4, <4>1, <4>3, <5>1
        <5> QED  BY <1>3, <2>3, <4>1, <4>3, <5>2
      <4> QED  BY <4>2, <4>3
    <3>2. \A i \in (m + 1)..(m + n) :
             stream'[i].frame = f /\ stream'[i].part <= Parts - (left - n)
      BY <1>8
    <3>3. \A i \in DOMAIN stream' : i \in DOMAIN stream \/ i \in (m + 1)..(m + n)
      BY <1>4, <1>7
    <3> QED  BY <1>7, <2>1, <2>3, <3>1, <3>2, <3>3 DEF PartsAccounted
  <2>6. SuccessMeansSent'
    <3>1. ASSUME NEW g \in DOMAIN result, NEW i \in DOMAIN stream',
                 stream'[i] = [frame |-> g, part |-> Parts]
          PROVE  i \in DOMAIN stream
      <4>1. CASE i \in (m + 1)..(m + n)
        <5>1. stream'[i].frame = g
          BY <3>1
        <5>2. stream'[i].frame = f
          BY <1>8, <4>1
        <5> QED  BY <1>4, <5>1, <5>2
      <4> QED  BY <1>4, <1>7, <4>1
    <3>2. DOMAIN stream \subseteq DOMAIN stream'
      BY <1>4, <1>7
    <3> QED  BY <1>7, <2>1, <3>1, <3>2 DEF ReportInv, SuccessMeansSent
  <2> QED  BY <2>4, <2>5, <2>6 DEF ReportInv
<1> QED  BY <1>9, <1>10

\* Every step keeps the results true.
LEMMA ReportNext ==
    ASSUME PacketIOTypeOK, ReportInv, [Next]_vars
    PROVE  ReportInv'
<1>0. ASSUME stream' = stream
      PROVE  /\ stream' \in Seq(Part) /\ Extends(stream, stream')
             /\ \A f : \A i \in (Len(stream) + 1)..Len(stream') : stream'[i].frame = f
  BY <1>0 DEF PacketIOTypeOK, Extends
\* An error is returned for a frame of which nothing, or not all, was sent.
<1>1. ASSUME NEW t \in Thread, NEW f \in Frames, f.by = t, f \notin DOMAIN result,
             stream' = stream, Return(t, f, -1), call[t].pc # "idle" => call[t].frame = f
      PROVE  ReportInv'
  <2>1. ASSUME NEW i \in DOMAIN stream, stream[i] = [frame |-> f, part |-> Parts] PROVE FALSE
    <3>1. call[t].pc = "write" /\ stream[i].part <= Parts - call[t].left
      BY <1>1, <2>1, NotYetSent
    <3>2. call[t].left \in 1..Parts /\ Parts \in Nat
      BY <3>1, InCall, PacketIOAssumption DEF Busy
    <3> QED  BY <2>1, <3>1, <3>2
  <2>2. ~ \E i \in DOMAIN stream' : stream'[i] = [frame |-> f, part |-> Parts]
    BY <1>1, <2>1
  <2> QED  BY <1>0, <1>1, <2>2, ReportReturns
<1>2. ASSUME NEW t \in Thread, NEW f \in Frames, Begin(t, f)
      PROVE  ReportInv'
  <2>1. /\ stream' = stream /\ call[t].pc = "idle" /\ f.by = t /\ f \notin DOMAIN result
    BY <1>2 DEF Begin, Fresh, At
  <2>2. CASE Return(t, f, -1)
    BY <1>1, <2>1, <2>2
  <2>3. ASSUME NEW place \in {"log", "check"}, Enter(t, place, f), result' = result
        PROVE  ReportInv'
    <3> DEFINE c == [pc |-> place, frame |-> f, left |-> Parts]
    <3>1. c \in Busy(t) /\ c.frame = f
      BY <2>1, NextCalls
    <3>2. call' = [call EXCEPT ![t] = c]
      BY <2>3 DEF Enter
    <3> HIDE DEF c
    <3> QED  BY <2>1, <2>3, <3>1, <3>2, ReportGoesOn
  <2> QED  BY <1>2, <2>2, <2>3 DEF Begin
<1>3. ASSUME NEW t \in Thread, call[t].pc # "idle"
      PROVE  /\ call[t] \in Busy(t) /\ call[t].frame \in Frames /\ call[t].frame.by = t
             /\ call[t].frame \notin DOMAIN result
  BY <1>3, InCall DEF Busy, ReportInv, FreshInCall
<1>4. ASSUME NEW t \in Thread, NEW place \in {"logdata", "check", "write"},
             call[t].pc \in {"log", "logdata", "check"},
             call' = [call EXCEPT ![t].pc = place], result' = result, stream' = stream
      PROVE  ReportInv'
  <2> DEFINE c == [call[t] EXCEPT !.pc = place]
  <2>1. /\ call[t] \in Busy(t) /\ call[t].frame \notin DOMAIN result /\ DOMAIN call = Thread
    BY <1>3, <1>4 DEF PacketIOTypeOK
  <2>2. c \in Busy(t)
    BY <1>4, <2>1, NextCalls
  <2>3. c.frame = call[t].frame
    BY <2>1 DEF Busy
  <2>4. call' = [call EXCEPT ![t] = c]
    BY <1>4, <2>1
  <2> HIDE DEF c
  <2> QED  BY <1>4, <2>1, <2>2, <2>3, <2>4, ReportGoesOn
<1>5. ASSUME NEW t \in Thread, LogHeader(t) \/ LogData(t)
      PROVE  ReportInv'
  BY <1>4, <1>5 DEF LogHeader, LogData, At
<1>6. ASSUME NEW t \in Thread, WriteFails(t)
      PROVE  ReportInv'
  <2>1. stream' = stream /\ call[t].pc # "idle" /\ Return(t, call[t].frame, -1)
    BY <1>6 DEF WriteFails, At
  <2> QED  BY <1>1, <1>3, <2>1
<1>7. ASSUME NEW t \in Thread, Check(t)
      PROVE  ReportInv'
  <2>1. stream' = stream /\ call[t].pc = "check"
    BY <1>7 DEF Check, At
  <2>2. CASE call[t].frame.dir = "in"
    <3>1. Return(t, call[t].frame, 0)
      BY <1>7, <2>2 DEF Check
    <3> QED  BY <1>0, <1>3, <2>1, <2>2, <3>1, ReportReturns
  <2>3. CASE Return(t, call[t].frame, -1)
    BY <1>1, <1>3, <2>1, <2>3
  <2>4. CASE call' = [call EXCEPT ![t].pc = "write"] /\ result' = result
    BY <1>4, <2>1, <2>4
  <2> QED  BY <1>7, <2>2, <2>3, <2>4 DEF Check
<1>8. CASE UNCHANGED <<call, stream, logfile, result>>
  BY <1>8 DEF ReportInv, FreshInCall, PartsAccounted, SuccessMeansSent
<1> QED  BY <1>2, <1>5, <1>6, <1>7, <1>8, ReportWrite, StepCases

-----------------------------------------------------------------------------
(* The log.                                                                *)

LogInv ==
    /\ \A t \in Thread : LogInStep(t)
    /\ OwnRecordsWhole

\* A step that writes nothing to the log, of a thread between two records.
LEMMA LogQuiet ==
    ASSUME PacketIOTypeOK, LogInv, NEW t \in Thread, NEW c \in {Idle} \cup Busy(t),
           call' = [call EXCEPT ![t] = c], logfile' = logfile,
           call[t].pc # "logdata", c.pc # "logdata"
    PROVE  LogInv'
<1>1. /\ call'[t] = c
      /\ \A u \in Thread : u # t => call'[u] = call[u]
  BY CallChanged
<1>2. OwnRecordsWhole'
  BY DEF LogInv, OwnRecordsWhole, Precedes
<1>3. ASSUME NEW u \in Thread PROVE LogInStep(u)'
  <2>1. LogInStep(u)
    BY DEF LogInv
  <2>2. CASE u = t
    BY <1>1, <2>1, <2>2 DEF LogInStep, LastOf
  <2>3. CASE u # t
    BY <1>1, <2>1, <2>3 DEF LogInStep, LastOf
  <2> QED  BY <2>2, <2>3
<1> QED  BY <1>2, <1>3 DEF LogInv

\* sr_dump's two writes: the header goes where a record may start, and the
\* data behind the header of the same frame.
LEMMA LogWrite ==
    ASSUME PacketIOTypeOK, LogInv, NEW t \in Thread, LogHeader(t) \/ LogData(t)
    PROVE  LogInv'
<1>1. PICK w \in {"header", "data"}, c \in Busy(t) :
            /\ call[t] \in Busy(t)
            /\ w = "header" <=> call[t].pc # "logdata"
            /\ w = "header" <=> c.pc = "logdata"
            /\ c.frame = call[t].frame
            /\ call' = [call EXCEPT ![t] = c]
            /\ logfile' = Append(logfile, Record(w, call[t].frame))
  <2>1. CASE LogHeader(t)
    <3> DEFINE c == [call[t] EXCEPT !.pc = "logdata"]
    <3>1. /\ call[t] \in Busy(t) /\ call[t].pc = "log" /\ c \in Busy(t)
          /\ call' = [call EXCEPT ![t] = c]
      BY <2>1, CallSteps
    <3>2. c.frame = call[t].frame /\ c.pc = "logdata"
      BY <3>1 DEF Busy
    <3>3. logfile' = Append(logfile, Record("header", call[t].frame))
      BY <2>1 DEF LogHeader
    <3> HIDE DEF c
    <3> QED  BY <3>1, <3>2, <3>3
  <2>2. CASE LogData(t)
    <3> DEFINE c == [call[t] EXCEPT !.pc = "check"]
    <3>1. /\ call[t] \in Busy(t) /\ call[t].pc = "logdata" /\ c \in Busy(t)
          /\ call' = [call EXCEPT ![t] = c]
      BY <2>2, CallSteps
    <3>2. c.frame = call[t].frame /\ c.pc = "check"
      BY <3>1 DEF Busy
    <3>3. logfile' = Append(logfile, Record("data", call[t].frame))
      BY <2>2 DEF LogData
    <3> HIDE DEF c
    <3> QED  BY <3>1, <3>2, <3>3
  <2> QED  BY <2>1, <2>2
<1>2. PICK s, longer, f : s = logfile /\ longer = logfile' /\ f = call[t].frame
  OBVIOUS
<1>3. f \in Frames /\ f.by = t /\ Record(w, f) \in LogItem
  BY <1>1, <1>2 DEF Busy, LogItem
<1>4. s \in Seq(LogItem)
  BY <1>2 DEF PacketIOTypeOK
<1>5. PICK m \in Nat : m = Len(s)
  BY <1>4
<1>6. /\ longer \in Seq(LogItem) /\ Extends(s, longer)
      /\ Len(longer) = m + 1 /\ longer[m + 1] = Record(w, f)
  BY <1>1, <1>2, <1>3, <1>4, <1>5, AppendFacts
<1>7. DOMAIN s = 1..m /\ DOMAIN longer = 1..(m + 1)
  BY <1>4, <1>5, <1>6
<1>8. Record(w, f).frame = f /\ Record(w, f).what = w
  BY DEF Record
<1>9. \A i \in (Len(s) + 1)..Len(longer) : longer[i].frame.by = t
  BY <1>3, <1>5, <1>6, <1>8
<1>10. /\ call'[t] = c
       /\ \A u \in Thread : u # t => call'[u] = call[u]
  BY <1>1, CallChanged
<1>11. OwnRecordsWhole /\ \A u \in Thread : LogInStep(u)
  BY DEF LogInv
<1>12. \A j \in DOMAIN s : longer[j] = s[j] /\ j \in DOMAIN longer
  BY <1>5, <1>6, <1>7 DEF Extends
<1>13. IF w = "data"
       THEN \E i \in DOMAIN s : LastOf(s, t, i) /\ s[i] = Record("header", f)
       ELSE \A i \in DOMAIN s : LastOf(s, t, i) => s[i].what = "data"
  BY <1>1, <1>2, <1>11 DEF LogInStep
<1>14. ASSUME NEW i \in DOMAIN longer
       PROVE  IF longer[i].what = "header"
              THEN \A j \in DOMAIN longer :
                      Precedes(longer, j, i) => longer[j].what = "data"
              ELSE \E j \in DOMAIN longer :
                      /\ Precedes(longer, j, i)
                      /\ longer[j] = Record("header", longer[i].frame)
  <2>1. CASE i \in DOMAIN s
    <3>1. IF s[i].what = "header"
          THEN \A j \in DOMAIN s : Precedes(s, j, i) => s[j].what = "data"
          ELSE \E j \in DOMAIN s :
                  Precedes(s, j, i) /\ s[j] = Record("header", s[i].frame)
      BY <1>2, <1>11, <2>1 DEF OwnRecordsWhole
    <3>2. /\ longer[i] = s[i]
          /\ \A j : j \in DOMAIN longer /\ Precedes(longer, j, i)
                    <=> j \in DOMAIN s /\ Precedes(s, j, i)
      BY <1>4, <1>6, <2>1, PrecedesKept
    <3> QED  BY <1>12, <3>1, <3>2
  <2>2. CASE i = m + 1
    <3>1. longer[i].what = w /\ longer[i].frame = f
      BY <1>6, <1>8, <2>2
    <3>2. \A j : j \in DOMAIN longer /\ Precedes(longer, j, i)
                   <=> j \in DOMAIN s /\ LastOf(s, t, j)
      <4>1. Len(s) + 1 <= Len(longer) /\ i = Len(s) + 1
            /\ longer[Len(s) + 1].frame.by = t
        BY <1>3, <1>5, <1>6, <2>2, <3>1
      <4> QED  BY <1>4, <1>6, <4>1, FirstAdded
    <3> QED  BY <1>12, <1>13, <3>1, <3>2
  <2> QED  BY <1>7, <2>1, <2>2
<1>15. ASSUME NEW u \in Thread, u # t
       PROVE  IF call[u].pc = "logdata"
              THEN \E i \in DOMAIN longer :
                      /\ LastOf(longer, u, i)
                      /\ longer[i] = Record("header", call[u].frame)
              ELSE \A i \in DOMAIN longer : LastOf(longer, u, i) => longer[i].what = "data"
  <2>1. \A i : i \in DOMAIN longer /\ LastOf(longer, u, i)
                 <=> i \in DOMAIN s /\ LastOf(s, u, i)
    BY <1>4, <1>6, <1>9, <1>15, OthersLast
  <2> QED  BY <1>2, <1>11, <1>12, <1>15, <2>1 DEF LogInStep
<1>16. /\ m + 1 \in DOMAIN longer
       /\ LastOf(longer, t, m + 1)
       /\ \A i \in DOMAIN longer : LastOf(longer, t, i) => i = m + 1
  <2>1. longer[m + 1].frame.by = t
    BY <1>3, <1>6, <1>8
  <2> QED  BY <1>7, <2>1 DEF LastOf
<1>17. IF c.pc = "logdata"
       THEN \E i \in DOMAIN longer :
               LastOf(longer, t, i) /\ longer[i] = Record("header", c.frame)
       ELSE \A i \in DOMAIN longer : LastOf(longer, t, i) => longer[i].what = "data"
  BY <1>1, <1>2, <1>6, <1>8, <1>16
<1>18. ASSUME NEW u \in Thread PROVE LogInStep(u)'
  <2>1. CASE u = t
    BY <1>2, <1>10, <1>17, <2>1 DEF LogInStep, LastOf
  <2>2. CASE u # t
    BY <1>2, <1>10, <1>15, <2>2 DEF LogInStep, LastOf
  <2> QED  BY <2>1, <2>2
<1>19. OwnRecordsWhole'
  BY <1>2, <1>14 DEF OwnRecordsWhole, Precedes
<1> QED  BY <1>18, <1>19 DEF LogInv

\* Every step keeps each thread's records whole.
LEMMA LogNext ==
    ASSUME PacketIOTypeOK, LogInv, [Next]_vars
    PROVE  LogInv'
<1>1. ASSUME NEW t \in Thread, NEW f \in Frames, Begin(t, f)
      PROVE  LogInv'
  <2>1. PICK c \in {Idle} \cup Busy(t) :
              call' = [call EXCEPT ![t] = c] /\ c.pc \in {"idle", "log", "check"}
    BY <1>1, CallSteps
  <2>2. logfile' = logfile /\ call[t].pc # "logdata"
    BY <1>1 DEF Begin, Fresh, At
  <2> QED  BY <2>1, <2>2, LogQuiet
<1>2. ASSUME NEW t \in Thread, Check(t) \/ WriteFails(t) \/ Write(t)
      PROVE  LogInv'
  <2>1. PICK c \in {Idle} \cup Busy(t) :
              call' = [call EXCEPT ![t] = c] /\ c.pc # "logdata"
    <3>0. /\ Idle.pc # "logdata"
          /\ \A n : [call[t] EXCEPT !.left = n].pc = call[t].pc
          /\ call[t] \in Busy(t) => [call[t] EXCEPT !.pc = "write"].pc = "write"
      <4>1. call[t] \in Busy(t)
        BY <1>2, CallSteps
      <4> QED  BY <4>1 DEF Idle, Busy
    <3>1. CASE Check(t)
      <4>1. PICK c \in {Idle} \cup Busy(t) :
              /\ call[t] \in Busy(t) /\ call[t].pc = "check"
              /\ call' = [call EXCEPT ![t] = c]
              /\ c = Idle \/ c = [call[t] EXCEPT !.pc = "write"]
        BY <3>1, CallSteps
      <4>2. c.pc # "logdata"
        BY <3>0, <4>1
      <4> QED  BY <4>1, <4>2
    <3>2. CASE WriteFails(t)
      <4>1. call' = [call EXCEPT ![t] = Idle]
        BY <3>2, CallSteps
      <4> QED  BY <3>0, <4>1
    <3>3. CASE Write(t)
      <4>1. PICK n \in 1..call[t].left : \E c \in {Idle} \cup Busy(t) :
              /\ call[t] \in Busy(t) /\ call[t].pc = "write"
              /\ stream' = stream \o Taken(t, n)
              /\ call' = [call EXCEPT ![t] = c]
              /\ \/ n = call[t].left /\ c = Idle
                 \/ n < call[t].left /\ c = [call[t] EXCEPT !.left = call[t].left - n]
        BY <3>3, CallSteps
      <4>2. PICK c \in {Idle} \cup Busy(t) :
              /\ call[t].pc = "write"
              /\ call' = [call EXCEPT ![t] = c]
              /\ c = Idle \/ c = [call[t] EXCEPT !.left = call[t].left - n]
        BY <4>1, Zenon
      <4>3. c.pc # "logdata"
        BY <3>0, <4>2
      <4> QED  BY <4>2, <4>3
    <3> QED  BY <1>2, <3>1, <3>2, <3>3
  <2>2. logfile' = logfile /\ call[t].pc # "logdata"
    BY <1>2 DEF Check, WriteFails, Write, At
  <2> QED  BY <2>1, <2>2, LogQuiet
<1>3. CASE UNCHANGED <<call, stream, logfile, result>>
  BY <1>3 DEF LogInv, LogInStep, LastOf, OwnRecordsWhole, Precedes
<1> QED  BY <1>1, <1>2, <1>3, LogWrite, StepCases

\* The log only grows, and a log that is open was open before.
LEMMA LogGrows ==
    ASSUME PacketIOTypeOK, [Next]_vars
    PROVE  /\ logstate' = "open" => logstate = "open"
           /\ \A f \in Frames : Logged(logfile, f) => Logged(logfile', f)
<1>1. logstate' = "open" => logstate = "open"
  BY StepCases DEF Begin, LogHeader, LogData, Check, Write, WriteFails
<1>2. CASE logfile' = logfile
  BY <1>1, <1>2 DEF Logged
<1>3. ASSUME NEW t \in Thread, LogHeader(t) \/ LogData(t)
      PROVE  \A f \in Frames : Logged(logfile, f) => Logged(logfile', f)
  <2>1. PICK w \in {"header", "data"} :
              logfile' = Append(logfile, Record(w, call[t].frame))
    BY <1>3 DEF LogHeader, LogData
  <2>2. logfile \in Seq(LogItem)
    BY DEF PacketIOTypeOK
  <2>3. \A i \in DOMAIN logfile : i \in DOMAIN logfile' /\ logfile'[i] = logfile[i]
    BY <2>1, <2>2
  <2> QED  BY <2>3 DEF Logged
<1> QED  BY <1>1, <1>2, <1>3, StepCases DEF Begin, Check, Write, WriteFails

\* Only a frame that is in the log passes the header check or is written.
LEMMA LoggedNext ==
    ASSUME PacketIOTypeOK, LoggedBeforeUse, DOMAIN result \subseteq Frames, [Next]_vars
    PROVE  LoggedBeforeUse' /\ DOMAIN result' \subseteq Frames
<1>0. ASSUME NEW t \in Thread, call[t] \in Busy(t) PROVE call[t].frame \in Frames
  BY <1>0 DEF Busy
<1>1. DOMAIN result' \subseteq Frames
  <2>1. ASSUME NEW t \in Thread, NEW f \in Frames, Begin(t, f)
        PROVE  DOMAIN result' \subseteq Frames
    BY <2>1, CallSteps
  <2>2. ASSUME NEW t \in Thread, Check(t) \/ Write(t) \/ WriteFails(t)
        PROVE  DOMAIN result' \subseteq Frames
    <3>1. call[t].frame \in Frames
      BY <1>0, <2>2, CallSteps
    <3>2. \/ DOMAIN result' = DOMAIN result \cup {call[t].frame}
          \/ result' = result
      BY <2>2 DEF Check, Write, WriteFails, Return
    <3> QED  BY <3>1, <3>2
  <2> QED  BY <2>1, <2>2, StepCases DEF LogHeader, LogData
<1> SUFFICES ASSUME logstate' = "open" PROVE LoggedBeforeUse'
  BY <1>1 DEF LoggedBeforeUse
<1>2. logstate = "open" /\ \A f \in Frames : Logged(logfile, f) => Logged(logfile', f)
  BY LogGrows
<1>3. /\ \A t \in Thread : call[t].pc \in {"check", "write"} => Logged(logfile, call[t].frame)
      /\ \A f \in DOMAIN result : f.len >= EthernetHeader => Logged(logfile, f)
      /\ \A i \in DOMAIN stream : Logged(logfile, stream[i].frame)
  BY <1>2 DEF LoggedBeforeUse
<1>4. \A i \in DOMAIN stream : stream[i].frame \in Frames
  <2>1. stream \in Seq(Part)
    BY DEF PacketIOTypeOK
  <2>2. \A i \in DOMAIN stream : stream[i] \in Part
    BY <2>1
  <2> QED  BY <2>2 DEF Part
\* It is enough to look at the acting thread's call and at what is new.
<1>5. ASSUME NEW t \in Thread, NEW c \in {Idle} \cup Busy(t),
             call' = [call EXCEPT ![t] = c],
             c.pc \in {"check", "write"} => Logged(logfile', c.frame),
             \A f \in DOMAIN result' \ DOMAIN result :
                 f.len >= EthernetHeader => Logged(logfile', f),
             \A i \in DOMAIN stream' : Logged(logfile', stream'[i].frame)
      PROVE  LoggedBeforeUse'
  <2>1. /\ call'[t] = c
        /\ \A u \in Thread : u # t => call'[u] = call[u]
    BY <1>5, CallChanged
  <2>2. ASSUME NEW u \in Thread, call'[u].pc \in {"check", "write"}
        PROVE  Logged(logfile', call'[u].frame)
    <3>1. CASE u = t
      BY <1>5, <2>1, <2>2, <3>1
    <3>2. CASE u # t
      <4>1. call'[u] = call[u] /\ Logged(logfile, call[u].frame)
        BY <1>3, <2>1, <2>2, <3>2
      <4>2. call[u].frame \in Frames
        BY <1>0, <2>2, <4>1, InCall
      <4>3. Logged(logfile', call[u].frame)
        BY <1>2, <4>1, <4>2 DEF Logged
      <4> QED  BY <4>1, <4>3 DEF Logged
    <3> QED  BY <3>1, <3>2
  <2>3. ASSUME NEW f \in DOMAIN result', f.len >= EthernetHeader PROVE Logged(logfile', f)
    BY <1>2, <1>3, <1>5, <2>3
  <2> QED  BY <1>5, <2>2, <2>3 DEF LoggedBeforeUse, Logged
<1>6. ASSUME stream' = stream
      PROVE  \A i \in DOMAIN stream' : Logged(logfile', stream'[i].frame)
  BY <1>2, <1>3, <1>4, <1>6 DEF Logged
<1>7. ASSUME NEW t \in Thread, NEW f \in Frames, Begin(t, f)
      PROVE  LoggedBeforeUse'
  <2>1. PICK c \in {Idle} \cup Busy(t) :
              /\ call' = [call EXCEPT ![t] = c]
              /\ c.pc \in {"idle", "log", "check"}
              /\ c.pc = "check" => logstate = "none"
              /\ IF c.pc = "idle"
                 THEN f.len < EthernetHeader /\ DOMAIN result' = DOMAIN result \cup {f}
                 ELSE result' = result
    BY <1>7, CallSteps
  <2>2. stream' = stream
    BY <1>7 DEF Begin
  <2>3. f.len \in Nat /\ EthernetHeader \in Nat
    BY PacketIOAssumption DEF Frame
  <2>4. \A g \in DOMAIN result' \ DOMAIN result : ~(g.len >= EthernetHeader)
    BY <2>1, <2>3
  <2>5. c.pc \notin {"check", "write"}
    BY <1>2, <2>1
  <2> QED  BY <1>5, <1>6, <2>1, <2>2, <2>4, <2>5
<1>8. ASSUME NEW t \in Thread, LogHeader(t)
      PROVE  LoggedBeforeUse'
  <2>1. PICK c \in Busy(t) : c.pc = "logdata" /\ call' = [call EXCEPT ![t] = c]
    <3>1. /\ call[t] \in Busy(t)
          /\ [call[t] EXCEPT !.pc = "logdata"] \in Busy(t)
          /\ call' = [call EXCEPT ![t] = [call[t] EXCEPT !.pc = "logdata"]]
      BY <1>8, CallSteps
    <3>2. [call[t] EXCEPT !.pc = "logdata"].pc = "logdata"
      BY <3>1 DEF Busy
    <3> QED  BY <3>1, <3>2
  <2>2. stream' = stream /\ result' = result
    BY <1>8 DEF LogHeader
  <2> QED  BY <1>5, <1>6, <2>1, <2>2
<1>9. ASSUME NEW t \in Thread, LogData(t)
      PROVE  LoggedBeforeUse'
  <2>1. PICK c \in Busy(t) :
              /\ call[t] \in Busy(t)
              /\ c.frame = call[t].frame /\ call' = [call EXCEPT ![t] = c]
    <3>1. /\ call[t] \in Busy(t)
          /\ [call[t] EXCEPT !.pc = "check"] \in Busy(t)
          /\ call' = [call EXCEPT ![t] = [call[t] EXCEPT !.pc = "check"]]
      BY <1>9, CallSteps
    <3>2. [call[t] EXCEPT !.pc = "check"].frame = call[t].frame
      BY <3>1 DEF Busy
    <3> QED  BY <3>1, <3>2
  <2>2. stream' = stream /\ result' = result
        /\ logfile' = Append(logfile, Record("data", call[t].frame))
    BY <1>9 DEF LogData
  <2>3. logfile \in Seq(LogItem) /\ Record("data", call[t].frame) \in LogItem
    BY <1>0, <2>1 DEF PacketIOTypeOK, LogItem
  <2>4. /\ Len(logfile) + 1 \in DOMAIN logfile'
        /\ logfile'[Len(logfile) + 1] = Record("data", call[t].frame)
    BY <2>2, <2>3
  <2>5. Logged(logfile', c.frame)
    <3>1. logfile'[Len(logfile) + 1] = Record("data", c.frame)
      BY <2>1, <2>4
    <3> QED  BY <2>4, <3>1 DEF Logged
  <2> QED  BY <1>5, <1>6, <2>1, <2>2, <2>5
<1>10. ASSUME NEW t \in Thread, call[t] \in Busy(t), call[t].pc \in {"check", "write"}
       PROVE  Logged(logfile', call[t].frame) /\ \A f : f = call[t].frame => Logged(logfile', f)
  BY <1>0, <1>2, <1>3, <1>10
<1>11. ASSUME NEW t \in Thread, Check(t)
       PROVE  LoggedBeforeUse'
  <2>1. PICK c \in {Idle} \cup Busy(t) :
              /\ call[t] \in Busy(t) /\ call[t].pc = "check"
              /\ call' = [call EXCEPT ![t] = c]
              /\ \/ c = Idle /\ DOMAIN result' = DOMAIN result \cup {call[t].frame}
                 \/ c = [call[t] EXCEPT !.pc = "write"] /\ result' = result
    BY <1>11, CallSteps
  <2>2. c.pc \in {"check", "write"} => c.frame = call[t].frame
    BY <2>1 DEF Busy, Idle
  <2>3. \A f : f = call[t].frame => Logged(logfile', f)
    BY <1>10, <2>1
  <2>4. stream' = stream
    BY <1>11 DEF Check
  <2> QED  BY <1>5, <1>6, <2>1, <2>2, <2>3, <2>4
<1>12. ASSUME NEW t \in Thread, WriteFails(t)
       PROVE  LoggedBeforeUse'
  <2>1. /\ call[t] \in Busy(t) /\ call[t].pc = "write"
        /\ call' = [call EXCEPT ![t] = Idle]
        /\ DOMAIN result' = DOMAIN result \cup {call[t].frame}
    BY <1>12, CallSteps
  <2>2. \A f : f = call[t].frame => Logged(logfile', f)
    BY <1>10, <2>1
  <2>3. stream' = stream /\ Idle.pc \notin {"check", "write"}
    BY <1>12 DEF WriteFails, Idle
  <2> QED  BY <1>5, <1>6, <2>1, <2>2, <2>3
<1>13. ASSUME NEW t \in Thread, Write(t)
       PROVE  LoggedBeforeUse'
  <2>1. PICK n \in 1..call[t].left : \E c \in {Idle} \cup Busy(t) :
              /\ call[t] \in Busy(t) /\ call[t].pc = "write"
              /\ stream' = stream \o Taken(t, n)
              /\ call' = [call EXCEPT ![t] = c]
              /\ \/ /\ n = call[t].left
                    /\ c = Idle
                    /\ DOMAIN result' = DOMAIN result \cup {call[t].frame}
                 \/ /\ n < call[t].left
                    /\ c = [call[t] EXCEPT !.left = call[t].left - n]
                    /\ result' = result
    BY <1>13, CallSteps
  <2>2. PICK c \in {Idle} \cup Busy(t) :
              /\ call[t] \in Busy(t) /\ call[t].pc = "write"
              /\ stream' = stream \o Taken(t, n)
              /\ call' = [call EXCEPT ![t] = c]
              /\ \/ c = Idle /\ DOMAIN result' = DOMAIN result \cup {call[t].frame}
                 \/ c = [call[t] EXCEPT !.left = call[t].left - n] /\ result' = result
    BY <2>1, Zenon
  <2>3. c.pc \in {"check", "write"} => c.frame = call[t].frame
    BY <2>2 DEF Busy, Idle
  <2>4. \A f : f = call[t].frame => Logged(logfile', f)
    BY <1>10, <2>2
  <2>5. \A f \in DOMAIN result' \ DOMAIN result : Logged(logfile', f)
    BY <2>2, <2>4
  <2>6. ASSUME NEW i \in DOMAIN stream' PROVE Logged(logfile', stream'[i].frame)
    <3>1. /\ Extends(stream, stream') /\ stream' \in Seq(Part)
          /\ Len(stream') = Len(stream) + n
          /\ \A k \in 1..n : stream'[Len(stream) + k] =
                [frame |-> call[t].frame, part |-> Parts - call[t].left + k]
      BY <2>2, TakenFacts
    <3>2. Len(stream) \in Nat /\ DOMAIN stream = 1..Len(stream)
          /\ DOMAIN stream' = 1..(Len(stream) + n) /\ n \in Nat
      BY <2>2, <3>1 DEF PacketIOTypeOK, Busy
    <3>3. CASE i \in DOMAIN stream
      <4>1. stream'[i] = stream[i]
        BY <3>1, <3>2, <3>3 DEF Extends
      <4>2. Logged(logfile', stream[i].frame)
        BY <1>2, <1>3, <1>4, <3>3 DEF Logged
      <4> QED  BY <4>1, <4>2 DEF Logged
    <3>4. CASE i \notin DOMAIN stream
      <4>1. PICK k \in 1..n : i = Len(stream) + k
        <5>1. i - Len(stream) \in 1..n /\ i = Len(stream) + (i - Len(stream))
          BY <3>2, <3>4
        <5> QED  BY <5>1
      <4>2. stream'[i] = [frame |-> call[t].frame, part |-> Parts - call[t].left + k]
        BY <3>1, <4>1
      <4>3. stream'[i].frame = call[t].frame
        BY <4>2
      <4> QED  BY <2>4, <4>3
    <3> QED  BY <3>3, <3>4
  <2> QED  BY <1>5, <2>2, <2>3, <2>4, <2>5, <2>6
<1>14. CASE UNCHANGED <<call, stream, logfile, result>>
  BY <1>2, <1>3, <1>14 DEF LoggedBeforeUse, Logged
<1> QED  BY <1>7, <1>8, <1>9, <1>11, <1>12, <1>13, <1>14, StepCases

-----------------------------------------------------------------------------
(* The theorems.                                                           *)

PacketIOInv ==
    /\ PacketIOTypeOK
    /\ StreamInv
    /\ ReportInv
    /\ LogInv
    /\ LoggedBeforeUse
    /\ DOMAIN result \subseteq Frames

\* The invariant holds in every state of the program.
LEMMA PacketIOCorrect == Spec => []PacketIOInv
<1>1. Init => PacketIOInv
  <2> SUFFICES ASSUME Init PROVE PacketIOInv
    OBVIOUS
  <2>1. call = [t \in Thread |-> Idle] /\ stream = <<>> /\ logfile = <<>> /\ result = <<>>
    BY DEF Init
  <2>2. PacketIOTypeOK
    BY <2>1 DEF PacketIOTypeOK
  <2>3. \A t \in Thread : call[t].pc = "idle"
    BY <2>1 DEF Idle
  <2>4. DOMAIN stream = {} /\ DOMAIN logfile = {} /\ DOMAIN result = {}
    BY <2>1
  <2>5. StreamInv
    BY <2>3, <2>4 DEF StreamInv, StreamInStep, BreaksReported
  <2>6. ReportInv
    BY <2>3, <2>4 DEF ReportInv, FreshInCall, PartsAccounted, SuccessMeansSent
  <2>7. LogInv
    BY <2>3, <2>4 DEF LogInv, LogInStep, OwnRecordsWhole
  <2>8. LoggedBeforeUse
    BY <2>3, <2>4 DEF LoggedBeforeUse
  <2> QED  BY <2>2, <2>4, <2>5, <2>6, <2>7, <2>8 DEF PacketIOInv
<1>2. PacketIOInv /\ [Next]_vars => PacketIOInv'
  BY TypeNext, StreamNext, ReportNext, LogNext, LoggedNext DEF PacketIOInv, ReportInv
<1> QED  BY <1>1, <1>2, PTL DEF Spec

\* For any number of parts the kernel may cut a message into, wherever a write
\* comes back short and whenever the connection breaks: 0 is returned exactly
\* for the messages that are complete, and a thread goes on behind an
\* incomplete one only when it has returned -1 for it.
THEOREM MessagesCorrect == Spec => []ResultTellsStream
<1>1. PacketIOInv => ResultTellsStream
  BY DEF PacketIOInv, StreamInv, ReportInv, ResultTellsStream
<1> QED  BY <1>1, PacketIOCorrect, PTL

\* Each thread's own log records are whole and in order.
THEOREM RecordsCorrect == Spec => []OwnRecordsWhole
<1>1. PacketIOInv => OwnRecordsWhole
  BY DEF PacketIOInv, LogInv
<1> QED  BY <1>1, PacketIOCorrect, PTL

\* Whatever was refused for its header, and whatever the server got a part
\* of, is in the log by then.
THEOREM LogCorrect == Spec => []LogShowsIt
<1>1. PacketIOInv => LogShowsIt
  <2> SUFFICES ASSUME PacketIOInv, logstate = "open", NEW f \in Frames,
                      \/ f.len >= EthernetHeader /\ f \in DOMAIN result
                      \/ \E i \in DOMAIN stream : stream[i].frame = f
               PROVE  \E i \in DOMAIN logfile : logfile[i] = Record("data", f)
    BY DEF LogShowsIt
  <2> QED  BY DEF PacketIOInv, LoggedBeforeUse, Logged
<1> QED  BY <1>1, PacketIOCorrect, PTL

-----------------------------------------------------------------------------
(* The command reader.                                                     *)

Byte == Commands \X Nat

\* How many bytes of a command the server sends.
ByteCount(c) == IF c.len \in LengthBytes..MaxLength THEN c.len ELSE LengthBytes

LEMMA BytesFacts ==
    ASSUME NEW c \in Commands
    PROVE  /\ ByteCount(c) \in Nat /\ ByteCount(c) >= LengthBytes
           /\ LengthBytes \in Nat /\ LengthBytes > 0 /\ MaxLength \in Nat /\ c.len \in Int
           /\ Bytes(c) \in Seq(Byte) /\ Len(Bytes(c)) = ByteCount(c)
           /\ \A k \in 1..ByteCount(c) : Bytes(c)[k] = <<c, k>>
<1> DEFINE n == ByteCount(c)
<1>1. c.len \in Int /\ LengthBytes \in Nat /\ LengthBytes > 0 /\ MaxLength \in Nat
  BY CommandReaderAssumption
<1>2. n \in Nat /\ n >= LengthBytes
  BY <1>1 DEF ByteCount
<1>3. Bytes(c) = [k \in 1..n |-> <<c, k>>]
  BY DEF Bytes, ByteCount
<1> HIDE DEF n
<1>4. \A k \in 1..n : <<c, k>> \in Byte
  BY <1>2 DEF Byte
<1>5. Bytes(c) \in Seq(Byte) /\ Len(Bytes(c)) = n /\ \A k \in 1..n : Bytes(c)[k] = <<c, k>>
  BY <1>2, <1>3, <1>4
<1> QED  BY <1>1, <1>2, <1>5 DEF n

\* o is where the commands s end in the stream, and w is what is left of the
\* stream after its first p bytes.
Aligned(o, s, p, w) ==
    /\ o \in [0..Len(s) -> Nat]
    /\ \A i \in 1..Len(s) : o[i] = o[i - 1] + ByteCount(s[i])
    /\ \A i \in 0..Len(s) : o[i] <= o[Len(s)]
    /\ p + Len(w) = o[Len(s)]
    /\ \A i \in 1..Len(s) : \A k \in 1..ByteCount(s[i]) :
          o[i - 1] + k > p => w[o[i - 1] + k - p] = <<s[i], k>>

\* Another command is sent.
LEMMA AlignedSends ==
    ASSUME NEW s \in Seq(Commands), NEW w \in Seq(Byte), NEW p \in Nat, NEW o,
           Aligned(o, s, p, w), NEW c \in Commands
    PROVE  \E e : /\ Aligned(e, Append(s, c), p, w \o Bytes(c))
                  /\ \A i \in 0..Len(s) : e[i] = o[i]
<1> DEFINE n == Len(s)
           s2 == Append(s, c)
           w2 == w \o Bytes(c)
           b == ByteCount(c)
           e == [i \in 0..(n + 1) |-> IF i <= n THEN o[i] ELSE o[n] + b]
<1>1. n \in Nat /\ Len(w) \in Nat
  BY LenProperties
<1>2. b \in Nat /\ Bytes(c) \in Seq(Byte) /\ Len(Bytes(c)) = b /\ \A k \in 1..b : Bytes(c)[k] = <<c, k>>
  BY BytesFacts
<1>3. /\ s2 \in Seq(Commands) /\ Len(s2) = n + 1 /\ s2[n + 1] = c
      /\ \A i \in 1..n : s2[i] = s[i]
  BY AppendProperties
<1>4. /\ Len(w2) = Len(w) + b
      /\ \A j \in 1..Len(w) : w2[j] = w[j]
      /\ \A k \in 1..b : w2[Len(w) + k] = <<c, k>>
  <2>1. /\ Len(w2) = Len(w) + b
        /\ \A j \in 1..(Len(w) + b) : w2[j] = IF j <= Len(w) THEN w[j] ELSE Bytes(c)[j - Len(w)]
    BY <1>2, ConcatProperties
  <2> HIDE DEF w2, b
  <2>2. \A j \in 1..Len(w) : j \in 1..(Len(w) + b) /\ j <= Len(w)
    BY <1>1, <1>2
  <2>3. \A k \in 1..b : /\ Len(w) + k \in 1..(Len(w) + b) /\ ~(Len(w) + k <= Len(w))
                        /\ (Len(w) + k) - Len(w) = k
    BY <1>1, <1>2
  <2> QED  BY <1>2, <2>1, <2>2, <2>3
<1>5. /\ o \in [0..n -> Nat] /\ p + Len(w) = o[n]
      /\ \A i \in 1..n : o[i] = o[i - 1] + ByteCount(s[i])
      /\ \A i \in 0..n : o[i] <= o[n]
      /\ \A i \in 1..n : \A k \in 1..ByteCount(s[i]) :
            o[i - 1] + k > p => w[o[i - 1] + k - p] = <<s[i], k>>
  BY DEF Aligned
<1> HIDE DEF n, s2, w2, b
<1>6. /\ \A i \in 0..n : i \in 0..(n + 1) /\ i <= n
      /\ \A i \in 1..n : i \in 0..n /\ i - 1 \in 0..n
      /\ n \in 0..n /\ n + 1 \in 0..(n + 1) /\ ~(n + 1 <= n) /\ (n + 1) - 1 = n
      /\ \A i \in 0..(n + 1) : i \in 0..n \/ i = n + 1
      /\ \A i \in 1..(n + 1) : i \in 1..n \/ i = n + 1
  BY <1>1
<1>7. /\ e[n + 1] = o[n] + b /\ o[n] \in Nat
      /\ \A i \in 0..n : e[i] = o[i] /\ o[i] \in Nat
  BY <1>5, <1>6
<1>8. e \in [0..(n + 1) -> Nat]
  BY <1>2, <1>5, <1>6, <1>7
<1> HIDE DEF e
<1>9. ASSUME NEW i \in 1..(n + 1) PROVE e[i] = e[i - 1] + ByteCount(s2[i])
  <2>1. CASE i \in 1..n
    BY <1>3, <1>5, <1>6, <1>7, <2>1
  <2>2. CASE i = n + 1
    BY <1>3, <1>6, <1>7, <2>2 DEF b
  <2> QED  BY <1>6, <2>1, <2>2
<1>10. ASSUME NEW i \in 0..(n + 1) PROVE e[i] <= e[n + 1]
  <2>1. CASE i \in 0..n
    BY <1>2, <1>5, <1>7, <2>1
  <2>2. CASE i = n + 1
    BY <1>2, <1>7, <2>2
  <2> QED  BY <1>6, <2>1, <2>2
<1>11. p + Len(w2) = e[n + 1]
  BY <1>1, <1>2, <1>4, <1>5, <1>7
<1>12. ASSUME NEW i \in 1..(n + 1), NEW k \in 1..ByteCount(s2[i]), e[i - 1] + k > p
       PROVE  w2[e[i - 1] + k - p] = <<s2[i], k>>
  <2>1. CASE i \in 1..n
    <3>1. /\ s2[i] = s[i] /\ e[i - 1] = o[i - 1] /\ o[i - 1] \in Nat /\ o[i] \in Nat
          /\ o[i] = o[i - 1] + ByteCount(s[i]) /\ o[i] <= o[n]
      BY <1>3, <1>5, <1>6, <1>7, <2>1
    <3>2. s[i] \in Commands /\ ByteCount(s[i]) \in Nat
      BY <2>1, ElementOfSeq, BytesFacts DEF n
    <3>3. w[o[i - 1] + k - p] = <<s[i], k>>
      BY <1>5, <1>12, <2>1, <3>1
    <3> DEFINE a == o[i - 1]
               j == a + k - p
    <3>4. j \in 1..Len(w)
      <4> HIDE DEF a
      <4>1. /\ k \in Nat /\ k >= 1 /\ a \in Nat /\ o[n] \in Nat /\ a + k > p /\ a + k <= o[n]
        BY <1>7, <1>12, <3>1, <3>2 DEF a
      <4>2. p + Len(w) = o[n]
        BY <1>5
      <4> QED  BY <1>1, <4>1, <4>2
    <3> QED  BY <1>4, <3>1, <3>3, <3>4
  <2>2. CASE i = n + 1
    <3>1. e[i - 1] = o[n] /\ s2[i] = c /\ k \in 1..b
      BY <1>3, <1>6, <1>7, <2>2 DEF b
    <3>2. o[n] + k - p = Len(w) + k
      BY <1>1, <1>2, <1>5, <3>1
    <3> QED  BY <1>4, <3>1, <3>2
  <2> QED  BY <1>6, <2>1, <2>2
<1>13. Aligned(e, s2, p, w2)
  BY <1>3, <1>8, <1>9, <1>10, <1>11, <1>12 DEF Aligned
<1> QED  BY <1>7, <1>13 DEF n, s2, w2

\* n more bytes are read.
LEMMA AlignedReads ==
    ASSUME NEW s \in Seq(Commands), NEW w \in Seq(Byte), NEW p \in Nat, NEW o,
           Aligned(o, s, p, w), NEW n \in 1..Len(w)
    PROVE  Aligned(o, s, p + n, SubSeq(w, n + 1, Len(w)))
<1> DEFINE v == SubSeq(w, n + 1, Len(w))
<1>1. Len(w) \in Nat /\ Len(s) \in Nat /\ n \in Nat
  BY LenProperties
<1>2. /\ Len(v) = Len(w) - n
      /\ \A j \in 1..(Len(w) - n) : v[j] = w[n + j]
  BY <1>1
<1> HIDE DEF v
<1>3. /\ o \in [0..Len(s) -> Nat] /\ p + Len(w) = o[Len(s)]
      /\ \A i \in 1..Len(s) : o[i] = o[i - 1] + ByteCount(s[i])
      /\ \A i \in 0..Len(s) : o[i] <= o[Len(s)]
      /\ \A i \in 1..Len(s) : \A k \in 1..ByteCount(s[i]) :
            o[i - 1] + k > p => w[o[i - 1] + k - p] = <<s[i], k>>
  BY DEF Aligned
<1>4. (p + n) + Len(v) = o[Len(s)]
  BY <1>1, <1>2, <1>3
<1>5. ASSUME NEW i \in 1..Len(s), NEW k \in 1..ByteCount(s[i]), o[i - 1] + k > p + n
      PROVE  v[o[i - 1] + k - (p + n)] = <<s[i], k>>
  <2>1. ByteCount(s[i]) \in Nat
    BY ElementOfSeq, BytesFacts
  <2>2. i \in 0..Len(s) /\ i - 1 \in 0..Len(s) /\ Len(s) \in 0..Len(s)
    BY <1>1
  <2>3. o[i - 1] \in Nat /\ o[i] \in Nat /\ o[Len(s)] \in Nat /\ o[i] <= o[Len(s)]
    BY <1>3, <2>2
  <2>4. o[i] = o[i - 1] + ByteCount(s[i])
    BY <1>3
  <2> DEFINE a == o[i - 1]
             j == a + k - (p + n)
  <2> HIDE DEF a
  <2>5. k \in Nat /\ k <= ByteCount(s[i]) /\ a \in Nat /\ a + k > p + n /\ a + k <= o[Len(s)]
    BY <1>5, <2>1, <2>3, <2>4 DEF a
  <2>6. j \in 1..(Len(w) - n) /\ n + j = a + k - p /\ a + k > p
    BY <1>1, <1>3, <2>3, <2>5
  <2>7. w[a + k - p] = <<s[i], k>>
    BY <1>3, <2>6 DEF a
  <2>8. v[j] = w[n + j]
    BY <1>2, <2>6
  <2> QED  BY <2>6, <2>7, <2>8 DEF a
<1>6. Aligned(o, s, p + n, v)
  BY <1>3, <1>4, <1>5 DEF Aligned
<1> QED  BY <1>6 DEF v

-----------------------------------------------------------------------------
(* The inductive invariant of the reader.                                  *)

ReaderTypeOK ==
    /\ sent \in Seq(Commands)
    /\ wire \in Seq(Byte)
    /\ connection \in {"up", "closed", "lost"}
    /\ pc \in {"length", "body", "failed"}
    /\ buf \in Seq(Byte)
    /\ received \in Seq(Seq(Byte))

\* What was handed on is what was sent.
HandedOnInv ==
    /\ Len(received) <= Len(sent)
    /\ \A i \in 1..Len(received) : received[i] = Bytes(sent[i])

\* The buffer holds the beginning of the next command.
BufInv ==
    /\ Len(buf) > 0 =>
          /\ Len(received) < Len(sent)
          /\ Len(buf) <= ByteCount(sent[Len(received) + 1])
    /\ \A k \in 1..Len(buf) : buf[k] = <<sent[Len(received) + 1], k>>
    /\ pc = "length" => Len(buf) <= LengthBytes
    /\ pc = "body" => /\ Len(buf) >= LengthBytes
                      /\ InRange(sent[Len(received) + 1].len)

\* The wire holds the rest of the commands, unless they were lost.
WireInv ==
    \/ connection # "up" /\ wire = <<>>
    \/ \E o : Aligned(o, sent, o[Len(received)] + Len(buf), wire)

ReaderInv == ReaderTypeOK /\ HandedOnInv /\ BufInv /\ WireInv /\ FailsForCause

LEMMA ReaderLengths ==
    ASSUME ReaderTypeOK
    PROVE  /\ Len(sent) \in Nat /\ Len(wire) \in Nat /\ Len(buf) \in Nat /\ Len(received) \in Nat
           /\ LengthBytes \in Nat /\ LengthBytes > 0 /\ MaxLength \in Nat
           /\ \A i \in 1..Len(sent) : sent[i] \in Commands
BY CommandReaderAssumption, LenProperties, ElementOfSeq DEF ReaderTypeOK

\* The next command, when the buffer is not empty, and its length.
LEMMA NextCommand ==
    ASSUME ReaderTypeOK, BufInv, Len(buf) > 0
    PROVE  LET c == sent[Len(received) + 1]
           IN  /\ c \in Commands /\ Len(received) + 1 \in 1..Len(sent)
               /\ Len(buf) >= LengthBytes => Length = c.len
               /\ c.len \in Int
               /\ ByteCount(c) \in Nat /\ ByteCount(c) >= LengthBytes
               /\ Len(buf) <= ByteCount(c)
<1> DEFINE c == sent[Len(received) + 1]
<1>1. Len(received) < Len(sent) /\ Len(buf) <= ByteCount(c) /\ \A k \in 1..Len(buf) : buf[k] = <<c, k>>
  BY DEF BufInv
<1>2. Len(received) + 1 \in 1..Len(sent) /\ 1 \in 1..Len(buf)
  BY <1>1, ReaderLengths
<1>3. c \in Commands
  BY <1>2, ReaderLengths
<1> HIDE DEF c
<1>4. buf[1] = <<c, 1>>
  BY <1>1, <1>2
<1>5. ASSUME Len(buf) >= LengthBytes PROVE Length = c.len
  <2>1. 1..LengthBytes \subseteq 1..Len(buf)
    BY <1>5, ReaderLengths
  <2>2. \A k \in 1..LengthBytes : buf[k] = <<c, k>>
    BY <1>1, <2>1
  <2>3. buf[1][1] = c
    BY <1>4
  <2> QED  BY <2>2, <2>3 DEF Length
<1> QED  BY <1>1, <1>2, <1>3, <1>5, BytesFacts DEF c

LEMMA ReaderInvInit == ReaderInit => ReaderInv
<1> SUFFICES ASSUME ReaderInit PROVE ReaderInv
  OBVIOUS
<1>1. /\ sent = <<>> /\ wire = <<>> /\ connection = "up" /\ pc = "length" /\ buf = <<>>
      /\ received = <<>> /\ LengthBytes \in Nat
  BY CommandReaderAssumption DEF ReaderInit
<1>2. ReaderTypeOK
  BY <1>1 DEF ReaderTypeOK
<1>3. HandedOnInv /\ BufInv /\ FailsForCause
  BY <1>1 DEF HandedOnInv, BufInv, FailsForCause
<1>4. WireInv
  <2> DEFINE o == [i \in 0..0 |-> 0]
  <2>1. o[0] = 0 /\ Len(sent) = 0 /\ Len(received) = 0 /\ Len(buf) = 0 /\ Len(wire) = 0
    BY <1>1
  <2>2. o \in [0..Len(sent) -> Nat]
    BY <2>1
  <2>3. o[Len(received)] = 0 /\ o[Len(sent)] = 0
    BY <2>1
  <2> HIDE DEF o
  <2>4. Aligned(o, sent, o[Len(received)] + Len(buf), wire)
    BY <2>1, <2>2, <2>3 DEF Aligned
  <2> QED  BY <2>4 DEF WireInv
<1> QED  BY <1>2, <1>3, <1>4 DEF ReaderInv

LEMMA SendsKeep ==
    ASSUME ReaderInv, NEW c \in Commands, ServerSends(c)
    PROVE  ReaderInv'
<1> DEFINE r == Len(received)
           n == Len(sent)
<1>1. /\ connection = "up" /\ sent' = Append(sent, c) /\ wire' = wire \o Bytes(c)
      /\ UNCHANGED <<connection, pc, buf, received>>
  BY DEF ServerSends
<1>2. ReaderTypeOK /\ HandedOnInv /\ BufInv /\ WireInv /\ FailsForCause
  BY DEF ReaderInv
<1>3. n \in Nat /\ Len(buf) \in Nat /\ r \in Nat /\ r <= n
  BY <1>2, ReaderLengths DEF HandedOnInv
<1>4. /\ sent' \in Seq(Commands) /\ Len(sent') = n + 1
      /\ \A i \in 1..n : sent'[i] = sent[i]
  BY <1>1, <1>2, AppendProperties DEF ReaderTypeOK
<1>5. ReaderTypeOK'
  <2>1. wire' \in Seq(Byte)
    BY <1>1, <1>2, BytesFacts, ConcatProperties DEF ReaderTypeOK
  <2> QED  BY <1>1, <1>2, <1>4, <2>1 DEF ReaderTypeOK
<1>6. r < n => sent'[r + 1] = sent[r + 1]
  BY <1>3, <1>4
<1>7. HandedOnInv'
  <2>1. \A i \in 1..r : i \in 1..n
    BY <1>3
  <2>2. r <= n + 1
    BY <1>3
  <2>3. \A i \in 1..r : received[i] = Bytes(sent'[i])
    BY <1>2, <1>4, <2>1 DEF HandedOnInv
  <2> QED  BY <1>1, <1>4, <2>2, <2>3 DEF HandedOnInv
<1>8. BufInv'
  <2>1. CASE Len(buf) > 0
    <3>1. r < n /\ sent'[r + 1] = sent[r + 1] /\ r < n + 1
      BY <1>2, <1>3, <1>6, <2>1 DEF BufInv
    <3> QED  BY <1>1, <1>2, <1>4, <3>1 DEF BufInv
  <2>2. CASE ~(Len(buf) > 0)
    <3>1. pc # "body"
      BY <1>2, <1>3, <2>2, ReaderLengths DEF BufInv
    <3>2. 1..Len(buf) = {}
      BY <1>3, <2>2
    <3> QED  BY <1>1, <1>2, <2>2, <3>1, <3>2 DEF BufInv
  <2> QED  BY <2>1, <2>2
<1>9. WireInv'
  <2>1. PICK o : Aligned(o, sent, o[r] + Len(buf), wire)
    BY <1>1, <1>2 DEF WireInv
  <2>2. r \in 0..n /\ o[r] + Len(buf) \in Nat
    BY <1>3, <2>1 DEF Aligned
  <2>3. PICK e : /\ Aligned(e, Append(sent, c), o[r] + Len(buf), wire \o Bytes(c))
                 /\ \A i \in 0..n : e[i] = o[i]
    BY <1>2, <2>1, <2>2, AlignedSends DEF ReaderTypeOK
  <2>4. e[r] = o[r]
    BY <2>2, <2>3
  <2>5. Aligned(e, sent', e[r] + Len(buf), wire')
    BY <1>1, <2>3, <2>4
  <2> QED  BY <1>1, <2>5 DEF WireInv
<1>10. FailsForCause'
  <2>1. r < n => r < n + 1
    BY <1>3
  <2> QED  BY <1>1, <1>2, <1>4, <1>6, <2>1 DEF FailsForCause
<1> QED  BY <1>5, <1>7, <1>8, <1>9, <1>10 DEF ReaderInv

LEMMA StopsKeep ==
    ASSUME ReaderInv, ServerStops
    PROVE  ReaderInv'
<1>1. /\ UNCHANGED <<sent, pc, buf, received>> /\ connection = "up"
      /\ \/ connection' = "closed" /\ wire' = wire
         \/ connection' = "lost" /\ (wire' = wire \/ wire' = <<>>)
  BY DEF ServerStops
<1>2. ReaderTypeOK /\ HandedOnInv /\ BufInv /\ WireInv /\ FailsForCause
  BY DEF ReaderInv
<1>3. ReaderTypeOK'
  <2>1. <<>> \in Seq(Byte)
    OBVIOUS
  <2> QED  BY <1>1, <1>2, <2>1 DEF ReaderTypeOK
<1>4. HandedOnInv' /\ BufInv' /\ FailsForCause'
  BY <1>1, <1>2 DEF HandedOnInv, BufInv, FailsForCause
<1>5. WireInv'
  <2>1. \E o : Aligned(o, sent, o[Len(received)] + Len(buf), wire)
    BY <1>1, <1>2 DEF WireInv
  <2> QED  BY <1>1, <2>1 DEF WireInv
<1> QED  BY <1>3, <1>4, <1>5 DEF ReaderInv

\* A read never reaches beyond the end of the command it is reading.
LEMMA RecvKeeps ==
    ASSUME ReaderInv, Recv
    PROVE  ReaderInv'
<1> DEFINE r == Len(received)
           b == Len(buf)
           c == sent[r + 1]
           m == ByteCount(c)
<1>1. PICK n \in 1..Wanted :
          /\ n <= Len(wire)
          /\ buf' = buf \o SubSeq(wire, 1, n)
          /\ wire' = SubSeq(wire, n + 1, Len(wire))
  BY DEF Recv
<1>2. pc \in {"length", "body"} /\ Wanted > 0 /\ UNCHANGED <<sent, connection, pc, received>>
  BY DEF Recv
<1>3. ReaderTypeOK /\ HandedOnInv /\ BufInv /\ WireInv /\ FailsForCause
  BY DEF ReaderInv
<1>4. /\ Len(sent) \in Nat /\ Len(wire) \in Nat /\ b \in Nat /\ r \in Nat /\ r <= Len(sent)
      /\ LengthBytes \in Nat /\ LengthBytes > 0 /\ MaxLength \in Nat
      /\ \A i \in 1..Len(sent) : sent[i] \in Commands
  BY <1>3, ReaderLengths DEF HandedOnInv
<1>5. pc = "body" => b > 0 /\ Wanted = c.len - b /\ InRange(c.len) /\ b >= LengthBytes
  <2>1. pc = "body" => b >= LengthBytes /\ InRange(c.len)
    BY <1>3 DEF BufInv
  <2>2. pc = "body" => Wanted = Length - b
    BY DEF Wanted
  <2>3. b >= LengthBytes => Length = c.len
    BY <1>3, <1>4, NextCommand
  <2> QED  BY <1>4, <2>1, <2>2, <2>3
<1>6. pc = "length" => Wanted = LengthBytes - b
  BY DEF Wanted
<1>7. n \in Nat /\ n >= 1 /\ n <= Wanted /\ n <= Len(wire)
  <2>1. Wanted \in Int
    <3>1. b > 0 => c.len \in Int
      BY <1>3, NextCommand
    <3> QED  BY <1>2, <1>4, <1>5, <1>6, <3>1
  <2> HIDE DEF b, c
  <2> QED  BY <1>1, <2>1
<1>8. wire # <<>> /\ Len(wire) >= 1
  BY <1>4, <1>7
<1>9. PICK o : Aligned(o, sent, o[r] + b, wire)
  BY <1>3, <1>8 DEF WireInv
<1>10. /\ o \in [0..Len(sent) -> Nat] /\ r \in 0..Len(sent) /\ o[r] \in Nat
       /\ o[r] + b + Len(wire) = o[Len(sent)]
  BY <1>4, <1>9 DEF Aligned
<1>11. r < Len(sent)
  BY <1>4, <1>7, <1>10
<1>12. c \in Commands /\ m \in Nat /\ m >= LengthBytes /\ c.len \in Int /\ r + 1 \in 1..Len(sent)
  <2>1. r + 1 \in 1..Len(sent)
    BY <1>4, <1>11
  <2>2. c \in Commands
    BY <1>4, <2>1
  <2> HIDE DEF c
  <2> QED  BY <2>1, <2>2, BytesFacts
<1>13. b + n <= m
  <2>1. CASE pc = "length"
    BY <1>4, <1>6, <1>7, <1>12, <2>1
  <2>2. CASE pc = "body"
    <3>1. b + n <= c.len /\ c.len <= MaxLength /\ c.len >= LengthBytes
      <4> HIDE DEF b, c
      <4> QED  BY <1>4, <1>5, <1>7, <1>12, <2>2 DEF InRange
    <3>2. m = c.len
      BY <1>4, <1>12, <3>1 DEF ByteCount
    <3> QED  BY <3>1, <3>2
  <2> QED  BY <1>2, <2>1, <2>2
<1> DEFINE new == SubSeq(wire, 1, n)
<1>14. wire \in Seq(Byte) /\ buf \in Seq(Byte)
  BY <1>3 DEF ReaderTypeOK
<1>15. new \in Seq(Byte) /\ Len(new) = n /\ \A k \in 1..n : new[k] = wire[k]
  BY <1>4, <1>7, <1>14
<1>16. wire' \in Seq(Byte)
  <2>1. n + 1 \in 1..(Len(wire) + 1)
    BY <1>4, <1>7
  <2> QED  BY <1>1, <1>4, <1>14, <2>1
<1> HIDE DEF new
<1>17. /\ buf' \in Seq(Byte) /\ Len(buf') = b + n
       /\ \A k \in 1..(b + n) : buf'[k] = IF k <= b THEN buf[k] ELSE new[k - b]
  <2>1. buf' = buf \o new
    BY <1>1 DEF new
  <2>2. /\ buf' \in Seq(Byte) /\ Len(buf') = Len(buf) + Len(new)
        /\ \A k \in 1..(Len(buf) + Len(new)) :
              buf'[k] = IF k <= Len(buf) THEN buf[k] ELSE new[k - Len(buf)]
    BY <1>14, <1>15, <2>1, ConcatProperties
  <2> QED  BY <1>15, <2>2
<1>18. ReaderTypeOK'
  BY <1>2, <1>3, <1>16, <1>17 DEF ReaderTypeOK
<1>19. ASSUME NEW k \in 1..(b + n) PROVE buf'[k] = <<c, k>>
  <2>1. CASE k <= b
    <3>1. k \in 1..b
      BY <1>4, <2>1
    <3>2. buf[k] = <<c, k>>
      BY <1>3, <3>1 DEF BufInv
    <3> QED  BY <1>17, <2>1, <3>2
  <2>2. CASE ~(k <= b)
    <3> DEFINE p == o[r] + b
               j == k - b
    <3>1. j \in 1..n /\ k \in 1..m
      BY <1>4, <1>7, <1>12, <1>13, <2>2
    <3>2. buf'[k] = wire[j]
      BY <1>15, <1>17, <2>2, <3>1
    <3>3. \A i \in 1..Len(sent) : \A l \in 1..ByteCount(sent[i]) :
             o[i - 1] + l > p => wire[o[i - 1] + l - p] = <<sent[i], l>>
      BY <1>9 DEF Aligned
    <3>4. o[(r + 1) - 1] + k > p => wire[o[(r + 1) - 1] + k - p] = <<sent[r + 1], k>>
      <4> HIDE DEF p, b
      <4> QED  BY <1>12, <3>1, <3>3
    <3>5. (r + 1) - 1 = r
      BY <1>4
    <3>6. o[r] + k > p /\ o[r] + k - p = j
      <4> HIDE DEF r
      <4> QED  BY <1>4, <1>10, <2>2
    <3> QED  BY <3>2, <3>4, <3>5, <3>6
  <2> QED  BY <2>1, <2>2
<1>20. BufInv'
  <2>1. Len(buf') > 0 => Len(received') < Len(sent') /\ Len(buf') <= ByteCount(sent'[Len(received') + 1])
    BY <1>2, <1>11, <1>13, <1>17
  <2>2. \A k \in 1..Len(buf') : buf'[k] = <<sent'[Len(received') + 1], k>>
    BY <1>2, <1>17, <1>19
  <2>3. pc' = "length" => Len(buf') <= LengthBytes
    BY <1>2, <1>4, <1>6, <1>7, <1>17
  <2>4. pc' = "body" => Len(buf') >= LengthBytes /\ InRange(sent'[Len(received') + 1].len)
    <3>1. pc = "body" => b + n >= LengthBytes /\ InRange(c.len)
      BY <1>4, <1>5, <1>7
    <3> QED  BY <1>2, <1>17, <3>1
  <2> QED  BY <2>1, <2>2, <2>3, <2>4 DEF BufInv
<1>21. WireInv'
  <2>1. o[r] + b \in Nat /\ n \in 1..Len(wire)
    BY <1>4, <1>7, <1>10
  <2>2. Aligned(o, sent, (o[r] + b) + n, SubSeq(wire, n + 1, Len(wire)))
    <3> HIDE DEF b, r
    <3> QED  BY <1>3, <1>9, <2>1, AlignedReads DEF ReaderTypeOK
  <2>3. (o[r] + b) + n = o[r] + (b + n)
    BY <1>4, <1>7, <1>10
  <2>4. Aligned(o, sent', o[Len(received')] + Len(buf'), wire')
    BY <1>1, <1>2, <1>17, <2>2, <2>3
  <2> QED  BY <2>4 DEF WireInv
<1>22. HandedOnInv' /\ FailsForCause'
  BY <1>2, <1>3 DEF HandedOnInv, FailsForCause
<1> QED  BY <1>18, <1>20, <1>21, <1>22 DEF ReaderInv

LEMMA FailsKeeps ==
    ASSUME ReaderInv, RecvFails
    PROVE  ReaderInv'
BY DEF RecvFails, ReaderInv, ReaderTypeOK, HandedOnInv, BufInv, WireInv, FailsForCause

LEMMA CheckKeeps ==
    ASSUME ReaderInv, CheckLength
    PROVE  ReaderInv' /\ (pc' = "failed" => Len(received) < Len(sent))
<1> DEFINE c == sent[Len(received) + 1]
<1>1. /\ pc = "length" /\ Wanted = 0 /\ UNCHANGED <<sent, wire, buf, received>>
      /\ \/ InRange(Length) /\ pc' = "body" /\ connection' = connection
         \/ ~InRange(Length) /\ pc' = "failed" /\ connection' = "closed"
  BY DEF CheckLength
<1>2. ReaderTypeOK /\ HandedOnInv /\ BufInv /\ WireInv /\ FailsForCause
  BY DEF ReaderInv
<1>3. Len(buf) = LengthBytes /\ Len(buf) > 0 /\ MaxLength \in Nat
  BY <1>1, <1>2, ReaderLengths DEF Wanted
<1>4. /\ Length = c.len /\ c.len \in Int /\ Len(received) < Len(sent)
  BY <1>2, <1>3, NextCommand, ReaderLengths DEF BufInv
<1>5. ReaderTypeOK' /\ HandedOnInv'
  BY <1>1, <1>2 DEF ReaderTypeOK, HandedOnInv
<1>6. BufInv'
  <2>1. LengthBytes >= LengthBytes
    BY <1>2, ReaderLengths
  <2> QED  BY <1>1, <1>2, <1>3, <1>4, <2>1 DEF BufInv
<1>7. WireInv'
  BY <1>1, <1>2 DEF WireInv, ReaderTypeOK
<1>8. FailsForCause'
  <2>1. ~InRange(Length) => c.len \notin 0..MaxLength
    BY <1>3, <1>4 DEF InRange
  <2> QED  BY <1>1, <1>2, <1>4, <2>1 DEF FailsForCause
<1> QED  BY <1>1, <1>4, <1>5, <1>6, <1>7, <1>8 DEF ReaderInv

\* A command that is handed on is complete.
LEMMA HandOnFacts ==
    ASSUME ReaderInv, HandOn
    PROVE  /\ Len(received) + 1 \in 1..Len(sent)
           /\ buf = Bytes(sent[Len(received) + 1])
           /\ Len(buf) = ByteCount(sent[Len(received) + 1])
<1> DEFINE c == sent[Len(received) + 1]
           m == ByteCount(c)
           b == Len(buf)
<1>1. pc = "body" /\ Wanted <= 0
  BY DEF HandOn
<1>2. ReaderTypeOK /\ BufInv
  BY DEF ReaderInv
<1>3. b \in Nat /\ b >= LengthBytes /\ b > 0 /\ LengthBytes \in Nat /\ MaxLength \in Nat
  BY <1>1, <1>2, ReaderLengths DEF BufInv
<1>4. /\ c \in Commands /\ Len(received) + 1 \in 1..Len(sent) /\ Length = c.len /\ c.len \in Int
      /\ m \in Nat /\ m >= LengthBytes /\ b <= m
  BY <1>2, <1>3, NextCommand
<1>5. c.len <= b
  <2>1. Wanted = c.len - b
    BY <1>1, <1>4 DEF Wanted
  <2> HIDE DEF b, c
  <2> QED  BY <1>1, <1>3, <1>4, <2>1
<1>6. b = m
  <2> HIDE DEF b, c
  <2> QED  BY <1>3, <1>4, <1>5 DEF ByteCount
<1>7. Bytes(c) \in Seq(Byte) /\ Len(Bytes(c)) = m /\ \A k \in 1..m : Bytes(c)[k] = <<c, k>>
  BY <1>4, BytesFacts
<1>8. buf \in Seq(Byte) /\ \A k \in 1..b : buf[k] = <<c, k>>
  BY <1>2 DEF BufInv, ReaderTypeOK
<1> HIDE DEF m, c
<1>9. buf = Bytes(c)
  BY <1>6, <1>7, <1>8, SeqEqual
<1> QED  BY <1>4, <1>6, <1>9 DEF c, m

LEMMA HandOnKeeps ==
    ASSUME ReaderInv, HandOn
    PROVE  ReaderInv'
<1> DEFINE r == Len(received)
           c == sent[r + 1]
<1>1. /\ pc = "body" /\ received' = Append(received, buf) /\ buf' = <<>> /\ pc' = "length"
      /\ UNCHANGED <<sent, wire, connection>>
  BY DEF HandOn
<1>2. ReaderTypeOK /\ HandedOnInv /\ BufInv /\ WireInv /\ FailsForCause
  BY DEF ReaderInv
<1>3. r + 1 \in 1..Len(sent) /\ buf = Bytes(c) /\ Len(buf) = ByteCount(c)
  BY HandOnFacts
<1>4. r \in Nat /\ Len(sent) \in Nat /\ LengthBytes \in Nat /\ Len(buf) \in Nat
  BY <1>2, ReaderLengths
<1>5. /\ received' \in Seq(Seq(Byte)) /\ Len(received') = r + 1 /\ received'[r + 1] = buf
      /\ \A i \in 1..r : received'[i] = received[i]
  BY <1>1, <1>2, AppendProperties DEF ReaderTypeOK
<1>6. Len(buf') = 0 /\ buf' \in Seq(Byte)
  BY <1>1
<1>7. ReaderTypeOK'
  BY <1>1, <1>2, <1>5, <1>6 DEF ReaderTypeOK
<1>8. HandedOnInv'
  <2>1. ASSUME NEW i \in 1..(r + 1) PROVE received'[i] = Bytes(sent[i])
    <3>1. CASE i \in 1..r
      BY <1>2, <1>5, <3>1 DEF HandedOnInv
    <3>2. CASE i = r + 1
      BY <1>3, <1>5, <3>2
    <3> QED  BY <1>4, <3>1, <3>2
  <2>2. r + 1 <= Len(sent)
    BY <1>3, <1>4
  <2> QED  BY <1>1, <1>5, <2>1, <2>2 DEF HandedOnInv
<1>9. BufInv'
  BY <1>1, <1>4, <1>6 DEF BufInv
<1>10. WireInv'
  <2>1. CASE connection # "up" /\ wire = <<>>
    BY <1>1, <2>1 DEF WireInv
  <2>2. ASSUME NEW o, Aligned(o, sent, o[r] + Len(buf), wire) PROVE WireInv'
    <3>1. o[r + 1] = o[(r + 1) - 1] + ByteCount(sent[r + 1]) /\ o[r + 1] \in Nat
      <4>1. r + 1 \in 0..Len(sent)
        BY <1>3, <1>4
      <4> QED  BY <1>3, <2>2, <4>1 DEF Aligned
    <3>2. (r + 1) - 1 = r
      BY <1>4
    <3>3. o[r + 1] + 0 = o[r] + Len(buf)
      BY <1>3, <3>1, <3>2
    <3>4. Aligned(o, sent', o[Len(received')] + Len(buf'), wire')
      BY <1>1, <1>5, <1>6, <2>2, <3>3
    <3> QED  BY <3>4 DEF WireInv
  <2> QED  BY <1>2, <2>1, <2>2 DEF WireInv
<1>11. FailsForCause'
  BY <1>1 DEF FailsForCause
<1> QED  BY <1>7, <1>8, <1>9, <1>10, <1>11 DEF ReaderInv

LEMMA ReaderInvNext == ReaderInv /\ [ReaderNext]_readerVars => ReaderInv'
<1> SUFFICES ASSUME ReaderInv, [ReaderNext]_readerVars PROVE ReaderInv'
  OBVIOUS
<1>1. CASE UNCHANGED readerVars
  BY <1>1 DEF ReaderInv, ReaderTypeOK, HandedOnInv, BufInv, WireInv, FailsForCause, readerVars
<1>2. CASE RecvNothing \/ Failed
  BY <1>1, <1>2 DEF RecvNothing, Failed
<1> QED  BY <1>1, <1>2, SendsKeep, StopsKeep, RecvKeeps, FailsKeeps, CheckKeeps, HandOnKeeps
         DEF ReaderNext, Reader

\* At every place of the read loops: what was handed on, what is in the buffer
\* and what is still on the wire are, in this order, what the server sent, cut
\* at the boundaries of its commands.
THEOREM ReaderInvariant == ReaderSpec => []ReaderInv
BY ReaderInvInit, ReaderInvNext, PTL DEF ReaderSpec

\* For commands of every length, cut up by recv in every way: the reader gives
\* up only when the connection broke or the next command has a length out of
\* range.
THEOREM FailsCorrect == ReaderSpec => []FailsForCause
<1>1. ReaderInv => FailsForCause
  BY DEF ReaderInv
<1> QED  BY <1>1, ReaderInvariant, PTL

-----------------------------------------------------------------------------
(* The reader implements the safety part of Channel.                       *)

LEMMA ChannelInit == ReaderInit => Commanded!Init
BY DEF ReaderInit, Commanded!Init

LEMMA ChannelSend ==
    ASSUME ReaderInv, NEW c \in Commands, ServerSends(c)
    PROVE  Commanded!Next
<1> DEFINE out == [i \in DOMAIN sent |-> Bytes(sent[i])]
           m == Bytes(c)
<1>1. /\ sent \in Seq(Commands) /\ Len(sent) \in Nat
      /\ sent' = Append(sent, c) /\ UNCHANGED <<pc, received>>
  BY LenProperties DEF ReaderInv, ReaderTypeOK, ServerSends
<1>2. \A i \in 1..Len(sent) : Bytes(sent[i]) \in Seq(Byte)
  BY <1>1, ElementOfSeq, BytesFacts
<1>3. /\ DOMAIN sent = 1..Len(sent) /\ DOMAIN sent' = 1..(Len(sent) + 1)
      /\ sent'[Len(sent) + 1] = c /\ \A i \in 1..Len(sent) : sent'[i] = sent[i]
  BY <1>1, AppendProperties, LenProperties
<1>4. out \in Seq(Seq(Byte)) /\ Len(out) = Len(sent)
  BY <1>1, <1>2, <1>3
<1>5. out' = Append(out, m)
  <2>1. m \in Seq(Byte)
    BY BytesFacts
  <2>2. out' = [i \in 1..(Len(sent) + 1) |-> Bytes(sent'[i])]
    BY <1>3
  <2> DEFINE more == Append(out, m)
  <2>3. /\ more \in Seq(Seq(Byte)) /\ Len(more) = Len(sent) + 1 /\ more[Len(sent) + 1] = m
        /\ \A i \in 1..Len(sent) : more[i] = out[i]
    <3> HIDE DEF out, m
    <3> QED  BY <1>4, <2>1, AppendProperties
  <2> HIDE DEF more
  <2>4. more = [i \in 1..(Len(sent) + 1) |-> more[i]]
    BY <1>1, <2>3, LenProperties
  <2>5. ASSUME NEW i \in 1..(Len(sent) + 1) PROVE more[i] = Bytes(sent'[i])
    <3>1. CASE i \in 1..Len(sent)
      BY <1>3, <2>3, <3>1
    <3>2. CASE i = Len(sent) + 1
      BY <1>3, <2>3, <3>2
    <3> QED  BY <1>1, <3>1, <3>2
  <2> QED  BY <2>2, <2>4, <2>5 DEF more
<1>6. Commanded!Send
  BY <1>1, <1>5 DEF Commanded!Send
<1> QED  BY <1>6 DEF Commanded!Next

LEMMA ChannelReceive ==
    ASSUME ReaderInv, HandOn
    PROVE  Commanded!Next
<1> DEFINE out == [i \in DOMAIN sent |-> Bytes(sent[i])]
           r == Len(received)
<1>1. /\ pc = "body" /\ received' = Append(received, buf) /\ pc' = "length" /\ sent' = sent
  BY DEF HandOn
<1>2. r + 1 \in 1..Len(sent) /\ buf = Bytes(sent[r + 1])
  BY HandOnFacts
<1>3. sent \in Seq(Commands) /\ Len(sent) \in Nat /\ DOMAIN sent = 1..Len(sent) /\ r \in Nat
  BY ReaderLengths, LenProperties DEF ReaderInv, ReaderTypeOK
<1>4. Len(out) = Len(sent) /\ out[r + 1] = buf /\ r < Len(sent)
  <2>1. \A i \in 1..Len(sent) : Bytes(sent[i]) \in Seq(Byte)
    BY <1>3, ElementOfSeq, BytesFacts
  <2>2. out \in Seq(Seq(Byte)) /\ Len(out) = Len(sent)
    BY <1>3, <2>1
  <2> QED  BY <1>2, <1>3, <2>2
<1>5. out' = out
  BY <1>1
<1>6. Commanded!Receive
  BY <1>1, <1>4, <1>5 DEF Commanded!Receive
<1> QED  BY <1>6 DEF Commanded!Next

\* Every step of the reader and of the server is a step of Channel or leaves
\* it alone.
LEMMA ChannelNext ==
    ASSUME ReaderInv, [ReaderNext]_readerVars
    PROVE  [Commanded!Next]_(Commanded!vars)
<1>1. CASE UNCHANGED <<sent, received>> /\ (pc' = "failed" <=> pc = "failed")
  BY <1>1 DEF Commanded!vars
<1>2. CASE UNCHANGED <<sent, received>> /\ pc' = "failed" /\ pc # "failed"
  <2>1. Commanded!End
    BY <1>2 DEF Commanded!End
  <2> QED  BY <2>1 DEF Commanded!Next
<1>3. ASSUME NEW c \in Commands, ServerSends(c) PROVE Commanded!Next
  BY <1>3, ChannelSend
<1>4. CASE HandOn
  BY <1>4, ChannelReceive
<1>5. CASE ServerStops \/ Recv \/ RecvFails \/ CheckLength \/ RecvNothing \/ Failed \/ UNCHANGED readerVars
  <2>1. UNCHANGED <<sent, received>>
    BY <1>5 DEF ServerStops, Recv, RecvFails, CheckLength, RecvNothing, Failed, readerVars
  <2>2. pc = "failed" => pc' = "failed"
    BY <1>5 DEF ServerStops, Recv, RecvFails, CheckLength, RecvNothing, Failed, readerVars
  <2> QED  BY <1>1, <1>2, <2>1, <2>2
<1> QED  BY <1>3, <1>4, <1>5 DEF ReaderNext, Reader

\* However recv cuts the stream up, every command comes out whole, in order
\* and once: the safety part of ImplementsChannel.
THEOREM ChannelImplemented ==
    ReaderSpec => Commanded!Init /\ [][Commanded!Next]_(Commanded!vars)
<1>1. ReaderInv /\ [ReaderNext]_readerVars => [Commanded!Next]_(Commanded!vars)
  BY ChannelNext
<1> QED  BY <1>1, ChannelInit, ReaderInvariant, PTL DEF ReaderSpec
=============================================================================
