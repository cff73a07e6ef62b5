---------------------------- MODULE ModbusProofs ----------------------------
(***************************************************************************)
(* Theorems about the Modbus slave for every set of requests and any       *)
(* number of faults of the line, of early masters and of calls of          *)
(* eMBDisable.                                                             *)
(***************************************************************************)
EXTENDS ModbusRtu, SequenceTheorems, TLAPS

-----------------------------------------------------------------------------
(* The units of a frame                                                    *)

\* A CRC tells its frame.
LEMMA CrcTells ==
    ASSUME NEW h, NEW d, NEW h2, NEW d2, Crc(h, d) = Crc(h2, d2)
    PROVE  h = h2 /\ d = d2
  BY DEF Crc

\* What is left of a short sequence, and what it is with another unit before it.
LEMMA ShortSequences ==
    ASSUME NEW S, NEW x \in S, NEW y \in S, NEW z \in S
    PROVE  /\ Tail(<<x>>) = << >> /\ Tail(<<x, y>>) = <<y>> /\ Tail(<<x, y, z>>) = <<y, z>>
           /\ <<x>> \o << >> = <<x>> /\ <<x>> \o <<y>> = <<x, y>>
  <1>1. /\ <<x>> \in Seq(S) /\ <<x, y>> \in Seq(S) /\ <<x, y, z>> \in Seq(S)
        /\ <<y>> \in Seq(S) /\ <<y, z>> \in Seq(S)
    OBVIOUS
  <1>2. Tail(<<x>>) = << >>
    <2>1. Tail(<<x>>) \in Seq(S) /\ Len(Tail(<<x>>)) = 0
      BY <1>1, HeadTailProperties
    <2> QED BY <2>1
  <1>3. Tail(<<x, y>>) = <<y>>
    <2>1. /\ Tail(<<x, y>>) \in Seq(S) /\ Len(Tail(<<x, y>>)) = 1
          /\ \A i \in 1 .. Len(Tail(<<x, y>>)) : Tail(<<x, y>>)[i] = <<x, y>>[i + 1]
      BY <1>1, HeadTailProperties
    <2>2. \A i \in 1 .. 1 : Tail(<<x, y>>)[i] = <<y>>[i]
      BY <2>1
    <2> QED BY <1>1, <2>1, <2>2, SeqEqual
  <1>4. Tail(<<x, y, z>>) = <<y, z>>
    <2>1. /\ Tail(<<x, y, z>>) \in Seq(S) /\ Len(Tail(<<x, y, z>>)) = 2
          /\ \A i \in 1 .. Len(Tail(<<x, y, z>>)) : Tail(<<x, y, z>>)[i] = <<x, y, z>>[i + 1]
      BY <1>1, HeadTailProperties
    <2>2. \A i \in 1 .. 2 : Tail(<<x, y, z>>)[i] = <<y, z>>[i]
      BY <2>1
    <2> QED BY <1>1, <2>1, <2>2, SeqEqual
  <1>5. <<x>> \o << >> = <<x>>
    BY <1>1, ConcatEmptySeq
  <1>6. <<x>> \o <<y>> = <<x, y>>
    <2>1. /\ <<x>> \o <<y>> \in Seq(S) /\ Len(<<x>> \o <<y>>) = 2
          /\ \A i \in 1 .. 2 : (<<x>> \o <<y>>)[i] = IF i <= 1 THEN <<x>>[i] ELSE <<y>>[i - 1]
      BY <1>1, ConcatProperties
    <2>2. \A i \in 1 .. 2 : (<<x>> \o <<y>>)[i] = <<x, y>>[i]
      BY <2>1
    <2> QED BY <1>1, <2>1, <2>2, SeqEqual
  <1> QED BY <1>2, <1>3, <1>4, <1>5, <1>6

\* The same with two units after it.
LEMMA ThreeUnits ==
    ASSUME NEW S, NEW x \in S, NEW y \in S, NEW z \in S
    PROVE  <<x>> \o <<y, z>> = <<x, y, z>>
  <1>1. <<x>> \in Seq(S) /\ <<y, z>> \in Seq(S) /\ <<x, y, z>> \in Seq(S)
    OBVIOUS
  <1>2. /\ <<x>> \o <<y, z>> \in Seq(S) /\ Len(<<x>> \o <<y, z>>) = 3
        /\ \A i \in 1 .. 3 : (<<x>> \o <<y, z>>)[i] = IF i <= 1 THEN <<x>>[i] ELSE <<y, z>>[i - 1]
    BY <1>1, ConcatProperties
  <1>3. \A i \in 1 .. 3 : (<<x>> \o <<y, z>>)[i] = <<x, y, z>>[i]
    BY <1>2
  <1> QED BY <1>1, <1>2, <1>3, SeqEqual

\* The units of a frame and the noise are four things.
LEMMA UnitsDiffer ==
    ASSUME NEW r
    PROVE  /\ <<r, 1>> # <<r, 2>> /\ <<r, 1>> # Noise /\ <<r, 2>> # Noise
           /\ \A h, d : Crc(h, d) \notin {<<r, 1>>, <<r, 2>>, Noise}
  BY DEF Crc, Noise

\* Events that wait for the task, and those it has read.
Waits(e) == eventReceived /\ event = e
Frame == Waits("EV_FRAME_RECEIVED") \/ (poll = "clear" /\ eEvent = "EV_FRAME_RECEIVED") \/ poll = "receive"
Order == Waits("EV_EXECUTE") \/ (poll = "clear" /\ eEvent = "EV_EXECUTE") \/ poll \in {"post", "execute"}
\* A frame is being received; it, or what the slave makes of it, is under way.
Hearing == timer /\ eRcvState \in {"RX_RCV", "RX_ERROR"}
Asking == line # << >> \/ Hearing \/ Frame \/ Order
\* The slave answers, or has answered.
Sending == poll \in {"reply", "send"} \/ eSndState = "TX_XMIT"
Answering == Sending \/ got # << >>

\* What may be left of a frame on the line.
Lines(r) == LET h == <<r, 1>> d == <<r, 2>> c == Crc(h, d) IN
    {<< >>, <<h, d, c>>, <<d, c>>, <<c>>, <<Noise, d, c>>, <<Noise, c>>, <<Noise>>}
Units(r) == {<<r, 1>>, <<r, 2>>, Crc(<<r, 1>>, <<r, 2>>), Noise}

\* The master waits for the answer to a request.
Known == master = "waiting" => asked \in Requests

\* While the slave is disabled the task does nothing, and nothing else is at work.
Stopped == eMBState = "DISABLED" => poll = "idle" /\ ("stale" \in met \/ eSndState = "TX_IDLE")
Off == eMBState = "DISABLED" => ~rx /\ ~timer /\ ~eventReceived

\* The master waits for as long as something of its frame is under way.
LineRight ==
    /\ line \in Lines(asked)
    /\ Asking \/ Sending => master = "waiting"

\* What is being received is of the frame that was sent last, and its CRC comes last.
HeardRight == Hearing =>
    /\ usRcvBufferPos \in 1 .. MaxSize /\ line # Wire(asked)
    /\ \A i \in 1 .. usRcvBufferPos :
          /\ ucRTUBuf[i] \in Units(asked)
          /\ line \notin {<< >>, <<Noise>>} => ucRTUBuf[i] # Crc(<<asked, 1>>, <<asked, 2>>)

\* A whole frame was taken, and the line is silent until it is dealt with.
WholeTaken == /\ line = << >> /\ eRcvState = "RX_IDLE" /\ ~timer /\ usRcvBufferPos = MaxSize
              /\ ucRTUBuf[1] = <<asked, 1>> /\ ucRTUBuf[2] = <<asked, 2>>

\* A frame that the task has not looked at yet is the whole one, or will be refused.
FrameRight == Frame =>
    /\ asked \in Requests /\ line # Wire(asked) /\ eRcvState # "RX_INIT"
    /\ Hearing => ucRTUBuf[1] # <<asked, 1>>
    /\ ~Hearing /\ Valid => WholeTaken /\ ~Order /\ (poll = "receive" => ~eventReceived)

\* What is to be executed is the whole frame, asked for and not yet executed.
OrderRight == Order => /\ WholeTaken /\ due = asked /\ asked # None /\ ~Frame
                       /\ poll \in {"post", "execute"} => ~eventReceived

\* A request is due until it is executed, and answered after it.
DueRight == /\ Asking => due = asked \/ To[asked] = "other"
            /\ Answering => done
            /\ eSndState = "TX_XMIT" \/ got # << >> => poll \notin {"reply", "send"}
            /\ ~(Asking /\ Answering)

Core == Off /\ LineRight /\ HeardRight /\ FrameRight /\ OrderRight /\ DueRight /\ wrong = {}

-----------------------------------------------------------------------------
(* Types, the timer and the assertions, whatever the master does           *)

BInv == TypeOK /\ TimerRuns /\ AssertsHold /\ Stopped /\ Known

\* They hold at first.
LEMMA InitBInv == Init => BInv
  <1> SUFFICES ASSUME Init PROVE BInv
    OBVIOUS
  <1>1. Noise \in Sent /\ Noise \in Unit
    BY DEF Sent, Unit
  <1>2. ucRTUBuf \in [1 .. MaxSize -> Unit] /\ ucRTUBuf[1] = Noise /\ ucRTUBuf[2] = Noise
    BY <1>1 DEF Init, MaxSize
  <1>3. /\ line \in Seq(Sent) /\ got \in Seq(Unit) /\ Len(got) = 0
        /\ usRcvBufferPos \in 0 .. MaxSize /\ usSndBufferCount \in 0 .. MaxSize
        /\ Len(got) + usSndBufferCount <= MaxSize /\ faults \in Nat /\ upsets \in Nat
    BY DEF Init, MaxSize
  <1>4. TypeOK
    <2>1. /\ eMBState \in {"DISABLED", "ENABLED"} /\ eRcvState \in {"RX_INIT", "RX_IDLE", "RX_RCV", "RX_ERROR"}
          /\ eSndState \in {"TX_IDLE", "TX_XMIT"} /\ timer \in BOOLEAN /\ rx \in BOOLEAN
          /\ event \in Events /\ eventReceived \in BOOLEAN /\ eEvent \in Events
          /\ poll \in {"idle", "clear", "receive", "post", "execute", "reply", "send"}
      BY DEF Init, Events
    <2>2. /\ master \in {"idle", "waiting"} /\ asked \in Requests \cup {None}
          /\ due \in Requests \cup {None} /\ done \in BOOLEAN
          /\ wrong \subseteq {"mixed", "unasked", "answer"} /\ met \subseteq {"early", "late", "stale"}
      BY DEF Init
    <2> QED BY <1>1, <1>2, <1>3, <2>1, <2>2 DEF TypeOK
  <1> QED BY <1>4 DEF Init, BInv, TimerRuns, AssertsHold, Stopped, Known

\* A frame is made of units.
LEMMA WireSent ==
    ASSUME NEW r \in Requests
    PROVE  Wire(r) \in Seq(Sent)
  <1>1. <<r, 1>> \in Sent /\ <<r, 2>> \in Sent /\ Crc(<<r, 1>>, <<r, 2>>) \in Sent
    BY DEF Sent
  <1> QED BY <1>1 DEF Wire

\* What a character does to the receiver.
LEMMA CharacterKeeps ==
    ASSUME BInv, NEW u \in Sent, Character(u)
    PROVE  /\ UNCHANGED <<eMBState, eSndState, usSndBufferCount, ucRcvAddress, rx>>
           /\ ucRTUBuf' \in [1 .. MaxSize -> Unit] /\ ucRTUBuf'[1] \in Sent /\ ucRTUBuf'[2] \in Sent
           /\ usRcvBufferPos' \in 0 .. MaxSize /\ timer' \in BOOLEAN
           /\ eRcvState' \in {"RX_INIT", "RX_IDLE", "RX_RCV", "RX_ERROR"}
           /\ ~rx => UNCHANGED <<eRcvState, ucRTUBuf, usRcvBufferPos, timer>>
           /\ rx => timer'
           /\ TimerRuns'
  <1>1. TypeOK /\ TimerRuns /\ u \in Unit
    BY DEF BInv, Unit
  <1>2. CASE ~rx
    BY <1>1, <1>2 DEF Character, slave, TypeOK, TimerRuns
  <1>3. CASE rx
    <2>1. xMBRTUReceiveFSM(u)
      BY <1>3 DEF Character
    <2>2. timer' = TRUE /\ UNCHANGED <<eMBState, eSndState, usSndBufferCount, ucRcvAddress, rx>>
      BY <2>1 DEF xMBRTUReceiveFSM
    <2>3. CASE eRcvState = "RX_IDLE"
      <3>1. ucRTUBuf' = [ucRTUBuf EXCEPT ![1] = u] /\ usRcvBufferPos' = 1 /\ eRcvState' = "RX_RCV"
        BY <2>1, <2>3 DEF xMBRTUReceiveFSM
      <3> QED BY <1>1, <1>3, <2>2, <3>1 DEF TypeOK, MaxSize, TimerRuns
    <2>4. CASE eRcvState = "RX_RCV" /\ Room
      <3>1. /\ ucRTUBuf' = [ucRTUBuf EXCEPT ![usRcvBufferPos + 1] = u]
            /\ usRcvBufferPos' = usRcvBufferPos + 1 /\ eRcvState' = eRcvState
        BY <2>1, <2>4 DEF xMBRTUReceiveFSM
      <3>2. usRcvBufferPos + 1 \in 1 .. MaxSize
        BY <1>1, <2>4 DEF TypeOK, Room, MaxSize
      <3> QED BY <1>1, <1>3, <2>2, <3>1, <3>2 DEF TypeOK, MaxSize, TimerRuns
    <2>5. CASE ~(eRcvState = "RX_IDLE") /\ ~(eRcvState = "RX_RCV" /\ Room)
      <3>1. eRcvState' \in {eRcvState, "RX_ERROR"} /\ UNCHANGED <<ucRTUBuf, usRcvBufferPos>>
        BY <2>1, <2>5 DEF xMBRTUReceiveFSM
      <3> QED BY <1>1, <1>3, <2>2, <3>1 DEF TypeOK, TimerRuns
    <2> QED BY <2>3, <2>4, <2>5
  <1> QED BY <1>1, <1>2, <1>3 DEF TypeOK

\* The next unit of the answer, or the end of it.
LEMMA TransmitKeeps ==
    ASSUME TypeOK, NEW count \in 0 .. MaxSize, NEW s \in Seq(Unit), Len(s) + count <= MaxSize,
           ucRTUBuf' \in [1 .. MaxSize -> Unit], TransmitFSM(count, s)
    PROVE  /\ count > 0 => /\ usSndBufferCount' \in 0 .. MaxSize /\ got' \in Seq(Unit)
                           /\ Len(got') + usSndBufferCount' <= MaxSize
                           /\ got' = s \/ master = "waiting"
                           /\ UNCHANGED <<event, eventReceived>>
           /\ ~(count > 0) => /\ event' = "EV_FRAME_SENT" /\ eventReceived' = TRUE
                              /\ rx' = TRUE /\ eSndState' = "TX_IDLE" /\ UNCHANGED <<usSndBufferCount, got>>
  <1>1. CASE count > 0
    <2>1. MaxSize + 1 - count \in 1 .. MaxSize
      BY <1>1 DEF MaxSize
    <2>2. ucRTUBuf'[MaxSize + 1 - count] \in Unit
      BY <2>1
    <2> DEFINE x == ucRTUBuf'[MaxSize + 1 - count]
    <2>3. /\ usSndBufferCount' = count - 1 /\ got' = IF master = "waiting" THEN Append(s, x) ELSE s
          /\ UNCHANGED <<event, eventReceived>>
      BY <1>1 DEF TransmitFSM, slot
    <2> HIDE DEF x
    <2>4. Append(s, x) \in Seq(Unit) /\ Len(Append(s, x)) = Len(s) + 1 /\ Len(s) \in Nat
      BY <2>2 DEF x
    <2> QED BY <1>1, <2>3, <2>4 DEF MaxSize
  <1>2. CASE ~(count > 0)
    BY <1>2 DEF TransmitFSM, xMBPortEventPost
  <1> QED BY <1>1, <1>2

\* The character steps: a unit of the master, or a fault on its way.
LEMMA LineKeepsB ==
    ASSUME BInv, MasterSends \/ LineFault
    PROVE  BInv'
  <1>1. /\ UNCHANGED <<event, eventReceived, poll, eEvent, master, asked, got, due, done, wrong, upsets, met>>
        /\ line # << >> /\ faults' \in Nat
    BY DEF MasterSends, LineFault, slot, task, hist, BInv, TypeOK
  <1>2. Head(line) \in Sent /\ Tail(line) \in Seq(Sent) /\ Noise \in Sent
    <2>1. line \in Seq(Sent)
      BY DEF BInv, TypeOK
    <2>2. Noise \in Sent
      BY DEF Sent
    <2> QED BY <1>1, <2>1, <2>2, HeadTailProperties
  <1>3. <<Noise>> \o Tail(line) \in Seq(Sent)
    BY <1>2
  <1>4. line' \in Seq(Sent)
    BY <1>2, <1>3 DEF MasterSends, LineFault
  <1>5. (\E u \in Sent : Character(u)) \/ UNCHANGED slave
    BY <1>2 DEF MasterSends, LineFault
  <1>6. CASE UNCHANGED slave
    <2>1. TypeOK'
      BY <1>1, <1>4, <1>6 DEF BInv, TypeOK, slave
    <2> QED BY <1>1, <1>6, <2>1 DEF BInv, TimerRuns, AssertsHold, Stopped, Known, slave
  <1>7. ASSUME NEW u \in Sent, Character(u) PROVE BInv'
    <2>1. TypeOK' /\ TimerRuns'
      BY <1>1, <1>4, <1>7, CharacterKeeps DEF BInv, TypeOK
    <2>2. AssertsHold' /\ Stopped' /\ Known'
      BY <1>1, <1>7, CharacterKeeps DEF BInv, AssertsHold, Stopped, Known
    <2> QED BY <2>1, <2>2 DEF BInv
  <1> QED BY <1>5, <1>6, <1>7

\* The timer.
LEMMA SilenceKeepsB ==
    ASSUME BInv, Silence
    PROVE  BInv'
  <1>1. /\ UNCHANGED <<eMBState, eSndState, ucRTUBuf, usRcvBufferPos, usSndBufferCount, ucRcvAddress, rx>>
        /\ UNCHANGED <<poll, eEvent, line, master, asked, got, due, done, wrong, upsets>>
        /\ timer' = FALSE /\ eRcvState' = "RX_IDLE"
    BY DEF Silence, xMBRTUTimerT35Expired, task, host
  <1>2. event' \in Events /\ eventReceived' \in BOOLEAN
    BY DEF Silence, xMBRTUTimerT35Expired, xMBPortEventPost, slot, Events, BInv, TypeOK
  <1>3. faults' \in Nat /\ met' \subseteq {"early", "late", "stale"} /\ ("stale" \in met' <=> "stale" \in met)
    <2>1. faults \in Nat /\ met \subseteq {"early", "late", "stale"}
      BY DEF BInv, TypeOK
    <2>2. faults' \in {faults, faults + 1} /\ met' \in {met, met \cup {"late"}, met \cup {}}
      BY DEF Silence
    <2>3. faults' \in Nat
      BY <2>1, <2>2
    <2>4. met' \subseteq {"early", "late", "stale"} /\ ("stale" \in met' <=> "stale" \in met)
      BY <2>1, <2>2, Zenon
    <2> QED BY <2>3, <2>4
  <1>4. TypeOK'
    BY <1>1, <1>2, <1>3 DEF BInv, TypeOK
  <1> QED BY <1>1, <1>3, <1>4 DEF BInv, TimerRuns, AssertsHold, Stopped, Known

\* The transmitter.
LEMMA TransmitStepKeepsB ==
    ASSUME BInv, xMBRTUTransmitFSM
    PROVE  BInv'
  <1>1. /\ UNCHANGED <<eMBState, eRcvState, ucRTUBuf, usRcvBufferPos, ucRcvAddress, timer>>
        /\ UNCHANGED <<poll, eEvent, line, master, asked, due, done, wrong, faults, upsets, met>>
        /\ eSndState = "TX_XMIT" /\ TransmitFSM(usSndBufferCount, got)
        /\ usSndBufferCount > 0 => UNCHANGED <<rx, eSndState>>
    BY DEF xMBRTUTransmitFSM, task, hist
  <1>2. /\ TypeOK /\ usSndBufferCount \in 0 .. MaxSize /\ got \in Seq(Unit)
        /\ Len(got) + usSndBufferCount <= MaxSize /\ ucRTUBuf' \in [1 .. MaxSize -> Unit]
    BY <1>1 DEF BInv, TypeOK
  <1>3. CASE usSndBufferCount > 0
    <2>1. TypeOK'
      BY <1>1, <1>2, <1>3, TransmitKeeps DEF TypeOK
    <2> QED BY <1>1, <1>3, <2>1 DEF BInv, TimerRuns, AssertsHold, Stopped, Known
  <1>4. CASE ~(usSndBufferCount > 0)
    <2>1. /\ event' = "EV_FRAME_SENT" /\ eventReceived' = TRUE
          /\ rx' = TRUE /\ eSndState' = "TX_IDLE" /\ UNCHANGED <<usSndBufferCount, got>>
      BY <1>1, <1>2, <1>4, TransmitKeeps
    <2>2. TypeOK'
      BY <1>1, <1>2, <2>1 DEF TypeOK, Events
    <2> QED BY <1>1, <2>1, <2>2 DEF BInv, TimerRuns, AssertsHold, Stopped, Known
  <1> QED BY <1>3, <1>4

\* The steps of the task that leave the buffer alone.
LEMMA TaskKeepsB ==
    ASSUME BInv, EventRead \/ EventClear \/ eMBRTUReceive \/ PostExecute \/ Execute
    PROVE  BInv'
  <1>1. /\ UNCHANGED <<eMBState, eRcvState, eSndState, ucRTUBuf, usRcvBufferPos, usSndBufferCount, timer, rx>>
        /\ UNCHANGED <<line, master, asked, got, faults, upsets, met>>
    BY DEF EventRead, EventClear, eMBRTUReceive, PostExecute, Execute, slave, host, hist
  <1>2. event' \in Events /\ eventReceived' \in BOOLEAN /\ eEvent' \in Events
    BY DEF EventRead, EventClear, eMBRTUReceive, PostExecute, Execute, slot, xMBPortEventPost, Events, BInv, TypeOK
  <1>3. /\ poll' \in {"idle", "clear", "receive", "post", "execute", "reply", "send"}
        /\ poll # "idle" \/ eMBState = "ENABLED"
    BY DEF EventRead, EventClear, eMBRTUReceive, PostExecute, Execute
  <1>4. /\ due' \in Requests \cup {None} /\ done' \in BOOLEAN /\ wrong' \subseteq {"mixed", "unasked", "answer"}
    <2>1. CASE Execute
      <3>1. due' = None /\ done' \in BOOLEAN
        BY <2>1 DEF Execute, BInv, TypeOK
      <3>2. wrong' \subseteq {"mixed", "unasked", "answer"}
        BY <2>1 DEF Execute, Blame, BInv, TypeOK
      <3> QED BY <3>1, <3>2
    <2>2. CASE ~Execute
      BY <2>2 DEF EventRead, EventClear, eMBRTUReceive, PostExecute, hist, BInv, TypeOK
    <2> QED BY <2>1, <2>2
  <1>5. TypeOK'
    BY <1>1, <1>2, <1>3, <1>4 DEF BInv, TypeOK
  <1> QED BY <1>1, <1>3, <1>5 DEF BInv, TimerRuns, AssertsHold, Stopped, Known

\* The steps of the task that answer.
LEMMA AnswerKeepsB ==
    ASSUME BInv, WriteReply \/ eMBRTUSend
    PROVE  BInv'
  <1>1. TypeOK /\ Data \in Sent /\ Data \in Unit
    BY DEF BInv, Sent, Unit
  <1>2. CASE WriteReply
    <2>1. /\ UNCHANGED <<eMBState, eRcvState, eSndState, usRcvBufferPos, usSndBufferCount, timer, rx>>
          /\ UNCHANGED <<event, eventReceived, eEvent, line, master, asked, got>>
          /\ UNCHANGED <<due, done, wrong, faults, upsets, met>>
          /\ poll = "reply" /\ poll' \in {"idle", "send"}
          /\ ucRTUBuf' \in {ucRTUBuf, [ucRTUBuf EXCEPT ![2] = Data]}
      BY <1>2 DEF WriteReply, slot, host, hist
    <2>2. ucRTUBuf' \in [1 .. MaxSize -> Unit] /\ ucRTUBuf'[1] \in Sent /\ ucRTUBuf'[2] \in Sent
      BY <1>1, <2>1 DEF TypeOK, MaxSize
    <2>3. TypeOK'
      BY <1>1, <2>1, <2>2 DEF TypeOK
    <2> QED BY <2>1, <2>3 DEF BInv, TimerRuns, AssertsHold, Stopped, Known
  <1>3. CASE eMBRTUSend
    <2>1. /\ UNCHANGED <<eMBState, eRcvState, usRcvBufferPos, timer>>
          /\ UNCHANGED <<eEvent, line, master, asked, due, done, wrong, faults, upsets, met>>
          /\ poll = "send" /\ poll' = "idle"
      BY <1>3 DEF eMBRTUSend, hist
    <2>2. CASE ~MaySend
      <3>1. UNCHANGED <<ucRTUBuf, eSndState, rx, usSndBufferCount, got, event, eventReceived>>
        BY <1>3, <2>2 DEF eMBRTUSend, slot
      <3>2. TypeOK'
        BY <1>1, <2>1, <3>1 DEF TypeOK
      <3> QED BY <2>1, <3>1, <3>2 DEF BInv, TimerRuns, AssertsHold, Stopped, Known
    <2>3. CASE MaySend
      <3>1. /\ ucRTUBuf' = [ucRTUBuf EXCEPT ![3] = Crc(ucRTUBuf[1], ucRTUBuf[2])]
            /\ eSndState' = "TX_XMIT" /\ rx' = FALSE /\ TransmitFSM(MaxSize, << >>)
        BY <1>3, <2>3 DEF eMBRTUSend
      <3>2. Crc(ucRTUBuf[1], ucRTUBuf[2]) \in Unit
        BY <1>1 DEF TypeOK, Unit
      <3>3. ucRTUBuf' \in [1 .. MaxSize -> Unit] /\ ucRTUBuf'[1] \in Sent /\ ucRTUBuf'[2] \in Sent
        BY <1>1, <3>1, <3>2 DEF TypeOK, MaxSize
      <3>4. /\ << >> \in Seq(Unit) /\ Len(<< >>) + MaxSize <= MaxSize /\ MaxSize \in 0 .. MaxSize /\ MaxSize > 0
        BY DEF MaxSize
      <3>5. /\ usSndBufferCount' \in 0 .. MaxSize /\ got' \in Seq(Unit)
            /\ Len(got') + usSndBufferCount' <= MaxSize /\ UNCHANGED <<event, eventReceived>>
        BY <1>1, <3>1, <3>3, <3>4, TransmitKeeps
      <3>6. TypeOK'
        BY <1>1, <2>1, <3>1, <3>3, <3>5 DEF TypeOK
      <3> QED BY <2>1, <2>3, <3>1, <3>6 DEF BInv, TimerRuns, AssertsHold, Stopped, Known, MaySend
    <2> QED BY <2>2, <2>3
  <1> QED BY <1>2, <1>3

\* The application switches the slave on and off.
LEMMA SwitchKeepsB ==
    ASSUME BInv, eMBEnable \/ eMBDisable
    PROVE  BInv'
  <1>1. /\ UNCHANGED <<eSndState, ucRTUBuf, usRcvBufferPos, usSndBufferCount>>
        /\ UNCHANGED <<event, eventReceived, poll, eEvent, line, master, asked, got, due, done, wrong, faults>>
    BY DEF eMBEnable, eMBDisable, slot, task, host, hist
  <1>2. /\ eMBState' \in {"DISABLED", "ENABLED"} /\ eRcvState' \in {"RX_INIT", "RX_IDLE", "RX_RCV", "RX_ERROR"}
        /\ timer' \in BOOLEAN /\ rx' \in BOOLEAN /\ poll = "idle"
    BY DEF eMBEnable, eMBDisable, BInv, TypeOK
  <1>3. upsets' \in Nat
    BY DEF eMBEnable, eMBDisable, BInv, TypeOK, hist
  <1>4. /\ met' \subseteq {"early", "late", "stale"} /\ met \subseteq met'
    BY DEF eMBEnable, eMBDisable, BInv, TypeOK, hist
  <1>5. TypeOK'
    BY <1>1, <1>2, <1>3, <1>4 DEF BInv, TypeOK
  <1>6. TimerRuns'
    BY DEF eMBEnable, eMBDisable, TimerRuns
  <1>7. CASE eMBEnable
    <2>1. met' = met /\ eMBState' = "ENABLED" /\ eMBState = "DISABLED"
      BY <1>7 DEF eMBEnable, hist
    <2> QED BY <1>1, <1>5, <1>6, <2>1 DEF BInv, AssertsHold, Stopped, Known
  <1>8. CASE eMBDisable
    <2>1. rx' = FALSE /\ eRcvState' = eRcvState
          /\ (eSndState = "TX_XMIT" => "stale" \in met')
      BY <1>8 DEF eMBDisable
    <2>2. AssertsHold' /\ Stopped' /\ Known'
      BY <1>1, <1>2, <2>1, <1>5 DEF BInv, AssertsHold, Stopped, Known, TypeOK
    <2> QED BY <1>5, <1>6, <2>2 DEF BInv
  <1> QED BY <1>7, <1>8

\* The master.
LEMMA MasterKeepsB ==
    ASSUME BInv, (\E r \in Requests : MasterAsks(r)) \/ MasterRepeats \/ MasterGoesOn \/ MasterAccepts \/ AnswerLost
    PROVE  BInv'
  <1>1. /\ UNCHANGED <<eMBState, eRcvState, eSndState, ucRTUBuf, usRcvBufferPos, usSndBufferCount, timer, rx>>
        /\ UNCHANGED <<event, eventReceived, poll, eEvent>>
    BY DEF MasterAsks, MasterRepeats, MasterGoesOn, MasterAccepts, AnswerLost, Send, slave, slot, task
  <1>2. /\ met' \subseteq {"early", "late", "stale"} /\ met \subseteq met' /\ upsets' \in Nat
    <2>1. met \subseteq {"early", "late", "stale"} /\ upsets \in Nat
      BY DEF BInv, TypeOK
    <2>2. upsets' \in {upsets, upsets + 1} /\ met' \in {met, met \cup {"early"}}
      BY DEF MasterAsks, MasterRepeats, MasterGoesOn, MasterAccepts, AnswerLost, Patience
    <2>3. upsets' \in Nat
      BY <2>1, <2>2
    <2>4. met' \subseteq {"early", "late", "stale"} /\ met \subseteq met'
      BY <2>1, <2>2, Zenon
    <2> QED BY <2>3, <2>4
  <1>3. faults' \in Nat
    BY DEF MasterAsks, MasterRepeats, MasterGoesOn, MasterAccepts, AnswerLost, Send, BInv, TypeOK
  <1>4. /\ master' \in {"idle", "waiting"} /\ asked' \in Requests \cup {None} /\ done' \in BOOLEAN
        /\ (MasterRepeats => asked \in Requests) /\ Known'
    BY DEF MasterAsks, MasterRepeats, MasterGoesOn, MasterAccepts, AnswerLost, Send, BInv, TypeOK, Known
  <1>5. line' \in Seq(Sent) /\ due' \in Requests \cup {None}
    BY <1>4, WireSent DEF MasterAsks, MasterRepeats, MasterGoesOn, MasterAccepts, AnswerLost, Send, BInv, TypeOK
  <1>6. got' \in Seq(Unit) /\ Len(got') + usSndBufferCount' <= MaxSize
    <2>1. got' \in {<< >>, got}
      BY DEF MasterAsks, MasterRepeats, MasterGoesOn, MasterAccepts, AnswerLost, Send
    <2>2. << >> \in Seq(Unit) /\ Len(<< >>) = 0
      OBVIOUS
    <2>3. got \in Seq(Unit) /\ Len(got) + usSndBufferCount <= MaxSize /\ usSndBufferCount \in 0 .. MaxSize
      BY DEF BInv, TypeOK
    <2>4. Len(<< >>) + usSndBufferCount <= MaxSize
      BY <2>2, <2>3 DEF MaxSize
    <2> QED BY <1>1, <2>1, <2>2, <2>3, <2>4
  <1>7. wrong' \subseteq {"mixed", "unasked", "answer"}
    BY DEF MasterAsks, MasterRepeats, MasterGoesOn, MasterAccepts, AnswerLost, Send, Blame, BInv, TypeOK
  <1>8. TypeOK'
    BY <1>1, <1>2, <1>3, <1>4, <1>5, <1>6, <1>7 DEF BInv, TypeOK
  <1> QED BY <1>1, <1>2, <1>4, <1>8 DEF BInv, TimerRuns, AssertsHold, Stopped

\* Every step keeps them.
LEMMA NextBInv == BInv /\ [Next]_vars => BInv'
  <1> SUFFICES ASSUME BInv, [Next]_vars PROVE BInv'
    OBVIOUS
  <1>1. CASE UNCHANGED vars
    BY <1>1 DEF vars, slave, slot, task, host, hist, BInv, TypeOK, TimerRuns, AssertsHold, Stopped, Known
  <1> QED BY <1>1, LineKeepsB, SilenceKeepsB, TransmitStepKeepsB, TaskKeepsB, AnswerKeepsB,
             SwitchKeepsB, MasterKeepsB DEF Next, Poll, Wait

\* The invariant of the two state machines and their interrupts.
THEOREM Machines == Spec => []BInv
  BY InitBInv, NextBInv, PTL DEF Spec

\* Every variable has the type the code declares for it: neither the receive position nor
\* what is left to send leaves ucRTUBuf.
THEOREM Typed == Spec => []TypeOK
  <1>1. BInv => TypeOK
    BY DEF BInv
  <1> QED BY <1>1, Machines, PTL

\* Whenever the receiver waits for the end of a frame the t3.5 timer is running.
THEOREM TimerKept == Spec => []TimerRuns
  <1>1. BInv => TimerRuns
    BY DEF BInv
  <1> QED BY <1>1, Machines, PTL

\* The assertions of the two state machines hold, however early the master is, unless
\* eMBDisable has left a transmission behind.
THEOREM NoAssert == Spec => []AssertsHold
  <1>1. BInv => AssertsHold
    BY DEF BInv
  <1> QED BY <1>1, Machines, PTL

-----------------------------------------------------------------------------
(* One request at a time                                                   *)

IInv == BInv /\ (met = {} => Core)

\* The next unit of a frame, or noise instead of it, leaves the rest of the frame.
LEMMA LineSteps ==
    ASSUME NEW r, NEW l \in Lines(r), l # << >>
    PROVE  /\ Head(l) \in Units(r)
           /\ Tail(l) \in Lines(r) /\ Tail(l) # Wire(r)
           /\ <<Noise>> \o Tail(l) \in Lines(r) /\ <<Noise>> \o Tail(l) # Wire(r)
           /\ l # Wire(r) => Head(l) # <<r, 1>>
           /\ Tail(l) \notin {<< >>, <<Noise>>} => l \notin {<< >>, <<Noise>>}
           /\ <<Noise>> \o Tail(l) \notin {<< >>, <<Noise>>} => l \notin {<< >>, <<Noise>>}
           /\ Head(l) = Crc(<<r, 1>>, <<r, 2>>) =>
                 Tail(l) = << >> /\ <<Noise>> \o Tail(l) = <<Noise>>
  <1> DEFINE h == <<r, 1>>
             d == <<r, 2>>
             c == Crc(h, d)
  <1>1. /\ h # d /\ h # Noise /\ d # Noise /\ c # h /\ c # d /\ c # Noise
    BY UnitsDiffer
  <1>2. /\ Lines(r) = {<< >>, <<h, d, c>>, <<d, c>>, <<c>>, <<Noise, d, c>>, <<Noise, c>>, <<Noise>>}
        /\ Wire(r) = <<h, d, c>> /\ Units(r) = {h, d, c, Noise}
    BY DEF Lines, Wire, Units
  <1>3. /\ Head(l) \in {h, d, c, Noise} /\ (l # <<h, d, c>> => Head(l) # h)
        /\ (Head(l) = c => l = <<c>>)
    <2> HIDE DEF h, d, c
    <2> QED BY <1>1, <1>2
  <1> DEFINE S == {h, d, c, Noise}
  <1>4. h \in S /\ d \in S /\ c \in S /\ Noise \in S
    OBVIOUS
  <1> HIDE DEF h, d, c, S
  <1>5. \/ l = <<h, d, c>> /\ Tail(l) = <<d, c>> /\ <<Noise>> \o Tail(l) = <<Noise, d, c>>
        \/ l = <<d, c>> /\ Tail(l) = <<c>> /\ <<Noise>> \o Tail(l) = <<Noise, c>>
        \/ l = <<c>> /\ Tail(l) = << >> /\ <<Noise>> \o Tail(l) = <<Noise>>
        \/ l = <<Noise, d, c>> /\ Tail(l) = <<d, c>> /\ <<Noise>> \o Tail(l) = <<Noise, d, c>>
        \/ l = <<Noise, c>> /\ Tail(l) = <<c>> /\ <<Noise>> \o Tail(l) = <<Noise, c>>
        \/ l = <<Noise>> /\ Tail(l) = << >> /\ <<Noise>> \o Tail(l) = <<Noise>>
    <2>1. Tail(<<h, d, c>>) = <<d, c>> /\ Tail(<<d, c>>) = <<c>> /\ Tail(<<c>>) = << >>
      BY <1>4, ShortSequences
    <2>2. Tail(<<Noise, d, c>>) = <<d, c>> /\ Tail(<<Noise, c>>) = <<c>> /\ Tail(<<Noise>>) = << >>
      BY <1>4, ShortSequences
    <2>3. <<Noise>> \o <<d, c>> = <<Noise, d, c>>
      BY <1>4, ThreeUnits
    <2>4. <<Noise>> \o <<c>> = <<Noise, c>> /\ <<Noise>> \o << >> = <<Noise>>
      BY <1>4, ShortSequences, Zenon
    <2>5. \/ l = <<h, d, c>> \/ l = <<d, c>> \/ l = <<c>>
          \/ l = <<Noise, d, c>> \/ l = <<Noise, c>> \/ l = <<Noise>>
      BY <1>2
    <2> QED BY <2>1, <2>2, <2>3, <2>4, <2>5, Zenon
  <1> QED BY <1>1, <1>2, <1>3, <1>5 DEF h, d, c

\* A frame with a CRC that is right, of units of one request and noise, is that request.
LEMMA ValidIs ==
    ASSUME NEW r, Valid, \A i \in 1 .. MaxSize : ucRTUBuf[i] \in Units(r)
    PROVE  ucRTUBuf[1] = <<r, 1>> /\ ucRTUBuf[2] = <<r, 2>> /\ ucRTUBuf[3] = Crc(<<r, 1>>, <<r, 2>>)
  <1>1. ucRTUBuf[3] \in Units(r) /\ ucRTUBuf[3] = Crc(ucRTUBuf[1], ucRTUBuf[2])
    BY DEF Valid, MaxSize
  <1>2. ucRTUBuf[3] = Crc(<<r, 1>>, <<r, 2>>)
    BY <1>1, UnitsDiffer DEF Units
  <1>3. Crc(ucRTUBuf[1], ucRTUBuf[2]) = Crc(<<r, 1>>, <<r, 2>>)
    BY <1>1, <1>2
  <1>4. ucRTUBuf[1] = <<r, 1>> /\ ucRTUBuf[2] = <<r, 2>>
    BY <1>3 DEF Crc
  <1> QED BY <1>2, <1>4

\* It holds at first.
LEMMA InitIInv == Init => IInv
  <1> SUFFICES ASSUME Init PROVE IInv
    OBVIOUS
  <1>1. BInv
    BY InitBInv
  <1>2. /\ ~Asking /\ ~Answering /\ ~Frame /\ ~Order /\ ~Hearing /\ ~Sending
    BY DEF Init, Asking, Answering, Sending, Frame, Order, Hearing, Waits
  <1>3. Off /\ LineRight
    BY <1>2 DEF Init, Off, LineRight, Lines
  <1>4. HeardRight /\ FrameRight /\ OrderRight
    BY <1>2 DEF HeardRight, FrameRight, OrderRight
  <1>5. DueRight /\ wrong = {}
    BY <1>2 DEF Init, DueRight, Answering
  <1> QED BY <1>1, <1>3, <1>4, <1>5 DEF IInv, Core

\* A unit of the frame comes, is damaged or is lost.
LEMMA LineKeeps ==
    ASSUME BInv, Core, MasterSends \/ LineFault
    PROVE  Core'
  <1> DEFINE h == <<asked, 1>>
             c == Crc(<<asked, 1>>, <<asked, 2>>)
             End == {<< >>, <<Noise>>}
  <1>1. /\ UNCHANGED <<event, eventReceived, poll, eEvent, master, asked, got, due, done, wrong, met>>
        /\ line # << >>
    BY DEF MasterSends, LineFault, slot, task, hist
  <1>2. /\ Asking /\ ~Answering /\ ~Sending /\ master = "waiting" /\ asked \in Requests
        /\ line \in Lines(asked) /\ ~Order
    BY <1>1 DEF Core, LineRight, DueRight, OrderRight, WholeTaken, Asking, Answering, BInv, Known
  <1>3. /\ Head(line) \in Units(asked) /\ Noise \in Units(asked) /\ Noise # h /\ Noise # c
    BY <1>1, <1>2, LineSteps, UnitsDiffer DEF Units
  <1>4. /\ line' \in Lines(asked) /\ line' # Wire(asked) /\ (line' \notin End => line \notin End)
    <2> DEFINE t == Tail(line)
               n == <<Noise>> \o Tail(line)
    <2>1. line' = t \/ line' = n
      BY DEF MasterSends, LineFault
    <2>2. /\ t \in Lines(asked) /\ t # Wire(asked) /\ (t \notin End => line \notin End)
          /\ n \in Lines(asked) /\ n # Wire(asked) /\ (n \notin End => line \notin End)
      BY <1>1, <1>2, LineSteps
    <2> HIDE DEF t, n
    <2> QED BY <2>1, <2>2
  <1>5. \/ UNCHANGED slave
        \/ \E u \in Units(asked) : /\ Character(u) /\ (line # Wire(asked) => u # h)
                                   /\ (u = c => line' \in End)
    <2>1. /\ (line # Wire(asked) => Head(line) # h)
          /\ (Head(line) = c => Tail(line) = << >> /\ <<Noise>> \o Tail(line) = <<Noise>>)
      BY <1>1, <1>2, LineSteps
    <2> QED BY <1>3, <2>1 DEF MasterSends, LineFault
  <1>6. Frame' = Frame /\ Order' = Order /\ Sending' = (poll \in {"reply", "send"} \/ eSndState' = "TX_XMIT")
    BY <1>1 DEF Frame, Order, Waits, Sending
  <1>7. CASE UNCHANGED slave
    <2>1. Hearing' = Hearing /\ Sending' = Sending /\ Valid' = Valid
      BY <1>1, <1>7 DEF slave, Hearing, Sending, Valid
    <2>2. Off' /\ LineRight' /\ wrong' = {}
      BY <1>1, <1>2, <1>4, <1>7 DEF Core, Off, LineRight, slave
    <2>3. HeardRight'
      BY <1>1, <1>4, <1>7, <2>1 DEF Core, HeardRight, slave
    <2>4. FrameRight' /\ OrderRight'
      BY <1>1, <1>2, <1>4, <1>6, <1>7, <2>1 DEF Core, FrameRight, OrderRight, WholeTaken, slave
    <2>5. DueRight'
      BY <1>1, <1>2, <1>7, <2>1 DEF Core, DueRight, Answering, slave
    <2> QED BY <2>2, <2>3, <2>4, <2>5 DEF Core
  <1>8. CASE ~UNCHANGED slave
    <2>1. PICK u \in Units(asked) : /\ Character(u) /\ (line # Wire(asked) => u # h)
                                    /\ (u = c => line' \in End)
      BY <1>5, <1>8
    <2>2. rx /\ xMBRTUReceiveFSM(u)
      BY <1>8, <2>1 DEF Character
    <2>3. eMBState = "ENABLED" /\ (eRcvState # "RX_IDLE" => timer)
      BY <2>2 DEF Core, Off, BInv, TypeOK, TimerRuns
    <2>4. /\ timer' = TRUE /\ UNCHANGED <<eMBState, eSndState, rx>>
      BY <2>2 DEF xMBRTUReceiveFSM
    <2>5. /\ Off' /\ LineRight' /\ wrong' = {} /\ OrderRight' /\ Sending' = Sending
      BY <1>1, <1>2, <1>4, <1>6, <2>3, <2>4 DEF Core, Off, LineRight, OrderRight, Sending
    <2>6. DueRight'
      BY <1>1, <1>2, <2>4, <2>5 DEF Core, DueRight, Answering
    <2>7. /\ eRcvState' \in {"RX_INIT", "RX_RCV", "RX_ERROR"} /\ (eRcvState' = "RX_INIT" => eRcvState = "RX_INIT")
          /\ Hearing' => /\ usRcvBufferPos' \in 1 .. MaxSize
                         /\ \/ /\ Hearing /\ usRcvBufferPos' \in {usRcvBufferPos, usRcvBufferPos + 1}
                               /\ \A i \in 1 .. usRcvBufferPos : ucRTUBuf'[i] = ucRTUBuf[i]
                               /\ usRcvBufferPos' # usRcvBufferPos => ucRTUBuf'[usRcvBufferPos'] = u
                            \/ ~Hearing /\ usRcvBufferPos' = 1 /\ ucRTUBuf'[1] = u
      <3>1. /\ ucRTUBuf \in [1 .. MaxSize -> Unit] /\ usRcvBufferPos \in 0 .. MaxSize
            /\ eRcvState \in {"RX_INIT", "RX_IDLE", "RX_RCV", "RX_ERROR"}
            /\ (Hearing => usRcvBufferPos \in 1 .. MaxSize)
        BY DEF BInv, TypeOK, Core, HeardRight
      <3>2. CASE eRcvState = "RX_IDLE"
        <4>1. ucRTUBuf' = [ucRTUBuf EXCEPT ![1] = u] /\ usRcvBufferPos' = 1 /\ eRcvState' = "RX_RCV"
          BY <2>2, <3>2 DEF xMBRTUReceiveFSM
        <4> QED BY <3>1, <3>2, <4>1 DEF MaxSize, Hearing
      <3>3. CASE eRcvState = "RX_RCV" /\ Room
        <4>1. /\ ucRTUBuf' = [ucRTUBuf EXCEPT ![usRcvBufferPos + 1] = u]
              /\ usRcvBufferPos' = usRcvBufferPos + 1 /\ eRcvState' = eRcvState
          BY <2>2, <3>3 DEF xMBRTUReceiveFSM
        <4>2. Hearing /\ usRcvBufferPos + 1 \in 1 .. MaxSize
          BY <2>3, <3>1, <3>3 DEF Hearing, Room, MaxSize
        <4>3. ucRTUBuf'[usRcvBufferPos + 1] = u /\ \A i \in 1 .. usRcvBufferPos : ucRTUBuf'[i] = ucRTUBuf[i]
          BY <3>1, <4>1, <4>2 DEF MaxSize
        <4> QED BY <3>3, <4>1, <4>2, <4>3
      <3>4. CASE ~(eRcvState = "RX_IDLE") /\ ~(eRcvState = "RX_RCV" /\ Room)
        <4>1. /\ UNCHANGED <<ucRTUBuf, usRcvBufferPos>>
              /\ eRcvState' = IF eRcvState = "RX_RCV" THEN "RX_ERROR" ELSE eRcvState
          BY <2>2, <3>4 DEF xMBRTUReceiveFSM
        <4>2. Hearing' => Hearing
          BY <2>3, <3>1, <3>4, <4>1 DEF Hearing
        <4> QED BY <3>1, <3>4, <4>1, <4>2
      <3> QED BY <3>2, <3>3, <3>4
    <2>8. HeardRight'
      <3> SUFFICES ASSUME Hearing'
                   PROVE  /\ usRcvBufferPos' \in 1 .. MaxSize /\ line' # Wire(asked)
                          /\ \A i \in 1 .. usRcvBufferPos' :
                                ucRTUBuf'[i] \in Units(asked) /\ (line' \notin End => ucRTUBuf'[i] # c)
        BY <1>1 DEF HeardRight
      <3>1. CASE Hearing
        <4>1. /\ usRcvBufferPos \in 1 .. MaxSize
              /\ \A i \in 1 .. usRcvBufferPos :
                    ucRTUBuf[i] \in Units(asked) /\ (line \notin End => ucRTUBuf[i] # c)
          BY <3>1 DEF Core, HeardRight
        <4>2. ASSUME NEW i \in 1 .. usRcvBufferPos'
              PROVE  ucRTUBuf'[i] \in Units(asked) /\ (line' \notin End => ucRTUBuf'[i] # c)
          <5>1. i \in 1 .. usRcvBufferPos \/ (i = usRcvBufferPos' /\ usRcvBufferPos' # usRcvBufferPos)
            BY <2>7, <3>1, <4>1 DEF MaxSize
          <5> QED BY <1>4, <2>1, <2>7, <3>1, <4>1, <5>1
        <4> QED BY <1>4, <2>7, <4>2
      <3>2. CASE ~Hearing
        BY <1>4, <2>1, <2>7, <3>2 DEF MaxSize
      <3> QED BY <3>1, <3>2
    <2>9. FrameRight'
      <3> SUFFICES ASSUME Frame' PROVE FrameRight'
        BY DEF FrameRight
      <3>1. Frame /\ line # Wire(asked) /\ eRcvState # "RX_INIT" /\ (Hearing => ucRTUBuf[1] # h)
        BY <1>6 DEF Core, FrameRight
      <3>2. Hearing'
        BY <2>4, <2>7, <3>1 DEF Hearing
      <3>3. ucRTUBuf'[1] # h
        <4>1. Hearing => 1 \in 1 .. usRcvBufferPos
          BY DEF Core, HeardRight
        <4> QED BY <2>1, <2>7, <3>1, <3>2, <4>1
      <3> QED BY <1>1, <1>2, <1>4, <2>7, <3>1, <3>2, <3>3 DEF FrameRight
    <2> QED BY <2>5, <2>6, <2>8, <2>9 DEF Core
  <1> QED BY <1>7, <1>8

\* The line is silent for 3.5 characters.
LEMMA SilenceKeeps ==
    ASSUME BInv, Core, Silence, met' = {}, met = {}
    PROVE  Core'
  <1>1. /\ UNCHANGED <<eMBState, eSndState, ucRTUBuf, usRcvBufferPos, rx, poll, eEvent>>
        /\ UNCHANGED <<line, master, asked, got, due, done, wrong>>
        /\ timer' = FALSE /\ eRcvState' = "RX_IDLE" /\ timer
        /\ eRcvState = "RX_RCV" /\ Valid => line = << >>
    BY DEF Silence, xMBRTUTimerT35Expired, task, host
  <1>2. /\ \/ event' = "EV_READY" /\ eventReceived' = TRUE /\ eRcvState = "RX_INIT"
           \/ event' = "EV_FRAME_RECEIVED" /\ eventReceived' = TRUE /\ eRcvState = "RX_RCV"
           \/ UNCHANGED <<event, eventReceived>> /\ eRcvState \in {"RX_IDLE", "RX_ERROR"}
    BY DEF Silence, xMBRTUTimerT35Expired, xMBPortEventPost, slot, BInv, TypeOK
  <1>3. eMBState = "ENABLED" /\ ~Order
    BY <1>1 DEF Core, Off, OrderRight, WholeTaken, BInv, TypeOK
  <1>4. ~Order' /\ ~Hearing' /\ Sending' = Sending /\ Answering' = Answering
    BY <1>1, <1>2, <1>3 DEF Order, Waits, Hearing, Sending, Answering
  <1>5. Frame' => Frame \/ (Hearing /\ eRcvState = "RX_RCV")
    BY <1>1, <1>2 DEF Frame, Waits, Hearing
  <1>6. Asking' => Asking
    BY <1>1, <1>4, <1>5 DEF Asking
  <1>7. Off' /\ LineRight' /\ HeardRight' /\ OrderRight' /\ DueRight' /\ wrong' = {}
    BY <1>1, <1>3, <1>4, <1>6 DEF Core, Off, LineRight, HeardRight, OrderRight, DueRight
  <1>8. FrameRight'
    <2> SUFFICES ASSUME Frame' PROVE FrameRight'
      BY DEF FrameRight
    <2>1. asked \in Requests
      BY <1>5 DEF Core, LineRight, Asking, BInv, Known
    <2>2. line # Wire(asked)
      BY <1>5 DEF Core, FrameRight, HeardRight
    <2>3. ASSUME Valid' PROVE WholeTaken' /\ ~Order' /\ (poll' = "receive" => ~eventReceived')
      <3>1. Valid
        BY <1>1, <2>3 DEF Valid
      <3>2. ASSUME Hearing PROVE ucRTUBuf[1] = <<asked, 1>> /\ ucRTUBuf[2] = <<asked, 2>>
        <4>1. \A i \in 1 .. MaxSize : ucRTUBuf[i] \in Units(asked)
          BY <3>1, <3>2 DEF Core, HeardRight, Valid
        <4> QED BY <3>1, <4>1, ValidIs
      <3>3. ~Frame
        <4> SUFFICES ASSUME Frame PROVE FALSE
          OBVIOUS
        <4>1. ~Hearing
          BY <3>2 DEF Core, FrameRight
        <4> QED BY <1>1, <3>1, <4>1 DEF Core, FrameRight, WholeTaken
      <3>4. Hearing /\ eRcvState = "RX_RCV"
        BY <1>5, <3>3
      <3>5. WholeTaken'
        BY <1>1, <3>1, <3>2, <3>4 DEF WholeTaken, Valid
      <3>6. poll' # "receive"
        BY <1>1, <3>3 DEF Frame
      <3> QED BY <1>4, <3>5, <3>6
    <2> QED BY <1>1, <1>4, <2>1, <2>2, <2>3 DEF FrameRight
  <1> QED BY <1>7, <1>8 DEF Core

\* The transmitter.
LEMMA TransmitStepKeeps ==
    ASSUME BInv, Core, met = {}, xMBRTUTransmitFSM
    PROVE  Core'
  <1>1. /\ UNCHANGED <<eMBState, eRcvState, ucRTUBuf, usRcvBufferPos, timer>>
        /\ UNCHANGED <<poll, eEvent, line, master, asked, due, done, wrong, met>>
        /\ eSndState = "TX_XMIT"
    BY DEF xMBRTUTransmitFSM, task, hist
  <1>2. /\ Sending /\ Answering /\ ~Asking /\ done /\ master = "waiting" /\ eMBState = "ENABLED"
        /\ ~Frame /\ ~Order /\ ~Hearing /\ line = << >>
    BY <1>1 DEF Sending, Answering, Core, DueRight, LineRight, Asking, BInv, Stopped, TypeOK
  <1>3. (event' = event /\ eventReceived' = eventReceived) \/ event' = "EV_FRAME_SENT"
    BY DEF xMBRTUTransmitFSM, TransmitFSM, slot, xMBPortEventPost
  <1>4. ~Frame' /\ ~Order' /\ ~Hearing' /\ ~Asking'
    BY <1>1, <1>2, <1>3 DEF Frame, Order, Waits, Hearing, Asking
  <1>5. poll \notin {"reply", "send"}
    BY <1>1 DEF Core, DueRight
  <1> QED BY <1>1, <1>2, <1>3, <1>4, <1>5
       DEF Core, Off, LineRight, HeardRight, FrameRight, OrderRight, DueRight, BInv, Stopped

\* The task takes the event.
LEMMA EventKeeps ==
    ASSUME BInv, Core, EventRead \/ EventClear
    PROVE  Core'
  <1>1. /\ UNCHANGED <<eMBState, eRcvState, eSndState, ucRTUBuf, usRcvBufferPos, timer, rx>>
        /\ UNCHANGED <<event, line, master, asked, got, due, done, wrong>>
        /\ eMBState = "ENABLED" \/ poll = "clear"
    BY DEF EventRead, EventClear, slave, slot, host, hist
  <1>2. eMBState = "ENABLED"
    BY <1>1 DEF BInv, Stopped, TypeOK
  <1>3. (Frame' => Frame) /\ (Order' => Order)
    BY DEF EventRead, EventClear, Frame, Order, Waits, slot
  <1>4. /\ Hearing' = Hearing /\ Valid' = Valid /\ WholeTaken' = WholeTaken
    BY <1>1 DEF Hearing, Valid, WholeTaken
  <1>5. (Asking' => Asking) /\ (Sending' = Sending) /\ (Answering' = Answering)
        /\ poll' \notin {"reply", "send"}
    <2>1. poll \notin {"reply", "send"} /\ poll' \notin {"reply", "send"}
      BY DEF EventRead, EventClear
    <2> QED BY <1>1, <1>3, <1>4, <2>1 DEF Asking, Sending, Answering
  <1>6. /\ poll' \in {"receive", "post", "execute"} => ~eventReceived'
    BY DEF EventRead, EventClear
  <1>7. Off' /\ LineRight' /\ HeardRight' /\ DueRight' /\ wrong' = {}
    BY <1>1, <1>2, <1>4, <1>5 DEF Core, Off, LineRight, HeardRight, DueRight
  <1>8. FrameRight' /\ OrderRight'
    BY <1>1, <1>3, <1>4, <1>6 DEF Core, FrameRight, OrderRight
  <1> QED BY <1>7, <1>8 DEF Core

\* The task looks at a frame.
LEMMA ReceiveKeeps ==
    ASSUME BInv, Core, eMBRTUReceive
    PROVE  Core'
  <1>1. /\ UNCHANGED <<eMBState, eRcvState, eSndState, ucRTUBuf, usRcvBufferPos, timer, rx>>
        /\ UNCHANGED <<event, eventReceived, eEvent, line, master, asked, got, due, done, wrong>>
        /\ poll = "receive"
        /\ poll' = IF Valid /\ Address(ucRTUBuf[1]) # "other" THEN "post" ELSE "idle"
    BY DEF eMBRTUReceive, slot, host, hist
  <1>2. /\ Frame /\ Asking /\ ~Answering /\ ~Sending /\ asked \in Requests /\ master = "waiting"
    BY <1>1 DEF Frame, Asking, Core, DueRight, FrameRight, LineRight, Answering
  <1>3. /\ Hearing' = Hearing /\ Valid' = Valid /\ WholeTaken' = WholeTaken
    BY <1>1 DEF Hearing, Valid, WholeTaken
  <1>4. ~Sending' /\ ~Answering' /\ poll' \notin {"reply", "send"} /\ eMBState = "ENABLED"
    BY <1>1, <1>2 DEF Sending, Answering, BInv, Stopped, TypeOK
  <1>5. Off' /\ LineRight' /\ HeardRight' /\ wrong' = {}
    BY <1>1, <1>2, <1>3, <1>4 DEF Core, Off, LineRight, HeardRight
  <1>6. DueRight'
    BY <1>1, <1>2, <1>4 DEF Core, DueRight
  <1>7. CASE poll' = "idle"
    <2>1. (Frame' => Frame) /\ (Order' => Order)
      BY <1>1, <1>7 DEF Frame, Order, Waits
    <2> QED BY <1>1, <1>3, <1>5, <1>6, <1>7, <2>1 DEF Core, FrameRight, OrderRight
  <1>8. CASE poll' # "idle"
    <2>1. Valid /\ Address(ucRTUBuf[1]) # "other" /\ poll' = "post"
      BY <1>1, <1>8
    <2>2. ~Hearing
      <3> SUFFICES ASSUME Hearing PROVE FALSE
        OBVIOUS
      <3>1. \A i \in 1 .. MaxSize : ucRTUBuf[i] \in Units(asked)
        BY <2>1 DEF Core, HeardRight, Valid
      <3> QED BY <1>2, <2>1, <3>1, ValidIs DEF Core, FrameRight
    <2>3. WholeTaken /\ ~Order /\ ~eventReceived
      BY <1>1, <1>2, <2>1, <2>2 DEF Core, FrameRight
    <2>4. Address(ucRTUBuf[1]) = To[asked]
      <3>1. ucRTUBuf[1][1] = asked
        BY <2>3 DEF WholeTaken
      <3> QED BY <1>2, <3>1 DEF Address
    <2>5. due = asked /\ asked # None
      BY <1>2, <2>1, <2>4, RtuAssumption DEF Core, DueRight, None
    <2>6. ~Frame'
      BY <1>1, <2>1, <2>3 DEF Frame, Waits
    <2>7. FrameRight' /\ OrderRight'
      BY <1>1, <1>3, <2>3, <2>5, <2>6 DEF FrameRight, OrderRight
    <2> QED BY <1>5, <1>6, <2>7 DEF Core
  <1> QED BY <1>7, <1>8

\* It asks itself to execute it.
LEMMA PostKeeps ==
    ASSUME BInv, Core, PostExecute
    PROVE  Core'
  <1>1. /\ UNCHANGED <<eMBState, eRcvState, eSndState, ucRTUBuf, usRcvBufferPos, timer, rx>>
        /\ UNCHANGED <<eEvent, line, master, asked, got, due, done, wrong>>
        /\ poll = "post" /\ poll' = "idle" /\ event' = "EV_EXECUTE" /\ eventReceived' = TRUE
    BY DEF PostExecute, slave, host, hist, xMBPortEventPost
  <1>2. /\ Order /\ Asking /\ ~Answering /\ ~Sending /\ master = "waiting"
        /\ WholeTaken /\ due = asked /\ asked # None /\ ~Frame
    BY <1>1 DEF Order, Asking, Core, DueRight, OrderRight, LineRight, Answering
  <1>3. /\ Hearing' = Hearing /\ WholeTaken' = WholeTaken /\ ~Frame' /\ ~Sending' /\ ~Answering'
    BY <1>1, <1>2 DEF Hearing, WholeTaken, Frame, Waits, Sending, Answering
  <1>4. eMBState = "ENABLED"
    BY <1>1 DEF BInv, Stopped, TypeOK
  <1> QED BY <1>1, <1>2, <1>3, <1>4
       DEF Core, Off, LineRight, HeardRight, FrameRight, OrderRight, DueRight

\* It executes the request.
LEMMA ExecuteKeeps ==
    ASSUME BInv, Core, Execute
    PROVE  Core'
  <1>1. /\ UNCHANGED <<eMBState, eRcvState, eSndState, ucRTUBuf, usRcvBufferPos, timer, rx>>
        /\ UNCHANGED <<event, eventReceived, eEvent, line, master, asked, got>>
        /\ poll = "execute" /\ poll' = "reply" /\ due' = None
    BY DEF Execute, slave, slot, host
  <1>2. /\ Order /\ Asking /\ ~Answering /\ ~Sending /\ master = "waiting" /\ asked \in Requests
        /\ WholeTaken /\ due = asked /\ asked # None /\ ~Frame /\ ~eventReceived
    BY <1>1 DEF Order, Asking, Core, DueRight, OrderRight, LineRight, Answering, BInv, Known
  <1>3. ucRTUBuf[1] = <<asked, 1>> /\ ucRTUBuf[2] = <<asked, 2>> /\ line = << >> /\ ~timer
    BY <1>2 DEF WholeTaken
  <1>4. done' = TRUE
    BY <1>2, <1>3 DEF Execute
  <1>5. wrong' = {}
    <2>1. Whole(ucRTUBuf[1], ucRTUBuf[2])
      BY <1>2, <1>3 DEF Whole
    <2>2. due # None /\ ucRTUBuf[1] = <<due, 1>>
      BY <1>2, <1>3
    <2> QED BY <2>1, <2>2 DEF Execute, Blame, Core
  <1>6. ~Frame' /\ ~Order' /\ ~Hearing' /\ ~Asking'
    BY <1>1, <1>2, <1>3 DEF Frame, Order, Waits, Hearing, Asking
  <1>7. got = << >> /\ eSndState # "TX_XMIT" /\ eMBState = "ENABLED"
    BY <1>1, <1>2 DEF Answering, Sending, BInv, Stopped, TypeOK
  <1> QED BY <1>1, <1>2, <1>4, <1>5, <1>6, <1>7
       DEF Core, Off, LineRight, HeardRight, FrameRight, OrderRight, DueRight

\* It answers.
LEMMA AnswerKeeps ==
    ASSUME BInv, Core, WriteReply \/ eMBRTUSend
    PROVE  Core'
  <1>1. /\ UNCHANGED <<eMBState, eRcvState, usRcvBufferPos, timer, eEvent, line, master, asked, due, done, wrong>>
        /\ poll \in {"reply", "send"} /\ poll' \in {"idle", "send"}
    BY DEF WriteReply, eMBRTUSend, host, hist
  <1>2. UNCHANGED <<event, eventReceived>>
    BY DEF WriteReply, eMBRTUSend, TransmitFSM, MaxSize, slot
  <1>3. poll' = "send" => UNCHANGED <<eSndState, got>>
    BY DEF WriteReply, eMBRTUSend, host
  <1>4. /\ Sending /\ Answering /\ ~Asking /\ done /\ master = "waiting" /\ eMBState = "ENABLED"
        /\ ~Frame /\ ~Order /\ ~Hearing /\ line = << >> /\ eSndState # "TX_XMIT" /\ got = << >>
    BY <1>1 DEF Sending, Answering, Core, DueRight, LineRight, Asking, BInv, Stopped, TypeOK
  <1>5. ~Frame' /\ ~Order' /\ ~Hearing' /\ ~Asking'
    BY <1>1, <1>2, <1>4 DEF Frame, Order, Waits, Hearing, Asking
  <1> QED BY <1>1, <1>3, <1>4, <1>5
       DEF Core, Off, LineRight, HeardRight, FrameRight, OrderRight, DueRight

\* The application switches the slave on and off.
LEMMA SwitchKeeps ==
    ASSUME BInv, Core, met = {}, met' = {}, eMBEnable \/ eMBDisable
    PROVE  Core'
  <1>1. /\ UNCHANGED <<eSndState, ucRTUBuf, usRcvBufferPos>>
        /\ UNCHANGED <<event, eventReceived, poll, eEvent, line, master, asked, got, due, done, wrong>>
        /\ poll = "idle"
    BY DEF eMBEnable, eMBDisable, slot, task, host, hist
  <1>2. ~eventReceived /\ eSndState # "TX_XMIT"
    <2>1. CASE eMBEnable
      BY <2>1 DEF eMBEnable, Core, Off, BInv, Stopped
    <2>2. CASE eMBDisable
      <3>1. met \cup (IF eventReceived \/ eSndState = "TX_XMIT" THEN {"stale"} ELSE {}) = {}
        BY <2>2 DEF eMBDisable
      <3> QED BY <3>1
    <2> QED BY <2>1, <2>2
  <1>3. /\ eMBState' = "DISABLED" => ~rx' /\ ~timer'
        /\ ~timer' \/ eRcvState' = "RX_INIT"
    BY DEF eMBEnable, eMBDisable
  <1>4. ~Frame' /\ ~Order' /\ ~Hearing' /\ Sending' = Sending /\ Answering' = Answering
    BY <1>1, <1>2, <1>3 DEF Frame, Order, Waits, Hearing, Sending, Answering
  <1>5. Asking' => Asking
    BY <1>1, <1>4 DEF Asking
  <1> QED BY <1>1, <1>2, <1>3, <1>4, <1>5
       DEF Core, Off, LineRight, HeardRight, FrameRight, OrderRight, DueRight

\* The master asks when nothing of its last request is under way.
LEMMA SendKeeps ==
    ASSUME BInv, Core, NEW r \in Requests, Send(r), ~Asking, ~Sending, asked' = r
    PROVE  Core'
  <1>1. /\ UNCHANGED <<eMBState, eRcvState, eSndState, ucRTUBuf, usRcvBufferPos, timer, rx>>
        /\ UNCHANGED <<event, eventReceived, poll, eEvent, wrong>>
        /\ line' = Wire(r) /\ master' = "waiting" /\ got' = << >>
        /\ due' = IF To[r] = "other" THEN None ELSE r
    BY DEF Send, slave, slot, task
  <1>2. /\ ~Frame' /\ ~Order' /\ ~Hearing' /\ ~Sending' /\ ~Answering'
    BY <1>1 DEF Asking, Frame, Order, Waits, Hearing, Sending, Answering
  <1>3. Wire(r) \in Lines(r)
    BY DEF Wire, Lines
  <1>4. Off' /\ LineRight' /\ wrong' = {}
    BY <1>1, <1>3 DEF Core, Off, LineRight
  <1>5. HeardRight' /\ FrameRight' /\ OrderRight'
    BY <1>2 DEF HeardRight, FrameRight, OrderRight
  <1>6. DueRight'
    BY <1>1, <1>2 DEF DueRight, Sending
  <1> QED BY <1>4, <1>5, <1>6 DEF Core

\* A master that is not too early waits until nothing is under way.
LEMMA PatienceIs ==
    ASSUME BInv, Core, Patience, line = << >>, met = {}, met' = {}
    PROVE  Quiet /\ ~Asking /\ ~Sending
  <1>1. Quiet
    <2>1. ~Quiet => met \cup {"early"} = {}
      BY DEF Patience
    <2> QED BY <2>1
  <1>2. poll = "idle" /\ ~eventReceived /\ eSndState = "TX_IDLE" /\ ~timer
    BY <1>1 DEF Quiet, Core, Off, BInv, TypeOK
  <1> QED BY <1>1, <1>2 DEF Asking, Sending, Frame, Order, Waits, Hearing

\* The master.
LEMMA MasterKeeps ==
    ASSUME BInv, Core, met = {}, met' = {},
           (\E r \in Requests : MasterAsks(r)) \/ MasterRepeats \/ MasterGoesOn \/ MasterAccepts \/ AnswerLost
    PROVE  Core'
  <1>1. ASSUME NEW r \in Requests, MasterAsks(r) PROVE Core'
    <2>1. ~Asking /\ ~Sending /\ Send(r) /\ asked' = r /\ done' = FALSE
      BY <1>1 DEF MasterAsks, Core, LineRight
    <2> QED BY <2>1, SendKeeps
  <1>2. CASE MasterRepeats
    <2>1. asked \in Requests /\ ~Asking /\ ~Sending /\ Send(asked) /\ asked' = asked /\ UNCHANGED done
      BY <1>2, PatienceIs DEF MasterRepeats, BInv, Known
    <2> QED BY <2>1, SendKeeps
  <1>3. CASE MasterGoesOn
    <2>1. /\ UNCHANGED <<eMBState, eRcvState, eSndState, ucRTUBuf, usRcvBufferPos, timer, rx>>
          /\ UNCHANGED <<event, eventReceived, poll, eEvent, line, asked, got, done, wrong>>
      BY <1>3 DEF MasterGoesOn, slave, slot, task
    <2>2. ~Asking /\ ~Sending
      BY <1>3, PatienceIs DEF MasterGoesOn
    <2>3. ~Frame' /\ ~Order' /\ ~Hearing' /\ ~Asking' /\ ~Sending' /\ Answering' = Answering
      BY <2>1, <2>2 DEF Asking, Frame, Order, Waits, Hearing, Sending, Answering
    <2> QED BY <2>1, <2>2, <2>3
         DEF Core, Off, LineRight, HeardRight, FrameRight, OrderRight, DueRight
  <1>4. CASE MasterAccepts \/ AnswerLost
    <2>1. /\ UNCHANGED <<eMBState, eRcvState, eSndState, ucRTUBuf, usRcvBufferPos, timer, rx>>
          /\ UNCHANGED <<event, eventReceived, poll, eEvent, line, asked, due, done>> /\ got' = << >>
      BY <1>4 DEF MasterAccepts, AnswerLost, slave, slot, task
    <2>2. Answering
      <3>1. got # << >>
        BY <1>4 DEF MasterAccepts, AnswerLost, Reply
      <3> QED BY <3>1 DEF Answering
    <2>3. done /\ ~Asking
      BY <2>2 DEF Core, DueRight
    <2>4. ~Frame' /\ ~Order' /\ ~Hearing' /\ ~Asking' /\ Sending' = Sending /\ (Answering' => Answering)
      BY <2>1, <2>2, <2>3 DEF Asking, Frame, Order, Waits, Hearing, Sending, Answering
    <2>5. wrong' = {}
      <3>1. CASE MasterAccepts
        BY <2>3, <3>1 DEF MasterAccepts, Blame, Core
      <3>2. CASE AnswerLost
        BY <3>2 DEF AnswerLost, Core
      <3> QED BY <1>4, <3>1, <3>2
    <2>6. Sending' => master' = "waiting"
      <3>1. CASE MasterAccepts
        <4>1. eSndState # "TX_XMIT" /\ got # << >>
          BY <3>1 DEF MasterAccepts, Reply
        <4>2. ~Sending
          BY <4>1 DEF Core, DueRight, Sending
        <4> QED BY <2>4, <4>2
      <3>2. CASE AnswerLost
        BY <2>4, <3>2 DEF AnswerLost, Core, LineRight
      <3> QED BY <1>4, <3>1, <3>2
    <2> QED BY <2>1, <2>3, <2>4, <2>5, <2>6
         DEF Core, Off, LineRight, HeardRight, FrameRight, OrderRight, DueRight
  <1> QED BY <1>1, <1>2, <1>3, <1>4

\* What went wrong is not forgotten.
LEMMA MetGrows ==
    ASSUME BInv, [Next]_vars
    PROVE  met \subseteq met'
  <1>1. met' = met \/ (\E x : met' = met \cup x)
    BY DEF Next, Poll, Wait, vars, hist, MasterSends, LineFault, Silence, xMBRTUTransmitFSM, EventRead,
       EventClear, eMBRTUReceive, PostExecute, Execute, WriteReply, eMBRTUSend, eMBEnable, eMBDisable,
       MasterAsks, MasterRepeats, MasterGoesOn, Patience, MasterAccepts, AnswerLost
  <1> QED BY <1>1

\* Every step keeps the invariant.
LEMMA NextIInv == IInv /\ [Next]_vars => IInv'
  <1> SUFFICES ASSUME IInv, [Next]_vars PROVE IInv'
    OBVIOUS
  <1>1. BInv /\ BInv'
    BY NextBInv DEF IInv
  <1> SUFFICES ASSUME met' = {} PROVE Core'
    BY <1>1 DEF IInv
  <1>2. met = {}
    BY <1>1, MetGrows
  <1>3. Core
    BY <1>2 DEF IInv
  <1>4. CASE UNCHANGED vars
    <2>1. /\ UNCHANGED <<eMBState, eRcvState, eSndState, ucRTUBuf, usRcvBufferPos, timer, rx>>
          /\ UNCHANGED <<event, eventReceived, poll, eEvent, line, master, asked, got, due, done, wrong>>
      BY <1>4 DEF vars, slave, slot, task, host, hist
    <2>2. /\ Frame' = Frame /\ Order' = Order /\ Hearing' = Hearing /\ Asking' = Asking /\ Sending' = Sending
          /\ Answering' = Answering /\ Valid' = Valid /\ WholeTaken' = WholeTaken
      BY <2>1 DEF Frame, Order, Waits, Hearing, Asking, Sending, Answering, Valid, WholeTaken
    <2> QED BY <1>3, <2>1, <2>2
         DEF Core, Off, LineRight, HeardRight, FrameRight, OrderRight, DueRight
  <1> QED BY <1>1, <1>2, <1>3, <1>4, LineKeeps, SilenceKeeps, TransmitStepKeeps, EventKeeps, ReceiveKeeps,
             PostKeeps, ExecuteKeeps, AnswerKeeps, SwitchKeeps, MasterKeeps DEF Next, Poll, Wait

\* One request at a time is under way, whatever the faults of the line.
THEOREM Invariant == Spec => []IInv
  BY InitIInv, NextIInv, PTL DEF Spec

\* What is executed is one request as the master sent it, although ucRTUBuf is both executed
\* from and received into: for every set of requests and any number of units lost, damaged,
\* added or delayed.
THEOREM ExecutedWhole == Spec => []WholeRequest
  <1>1. IInv => WholeRequest
    BY DEF IInv, Core, WholeRequest
  <1> QED BY <1>1, Invariant, PTL

\* Each transmission is executed at most once, and no answer is accepted before.
THEOREM ExecutedOnce == Spec => []OncePerRequest
  <1>1. IInv => OncePerRequest
    BY DEF IInv, Core, OncePerRequest
  <1> QED BY <1>1, Invariant, PTL

\* The slave does not send while the master does.
THEOREM OneSends == Spec => []HalfDuplex
  <1>1. IInv => HalfDuplex
    BY DEF IInv, Core, DueRight, Asking, Answering, Sending, HalfDuplex
  <1> QED BY <1>1, Invariant, PTL
=============================================================================
