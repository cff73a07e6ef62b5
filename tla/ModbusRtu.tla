----------------------------- MODULE ModbusRtu ------------------------------
(***************************************************************************)
(* A Modbus RTU slave: the state machines of FreeModbus/modbus/rtu/mbrtu.c *)
(* that run in the interrupt handlers of the UART and of the t3.5 timer,   *)
(* eMBPoll of modbus/mb.c in a task, the one event slot between them       *)
(* (port/portevent.c), and a master on a half-duplex line that repeats     *)
(* what is not answered.  An interrupt handler is one step; the task can   *)
(* be interrupted between any two steps, except in critical sections.      *)
(*                                                                         *)
(* A frame is three units: the header, the data, and a CRC of both.        *)
(***************************************************************************)
EXTENDS Integers, Sequences

CONSTANTS Requests,       \* what the master may ask for
          Kind, To,       \* per request: "read" or "write"; "us", "all" or "other"
          MaxFaults,      \* units lost, damaged, added or delayed
          MaxUpsets       \* times the master gives up too early, and calls of eMBDisable

ASSUME RtuAssumption == /\ Kind \in [Requests -> {"read", "write"}]
                        /\ To \in [Requests -> {"us", "all", "other"}]
                        /\ "none" \notin Requests
                        /\ MaxFaults \in Nat /\ MaxUpsets \in Nat

VARIABLES eMBState, eRcvState, eSndState,
          ucRTUBuf, usRcvBufferPos, usSndBufferCount,
          ucRcvAddress,   \* a static of eMBPoll
          timer, rx,      \* the t3.5 timer runs, the receive interrupt is on
          event, eventReceived,
          poll, eEvent,   \* where eMBPoll is, its local
          line,           \* units of the master's frame that are still to come
          master, asked,  \* what the master does, its last request
          got,            \* the units of the answer
          due,            \* history: the request that was sent and not yet executed
          done,           \* history: the request the master waits for was executed
          wrong,          \* history: something else was executed, or accepted as the answer
          faults, upsets, met

slave == <<eMBState, eRcvState, eSndState, ucRTUBuf, usRcvBufferPos, usSndBufferCount, ucRcvAddress, timer, rx>>
slot == <<event, eventReceived>>
task == <<poll, eEvent>>
host == <<line, master, asked, got>>
hist == <<due, done, wrong, faults, upsets, met>>
vars == <<slave, slot, task, host, hist>>

MaxSize == 3              \* MB_SER_PDU_SIZE_MAX
Noise == <<"noise", 0>>
Data == <<"data", 0>>     \* what a read puts into its reply
None == "none"

Crc(h, d) == <<"crc", h, d>>
Wire(r) == <<<<r, 1>>, <<r, 2>>, Crc(<<r, 1>>, <<r, 2>>)>>
Reply(r) == LET d == IF Kind[r] = "read" THEN Data ELSE <<r, 2>> IN <<<<r, 1>>, d, Crc(<<r, 1>>, d)>>

Init == /\ eMBState = "DISABLED" /\ eRcvState = "RX_INIT" /\ eSndState = "TX_IDLE"
        /\ ucRTUBuf = [i \in 1 .. MaxSize |-> Noise] /\ usRcvBufferPos = 0 /\ usSndBufferCount = 0
        /\ ucRcvAddress = "other" /\ timer = FALSE /\ rx = FALSE
        /\ event = "EV_READY" /\ eventReceived = FALSE
        /\ poll = "idle" /\ eEvent = "EV_READY"
        /\ line = << >> /\ master = "idle" /\ asked = None /\ got = << >>
        /\ due = None /\ done = FALSE /\ wrong = {}
        /\ faults = 0 /\ upsets = 0 /\ met = {}

-----------------------------------------------------------------------------
(* The interrupt handlers                                                  *)

xMBPortEventPost(e) == event' = e /\ eventReceived' = TRUE

\* The buffer has room for another character.
Room == usRcvBufferPos < MaxSize

\* xMBRTUReceiveFSM: a character starts a frame, or goes on with it until the buffer is full.
xMBRTUReceiveFSM(u) ==
    /\ CASE eRcvState = "RX_IDLE" -> /\ ucRTUBuf' = [ucRTUBuf EXCEPT ![1] = u]
                                     /\ usRcvBufferPos' = 1 /\ eRcvState' = "RX_RCV"
         [] eRcvState = "RX_RCV" /\ Room ->
                                     /\ ucRTUBuf' = [ucRTUBuf EXCEPT ![usRcvBufferPos + 1] = u]
                                     /\ usRcvBufferPos' = usRcvBufferPos + 1 /\ UNCHANGED eRcvState
         [] eRcvState = "RX_RCV" /\ ~Room ->
                                     /\ eRcvState' = "RX_ERROR" /\ UNCHANGED <<ucRTUBuf, usRcvBufferPos>>
         [] OTHER -> UNCHANGED <<ucRTUBuf, usRcvBufferPos, eRcvState>>
    /\ timer' = TRUE
    /\ UNCHANGED <<eMBState, eSndState, usSndBufferCount, ucRcvAddress, rx>>

\* A character is on the line; it is lost when the receive interrupt is off.
Character(u) == IF rx THEN xMBRTUReceiveFSM(u) ELSE UNCHANGED slave

MasterSends ==
    /\ line # << >> /\ line' = Tail(line)
    /\ Character(Head(line))
    /\ UNCHANGED <<slot, task, master, asked, got, hist>>

\* A unit is lost, damaged, or followed by noise.
LineFault ==
    /\ line # << >> /\ faults < MaxFaults /\ faults' = faults + 1
    /\ \/ line' = Tail(line) /\ UNCHANGED slave
       \/ line' = Tail(line) /\ Character(Noise)
       \/ line' = <<Noise>> \o Tail(line) /\ Character(Head(line))
    /\ UNCHANGED <<slot, task, master, asked, got, due, done, wrong, upsets, met>>

\* xMBRTUTimerT35Expired: the line was silent for 3.5 characters.
xMBRTUTimerT35Expired ==
    /\ timer' = FALSE /\ eRcvState' = "RX_IDLE"
    /\ CASE eRcvState = "RX_INIT" -> xMBPortEventPost("EV_READY")
         [] eRcvState = "RX_RCV"  -> xMBPortEventPost("EV_FRAME_RECEIVED")
         [] OTHER -> UNCHANGED slot
    /\ UNCHANGED <<eMBState, eSndState, ucRTUBuf, usRcvBufferPos, usSndBufferCount, ucRcvAddress, rx>>

\* Mutant: the CRC is not checked.
MutantValid == usRcvBufferPos = MaxSize
\* The length and the CRC of eMBRTUReceive.
Valid == usRcvBufferPos = MaxSize /\ ucRTUBuf[3] = Crc(ucRTUBuf[1], ucRTUBuf[2])

\* The characters of a frame follow one another without a gap, unless the master is delayed.
\* Noise that comes after the end of a whole frame is "late".
Silence ==
    /\ timer /\ xMBRTUTimerT35Expired
    /\ \/ line = << >> /\ UNCHANGED <<faults, met>>
       \/ /\ line # << >> /\ faults < MaxFaults /\ faults' = faults + 1
          /\ met' = met \cup IF eRcvState = "RX_RCV" /\ Valid THEN {"late"} ELSE {}
    /\ UNCHANGED <<task, host, due, done, wrong, upsets>>

\* Mutant: the receiver stays off after a frame was sent.
MutantTransmitFSM(count, sent) ==
    IF count > 0
      THEN /\ usSndBufferCount' = count - 1
           /\ got' = IF master = "waiting" THEN Append(sent, ucRTUBuf'[MaxSize + 1 - count]) ELSE sent
           /\ UNCHANGED slot
      ELSE /\ xMBPortEventPost("EV_FRAME_SENT")
           /\ rx' = FALSE /\ eSndState' = "TX_IDLE"
           /\ UNCHANGED <<usSndBufferCount, got>>

\* xMBRTUTransmitFSM: the next unit, or the end of the frame.
TransmitFSM(count, sent) ==
    IF count > 0
      THEN /\ usSndBufferCount' = count - 1
           /\ got' = IF master = "waiting" THEN Append(sent, ucRTUBuf'[MaxSize + 1 - count]) ELSE sent
           /\ UNCHANGED slot
      ELSE /\ xMBPortEventPost("EV_FRAME_SENT")
           /\ rx' = TRUE /\ eSndState' = "TX_IDLE"
           /\ UNCHANGED <<usSndBufferCount, got>>

xMBRTUTransmitFSM ==
    /\ eSndState = "TX_XMIT"
    /\ UNCHANGED <<eMBState, eRcvState, ucRTUBuf, usRcvBufferPos, ucRcvAddress, timer,
                   task, line, master, asked, hist>>
    /\ TransmitFSM(usSndBufferCount, got)
    /\ usSndBufferCount > 0 => UNCHANGED <<rx, eSndState>>

-----------------------------------------------------------------------------
(* The task                                                                *)

\* xMBPortEventGet reads the event and then clears the flag.
EventRead ==
    /\ poll = "idle" /\ eMBState = "ENABLED" /\ eventReceived
    /\ poll' = "clear" /\ eEvent' = event
    /\ UNCHANGED <<slave, slot, host, hist>>

\* An event posted since it was read is lost here.
EventClear ==
    /\ poll = "clear" /\ eventReceived' = FALSE
    /\ poll' = CASE eEvent = "EV_FRAME_RECEIVED" -> "receive"
                 [] eEvent = "EV_EXECUTE"        -> "execute"
                 [] OTHER                        -> "idle"
    /\ eEvent' = "EV_READY"
    /\ UNCHANGED <<slave, event, host, hist>>

\* Mutant: a frame for any slave is taken.
MutantAddress(u) == IF u[1] \in Requests THEN "us" ELSE "other"
\* The address in a header.
Address(u) == IF u[1] \in Requests THEN To[u[1]] ELSE "other"

eMBRTUReceive ==
    /\ poll = "receive"
    /\ ucRcvAddress' = IF Valid THEN Address(ucRTUBuf[1]) ELSE ucRcvAddress
    /\ poll' = IF Valid /\ Address(ucRTUBuf[1]) # "other" THEN "post" ELSE "idle"
    /\ UNCHANGED <<eMBState, eRcvState, eSndState, ucRTUBuf, usRcvBufferPos, usSndBufferCount, timer, rx,
                   slot, eEvent, host, hist>>

PostExecute ==
    /\ poll = "post" /\ poll' = "idle" /\ xMBPortEventPost("EV_EXECUTE")
    /\ UNCHANGED <<slave, eEvent, host, hist>>

Whole(h, d) == \E r \in Requests : h = <<r, 1>> /\ d = <<r, 2>>
Blame(what) == wrong' = IF what = {} THEN wrong ELSE wrong \cup what

\* EV_EXECUTE: the function handler takes the request from ucRTUBuf.
Execute ==
    LET h == ucRTUBuf[1]
        d == ucRTUBuf[2]
    IN  /\ poll = "execute" /\ poll' = "reply"
        /\ Blame((IF Whole(h, d) THEN {} ELSE {"mixed"}) \cup
                 (IF due # None /\ h = <<due, 1>> THEN {} ELSE {"unasked"}))
        /\ due' = None
        /\ done' = (done \/ (asked # None /\ h = <<asked, 1>> /\ d = <<asked, 2>>))
        /\ UNCHANGED <<slave, slot, eEvent, host, faults, upsets, met>>

\* It writes its answer over the request.
WriteReply ==
    LET h == ucRTUBuf[1] IN
    /\ poll = "reply" /\ poll' = IF ucRcvAddress = "all" THEN "idle" ELSE "send"
    /\ ucRTUBuf' = IF h[1] \in Requests /\ Kind[h[1]] = "read" THEN [ucRTUBuf EXCEPT ![2] = Data] ELSE ucRTUBuf
    /\ UNCHANGED <<eMBState, eRcvState, eSndState, usRcvBufferPos, usSndBufferCount, ucRcvAddress, timer, rx,
                   slot, eEvent, host, hist>>

\* Mutant: the answer is sent whatever the receiver does.
MutantMaySend == TRUE
\* The receiver is still idle: no other frame is being received.
MaySend == eRcvState = "RX_IDLE"

\* eMBRTUSend: the receiver is switched off and the first unit is put out at once.
eMBRTUSend ==
    /\ poll = "send" /\ poll' = "idle"
    /\ IF MaySend
         THEN /\ ucRTUBuf' = [ucRTUBuf EXCEPT ![3] = Crc(ucRTUBuf[1], ucRTUBuf[2])]
              /\ eSndState' = "TX_XMIT" /\ rx' = FALSE
              /\ TransmitFSM(MaxSize, << >>)
         ELSE UNCHANGED <<ucRTUBuf, eSndState, rx, usSndBufferCount, got, slot>>
    /\ UNCHANGED <<eMBState, eRcvState, usRcvBufferPos, ucRcvAddress, timer, eEvent, line, master, asked, hist>>

\* eMBEnable and eMBRTUStart
eMBEnable ==
    /\ poll = "idle" /\ eMBState = "DISABLED"
    /\ eMBState' = "ENABLED" /\ eRcvState' = "RX_INIT" /\ rx' = TRUE /\ timer' = TRUE
    /\ UNCHANGED <<eSndState, ucRTUBuf, usRcvBufferPos, usSndBufferCount, ucRcvAddress, slot, task, host, hist>>

\* eMBDisable and eMBRTUStop.  Neither the transmitter nor the event slot is touched.
eMBDisable ==
    /\ poll = "idle" /\ eMBState = "ENABLED" /\ upsets < MaxUpsets /\ upsets' = upsets + 1
    /\ eMBState' = "DISABLED" /\ rx' = FALSE /\ timer' = FALSE
    /\ met' = met \cup IF eventReceived \/ eSndState = "TX_XMIT" THEN {"stale"} ELSE {}
    /\ UNCHANGED <<eRcvState, eSndState, ucRTUBuf, usRcvBufferPos, usSndBufferCount, ucRcvAddress,
                   slot, task, host, due, done, wrong, faults>>

-----------------------------------------------------------------------------
(* The master                                                              *)

\* It starts a frame after a silence of 3.5 characters.
Send(r) ==
    /\ ~timer
    /\ line' = Wire(r) /\ master' = "waiting" /\ got' = << >>
    /\ due' = IF To[r] = "other" THEN None ELSE r
    /\ UNCHANGED <<slave, slot, task, wrong, faults>>

MasterAsks(r) ==
    /\ master = "idle" /\ Send(r) /\ asked' = r /\ done' = FALSE /\ UNCHANGED <<upsets, met>>

\* The slave has nothing left to do with what it received.
Quiet == poll = "idle" /\ ~(eventReceived /\ eMBState = "ENABLED") /\ eSndState = "TX_IDLE" /\ ~timer

Patience ==
    /\ got # Reply(asked)
    /\ \/ Quiet /\ UNCHANGED <<upsets, met>>
       \/ ~Quiet /\ upsets < MaxUpsets /\ upsets' = upsets + 1 /\ met' = met \cup {"early"}

\* No answer came in time.
MasterRepeats ==
    /\ master = "waiting" /\ line = << >> /\ To[asked] = "us" /\ Patience
    /\ Send(asked) /\ UNCHANGED <<asked, done>>

\* The time for a broadcast, or for another slave to answer, is over; or it is given up.
MasterGoesOn ==
    /\ master = "waiting" /\ line = << >> /\ Patience
    /\ To[asked] = "us" => ~Quiet
    /\ master' = "idle" /\ due' = IF "early" \in met' THEN due ELSE None
    /\ UNCHANGED <<slave, slot, task, line, asked, got, done, wrong, faults>>

\* An answer to another function is ignored.
MasterAccepts ==
    /\ master = "waiting" /\ line = << >> /\ eSndState = "TX_IDLE" /\ got = Reply(asked)
    /\ master' = "idle" /\ got' = << >>
    /\ Blame(IF done THEN {} ELSE {"answer"})
    /\ UNCHANGED <<slave, slot, task, line, asked, due, done, faults, upsets, met>>

\* The answer is damaged on the line.
AnswerLost ==
    /\ got # << >> /\ faults < MaxFaults /\ faults' = faults + 1 /\ got' = << >>
    /\ UNCHANGED <<slave, slot, task, line, master, asked, due, done, wrong, upsets, met>>

Poll == EventRead \/ EventClear \/ eMBRTUReceive \/ PostExecute \/ Execute \/ WriteReply \/ eMBRTUSend
Wait == MasterRepeats \/ MasterGoesOn

Next ==
    \/ MasterSends \/ LineFault \/ Silence \/ xMBRTUTransmitFSM
    \/ Poll \/ eMBEnable \/ eMBDisable
    \/ \E r \in Requests : MasterAsks(r)
    \/ Wait \/ MasterAccepts \/ AnswerLost

\* Characters and interrupts come, the task runs, and the master does not wait for ever.
Fairness ==
    /\ WF_vars(MasterSends) /\ WF_vars(Silence) /\ WF_vars(xMBRTUTransmitFSM)
    /\ WF_vars(Poll) /\ WF_vars(eMBEnable) /\ WF_vars(Wait) /\ WF_vars(MasterAccepts)

Spec == Init /\ [][Next]_vars /\ Fairness

-----------------------------------------------------------------------------
(* Properties                                                              *)

\* What may be on the line, and what may be in the buffer.
Sent == {<<r, i>> : r \in Requests, i \in {1, 2}} \cup {Crc(<<r, 1>>, <<r, 2>>) : r \in Requests} \cup {Noise, Data}
Unit == Sent \cup {Crc(h, d) : h \in Sent, d \in Sent}
Events == {"EV_READY", "EV_FRAME_RECEIVED", "EV_EXECUTE", "EV_FRAME_SENT"}

TypeOK ==
    /\ eMBState \in {"DISABLED", "ENABLED"} /\ eRcvState \in {"RX_INIT", "RX_IDLE", "RX_RCV", "RX_ERROR"}
    /\ eSndState \in {"TX_IDLE", "TX_XMIT"} /\ timer \in BOOLEAN /\ rx \in BOOLEAN
    /\ ucRTUBuf \in [1 .. MaxSize -> Unit] /\ ucRTUBuf[1] \in Sent /\ ucRTUBuf[2] \in Sent
    /\ usRcvBufferPos \in 0 .. MaxSize /\ usSndBufferCount \in 0 .. MaxSize
    /\ event \in Events /\ eventReceived \in BOOLEAN /\ eEvent \in Events
    /\ poll \in {"idle", "clear", "receive", "post", "execute", "reply", "send"}
    /\ line \in Seq(Sent) /\ master \in {"idle", "waiting"} /\ asked \in Requests \cup {None}
    /\ got \in Seq(Unit) /\ Len(got) + usSndBufferCount <= MaxSize
    /\ due \in Requests \cup {None} /\ done \in BOOLEAN /\ faults \in Nat /\ upsets \in Nat
    /\ wrong \subseteq {"mixed", "unasked", "answer"} /\ met \subseteq {"early", "late", "stale"}

\* What a handler executes is one request as the master sent it, never a damaged one and
\* never parts of two, although ucRTUBuf is both what is executed and what is received into;
\* unless the master sends before the slave has answered, noise follows a whole frame after
\* a silence, or eMBDisable left an event behind.
WholeRequest == "mixed" \in wrong => met # {}

\* Each transmission of a request to this slave is executed at most once, one to another
\* slave never, and the master accepts no answer before its request was executed; unless the
\* master is too early, noise follows a whole frame after a silence, or eMBDisable left an
\* event or a transmission behind.
OncePerRequest == wrong \cap {"unasked", "answer"} # {} => met # {}

\* Whenever the receiver waits for the end of a frame the t3.5 timer is running: no order of
\* characters, errors, transmissions and calls leaves it in a state nothing ends.
TimerRuns == eMBState = "ENABLED" /\ eRcvState # "RX_IDLE" => timer

\* The slave does not send while the master does.
HalfDuplex == eSndState = "TX_XMIT" /\ line # << >> => met # {}

\* The assertions of the two state machines, which port.h switches off: the receiver is
\* idle and off while the slave sends, also when the master is too early.
AssertsHold == eSndState = "TX_XMIT" => "stale" \in met \/ (~rx /\ eRcvState = "RX_IDLE")

\* A request that the master repeats is answered in the end, although xMBPortEventGet may
\* lose the event of a frame that arrives between its two statements.
Answered == master = "waiting" ~> master = "idle"
=============================================================================
