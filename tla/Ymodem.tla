------------------------------- MODULE Ymodem -------------------------------
(***************************************************************************)
(* The receiver of ymodem/ymodem.c, its host and the serial line between   *)
(* them.  A packet is a header byte, which get_receive_data looks at first,*)
(* and a rest; the interrupt handler puts one after the other into recv_buf*)
(* (ymodem_data_recv).  Every fault of line, clock or flash costs one of   *)
(* MaxFaults; met keeps the kinds that have happened.                      *)
(*                                                                         *)
(* Sizes are counted in units: a packet carries Unit of them, file f holds *)
(* the units 1 .. Files[f].  Packet numbers run modulo Mod (256).          *)
(***************************************************************************)
EXTENDS Integers, Sequences

CONSTANTS Files,          \* lengths of the files the host sends
          Unit,           \* units in a packet
          Mod,            \* packet numbers
          MaxErrors,      \* Y_MAY_ERRORS
          Announce,       \* the host sends the length of a file with its name
          Faults,         \* faults that may happen
          MaxFaults

ASSUME SizeAssumption ==
    /\ Files \in Seq(Nat \ {0}) /\ Unit \in Nat \ {0} /\ Mod \in Nat \ {0, 1}
    /\ MaxErrors \in Nat \ {0} /\ MaxFaults \in Nat /\ Announce \in BOOLEAN
ASSUME FaultAssumption ==
    Faults \subseteq {"corrupt", "renumber", "packet", "reply", "late", "cut", "flash"}

VARIABLES \* ymodem.c
          pc,             \* "receive" in the loop of ymodem_receive, then "ok" or "error"
          number,         \* ymodem_packet_number
          files,          \* ymodem_file_number
          seen,           \* y_first_packet_received = Y_IS_PACKET
          file_len,       \* rest of the file, Unknown for 0xFFFFFFFF
          errors,         \* error_number
          eot_num,
          buf,            \* recv_buf: nothing, a header, or a header and its rest
          \* the callbacks of the application
          written,        \* units given to receive_file_data_callback for this file
          accepted,       \* the packets of this file that were answered by ACK
          stored,         \* files completed by receive_file_callback
          broken,         \* a callback has failed
          \* the line and the host
          line, reply,    \* frames and answers under way
          file, block,    \* what the host is sending
          waitC,          \* the host waits for a 'C' before it sends
          faults, met

receiver == <<pc, number, files, seen, file_len, errors, eot_num>>
callbacks == <<written, accepted, stored, broken>>
host == <<file, block, waitC>>
vars == <<receiver, buf, callbacks, line, reply, host, faults, met>>

Unknown == -1             \* 0xFFFFFFFF, and a length that runs to the end of the block
NoDigits == -3            \* no length behind the name
Pad == 0                  \* 0x1A
Junk == -1                \* a unit hit by a line error
Title == [i \in 1 .. Unit |-> -2]          \* the bytes of block 0: name and length

Content(f) == [i \in 1 .. Files[f] |-> i]
Blocks(f) == (Files[f] + Unit - 1) \div Unit
Data(f, b) == [i \in 1 .. Unit |-> IF (b - 1) * Unit + i <= Files[f] THEN (b - 1) * Unit + i ELSE Pad]

\* SOH and STX frames; the others are one byte long.
Packet(num, name, len, data, crc) ==
    [head |-> "SOH", num |-> num, name |-> name, len |-> len, data |-> data, crc |-> crc]
Byte(b) == [head |-> b, num |-> 0, name |-> FALSE, len |-> 0, data |-> << >>, crc |-> FALSE]

\* What is left of a packet whose beginning has been thrown away: its first
\* byte may be anything, also one that looks like a header.
Remains == {Byte("EOT"), Byte("CAN"), Byte("other"),
            Packet(Junk, TRUE, Unknown, [i \in 1 .. Unit |-> Junk], FALSE)}

\* get_receive_data is content: one byte, or a header and all that belongs to it.
Complete == buf # << >> /\ (Head(buf).head # "SOH" \/ Len(buf) = 2)

Fault(f) ==
    /\ f \in Faults /\ faults < MaxFaults
    /\ faults' = faults + 1 /\ met' = met \cup {f}

Init ==
    /\ pc = "receive" /\ number = 0 /\ files = 0 /\ seen = FALSE
    /\ file_len = 0 /\ errors = 0 /\ eot_num = 0 /\ buf = << >>
    /\ written = << >> /\ accepted = << >> /\ stored = << >> /\ broken = FALSE
    /\ line = << >> /\ reply = <<"C">>
    /\ file = 1 /\ block = 0 /\ waitC = TRUE /\ faults = 0 /\ met = {}

-----------------------------------------------------------------------------
(* The host: an ordinary sender, one frame at a time.  Block 0 announces a *)
(* file, 1 .. Blocks are its data, then EOT twice; after the last file a   *)
(* block 0 without a name.                                                 *)

Frame(f, b) ==
    IF f > Len(Files) THEN Packet(0, FALSE, 0, Title, TRUE)
    ELSE IF b = 0 THEN Packet(0, TRUE, IF Announce THEN Files[f] ELSE NoDigits, Title, TRUE)
    ELSE IF b <= Blocks(f) THEN Packet(b % Mod, TRUE, 0, Data(f, b), TRUE)
    ELSE Byte("EOT")

Resend == line' = Append(line, Frame(file, block)) /\ UNCHANGED <<file, block>>

HostAck ==
    /\ Head(reply) = "ACK" /\ ~waitC /\ file <= Len(Files)
    /\ IF block <= Blocks(file)
         THEN block' = block + 1 /\ waitC' = (block = 0) /\ UNCHANGED file
         ELSE block' = 0 /\ waitC' = TRUE /\ file' = file + 1
    /\ line' = IF waitC' THEN line ELSE Append(line, Frame(file', block'))

HostGo == Head(reply) = "C" /\ waitC /\ waitC' = FALSE /\ Resend

HostRepeat ==
    /\ ~waitC /\ (Head(reply) = "NAK" \/ (Head(reply) = "C" /\ block <= 1))
    /\ Resend /\ UNCHANGED waitC

HostIgnore ==
    /\ \/ Head(reply) = "CAN" \/ (Head(reply) = "C" /\ ~waitC /\ block > 1)
       \/ Head(reply) \in {"ACK", "NAK"} /\ waitC
       \/ Head(reply) = "ACK" /\ file > Len(Files)
    /\ UNCHANGED <<line, host>>

HostReceive ==
    /\ reply # << >> /\ reply' = Tail(reply)
    /\ HostAck \/ HostGo \/ HostRepeat \/ HostIgnore
    /\ UNCHANGED <<receiver, buf, callbacks, faults, met>>

\* Nothing is under way.
Silence == line = << >> /\ reply = << >>

HostTimeout ==
    /\ pc = "receive" /\ Silence /\ ~Complete /\ ~waitC
    /\ Resend
    /\ UNCHANGED <<receiver, buf, callbacks, reply, waitC, faults, met>>

-----------------------------------------------------------------------------
(* The line: damages or loses what is under way.                           *)

\* Bad data, with a wrong length or no name in block 0; or a bad packet number.
Damaged(p) ==
    IF p.data = Title
      THEN {Packet(p.num, n, Unknown, p.data, FALSE) : n \in BOOLEAN}
      ELSE {Packet(p.num, p.name, p.len, [i \in 1 .. Unit |-> Junk], FALSE)}

Corrupt ==
    /\ line # << >> /\ Head(line).head = "SOH" /\ Head(line).crc
    /\ \/ Fault("corrupt") /\ \E d \in Damaged(Head(line)) : line' = <<d>> \o Tail(line)
       \/ Fault("renumber") /\ line' = <<[Head(line) EXCEPT !.num = Junk]>> \o Tail(line)
    /\ buf = << >>
    /\ UNCHANGED <<receiver, buf, callbacks, reply, host>>

LosePacket ==
    /\ line # << >> /\ buf = << >> /\ Fault("packet")
    /\ line' = Tail(line)
    /\ UNCHANGED <<receiver, buf, callbacks, reply, host>>

LoseReply ==
    /\ reply # << >> /\ Fault("reply")
    /\ reply' = Tail(reply)
    /\ UNCHANGED <<receiver, buf, callbacks, line, host>>

-----------------------------------------------------------------------------
(* The receiver.                                                           *)

\* The interrupt handler.  A header that is none (out of Remains) takes the bytes
\* of the next frame for its own and leaves what is over.
ymodem_data_recv ==
    /\ pc = "receive" /\ line # << >> /\ ~Complete
    /\ LET f == Head(line) IN
       \/ /\ buf = << >> /\ buf' = <<f>>
          /\ line' = IF f.head = "SOH" /\ f \notin Remains THEN line ELSE Tail(line)
       \/ buf = <<f>> /\ f \notin Remains /\ buf' = <<f, "rest">> /\ line' = Tail(line)
       \/ /\ buf # << >> /\ Head(buf) \in Remains
          /\ buf' = <<Head(buf), "rest">>
          /\ \E j \in Remains : line' = <<j>> \o Tail(line)
    /\ UNCHANGED <<receiver, callbacks, reply, host, faults, met>>

\* Mutant: every error counts twice.
MutantCountTwice(e) ==
    /\ errors' = e + 2 /\ buf' = << >>
    /\ IF e + 2 >= MaxErrors
         THEN pc' = "error" /\ reply' = reply \o <<"CAN", "CAN">>
         ELSE reply' = Append(reply, "NAK") /\ UNCHANGED pc

\* Mutant: errors are not counted.
MutantNoLimit(e) ==
    errors' = e /\ buf' = << >> /\ reply' = Append(reply, "NAK") /\ UNCHANGED pc

\* ymodem_error_handler with the counter at e: NAK, or give up.
ymodem_error_handler(e) ==
    /\ errors' = e + 1 /\ buf' = << >>
    /\ IF e + 1 >= MaxErrors
         THEN pc' = "error" /\ reply' = reply \o <<"CAN", "CAN">>
         ELSE reply' = Append(reply, "NAK") /\ UNCHANGED pc

\* get_receive_data gives up.  It should only do so when nothing is under way, but
\* its clock starts when it begins to wait, not when the last byte came.
Timeout ==
    /\ pc = "receive" /\ ~Complete
    /\ \/ Silence /\ UNCHANGED <<line, faults, met>>
       \/ ~Silence /\ buf = << >> /\ Fault("late") /\ UNCHANGED line
       \/ /\ ~Silence /\ buf # << >> /\ Fault("cut")
          /\ IF seen /\ Head(buf) \notin Remains
               THEN \E j \in Remains : line' = <<j>> \o Tail(line)
               ELSE UNCHANGED line
    /\ IF seen THEN ymodem_error_handler(errors)
               ELSE reply' = Append(reply, "C") /\ UNCHANGED <<pc, errors, buf>>
    /\ UNCHANGED <<number, files, seen, file_len, eot_num, callbacks, host>>

\* get_active_length: without the padding at the end.
get_active_length(d) ==
    LET n == {i \in 1 .. Len(d) : d[i] # Pad} IN
    IF n = {} THEN 0 ELSE CHOOSE m \in n : \A i \in n : i <= m

\* get_file_len: its loop over the digits may find none.
get_file_len(text) == IF text = NoDigits THEN 0 ELSE text

\* Mutant: number 0 announces a file even in the middle of one.
MutantIsFirst(p) == p.num = 0

\* Block 0 of a file, and not the 256th of one.
IsFirst(p) == p.num = 0 /\ ~seen

\* Mutant: a flash error is the bit of Y_ERROR_UART only.
MutantStatus(crc, num, flash, eoy) ==
    (IF crc \/ eoy THEN 1 ELSE 0) + (IF num \/ eoy THEN 2 ELSE 0)
        + (IF flash \/ eoy THEN 4 ELSE 0)

\* The bits of ymodem_status: 1 CRC, 2 number, 6 flash, 7 end of all files.
Status(crc, num, flash, eoy) ==
    (IF crc \/ eoy THEN 1 ELSE 0) + (IF num \/ flash \/ eoy THEN 2 ELSE 0)
        + (IF flash \/ eoy THEN 4 ELSE 0)

\* The callbacks of ymodem_handle_packet, which are called whatever is wrong with
\* the packet; a file starts with its name, and its data follow each other.
Deliver(p, fails) ==
    LET size == IF file_len = Unknown THEN get_active_length(p.data)
                ELSE IF file_len < Len(p.data) THEN file_len ELSE Len(p.data)
    IN  /\ IF IsFirst(p)
             THEN /\ file_len' = IF p.name THEN get_file_len(p.len) ELSE file_len
                  /\ written' = IF p.name THEN << >> ELSE written
                  /\ UNCHANGED seen
             ELSE /\ file_len' = IF file_len = Unknown THEN Unknown ELSE file_len - size
                  /\ written' = IF fails THEN written ELSE written \o SubSeq(p.data, 1, size)
                  /\ seen' = TRUE
        /\ broken' = (broken \/ fails)

\* Mutant: a packet with the wrong number is taken too.
Mutant_handle_packet(p, fails) ==
    Status(~p.crc, FALSE, fails, IsFirst(p) /\ ~p.name)

\* The result of ymodem_handle_packet.
ymodem_handle_packet(p, fails) ==
    Status(~p.crc, p.num # number, fails, IsFirst(p) /\ ~p.name)

HandlePacket(fails) ==
    LET p == Head(buf)
        status == ymodem_handle_packet(p, fails)
    IN  /\ p.head = "SOH"
        /\ Deliver(p, fails)
        /\ IF fails THEN ~(IsFirst(p) /\ ~p.name) /\ Fault("flash") ELSE UNCHANGED <<faults, met>>
        /\ number' = IF status = 0 THEN (number + 1) % Mod ELSE number
        /\ accepted' = IF IsFirst(p) THEN << >> ELSE IF status = 0 THEN Append(accepted, p.data) ELSE accepted
        /\ CASE status = 0 -> /\ reply' = reply \o (IF seen' THEN <<"ACK">> ELSE <<"ACK", "C">>)
                              /\ buf' = << >> /\ UNCHANGED <<pc, errors>>
             [] status = 6 -> ymodem_error_handler(MaxErrors)
             [] status = 7 -> /\ reply' = Append(reply, "ACK") /\ pc' = "ok"
                              /\ buf' = << >> /\ UNCHANGED errors
             [] OTHER -> ymodem_error_handler(errors)
        /\ UNCHANGED <<files, eot_num, stored>>

\* Mutant: every EOT closes a file.
MutantHandleEOT ==
    /\ Head(buf).head = "EOT" /\ buf' = << >>
    /\ reply' = reply \o <<"NAK", "ACK", "C">>
    /\ seen' = FALSE /\ number' = 0 /\ files' = files + 1
    /\ stored' = Append(stored, written) /\ written' = << >>
    /\ UNCHANGED <<pc, file_len, errors, eot_num, accepted, broken, faults, met>>

\* The first EOT is answered by NAK, the second closes the file.
HandleEOT ==
    /\ Head(buf).head = "EOT" /\ buf' = << >>
    /\ IF eot_num = 0
         THEN /\ eot_num' = 1 /\ reply' = Append(reply, "NAK")
              /\ UNCHANGED <<seen, number, files, stored, written>>
         ELSE /\ eot_num' = 0 /\ reply' = reply \o <<"ACK", "C">>
              /\ seen' = FALSE /\ number' = 0 /\ files' = files + 1
              /\ stored' = Append(stored, written) /\ written' = << >>
    /\ UNCHANGED <<pc, file_len, errors, accepted, broken, faults, met>>

HandleCAN ==
    /\ Head(buf).head = "CAN" /\ buf' = << >>
    /\ pc' = "error"
    /\ UNCHANGED <<number, files, seen, file_len, errors, eot_num, callbacks, reply, faults, met>>

HandleOther ==
    /\ Head(buf).head = "other"
    /\ ymodem_error_handler(errors)
    /\ UNCHANGED <<number, files, seen, file_len, eot_num, callbacks, faults, met>>

\* One round of the loop of ymodem_receive.
Receive ==
    /\ pc = "receive" /\ Complete
    /\ (\E fails \in BOOLEAN : HandlePacket(fails)) \/ HandleEOT \/ HandleCAN \/ HandleOther
    /\ UNCHANGED <<line, host>>

-----------------------------------------------------------------------------
Next ==
    \/ HostReceive \/ HostTimeout
    \/ Corrupt \/ LosePacket \/ LoseReply
    \/ ymodem_data_recv \/ Timeout \/ Receive

Spec == Init /\ [][Next]_vars

\* The receiver polls, bytes on the line arrive, the clocks of both sides run.
FairSpec ==
    /\ Spec
    /\ WF_vars(Receive) /\ WF_vars(ymodem_data_recv) /\ WF_vars(HostReceive)
    /\ WF_vars(Timeout) /\ SF_vars(HostTimeout)

-----------------------------------------------------------------------------
\* Packet numbers wrap, ymodem_error_handler stops the transfer as soon as its counter
\* reaches the limit, and the host never passes its last file.
TypeOK ==
    /\ pc \in {"receive", "ok", "error"} /\ number \in 0 .. Mod - 1 /\ files \in Nat
    /\ seen \in BOOLEAN /\ file_len \in Nat \cup {Unknown}
    /\ errors \in 0 .. MaxErrors + 1 /\ eot_num \in {0, 1}
    /\ Len(buf) <= 2 /\ broken \in BOOLEAN /\ waitC \in BOOLEAN
    /\ file \in 1 .. Len(Files) + 1 /\ faults \in 0 .. MaxFaults

\* ymodem/README.md: bit 15 of the result is 0 when all data has been received:
\* every file then has been given to the callbacks unchanged, once and in order.
AllDelivered ==
    pc = "ok" => stored = [f \in 1 .. Len(Files) |-> Content(f)]

\* The same for a line that only loses packets: no timeout, NAK or repeated packet
\* of ymodem_receive adds, drops or repeats anything, also where numbers wrap.
Delivered == met \subseteq {"packet"} => AllDelivered

\* ymodem.c:37: the result is the number of files received.  It is exact while packets are only
\* lost or renumbered and a callback fails.  A lost answer or an early timeout makes the host
\* repeat an EOT, which closes the same file again (ymodem.c:116), but loses no file; and
\* whatever happens, no fault adds more than one to the count.  Only a damaged first packet,
\* whose empty name ends the transfer, or a cut one can leave files out.
CountRight == pc = "ok" =>
    /\ met \subseteq {"packet", "renumber", "flash"} => files = Len(Files)
    /\ met \subseteq {"packet", "renumber", "flash", "reply", "late"} => files >= Len(Files)
    /\ files <= Len(Files) + faults

\* ymodem.c:95: an error of the flash ends the transfer at once, when no packet was
\* damaged or cut as well.
FlashErrorAborts ==
    met \subseteq {"packet", "reply", "flash"} /\ broken => pc = "error"

\* Damaged, lost and repeated packets: what ymodem_handle_packet acknowledged is the
\* beginning of the file, and the host has not gone on without an acknowledgement.
AckedInOrder ==
    met \subseteq {"corrupt", "packet", "reply"} /\ pc = "receive" /\ block > 1 =>
       \E n \in block - 1 .. Blocks(file) : accepted = [b \in 1 .. n |-> Data(file, b)]

\* Whatever happens on the line, the loop of ymodem_receive ends: every fault is
\* answered, or counted by ymodem_error_handler.
Finishes == <>(pc # "receive")

\* With fewer lost packets than Y_MAY_ERRORS the NAKs of ymodem_error_handler bring
\* the transfer to its end.
Succeeds == <>(pc = "ok" \/ ~(met \subseteq {"packet"}))
=============================================================================
