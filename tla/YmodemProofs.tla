---------------------------- MODULE YmodemProofs ----------------------------
(***************************************************************************)
(* The receiver of ymodem, for any files, packet size, wrap of the packet  *)
(* numbers and limit of errors: what it acknowledges is the file in order, *)
(* what it counts and stores is what was sent, and a flash error ends it.  *)
(***************************************************************************)
EXTENDS Ymodem, SequenceTheorems, TLAPS

Frames == [head : {"SOH", "EOT", "CAN", "other"}, num : Int, name : BOOLEAN,
           len : Nat \cup {Unknown, NoDigits}, data : Seq(Int), crc : BOOLEAN]
Replies == {"C", "ACK", "NAK", "CAN"}

\* The types of all variables; while it goes on, the counter is below its limit.
TypeInv ==
    /\ pc \in {"receive", "ok", "error"} /\ number \in 0 .. Mod - 1 /\ files \in Nat
    /\ seen \in BOOLEAN /\ file_len \in Nat \cup {Unknown} /\ eot_num \in {0, 1}
    /\ errors \in 0 .. MaxErrors + 1 /\ (pc = "receive" => errors < MaxErrors)
    /\ buf \in {<< >>} \cup {<<f>> : f \in Frames} \cup {<<f, "rest">> : f \in Frames}
    /\ broken \in BOOLEAN /\ line \in Seq(Frames) /\ reply \in Seq(Replies)
    /\ file \in 1 .. Len(Files) + 1 /\ waitC \in BOOLEAN
    /\ block \in Nat /\ (IF file > Len(Files) THEN block = 0 ELSE block <= Blocks(file) + 1)
    /\ faults \in 0 .. MaxFaults /\ met \subseteq Faults

-----------------------------------------------------------------------------
(* A line that damages nothing                                             *)

WholeFrames == {f \in Frames : f.head = "SOH" => f.crc}

\* While nothing was damaged or cut, every packet is whole, and a failed
\* callback has ended the transfer.
CleanInv ==
    met \subseteq {"packet", "reply", "flash"} =>
        /\ line \in Seq(WholeFrames)
        /\ buf # << >> => Head(buf) \in WholeFrames
        /\ broken => pc = "error"

-----------------------------------------------------------------------------
(* A line that damages and loses packets, and loses answers                *)

\* The first n packets of file f.
Packets(f, n) == [b \in 1 .. n |-> Data(f, b)]

\* The receiver waits for the frame the host is at.
InSync ==
    /\ block = 0 => ~seen /\ number = 0
    /\ block > 0 => /\ number = block % Mod /\ accepted = Packets(file, block - 1)
                    /\ block > 1 => seen

\* The receiver has taken the frame the host is at, and the host does not know.
Behind ==
    /\ file <= Len(Files) /\ ~waitC
    /\ IF block <= Blocks(file)
         THEN /\ number = (block + 1) % Mod /\ accepted = Packets(file, block)
              /\ seen <=> block > 0
         ELSE number = 0 /\ accepted = Packets(file, Blocks(file)) /\ ~seen

\* What the frame the host is at can look like.
OnLine == {Frame(file, block)}
          \cup (IF Frame(file, block).head = "SOH" THEN Damaged(Frame(file, block)) ELSE {})

Acked == reply # << >> /\ Head(reply) = "ACK"

\* Nothing is under way, or an answer that is no acknowledgement.
Quiet == line = << >> /\ buf = << >> /\ reply \in {<< >>, <<"C">>, <<"NAK">>}

\* The acknowledgement of the frame the host is at.
Answered ==
    /\ line = << >> /\ buf = << >> /\ Behind
    /\ reply = IF block \in 1 .. Blocks(file) THEN <<"ACK">> ELSE <<"ACK", "C">>

\* The frame the host is at, on the line or in recv_buf.
Carried ==
    /\ reply = << >> /\ ~waitC
    /\ \E p \in OnLine :
         \/ line = <<p>> /\ (buf = << >> \/ (buf = <<p>> /\ p.head = "SOH"))
         \/ line = << >> /\ buf = IF p.head = "SOH" THEN <<p, "rest">> ELSE <<p>>

StepInv ==
    met \subseteq {"corrupt", "packet", "reply"} /\ pc = "receive" =>
        (Quiet \/ Answered \/ Carried) /\ (InSync \/ Behind)

-----------------------------------------------------------------------------
(* A line that loses packets                                               *)

\* Units of file f in its first n packets, and the units themselves.
Done(f, n) == IF n * Unit <= Files[f] THEN n * Unit ELSE Files[f]
Units(n) == [i \in 1 .. n |-> i]

\* The packets the receiver has taken of this file.
Taken == IF Acked THEN block ELSE block - 1

FileInv ==
    /\ ~Acked => InSync
    /\ files = IF Acked /\ block = Blocks(file) + 1 THEN file ELSE file - 1
    /\ Announce => /\ stored = [f \in 1 .. files |-> Content(f)]
                   /\ file <= Len(Files) /\ Taken \in 0 .. Blocks(file) =>
                         /\ file_len = Files[file] - Done(file, Taken)
                         /\ written = Units(Done(file, Taken))

LossInv ==
    met \subseteq {"packet"} =>
        /\ pc = "receive" => FileInv
        /\ pc = "ok" => files = Len(Files) /\ (Announce => stored = [f \in 1 .. files |-> Content(f)])

-----------------------------------------------------------------------------
(* Packet numbers and blocks                                               *)

\* A quotient and a remainder below Mod are those of the division.
LEMMA ModUnique ==
    ASSUME NEW x \in Nat, NEW q \in Nat, NEW r \in 0 .. Mod - 1, x = q * Mod + r
    PROVE  x % Mod = r
  <1>1. Mod \in Nat \ {0, 1}
    BY SizeAssumption
  <1> DEFINE d == x \div Mod
             m == x % Mod
  <1>2. d \in Int /\ m \in 0 .. Mod - 1 /\ x = Mod * d + m
    BY <1>1
  <1> HIDE DEF d, m
  <1>3. Mod * (d - q) = r - m
    BY <1>1, <1>2
  <1>4. ~(d - q >= 1)
    <2>1. \A k \in Int : k >= 1 => Mod * k >= Mod
      BY <1>1
    <2> QED BY <1>1, <1>2, <1>3, <2>1
  <1>5. ~(d - q <= -1)
    <2>1. \A k \in Int : k <= -1 => Mod * k <= -Mod
      BY <1>1
    <2> QED BY <1>1, <1>2, <1>3, <2>1
  <1>6. d = q
    BY <1>2, <1>4, <1>5
  <1>7. r = m
    BY <1>1, <1>2, <1>3, <1>6
  <1> QED BY <1>7 DEF m

\* The number after that of block b is the number of block b + 1, and another one.
LEMMA ModStep ==
    ASSUME NEW b \in Nat
    PROVE  /\ b % Mod \in 0 .. Mod - 1 /\ ((b % Mod) + 1) % Mod = (b + 1) % Mod
           /\ b % Mod # (b + 1) % Mod
  <1>1. Mod \in Nat \ {0, 1}
    BY SizeAssumption
  <1> DEFINE d == b \div Mod
             m == b % Mod
  <1>2. d \in Nat /\ m \in 0 .. Mod - 1 /\ b = d * Mod + m
    BY <1>1
  <1> HIDE DEF d, m
  <1>3. CASE m + 1 < Mod
    <2>1. b + 1 = d * Mod + (m + 1) /\ m + 1 = 0 * Mod + (m + 1) /\ m + 1 \in 0 .. Mod - 1
      BY <1>1, <1>2, <1>3
    <2>2. (b + 1) % Mod = m + 1
      BY <1>2, <2>1, ModUnique
    <2>3. (m + 1) % Mod = m + 1
      BY <1>2, <2>1, ModUnique
    <2> QED BY <1>2, <2>2, <2>3 DEF m
  <1>4. CASE m + 1 = Mod
    <2>1. b + 1 = (d + 1) * Mod + 0 /\ m + 1 = 1 * Mod + 0 /\ 0 \in 0 .. Mod - 1
      BY <1>1, <1>2, <1>4
    <2>2. (b + 1) % Mod = 0
      BY <1>2, <2>1, ModUnique
    <2>3. (m + 1) % Mod = 0
      BY <1>2, <2>1, ModUnique
    <2> QED BY <1>1, <1>2, <1>4, <2>2, <2>3 DEF m
  <1> QED BY <1>1, <1>2, <1>3, <1>4

LEMMA ModSmall == 0 % Mod = 0 /\ 1 % Mod = 1
  <1>1. Mod \in Nat \ {0, 1}
    BY SizeAssumption
  <1> QED BY <1>1

\* The blocks of a file hold it.
LEMMA BlocksEnough ==
    ASSUME NEW f \in 1 .. Len(Files)
    PROVE  /\ Files[f] \in Nat \ {0} /\ Blocks(f) \in Nat \ {0}
           /\ Blocks(f) * Unit >= Files[f]
  <1>1. Unit \in Nat \ {0} /\ Files[f] \in Nat \ {0}
    BY SizeAssumption
  <1> DEFINE x == Files[f] + Unit - 1
             q == x \div Unit
             r == x % Unit
  <1>2. x \in Nat /\ x >= Unit /\ x = Files[f] + Unit - 1
    BY <1>1
  <1>3. Blocks(f) = q
    BY DEF Blocks
  <1> HIDE DEF x
  <1>4. q \in Nat /\ r \in 0 .. Unit - 1 /\ x = Unit * q + r
    <2>1. Unit \in Nat \ {0} /\ x \in Nat
      BY <1>1, <1>2
    <2>2. x \div Unit \in Nat
      BY <2>1
    <2>3. x % Unit \in 0 .. Unit - 1
      BY <2>1
    <2>4. x = Unit * (x \div Unit) + (x % Unit)
      BY <2>1
    <2> QED BY <2>2, <2>3, <2>4
  <1> HIDE DEF q, r
  <1>5. q # 0
    BY <1>1, <1>2, <1>4
  <1>6. q * Unit >= Files[f]
    BY <1>1, <1>2, <1>4
  <1> QED BY <1>1, <1>3, <1>4, <1>5, <1>6

-----------------------------------------------------------------------------
(* Frames                                                                  *)

LEMMA UnitType == Unit \in Nat \ {0} /\ Len(Files) \in Nat
  BY SizeAssumption

\* A block of a file has Unit units and is not the title.
LEMMA DataType ==
    ASSUME NEW f \in 1 .. Len(Files), NEW b \in Nat \ {0}
    PROVE  Data(f, b) \in Seq(Int) /\ Len(Data(f, b)) = Unit /\ Data(f, b) # Title
  <1>1. Unit \in Nat \ {0} /\ Files[f] \in Nat
    BY UnitType, SizeAssumption
  <1>2. \A i \in 1 .. Unit : (b - 1) * Unit + i \in Nat
    BY <1>1
  <1>3. Data(f, b) \in [1 .. Unit -> Nat]
    BY <1>1, <1>2 DEF Data, Pad
  <1>4. Data(f, b)[1] \in Nat /\ Title[1] = -2
    BY <1>1, <1>3 DEF Title
  <1> QED BY <1>1, <1>3, <1>4

LEMMA TitleType == Title \in Seq(Int) /\ [i \in 1 .. Unit |-> Junk] \in Seq(Int) /\ Len(Title) = Unit
  BY UnitType DEF Title, Junk

LEMMA ByteType ==
    ASSUME NEW c \in {"EOT", "CAN", "other"}
    PROVE  Byte(c) \in Frames /\ Byte(c).head = c /\ Byte(c) \in WholeFrames
  <1>1. << >> \in Seq(Int)
    OBVIOUS
  <1>2. Byte(c) \in Frames /\ Byte(c).head = c
    BY <1>1 DEF Byte, Frames
  <1> QED BY <1>2 DEF WholeFrames

LEMMA RemainsType ==
    /\ Remains \subseteq Frames
    /\ \A f \in Remains : f.head = "SOH" => f.num = Junk /\ ~f.crc
  <1> DEFINE p == Packet(Junk, TRUE, Unknown, [i \in 1 .. Unit |-> Junk], FALSE)
  <1>1. p \in Frames /\ p.num = Junk /\ p.crc = FALSE
    BY TitleType DEF Junk, Unknown, Packet, Frames
  <1>2. \A c \in {"EOT", "CAN", "other"} : Byte(c) \in Frames /\ Byte(c).head = c
    BY ByteType
  <1>3. Remains = {Byte("EOT"), Byte("CAN"), Byte("other"), p}
    BY DEF Remains
  <1> HIDE DEF p
  <1> QED BY <1>1, <1>2, <1>3

\* What the host sends.
LEMMA FrameIs ==
    ASSUME NEW f \in 1 .. Len(Files) + 1, NEW b \in Nat
    PROVE  /\ Frame(f, b) \in WholeFrames /\ Frame(f, b) \in Frames
           /\ Frame(f, b).head \in {"SOH", "EOT"}
           /\ Frame(f, b).head = "SOH" => Frame(f, b).num \in Nat /\ Frame(f, b).crc
           /\ f > Len(Files) =>
                 /\ Frame(f, b).head = "SOH" /\ Frame(f, b).num = 0 /\ ~Frame(f, b).name
                 /\ Frame(f, b).data = Title
           /\ f <= Len(Files) =>
                 /\ b <= Blocks(f) <=> Frame(f, b).head = "SOH"
                 /\ b = 0 => /\ Frame(f, b).num = 0 /\ Frame(f, b).name /\ Frame(f, b).data = Title
                             /\ Announce => Frame(f, b).len = Files[f]
                 /\ b \in 1 .. Blocks(f) => /\ Frame(f, b).num = b % Mod /\ Frame(f, b).data = Data(f, b)
  <1>0. Len(Files) \in Nat /\ Title \in Seq(Int) /\ 0 \in Int /\ TRUE \in BOOLEAN /\ FALSE \in BOOLEAN
        /\ Announce \in BOOLEAN
    BY UnitType, TitleType, SizeAssumption
  <1>1. CASE f > Len(Files)
    <2>1. Frame(f, b) = Packet(0, FALSE, 0, Title, TRUE)
      BY <1>1 DEF Frame
    <2>2. /\ Frame(f, b) \in Frames /\ Frame(f, b).head = "SOH" /\ Frame(f, b).num = 0
          /\ Frame(f, b).name = FALSE /\ Frame(f, b).data = Title /\ Frame(f, b).crc = TRUE
      BY <1>0, <2>1 DEF Packet, Frames
    <2> QED BY <1>0, <1>1, <2>2 DEF WholeFrames
  <1>2. CASE f <= Len(Files) /\ b = 0
    <2> DEFINE l == IF Announce THEN Files[f] ELSE NoDigits
    <2>0. f \in 1 .. Len(Files) /\ ~(f > Len(Files))
      BY <1>0, <1>2
    <2>1. Frame(f, b) = Packet(0, TRUE, l, Title, TRUE) /\ f \in 1 .. Len(Files)
      BY <2>0, <1>2 DEF Frame
    <2>2. l \in Nat \cup {Unknown, NoDigits} /\ (Announce => l = Files[f]) /\ b <= Blocks(f)
      BY <1>2, <2>1, BlocksEnough
    <2> HIDE DEF l
    <2>3. /\ Frame(f, b) \in Frames /\ Frame(f, b).head = "SOH" /\ Frame(f, b).num = 0
          /\ Frame(f, b).name = TRUE /\ Frame(f, b).data = Title /\ Frame(f, b).crc = TRUE
          /\ Frame(f, b).len = l
      BY <1>0, <2>1, <2>2 DEF Packet, Frames
    <2> QED BY <1>0, <1>2, <2>2, <2>3 DEF WholeFrames
  <1>3. CASE f <= Len(Files) /\ b # 0 /\ b <= Blocks(f)
    <2>0. f \in 1 .. Len(Files) /\ ~(f > Len(Files))
      BY <1>0, <1>3
    <2>1. Frame(f, b) = Packet(b % Mod, TRUE, 0, Data(f, b), TRUE) /\ f \in 1 .. Len(Files)
      BY <2>0, <1>3 DEF Frame
    <2>2. Data(f, b) \in Seq(Int) /\ b % Mod \in Nat
      BY <1>3, <2>1, DataType, ModStep
    <2>3. /\ Frame(f, b) \in Frames /\ Frame(f, b).head = "SOH" /\ Frame(f, b).num = b % Mod
          /\ Frame(f, b).data = Data(f, b) /\ Frame(f, b).crc = TRUE
      BY <1>0, <2>1, <2>2 DEF Packet, Frames
    <2> QED BY <1>0, <1>3, <2>2, <2>3 DEF WholeFrames
  <1>4. CASE f <= Len(Files) /\ b # 0 /\ ~(b <= Blocks(f))
    <2>0. f \in 1 .. Len(Files) /\ ~(f > Len(Files))
      BY <1>0, <1>4
    <2>1. Frame(f, b) = Byte("EOT") /\ f \in 1 .. Len(Files)
      BY <2>0, <1>4 DEF Frame
    <2>2. Frame(f, b) \in Frames /\ Frame(f, b).head = "EOT" /\ Frame(f, b) \in WholeFrames
      BY <2>1, ByteType
    <2>3. Blocks(f) \in Nat
      BY <2>1, BlocksEnough
    <2> QED BY <1>0, <1>4, <2>2, <2>3
  <1> QED BY <1>0, <1>1, <1>2, <1>3, <1>4

\* What a damaged packet looks like.
LEMMA DamagedIs ==
    ASSUME NEW p \in Frames, p.head = "SOH", NEW d \in Damaged(p)
    PROVE  /\ d \in Frames /\ d.head = "SOH" /\ d.num = p.num /\ ~d.crc
           /\ p.data # Title => d.name = p.name
  <1>1. p.num \in Int /\ p.name \in BOOLEAN /\ p.len \in Nat \cup {Unknown, NoDigits} /\ p.data \in Seq(Int)
        /\ TRUE \in BOOLEAN /\ FALSE \in BOOLEAN /\ Unknown \in Nat \cup {Unknown, NoDigits}
    BY DEF Frames
  <1>2. CASE p.data = Title
    <2>1. PICK n \in BOOLEAN : d = Packet(p.num, n, Unknown, p.data, FALSE)
      BY <1>2 DEF Damaged
    <2>2. d \in Frames /\ d.head = "SOH" /\ d.num = p.num /\ d.crc = FALSE
      BY <1>1, <2>1 DEF Packet, Frames
    <2> QED BY <1>2, <2>2
  <1>3. CASE p.data # Title
    <2> DEFINE j == [i \in 1 .. Unit |-> Junk]
    <2>1. d = Packet(p.num, p.name, p.len, j, FALSE) /\ j \in Seq(Int)
      BY <1>3, TitleType DEF Damaged
    <2> HIDE DEF j
    <2>2. d \in Frames /\ d.head = "SOH" /\ d.num = p.num /\ d.crc = FALSE /\ d.name = p.name
      BY <1>1, <2>1 DEF Packet, Frames
    <2> QED BY <2>2
  <1> QED BY <1>2, <1>3

-----------------------------------------------------------------------------
(* Types                                                                   *)

LEMMA SeqOps ==
    ASSUME NEW F, NEW s \in Seq(F), NEW d \in F
    PROVE  /\ Append(s, d) \in Seq(F)
           /\ s # << >> => Head(s) \in F /\ Tail(s) \in Seq(F) /\ <<d>> \o Tail(s) \in Seq(F)
  <1>1. <<d>> \in Seq(F)
    OBVIOUS
  <1>2. s # << >> => Head(s) \in F /\ Tail(s) \in Seq(F)
    BY HeadTailProperties
  <1> QED BY <1>1, <1>2

\* What recv_buf can hold.
LEMMA BufIs ==
    ASSUME TypeInv, buf # << >>
    PROVE  /\ Head(buf) \in Frames
           /\ \/ buf = <<Head(buf)>> /\ Len(buf) = 1 /\ (Complete <=> Head(buf).head # "SOH")
              \/ buf = <<Head(buf), "rest">> /\ Len(buf) = 2 /\ Complete
  <1>1. CASE \E f \in Frames : buf = <<f>>
    <2>1. PICK f \in Frames : buf = <<f>>
      BY <1>1
    <2>2. Head(buf) = f /\ Len(buf) = 1
      BY <2>1
    <2> QED BY <2>1, <2>2 DEF Complete
  <1>2. CASE \E f \in Frames : buf = <<f, "rest">>
    <2>1. PICK f \in Frames : buf = <<f, "rest">>
      BY <1>2
    <2>2. Head(buf) = f /\ Len(buf) = 2
      BY <2>1
    <2> QED BY <2>1, <2>2 DEF Complete
  <1> QED BY <1>1, <1>2 DEF TypeInv

\* The bits of ymodem_status tell what happened, with one clash: a damaged packet
\* whose write fails looks like the end of all files.
LEMMA StatusIs ==
    ASSUME NEW crc \in BOOLEAN, NEW num \in BOOLEAN, NEW flash \in BOOLEAN, NEW eoy \in BOOLEAN
    PROVE  /\ Status(crc, num, flash, eoy) = 0 <=> ~crc /\ ~num /\ ~flash /\ ~eoy
           /\ Status(crc, num, flash, eoy) = 6 <=> flash /\ ~crc /\ ~eoy
           /\ Status(crc, num, flash, eoy) = 7 <=> eoy \/ (crc /\ flash)
  BY DEF Status

\* The end of ymodem_handle_packet, by what was wrong with the packet.
PacketEnds(p, fails) ==
    LET bad == ~p.crc
        other == p.num # number
        end == IsFirst(p) /\ ~p.name
    IN  \/ /\ ~bad /\ ~other /\ ~fails /\ ~end
           /\ number' = (number + 1) % Mod
           /\ accepted' = (IF IsFirst(p) THEN << >> ELSE Append(accepted, p.data))
           /\ reply' = reply \o (IF seen' THEN <<"ACK">> ELSE <<"ACK", "C">>)
           /\ buf' = << >> /\ pc' = pc /\ errors' = errors
        \/ /\ fails /\ ~bad /\ ~end /\ number' = number
           /\ accepted' = (IF IsFirst(p) THEN << >> ELSE accepted)
           /\ ymodem_error_handler(MaxErrors)
        \/ /\ end \/ (bad /\ fails)
           /\ number' = number /\ accepted' = (IF IsFirst(p) THEN << >> ELSE accepted)
           /\ reply' = Append(reply, "ACK") /\ pc' = "ok" /\ buf' = << >> /\ errors' = errors
        \/ /\ bad \/ other
           /\ ~end /\ ~fails /\ number' = number
           /\ accepted' = (IF IsFirst(p) THEN << >> ELSE accepted)
           /\ ymodem_error_handler(errors)

LEMMA HandlePacketIs ==
    ASSUME TypeInv, NEW fails \in BOOLEAN, HandlePacket(fails), buf # << >>
    PROVE  /\ PacketEnds(Head(buf), fails) /\ Deliver(Head(buf), fails)
           /\ Head(buf) \in Frames /\ Head(buf).head = "SOH"
           /\ files' = files /\ eot_num' = eot_num /\ stored' = stored
           /\ IF fails THEN ~(IsFirst(Head(buf)) /\ ~Head(buf).name) /\ Fault("flash")
              ELSE faults' = faults /\ met' = met
  <1> DEFINE p == Head(buf)
             bad == ~p.crc
             other == p.num # number
             end == IsFirst(p) /\ ~p.name
             st == Status(bad, other, fails, end)
  <1>1. p \in Frames /\ bad \in BOOLEAN /\ other \in BOOLEAN /\ end \in BOOLEAN
    BY BufIs DEF IsFirst
  <1>2. /\ st = 0 <=> ~bad /\ ~other /\ ~fails /\ ~end
        /\ st = 6 <=> fails /\ ~bad /\ ~end
        /\ st = 7 <=> end \/ (bad /\ fails)
    <2> HIDE DEF bad, other, end
    <2> QED BY <1>1, StatusIs
  <1>3. /\ p.head = "SOH" /\ Deliver(p, fails)
        /\ IF fails THEN ~end /\ Fault("flash") ELSE UNCHANGED <<faults, met>>
        /\ number' = IF st = 0 THEN (number + 1) % Mod ELSE number
        /\ accepted' = IF IsFirst(p) THEN << >> ELSE IF st = 0 THEN Append(accepted, p.data) ELSE accepted
        /\ UNCHANGED <<files, eot_num, stored>>
        /\ st = 0 => /\ reply' = reply \o (IF seen' THEN <<"ACK">> ELSE <<"ACK", "C">>)
                     /\ buf' = << >> /\ UNCHANGED <<pc, errors>>
        /\ st = 6 => ymodem_error_handler(MaxErrors)
        /\ st = 7 => /\ reply' = Append(reply, "ACK") /\ pc' = "ok"
                     /\ buf' = << >> /\ UNCHANGED errors
        /\ st \notin {0, 6, 7} => ymodem_error_handler(errors)
    BY DEF HandlePacket, ymodem_handle_packet
  <1> HIDE DEF st
  <1>4. PacketEnds(p, fails)
    BY <1>2, <1>3 DEF PacketEnds
  <1> QED BY <1>1, <1>3, <1>4

LEMMA ErrorType ==
    ASSUME TypeInv, pc = "receive", NEW e \in 0 .. MaxErrors, ymodem_error_handler(e)
    PROVE  /\ errors' \in 0 .. MaxErrors + 1 /\ pc' \in {"receive", "error"} /\ buf' = << >>
           /\ pc' = "receive" => errors' < MaxErrors
           /\ reply' \in Seq(Replies)
           /\ \/ pc' = "error"
              \/ pc' = "receive" /\ reply' = Append(reply, "NAK")
           /\ e = MaxErrors => pc' = "error"
  <1>1. MaxErrors \in Nat \ {0} /\ reply \in Seq(Replies)
    BY SizeAssumption DEF TypeInv
  <1>2. <<"CAN", "CAN">> \in Seq(Replies) /\ "NAK" \in Replies
    <2>1. "CAN" \in Replies /\ "NAK" \in Replies
      BY DEF Replies
    <2> QED BY <2>1
  <1>3. reply \o <<"CAN", "CAN">> \in Seq(Replies) /\ Append(reply, "NAK") \in Seq(Replies)
    BY <1>1, <1>2, ConcatProperties, AppendProperties
  <1>4. e \in Nat /\ e <= MaxErrors /\ errors' = e + 1 /\ buf' = << >>
    BY <1>1 DEF ymodem_error_handler
  <1>5. CASE e + 1 >= MaxErrors
    <2>1. pc' = "error" /\ reply' = reply \o <<"CAN", "CAN">>
      BY <1>5 DEF ymodem_error_handler
    <2> QED BY <1>1, <1>3, <1>4, <2>1
  <1>6. CASE ~(e + 1 >= MaxErrors)
    <2>1. pc' = "receive" /\ reply' = Append(reply, "NAK")
      BY <1>6 DEF ymodem_error_handler
    <2>2. errors' < MaxErrors /\ errors' \in 0 .. MaxErrors + 1 /\ e # MaxErrors
      BY <1>1, <1>4, <1>6
    <2> QED BY <1>3, <1>4, <2>1, <2>2
  <1> QED BY <1>5, <1>6

LEMMA InitType == Init => TypeInv
  <1> SUFFICES ASSUME Init PROVE TypeInv
    OBVIOUS
  <1>1. << >> \in Seq(Frames) /\ "C" \in Replies
    BY DEF Replies
  <1>2. <<"C">> \in Seq(Replies)
    BY <1>1
  <1>3. 1 <= Len(Files) => Blocks(1) \in Nat
    BY BlocksEnough, UnitType
  <1>4. Mod \in Nat \ {0, 1} /\ MaxErrors \in Nat \ {0} /\ MaxFaults \in Nat /\ Len(Files) \in Nat
    BY SizeAssumption
  <1>5. /\ pc = "receive" /\ number = 0 /\ files = 0 /\ seen = FALSE /\ file_len = 0 /\ errors = 0
        /\ eot_num = 0 /\ buf = << >> /\ broken = FALSE /\ line = << >> /\ reply = <<"C">>
        /\ file = 1 /\ block = 0 /\ waitC = TRUE /\ faults = 0 /\ met = {}
    BY DEF Init
  <1>6. IF file > Len(Files) THEN block = 0 ELSE block <= Blocks(file) + 1
    BY <1>3, <1>4, <1>5
  <1>7. number \in 0 .. Mod - 1 /\ errors \in 0 .. MaxErrors + 1 /\ errors < MaxErrors
        /\ file \in 1 .. Len(Files) + 1 /\ faults \in 0 .. MaxFaults
    BY <1>4, <1>5
  <1> QED BY <1>1, <1>2, <1>5, <1>6, <1>7 DEF TypeInv

HostType ==
    /\ file \in 1 .. Len(Files) + 1 /\ waitC \in BOOLEAN
    /\ block \in Nat /\ (IF file > Len(Files) THEN block = 0 ELSE block <= Blocks(file) + 1)

\* What the host does with an answer: it goes on, sends the frame it is at, or does nothing.
LEMMA HostMoves ==
    ASSUME TypeInv, HostReceive
    PROVE  /\ reply # << >> /\ reply' = Tail(reply)
           /\ UNCHANGED <<receiver, buf, callbacks, faults, met>>
           /\ HostType'
           /\ \/ /\ Head(reply) = "ACK" /\ ~waitC /\ file <= Len(Files)
                 /\ IF block <= Blocks(file) THEN block' = block + 1 /\ waitC' = (block = 0) /\ file' = file
                    ELSE block' = 0 /\ waitC' = TRUE /\ file' = file + 1
                 /\ line' = IF waitC' THEN line ELSE Append(line, Frame(file', block'))
              \/ /\ Head(reply) # "ACK" /\ ~waitC' /\ file' = file /\ block' = block
                 /\ line' = Append(line, Frame(file, block))
              \/ /\ UNCHANGED <<line, host>>
                 /\ Head(reply) = "ACK" => waitC \/ file > Len(Files)
                 /\ Head(reply) = "C" => ~waitC /\ block > 1
                 /\ Head(reply) = "NAK" => waitC
  <1>1. /\ HostType /\ Len(Files) \in Nat /\ reply # << >> /\ reply' = Tail(reply)
        /\ UNCHANGED <<receiver, buf, callbacks, faults, met>>
    BY UnitType DEF TypeInv, HostType, HostReceive
  <1>2. CASE HostAck
    <2>1. /\ Head(reply) = "ACK" /\ ~waitC /\ file <= Len(Files)
          /\ IF block <= Blocks(file) THEN block' = block + 1 /\ waitC' = (block = 0) /\ file' = file
             ELSE block' = 0 /\ waitC' = TRUE /\ file' = file + 1
          /\ line' = IF waitC' THEN line ELSE Append(line, Frame(file', block'))
      BY <1>2 DEF HostAck
    <2>2. file \in 1 .. Len(Files) /\ Blocks(file) \in Nat
      BY <1>1, <2>1, BlocksEnough DEF HostType
    <2>3. CASE block <= Blocks(file)
      BY <1>1, <2>1, <2>2, <2>3 DEF HostType
    <2>4. CASE ~(block <= Blocks(file))
      <3>1. file' = file + 1 /\ block' = 0 /\ waitC' = TRUE
        BY <2>1, <2>4
      <3>2. file' \in 1 .. Len(Files) + 1
        BY <1>1, <2>2, <3>1
      <3>3. ~(file' > Len(Files)) => Blocks(file') \in Nat
        <4>1. ~(file' > Len(Files)) => file' \in 1 .. Len(Files)
          BY <1>1, <3>2
        <4> QED BY <4>1, BlocksEnough
      <3>4. HostType'
        BY <3>1, <3>2, <3>3 DEF HostType
      <3> QED BY <1>1, <2>1, <3>4
    <2> QED BY <1>1, <2>1, <2>3, <2>4
  <1>3. CASE HostGo \/ HostRepeat
    <2>1. /\ Head(reply) # "ACK" /\ waitC' = FALSE /\ file' = file /\ block' = block
          /\ line' = Append(line, Frame(file, block))
      BY <1>1, <1>3 DEF HostGo, HostRepeat, Resend, HostType
    <2>2. HostType'
      BY <1>1, <2>1 DEF HostType
    <2> QED BY <1>1, <2>1, <2>2
  <1>4. CASE HostIgnore
    <2>1. /\ UNCHANGED <<line, host>>
          /\ Head(reply) = "ACK" => waitC \/ file > Len(Files)
          /\ Head(reply) = "C" => ~waitC /\ block > 1
          /\ Head(reply) = "NAK" => waitC
      BY <1>4 DEF HostIgnore
    <2>2. HostType'
      BY <1>1, <2>1 DEF HostType, host
    <2> QED BY <1>1, <2>1, <2>2
  <1> QED BY <1>2, <1>3, <1>4 DEF HostReceive

LEMMA HostReceiveType == ASSUME TypeInv, HostReceive PROVE TypeInv'
  <1>1. /\ reply # << >> /\ reply' = Tail(reply) /\ HostType'
        /\ UNCHANGED <<receiver, buf, callbacks, faults, met>>
        /\ \/ line' = line
           \/ line' = Append(line, Frame(file', block'))
    BY HostMoves DEF host
  <1>2. Frame(file', block') \in Frames
    BY <1>1, FrameIs DEF HostType
  <1>3. reply' \in Seq(Replies)
    BY <1>1, HeadTailProperties DEF TypeInv
  <1>4. line' \in Seq(Frames)
    <2> DEFINE f == Frame(file', block')
    <2>1. f \in Frames /\ line \in Seq(Frames) /\ (line' = line \/ line' = Append(line, f))
      BY <1>1, <1>2 DEF TypeInv
    <2> HIDE DEF f
    <2> QED BY <2>1, AppendProperties
  <1> QED BY <1>1, <1>3, <1>4 DEF TypeInv, HostType, receiver, callbacks

LEMMA HostTimeoutType == ASSUME TypeInv, HostTimeout PROVE TypeInv'
  <1>1. Frame(file, block) \in Frames
    BY FrameIs DEF TypeInv
  <1>2. line' = Append(line, Frame(file, block))
        /\ UNCHANGED <<receiver, buf, callbacks, reply, host, faults, met>>
    BY DEF HostTimeout, Resend, host
  <1>3. line' \in Seq(Frames)
    BY <1>1, <1>2, AppendProperties DEF TypeInv
  <1> QED BY <1>2, <1>3 DEF TypeInv, receiver, callbacks, host

LEMMA FaultType ==
    ASSUME TypeInv, NEW f, Fault(f)
    PROVE  faults' \in 0 .. MaxFaults /\ met' \subseteq Faults /\ met' = met \cup {f}
  BY SizeAssumption DEF TypeInv, Fault

\* A damaged packet is one of Damaged, or has a number that is none.
LEMMA CorruptIs ==
    ASSUME TypeInv, Corrupt
    PROVE  /\ line # << >> /\ Head(line) \in Frames /\ Head(line).head = "SOH" /\ Head(line).crc
           /\ buf = << >> /\ faults' \in 0 .. MaxFaults /\ met' \subseteq Faults
           /\ UNCHANGED <<receiver, buf, callbacks, reply, host>>
           /\ \E d \in Frames :
                 /\ line' = <<d>> \o Tail(line)
                 /\ \/ met' = met \cup {"corrupt"} /\ d \in Damaged(Head(line))
                    \/ met' = met \cup {"renumber"}
  <1>1. /\ line # << >> /\ Head(line).head = "SOH" /\ Head(line).crc /\ buf = << >>
        /\ UNCHANGED <<receiver, buf, callbacks, reply, host>>
    BY DEF Corrupt
  <1>2. Head(line) \in Frames
    BY <1>1, HeadTailProperties DEF TypeInv
  <1>3. CASE Fault("corrupt") /\ \E d \in Damaged(Head(line)) : line' = <<d>> \o Tail(line)
    <2>1. PICK d \in Damaged(Head(line)) : line' = <<d>> \o Tail(line)
      BY <1>3
    <2>2. d \in Frames
      BY <1>1, <1>2, DamagedIs
    <2> QED BY <1>1, <1>2, <1>3, <2>1, <2>2, FaultType
  <1>4. CASE Fault("renumber") /\ line' = <<[Head(line) EXCEPT !.num = Junk]>> \o Tail(line)
    <2>1. [Head(line) EXCEPT !.num = Junk] \in Frames
      BY <1>2 DEF Frames, Junk
    <2> QED BY <1>1, <1>2, <1>4, <2>1, FaultType
  <1> QED BY <1>3, <1>4 DEF Corrupt

LEMMA CorruptType == ASSUME TypeInv, Corrupt PROVE TypeInv'
  <1>1. /\ line # << >> /\ faults' \in 0 .. MaxFaults /\ met' \subseteq Faults
        /\ UNCHANGED <<receiver, buf, callbacks, reply, host>>
    BY CorruptIs
  <1>2. PICK d \in Frames : line' = <<d>> \o Tail(line)
    BY CorruptIs
  <1>3. line' \in Seq(Frames)
    BY <1>1, <1>2, SeqOps DEF TypeInv
  <1> QED BY <1>1, <1>3 DEF TypeInv, receiver, callbacks, host

LEMMA LosePacketType == ASSUME TypeInv, LosePacket PROVE TypeInv'
  <1>1. /\ line # << >> /\ line' = Tail(line) /\ Fault("packet")
        /\ UNCHANGED <<receiver, buf, callbacks, reply, host>>
    BY DEF LosePacket
  <1>2. line' \in Seq(Frames)
    BY <1>1, HeadTailProperties DEF TypeInv
  <1>3. faults' \in 0 .. MaxFaults /\ met' \subseteq Faults
    BY <1>1, FaultType
  <1> QED BY <1>1, <1>2, <1>3 DEF TypeInv, receiver, callbacks, host

LEMMA LoseReplyType == ASSUME TypeInv, LoseReply PROVE TypeInv'
  <1>1. /\ reply # << >> /\ reply' = Tail(reply) /\ Fault("reply")
        /\ UNCHANGED <<receiver, buf, callbacks, line, host>>
    BY DEF LoseReply
  <1>2. reply' \in Seq(Replies)
    BY <1>1, HeadTailProperties DEF TypeInv
  <1>3. faults' \in 0 .. MaxFaults /\ met' \subseteq Faults
    BY <1>1, FaultType
  <1> QED BY <1>1, <1>2, <1>3 DEF TypeInv, receiver, callbacks, host

\* What the interrupt handler does with the frame that comes first.
LEMMA RecvIs ==
    ASSUME TypeInv, ymodem_data_recv
    PROVE  /\ pc = "receive" /\ line # << >> /\ ~Complete /\ Head(line) \in Frames
           /\ UNCHANGED <<receiver, callbacks, reply, host, faults, met>>
           /\ \/ /\ buf = << >> /\ buf' = <<Head(line)>>
                 /\ line' = IF Head(line).head = "SOH" /\ Head(line) \notin Remains THEN line ELSE Tail(line)
              \/ /\ buf = <<Head(line)>> /\ Head(line) \notin Remains
                 /\ buf' = <<Head(line), "rest">> /\ line' = Tail(line)
              \/ /\ buf # << >> /\ Head(buf) \in Remains /\ Head(buf) \in Frames
                 /\ Head(buf).head = "SOH" /\ buf' = <<Head(buf), "rest">>
                 /\ \E j \in Remains : line' = <<j>> \o Tail(line)
  <1>1. /\ pc = "receive" /\ line # << >> /\ ~Complete
        /\ UNCHANGED <<receiver, callbacks, reply, host, faults, met>>
    BY DEF ymodem_data_recv
  <1>2. Head(line) \in Frames
    BY <1>1, HeadTailProperties DEF TypeInv
  <1>3. buf # << >> => Head(buf) \in Frames /\ Head(buf).head = "SOH"
    BY <1>1, BufIs DEF Complete
  <1> QED BY <1>1, <1>2, <1>3 DEF ymodem_data_recv

LEMMA RecvType == ASSUME TypeInv, ymodem_data_recv PROVE TypeInv'
  <1>1. /\ line # << >> /\ Head(line) \in Frames
        /\ UNCHANGED <<receiver, callbacks, reply, host, faults, met>>
        /\ \/ buf' = <<Head(line)>> /\ (line' = line \/ line' = Tail(line))
           \/ buf' = <<Head(line), "rest">> /\ line' = Tail(line)
           \/ /\ Head(buf) \in Frames /\ buf' = <<Head(buf), "rest">>
              /\ \E j \in Remains : line' = <<j>> \o Tail(line)
    BY RecvIs
  <1>2. \A j \in Remains : j \in Frames
    BY RemainsType
  <1>3. line' \in Seq(Frames)
    BY <1>1, <1>2, SeqOps DEF TypeInv
  <1>4. buf' \in {<< >>} \cup {<<f>> : f \in Frames} \cup {<<f, "rest">> : f \in Frames}
    BY <1>1
  <1> QED BY <1>1, <1>3, <1>4 DEF TypeInv, receiver, callbacks, host

\* get_receive_data gives up: in silence, or too early with a fault of the clock.
LEMMA TimeoutIs ==
    ASSUME TypeInv, Timeout
    PROVE  /\ pc = "receive" /\ ~Complete
           /\ UNCHANGED <<number, files, seen, file_len, eot_num, callbacks, host>>
           /\ \/ Silence /\ UNCHANGED <<line, faults, met>>
              \/ met' = met \cup {"late"} /\ line' = line /\ faults' \in 0 .. MaxFaults /\ met' \subseteq Faults
              \/ /\ met' = met \cup {"cut"} /\ faults' \in 0 .. MaxFaults /\ met' \subseteq Faults
                 /\ line' \in Seq(Frames)
           /\ \/ seen /\ ymodem_error_handler(errors)
              \/ ~seen /\ reply' = Append(reply, "C") /\ UNCHANGED <<pc, errors, buf>>
  <1>1. /\ pc = "receive" /\ ~Complete /\ seen \in BOOLEAN
        /\ UNCHANGED <<number, files, seen, file_len, eot_num, callbacks, host>>
        /\ IF seen THEN ymodem_error_handler(errors)
           ELSE reply' = Append(reply, "C") /\ UNCHANGED <<pc, errors, buf>>
    BY DEF Timeout, TypeInv
  <1>2. CASE Silence /\ UNCHANGED <<line, faults, met>>
    BY <1>1, <1>2
  <1>3. CASE ~Silence /\ buf = << >> /\ Fault("late") /\ UNCHANGED line
    BY <1>1, <1>3, FaultType
  <1>4. CASE /\ ~Silence /\ buf # << >> /\ Fault("cut")
             /\ IF seen /\ Head(buf) \notin Remains
                  THEN \E j \in Remains : line' = <<j>> \o Tail(line)
                  ELSE UNCHANGED line
    <2>1. met' = met \cup {"cut"} /\ faults' \in 0 .. MaxFaults /\ met' \subseteq Faults
      BY <1>4, FaultType
    <2>2. line' \in Seq(Frames)
      <3>1. CASE line' = line
        BY <3>1 DEF TypeInv
      <3>2. ASSUME NEW j \in Remains, line' = <<j>> \o Tail(line) PROVE line' \in Seq(Frames)
        <4>1. j \in Frames /\ line \in Seq(Frames) /\ <<j>> \in Seq(Frames)
          BY RemainsType DEF TypeInv
        <4>2. CASE line # << >>
          BY <3>2, <4>1, <4>2, SeqOps
        <4>3. CASE line = << >>
          <5>1. Tail(line) = << >>
            BY <4>3
          <5> QED BY <3>2, <4>1, <5>1, ConcatEmptySeq
        <4> QED BY <4>2, <4>3
      <3> QED BY <1>4, <3>1, <3>2
    <2> QED BY <1>1, <2>1, <2>2
  <1> QED BY <1>2, <1>3, <1>4 DEF Timeout

LEMMA TimeoutType == ASSUME TypeInv, Timeout PROVE TypeInv'
  <1>1. /\ pc = "receive"
        /\ UNCHANGED <<number, files, seen, file_len, eot_num, callbacks, host>>
        /\ line' \in Seq(Frames) /\ faults' \in 0 .. MaxFaults /\ met' \subseteq Faults
        /\ \/ ymodem_error_handler(errors)
           \/ reply' = Append(reply, "C") /\ UNCHANGED <<pc, errors, buf>>
    BY TimeoutIs DEF TypeInv
  <1>2. CASE ymodem_error_handler(errors)
    <2>1. errors \in 0 .. MaxErrors
      BY <1>1, SizeAssumption DEF TypeInv
    <2>2. /\ errors' \in 0 .. MaxErrors + 1 /\ pc' \in {"receive", "error"} /\ buf' = << >>
          /\ pc' = "receive" => errors' < MaxErrors
          /\ reply' \in Seq(Replies)
      BY <1>1, <1>2, <2>1, ErrorType
    <2> QED BY <1>1, <2>2 DEF TypeInv, callbacks, host
  <1>3. CASE reply' = Append(reply, "C") /\ UNCHANGED <<pc, errors, buf>>
    <2>1. "C" \in Replies
      BY DEF Replies
    <2>2. reply' \in Seq(Replies)
      BY <1>3, <2>1, AppendProperties DEF TypeInv
    <2> QED BY <1>1, <1>3, <2>2 DEF TypeInv, callbacks, host
  <1> QED BY <1>1, <1>2, <1>3

LEMMA DeliverType ==
    ASSUME TypeInv, NEW p \in Frames, NEW fails \in BOOLEAN, Deliver(p, fails)
    PROVE  /\ file_len' \in Nat \cup {Unknown} /\ seen' \in BOOLEAN
           /\ seen' = (seen \/ ~IsFirst(p)) /\ broken' = (broken \/ fails)
           /\ broken' \in BOOLEAN
  <1>1. /\ file_len \in Nat \cup {Unknown} /\ seen \in BOOLEAN /\ broken \in BOOLEAN
        /\ Len(p.data) \in Nat /\ p.len \in Nat \cup {Unknown, NoDigits} /\ IsFirst(p) \in BOOLEAN
    BY DEF TypeInv, Frames, IsFirst
  <1>2. broken' = (broken \/ fails) /\ broken' \in BOOLEAN
    BY <1>1 DEF Deliver
  <1>3. CASE IsFirst(p)
    <2>1. file_len' = (IF p.name THEN get_file_len(p.len) ELSE file_len) /\ seen' = seen
      BY <1>3 DEF Deliver
    <2>2. get_file_len(p.len) \in Nat \cup {Unknown}
      BY <1>1 DEF get_file_len, Unknown, NoDigits
    <2> QED BY <1>1, <1>2, <1>3, <2>1, <2>2
  <1>4. CASE ~IsFirst(p)
    <2> DEFINE size == IF file_len = Unknown THEN get_active_length(p.data)
                       ELSE IF file_len < Len(p.data) THEN file_len ELSE Len(p.data)
    <2>1. file_len' = (IF file_len = Unknown THEN Unknown ELSE file_len - size) /\ seen' = TRUE
      BY <1>4 DEF Deliver
    <2>2. file_len # Unknown => file_len \in Nat /\ size \in Nat /\ size <= file_len
      BY <1>1
    <2> HIDE DEF size
    <2>3. file_len' \in Nat \cup {Unknown}
      BY <2>1, <2>2
    <2> QED BY <1>1, <1>2, <1>4, <2>1, <2>3
  <1> QED BY <1>1, <1>3, <1>4

\* One round of the loop of ymodem_receive.
LEMMA ReceiveIs ==
    ASSUME TypeInv, Receive
    PROVE  /\ pc = "receive" /\ Complete /\ buf # << >> /\ Head(buf) \in Frames
           /\ UNCHANGED <<line, host>>
           /\ (\E fails \in BOOLEAN : HandlePacket(fails)) \/ HandleEOT \/ HandleCAN \/ HandleOther
  BY BufIs DEF Receive, Complete

LEMMA AckType ==
    ASSUME TypeInv
    PROVE  /\ reply \o <<"ACK">> \in Seq(Replies) /\ reply \o <<"ACK", "C">> \in Seq(Replies)
           /\ Append(reply, "ACK") \in Seq(Replies) /\ Append(reply, "NAK") \in Seq(Replies)
  <1>1. "ACK" \in Replies /\ "C" \in Replies /\ "NAK" \in Replies
    BY DEF Replies
  <1>2. <<"ACK">> \in Seq(Replies) /\ <<"ACK", "C">> \in Seq(Replies) /\ reply \in Seq(Replies)
    BY <1>1 DEF TypeInv
  <1> QED BY <1>1, <1>2, ConcatProperties, AppendProperties

LEMMA ReceiveType == ASSUME TypeInv, Receive PROVE TypeInv'
  <1>1. /\ pc = "receive" /\ buf # << >> /\ Head(buf) \in Frames /\ UNCHANGED <<line, host>>
        /\ (\E fails \in BOOLEAN : HandlePacket(fails)) \/ HandleEOT \/ HandleCAN \/ HandleOther
    BY ReceiveIs
  <1>2. errors \in 0 .. MaxErrors /\ MaxErrors \in 0 .. MaxErrors /\ Mod \in Nat \ {0, 1}
    BY <1>1, SizeAssumption DEF TypeInv
  <1>3. ASSUME NEW fails \in BOOLEAN, HandlePacket(fails) PROVE TypeInv'
    <2> DEFINE p == Head(buf)
    <2>1. /\ PacketEnds(p, fails) /\ Deliver(p, fails) /\ p \in Frames
          /\ files' = files /\ eot_num' = eot_num
          /\ IF fails THEN Fault("flash") ELSE faults' = faults /\ met' = met
      BY <1>1, <1>3, HandlePacketIs
    <2> HIDE DEF p
    <2>2. file_len' \in Nat \cup {Unknown} /\ seen' \in BOOLEAN /\ broken' \in BOOLEAN
      BY <2>1, DeliverType
    <2>3. faults' \in 0 .. MaxFaults /\ met' \subseteq Faults
      BY <2>1, FaultType DEF TypeInv
    <2>4. number' \in 0 .. Mod - 1
      <3>1. (number + 1) % Mod \in 0 .. Mod - 1
        BY <1>2 DEF TypeInv
      <3>2. number' = number \/ number' = (number + 1) % Mod
        BY <2>1 DEF PacketEnds
      <3> QED BY <3>1, <3>2 DEF TypeInv
    <2>5. /\ errors' \in 0 .. MaxErrors + 1 /\ pc' \in {"receive", "ok", "error"} /\ buf' = << >>
          /\ pc' = "receive" => errors' < MaxErrors
          /\ reply' \in Seq(Replies)
      <3>1. CASE ymodem_error_handler(MaxErrors)
        BY <1>1, <1>2, <3>1, ErrorType
      <3>2. CASE ymodem_error_handler(errors)
        BY <1>1, <1>2, <3>2, ErrorType
      <3>3. CASE /\ reply' = Append(reply, "ACK") /\ pc' = "ok" /\ buf' = << >> /\ errors' = errors
        BY <3>3, AckType DEF TypeInv
      <3>4. CASE /\ reply' = reply \o (IF seen' THEN <<"ACK">> ELSE <<"ACK", "C">>)
                 /\ buf' = << >> /\ pc' = pc /\ errors' = errors
        <4>1. reply' \in Seq(Replies)
          BY <3>4, AckType
        <4> QED BY <3>4, <4>1 DEF TypeInv
      <3> QED BY <2>1, <3>1, <3>2, <3>3, <3>4 DEF PacketEnds
    <2> QED BY <1>1, <2>1, <2>2, <2>3, <2>4, <2>5 DEF TypeInv, host
  <1>4. CASE HandleEOT
    <2>1. /\ buf' = << >> /\ UNCHANGED <<pc, file_len, errors, accepted, broken, faults, met>>
          /\ \/ /\ eot_num' = 1 /\ reply' = Append(reply, "NAK")
                /\ UNCHANGED <<seen, number, files, stored, written>>
             \/ /\ eot_num' = 0 /\ reply' = reply \o <<"ACK", "C">>
                /\ seen' = FALSE /\ number' = 0 /\ files' = files + 1
      BY <1>4 DEF HandleEOT
    <2>2. reply' \in Seq(Replies)
      BY <2>1, AckType
    <2>3. number' \in 0 .. Mod - 1 /\ files' \in Nat /\ eot_num' \in {0, 1}
      <3>1. number \in 0 .. Mod - 1 /\ files \in Nat /\ files + 1 \in Nat /\ 0 \in 0 .. Mod - 1
        BY <1>2 DEF TypeInv
      <3> QED BY <2>1, <3>1
    <2>4. seen' \in BOOLEAN
      BY <2>1 DEF TypeInv
    <2> QED BY <1>1, <2>1, <2>2, <2>3, <2>4 DEF TypeInv, host
  <1>5. CASE HandleCAN
    <2>1. /\ buf' = << >> /\ pc' = "error"
          /\ UNCHANGED <<number, files, seen, file_len, errors, eot_num, callbacks, reply, faults, met>>
      BY <1>5 DEF HandleCAN
    <2> QED BY <1>1, <2>1 DEF TypeInv, callbacks, host
  <1>6. CASE HandleOther
    <2>1. /\ ymodem_error_handler(errors)
          /\ UNCHANGED <<number, files, seen, file_len, eot_num, callbacks, faults, met>>
      BY <1>6 DEF HandleOther
    <2>2. /\ errors' \in 0 .. MaxErrors + 1 /\ pc' \in {"receive", "error"} /\ buf' = << >>
          /\ pc' = "receive" => errors' < MaxErrors
          /\ reply' \in Seq(Replies)
      BY <1>1, <1>2, <2>1, ErrorType
    <2> QED BY <1>1, <2>1, <2>2 DEF TypeInv, callbacks, host
  <1> QED BY <1>1, <1>3, <1>4, <1>5, <1>6

LEMMA TypeStep == ASSUME TypeInv, [Next]_vars PROVE TypeInv'
  <1>1. CASE UNCHANGED vars
    BY <1>1 DEF TypeInv, vars, receiver, callbacks, host
  <1> QED BY <1>1, HostReceiveType, HostTimeoutType, CorruptType, LosePacketType, LoseReplyType,
          RecvType, TimeoutType, ReceiveType DEF Next

\* Every variable keeps its type: the packet number its width, the count of errors
\* its limit, recv_buf its one frame, and the host stops behind its last file.
THEOREM Typed == Spec => []TypeOK
  <1>1. TypeInv /\ [Next]_vars => TypeInv'
    BY TypeStep
  <1>2. ASSUME TypeInv PROVE TypeOK
    <2>1. Len(buf) <= 2
      <3>1. buf # << >> => Len(buf) = 1 \/ Len(buf) = 2
        BY <1>2, BufIs
      <3>2. CASE buf = << >>
        <4>1. Len(buf) = 0
          BY <3>2
        <4> QED BY <4>1
      <3>3. CASE buf # << >>
        <4>1. CASE Len(buf) = 1
          BY <4>1
        <4>2. CASE Len(buf) = 2
          BY <4>2
        <4> QED BY <3>1, <3>3, <4>1, <4>2
      <3> QED BY <3>2, <3>3
    <2> QED BY <1>2, <2>1 DEF TypeInv, TypeOK
  <1> QED BY <1>1, <1>2, InitType, PTL DEF Spec

-----------------------------------------------------------------------------
(* A line that damages nothing                                             *)

\* A fault that has happened is not forgotten.
LEMMA MetGrows == ASSUME TypeInv, [Next]_vars PROVE met \subseteq met'
  <1>1. CASE UNCHANGED vars
    BY <1>1 DEF vars
  <1>2. CASE HostReceive \/ HostTimeout
    BY <1>2 DEF HostReceive, HostTimeout
  <1>3. CASE Corrupt \/ LosePacket \/ LoseReply
    BY <1>3 DEF Corrupt, LosePacket, LoseReply, Fault
  <1>4. CASE ymodem_data_recv
    BY <1>4 DEF ymodem_data_recv
  <1>5. CASE Timeout
    BY <1>5, TimeoutIs
  <1>6. CASE Receive
    <2>1. ASSUME NEW fails \in BOOLEAN, HandlePacket(fails) PROVE met \subseteq met'
      BY <2>1 DEF HandlePacket, Fault
    <2> QED BY <1>6, <2>1, ReceiveIs DEF HandleEOT, HandleCAN, HandleOther
  <1> QED BY <1>1, <1>2, <1>3, <1>4, <1>5, <1>6 DEF Next

Clean ==
    /\ line \in Seq(WholeFrames)
    /\ buf # << >> => Head(buf) \in WholeFrames
    /\ broken => pc = "error"

LEMMA CleanStep ==
    ASSUME TypeInv, Clean, [Next]_vars, met' \subseteq {"packet", "reply", "flash"}
    PROVE  Clean'
  <1>1. CASE UNCHANGED vars
    BY <1>1 DEF vars, Clean, receiver, callbacks
  <1>2. CASE HostReceive \/ HostTimeout
    <2>1. /\ \/ line' = line
             \/ line' = Append(line, Frame(file', block'))
          /\ HostType' /\ buf' = buf /\ broken' = broken /\ pc' = pc
      <3>1. CASE HostReceive
        BY <3>1, HostMoves DEF host, receiver, callbacks
      <3>2. CASE HostTimeout
        BY <3>2 DEF HostTimeout, Resend, host, receiver, callbacks, HostType, TypeInv
      <3> QED BY <1>2, <3>1, <3>2
    <2> DEFINE f == Frame(file', block')
    <2>2. f \in WholeFrames
      BY <2>1, FrameIs DEF HostType
    <2>3. line \in Seq(WholeFrames) /\ (line' = line \/ line' = Append(line, f))
      BY <2>1 DEF Clean
    <2> HIDE DEF f
    <2>4. line' \in Seq(WholeFrames)
      BY <2>2, <2>3, AppendProperties
    <2> QED BY <2>1, <2>4 DEF Clean
  <1>3. CASE Corrupt
    <2>1. "corrupt" \in met' \/ "renumber" \in met'
      BY <1>3, CorruptIs
    <2> QED BY <2>1
  <1>4. CASE LosePacket
    <2>1. line # << >> /\ line' = Tail(line) /\ UNCHANGED <<receiver, buf, callbacks>>
      BY <1>4 DEF LosePacket
    <2>2. line' \in Seq(WholeFrames)
      BY <2>1, HeadTailProperties DEF Clean
    <2> QED BY <2>1, <2>2 DEF Clean, receiver, callbacks
  <1>5. CASE LoseReply
    BY <1>5 DEF LoseReply, Clean, receiver, callbacks
  <1>6. CASE ymodem_data_recv
    <2>1. /\ line # << >> /\ line \in Seq(WholeFrames) /\ UNCHANGED <<receiver, callbacks>>
      BY <1>6, RecvIs DEF Clean
    <2>2. Head(line) \in WholeFrames /\ Tail(line) \in Seq(WholeFrames)
      BY <2>1, HeadTailProperties
    <2>3. \/ buf' = <<Head(line)>> /\ (line' = line \/ line' = Tail(line))
          \/ buf' = <<Head(line), "rest">> /\ line' = Tail(line)
          \/ buf # << >> /\ Head(buf) \in Remains /\ Head(buf).head = "SOH"
      BY <1>6, RecvIs
    <2>4. ~(buf # << >> /\ Head(buf) \in Remains /\ Head(buf).head = "SOH")
      BY RemainsType DEF Clean, WholeFrames
    <2>5. line' \in Seq(WholeFrames) /\ Head(buf') = Head(line)
      <3>1. CASE buf' = <<Head(line)>> /\ (line' = line \/ line' = Tail(line))
        <4>1. \A x : Head(<<x>>) = x
          OBVIOUS
        <4>2. Head(buf') = Head(line)
          BY <3>1, <4>1
        <4> QED BY <2>1, <2>2, <3>1, <4>2
      <3>2. CASE buf' = <<Head(line), "rest">> /\ line' = Tail(line)
        BY <2>2, <3>2
      <3> QED BY <2>3, <2>4, <3>1, <3>2
    <2> QED BY <2>1, <2>2, <2>5 DEF Clean, receiver, callbacks
  <1>7. CASE Timeout
    <2>1. /\ pc = "receive" /\ line' = line /\ UNCHANGED callbacks
          /\ \/ ymodem_error_handler(errors)
             \/ UNCHANGED <<pc, errors, buf>>
      BY <1>7, TimeoutIs
    <2>2. buf' = << >> \/ buf' = buf
      BY <2>1 DEF ymodem_error_handler
    <2> QED BY <2>1, <2>2 DEF Clean, callbacks
  <1>8. CASE Receive
    <2>1. /\ pc = "receive" /\ buf # << >> /\ Head(buf) \in Frames /\ line' = line /\ ~broken
          /\ Head(buf) \in WholeFrames
          /\ (\E fails \in BOOLEAN : HandlePacket(fails)) \/ HandleEOT \/ HandleCAN \/ HandleOther
      BY <1>8, ReceiveIs DEF Clean
    <2>2. ASSUME NEW fails \in BOOLEAN, HandlePacket(fails) PROVE Clean'
      <3> DEFINE p == Head(buf)
      <3>1. /\ PacketEnds(p, fails) /\ Deliver(p, fails) /\ p \in Frames /\ p.head = "SOH"
            /\ fails => ~(IsFirst(p) /\ ~p.name)
        BY <2>1, <2>2, HandlePacketIs
      <3>2. p.crc
        BY <2>1, <3>1 DEF WholeFrames
      <3> HIDE DEF p
      <3>3. broken' = fails
        BY <2>1, <3>1, DeliverType
      <3>4. buf' = << >>
        BY <3>1 DEF PacketEnds, ymodem_error_handler
      <3>5. fails => pc' = "error"
        <4>1. MaxErrors \in 0 .. MaxErrors
          BY SizeAssumption
        <4>2. fails => ymodem_error_handler(MaxErrors)
          BY <3>1, <3>2 DEF PacketEnds
        <4> QED BY <2>1, <4>1, <4>2, ErrorType
      <3> QED BY <2>1, <3>3, <3>4, <3>5 DEF Clean
    <2>3. CASE HandleEOT \/ HandleCAN \/ HandleOther
      BY <2>1, <2>3 DEF HandleEOT, HandleCAN, HandleOther, ymodem_error_handler, callbacks, Clean
    <2> QED BY <2>1, <2>2, <2>3
  <1> QED BY <1>1, <1>2, <1>3, <1>4, <1>5, <1>6, <1>7, <1>8 DEF Next

LEMMA InitClean == Init => CleanInv
  <1>1. << >> \in Seq(WholeFrames)
    OBVIOUS
  <1> QED BY <1>1 DEF Init, CleanInv

LEMMA CleanNext == ASSUME TypeInv, CleanInv, [Next]_vars PROVE CleanInv'
  <1> SUFFICES ASSUME met' \subseteq {"packet", "reply", "flash"} PROVE Clean'
    BY DEF CleanInv, Clean
  <1>1. Clean
    BY MetGrows DEF CleanInv, Clean
  <1> QED BY <1>1, CleanStep

\* An error of the flash ends the transfer at once, unless a packet was damaged or cut.
THEOREM FlashErrorSeen == Spec => []FlashErrorAborts
  <1>1. TypeInv /\ CleanInv /\ [Next]_vars => (TypeInv /\ CleanInv)'
    BY TypeStep, CleanNext
  <1>2. CleanInv => FlashErrorAborts
    BY DEF CleanInv, FlashErrorAborts
  <1> QED BY <1>1, <1>2, InitType, InitClean, PTL DEF Spec

-----------------------------------------------------------------------------
(* A line that damages and loses packets, and loses answers                *)

LEMMA Singles ==
    /\ \A x : Head(<<x>>) = x /\ Tail(<<x>>) = << >> /\ <<x>> # << >>
    /\ \A x, y : Head(<<x, y>>) = x /\ Tail(<<x, y>>) = <<y>> /\ <<x, y>> # << >>
  OBVIOUS

LEMMA JoinedEmpty ==
    /\ \A x : Append(<< >>, x) = <<x>>
    /\ << >> \o <<"ACK">> = <<"ACK">> /\ << >> \o <<"ACK", "C">> = <<"ACK", "C">>
  <1>1. \A x : Append(<< >>, x) = <<x>>
    OBVIOUS
  <1>2. <<"ACK">> \in Seq(Replies) /\ <<"ACK", "C">> \in Seq(Replies)
    <2>1. "ACK" \in Replies /\ "C" \in Replies
      BY DEF Replies
    <2> QED BY <2>1
  <1> QED BY <1>1, <1>2, ConcatEmptySeq

\* A frame on the line has the kind and the number of the one the host sent, and
\* is that one when its checksum is right.
LEMMA OnLineIs ==
    ASSUME TypeInv, NEW p \in OnLine
    PROVE  /\ p \in Frames /\ p.head = Frame(file, block).head /\ p.head \in {"SOH", "EOT"}
           /\ p.head = "SOH" => /\ p.num = Frame(file, block).num /\ p \notin Remains
                                /\ p.crc => p = Frame(file, block)
           /\ p.head = "EOT" => p = Frame(file, block)
  <1> DEFINE f == Frame(file, block)
  <1>1. /\ f \in Frames /\ f.head \in {"SOH", "EOT"}
        /\ f.head = "SOH" => f.num \in Nat
    BY FrameIs DEF TypeInv
  <1>2. p = f \/ (f.head = "SOH" /\ p \in Damaged(f))
    BY DEF OnLine
  <1> HIDE DEF f
  <1>3. /\ p \in Frames /\ p.head = f.head /\ p.num = f.num
        /\ p.crc => p = f
        /\ p.head = "EOT" => p = f
    <2>1. CASE p = f
      BY <1>1, <2>1
    <2>2. CASE f.head = "SOH" /\ p \in Damaged(f)
      <3>1. p \in Frames /\ p.head = "SOH" /\ p.num = f.num /\ ~p.crc
        BY <1>1, <2>2, DamagedIs
      <3> QED BY <2>2, <3>1
    <2> QED BY <1>2, <2>1, <2>2
  <1>4. p.head = "SOH" => p \notin Remains
    BY <1>1, <1>3, RemainsType DEF Junk
  <1> QED BY <1>1, <1>3, <1>4 DEF f

\* The frame the host is at, by file and block.
LEMMA AtHost ==
    ASSUME TypeInv
    PROVE  /\ file \in 1 .. Len(Files) + 1 /\ block \in Nat /\ Len(Files) \in Nat
           /\ Frame(file, block) \in OnLine
           /\ file > Len(Files) => block = 0 /\ Frame(file, block).head = "SOH"
                                   /\ Frame(file, block).num = 0 /\ ~Frame(file, block).name
           /\ file <= Len(Files) =>
                 /\ file \in 1 .. Len(Files) /\ Blocks(file) \in Nat \ {0}
                 /\ block <= Blocks(file) + 1
                 /\ block <= Blocks(file) <=> Frame(file, block).head = "SOH"
                 /\ block = 0 => Frame(file, block).num = 0
                 /\ block \in 1 .. Blocks(file) => /\ Frame(file, block).num = block % Mod
                                                   /\ Frame(file, block).data = Data(file, block)
  <1>1. file \in 1 .. Len(Files) + 1 /\ block \in Nat /\ Len(Files) \in Nat
    BY UnitType DEF TypeInv
  <1>2. /\ file > Len(Files) => /\ Frame(file, block).head = "SOH" /\ Frame(file, block).num = 0
                                /\ ~Frame(file, block).name
        /\ file <= Len(Files) =>
                 /\ block <= Blocks(file) <=> Frame(file, block).head = "SOH"
                 /\ block = 0 => Frame(file, block).num = 0
                 /\ block \in 1 .. Blocks(file) => /\ Frame(file, block).num = block % Mod
                                                   /\ Frame(file, block).data = Data(file, block)
    BY <1>1, FrameIs
  <1>3. file <= Len(Files) => file \in 1 .. Len(Files)
    BY <1>1
  <1>4. file <= Len(Files) => Blocks(file) \in Nat \ {0}
    BY <1>3, BlocksEnough
  <1>5. /\ file > Len(Files) => block = 0
        /\ file <= Len(Files) => block <= Blocks(file) + 1
    BY <1>1 DEF TypeInv
  <1>6. Frame(file, block) \in OnLine
    BY DEF OnLine
  <1> QED BY <1>1, <1>2, <1>3, <1>4, <1>5, <1>6

\* The packets of a file, one more at a time.
LEMMA PacketsStep ==
    ASSUME NEW f \in 1 .. Len(Files), NEW n \in Nat \ {0}
    PROVE  /\ Packets(f, 0) = << >>
           /\ Append(Packets(f, n - 1), Data(f, n)) = Packets(f, n)
           /\ Packets(f, n) \in Seq(Seq(Int)) /\ Len(Packets(f, n)) = n
  <1> DEFINE S == Seq(Int)
  <1>1. \A b \in Nat \ {0} : Data(f, b) \in S
    BY DataType
  <1> HIDE DEF S
  <1>2. \A k \in Nat : Packets(f, k) \in [1 .. k -> S]
    BY <1>1 DEF Packets
  <1>3. \A k \in Nat : Packets(f, k) \in Seq(S) /\ Len(Packets(f, k)) = k
    BY <1>2
  <1>4. Packets(f, 0) = << >>
    BY <1>3, EmptySeq
  <1> DEFINE a == Packets(f, n - 1)
             d == Data(f, n)
  <1>5. a \in Seq(S) /\ Len(a) = n - 1 /\ d \in S
    BY <1>1, <1>3
  <1>6. \A i \in 1 .. n - 1 : a[i] = Packets(f, n)[i]
    BY DEF Packets
  <1>7. Packets(f, n)[n] = d
    BY DEF Packets
  <1> HIDE DEF a, d
  <1>8. /\ Append(a, d) \in Seq(S) /\ Len(Append(a, d)) = n
        /\ \A i \in 1 .. n - 1 : Append(a, d)[i] = a[i]
        /\ Append(a, d)[n] = d
    BY <1>5, AppendProperties
  <1>9. \A i \in 1 .. n : Append(a, d)[i] = Packets(f, n)[i]
    <2> TAKE i \in 1 .. n
    <2>1. i \in 1 .. n - 1 \/ i = n
      OBVIOUS
    <2> QED BY <1>6, <1>7, <1>8, <2>1
  <1>10. Append(a, d) = Packets(f, n)
    BY <1>3, <1>8, <1>9, SeqEqual
  <1> QED BY <1>3, <1>4, <1>10 DEF a, d, S

\* The transfer does not begin again.
LEMMA PcBack == ASSUME TypeInv, [Next]_vars, pc' = "receive" PROVE pc = "receive"
  <1>1. CASE UNCHANGED vars
    BY <1>1 DEF vars, receiver
  <1>2. CASE HostReceive \/ HostTimeout \/ Corrupt \/ LosePacket \/ LoseReply
    BY <1>2 DEF HostReceive, HostTimeout, Corrupt, LosePacket, LoseReply, receiver
  <1>3. CASE ymodem_data_recv \/ Timeout \/ Receive
    BY <1>3 DEF ymodem_data_recv, Timeout, Receive
  <1> QED BY <1>1, <1>2, <1>3 DEF Next

Positions == InSync \/ Behind
StepSound == (Quiet \/ Answered \/ Carried) /\ Positions

\* While neither side moves on, they stay as they are to each other.
LEMMA PositionsSame ==
    ASSUME Positions, UNCHANGED <<number, seen, accepted, file, block>>, waitC' => waitC
    PROVE  Positions' /\ (InSync => InSync') /\ (Behind => Behind')
  BY DEF Positions, InSync, Behind, Packets, Data, Blocks

\* The frame on the line, by what is in line and recv_buf.
LEMMA CarriedIs ==
    ASSUME TypeInv, Carried
    PROVE  /\ reply = << >> /\ ~waitC
           /\ \E p \in OnLine :
                 /\ p \in Frames
                 /\ \/ line = <<p>> /\ buf = << >> /\ ~Complete
                    \/ line = <<p>> /\ buf = <<p>> /\ p.head = "SOH" /\ ~Complete
                    \/ line = << >> /\ buf # << >> /\ Head(buf) = p /\ Complete
  <1>1. PICK p \in OnLine :
            \/ line = <<p>> /\ (buf = << >> \/ (buf = <<p>> /\ p.head = "SOH"))
            \/ line = << >> /\ buf = IF p.head = "SOH" THEN <<p, "rest">> ELSE <<p>>
    BY DEF Carried
  <1>2. p \in Frames
    BY OnLineIs
  <1>3. CASE line = <<p>> /\ buf = << >>
    BY <1>2, <1>3 DEF Carried, Complete
  <1>4. CASE line = <<p>> /\ buf = <<p>> /\ p.head = "SOH"
    <2>1. buf # << >> /\ Head(buf) = p /\ Len(buf) = 1
      BY <1>4
    <2>2. ~Complete
      BY <1>4, <2>1 DEF Complete
    <2> QED BY <1>2, <1>4, <2>2 DEF Carried
  <1>5. CASE line = << >> /\ buf = IF p.head = "SOH" THEN <<p, "rest">> ELSE <<p>>
    <2>1. CASE p.head = "SOH"
      <3>1. buf = <<p, "rest">>
        BY <1>5, <2>1
      <3>2. Len(buf) = 2 /\ buf # << >> /\ Head(buf) = p
        BY <3>1
      <3>3. Complete
        BY <3>2 DEF Complete
      <3> QED BY <1>2, <1>5, <3>2, <3>3 DEF Carried
    <2>2. CASE p.head # "SOH"
      <3>1. buf = <<p>>
        BY <1>5, <2>2
      <3>2. buf # << >> /\ Head(buf) = p
        BY <3>1
      <3>3. Complete
        BY <2>2, <3>2 DEF Complete
      <3> QED BY <1>2, <1>5, <3>2, <3>3 DEF Carried
    <2> QED BY <2>1, <2>2
  <1> QED BY <1>1, <1>3, <1>4, <1>5

LEMMA EmptyIs == ~(<< >> # << >>) /\ (buf = << >> => ~Complete)
  BY DEF Complete

\* The host, whatever it hears.
LEMMA HostReceiveStep ==
    ASSUME TypeInv, StepSound, HostReceive PROVE StepSound' /\ (Answered \/ InSync => InSync')
  <1>1. /\ reply # << >> /\ reply' = Tail(reply)
        /\ number' = number /\ seen' = seen /\ accepted' = accepted /\ buf' = buf
    BY HostMoves DEF receiver, callbacks
  <1>2. line = << >> /\ buf = << >> /\ (Quiet \/ Answered)
    BY <1>1 DEF StepSound, Quiet, Answered, Carried
  <1>3. CASE Quiet
    <2>1. (reply = <<"C">> \/ reply = <<"NAK">>) /\ Head(reply) # "ACK" /\ reply' = << >>
      BY <1>1, <1>3, Singles DEF Quiet
    <2>0. ~Answered
      BY <2>1, Singles DEF Answered
    <2>2. CASE ~waitC' /\ file' = file /\ block' = block /\ line' = Append(line, Frame(file, block))
      <3>1. line' = <<Frame(file', block')>>
        BY <1>2, <2>2, JoinedEmpty
      <3>2. Frame(file', block') \in OnLine'
        BY DEF OnLine
      <3>3. Carried'
        BY <1>1, <1>2, <2>1, <2>2, <3>1, <3>2 DEF Carried
      <3>4. Positions' /\ (InSync => InSync')
        BY <1>1, <2>2, PositionsSame DEF StepSound
      <3> QED BY <2>0, <3>3, <3>4 DEF StepSound
    <2>3. CASE UNCHANGED <<line, host>>
      <3>1. Quiet'
        BY <1>1, <1>2, <2>1, <2>3 DEF Quiet
      <3>2. Positions' /\ (InSync => InSync')
        BY <1>1, <2>3, PositionsSame DEF StepSound, host
      <3> QED BY <2>0, <3>1, <3>2 DEF StepSound
    <2> QED BY <2>1, <2>2, <2>3, HostMoves
  <1>4. CASE Answered
    <2>1. /\ Behind /\ reply = IF block \in 1 .. Blocks(file) THEN <<"ACK">> ELSE <<"ACK", "C">>
      BY <1>4 DEF Answered
    <2>2. Head(reply) = "ACK" /\ file <= Len(Files) /\ ~waitC
      BY <2>1, Singles DEF Behind
    <2>3. /\ IF block <= Blocks(file) THEN block' = block + 1 /\ waitC' = (block = 0) /\ file' = file
             ELSE block' = 0 /\ waitC' = TRUE /\ file' = file + 1
          /\ line' = IF waitC' THEN line ELSE Append(line, Frame(file', block'))
      <3>1. ~(file > Len(Files))
        BY <2>2, AtHost
      <3> QED BY <2>2, <3>1, HostMoves
    <2>4. block \in Nat /\ Blocks(file) \in Nat \ {0} /\ file \in 1 .. Len(Files)
      BY <2>2, AtHost
    <2>5. CASE block = 0
      <3>1. reply' = <<"C">> /\ line' = << >> /\ block' = 1 /\ waitC' /\ file' = file
        <4>1. block <= Blocks(file) /\ ~(block \in 1 .. Blocks(file)) /\ block + 1 = 1
          BY <2>4, <2>5
        <4>2. reply = <<"ACK", "C">> /\ block' = 1 /\ waitC' = TRUE /\ file' = file
          BY <2>1, <2>3, <2>5, <4>1
        <4>3. line' = line
          BY <2>3, <4>2
        <4> QED BY <1>1, <1>2, <4>2, <4>3, Singles
      <3>2. number = (0 + 1) % Mod /\ accepted = Packets(file, 0)
        BY <2>1, <2>4, <2>5 DEF Behind
      <3>3. number' = 1 % Mod /\ accepted' = Packets(file', 1 - 1)
        BY <1>1, <3>1, <3>2 DEF Packets, Data
      <3>4. InSync'
        BY <3>1, <3>3 DEF InSync
      <3>5. Quiet'
        BY <1>1, <1>2, <3>1 DEF Quiet
      <3> QED BY <3>4, <3>5 DEF StepSound, Positions
    <2>6. CASE block \in 1 .. Blocks(file)
      <3>1. /\ reply' = << >> /\ block' = block + 1 /\ ~waitC' /\ file' = file
            /\ line' = <<Frame(file', block')>>
        <4>1. block <= Blocks(file) /\ block # 0
          BY <2>4, <2>6
        <4>2. reply = <<"ACK">> /\ block' = block + 1 /\ waitC' = FALSE /\ file' = file
          BY <2>1, <2>3, <2>6, <4>1
        <4>3. line' = Append(line, Frame(file', block'))
          BY <2>3, <4>2
        <4> QED BY <1>1, <1>2, <4>2, <4>3, Singles, JoinedEmpty
      <3>2. number = (block + 1) % Mod /\ accepted = Packets(file, block) /\ seen
        <4>1. block <= Blocks(file) /\ block > 0
          BY <2>4, <2>6
        <4> QED BY <2>1, <4>1 DEF Behind
      <3>3. block' - 1 = block /\ block' > 0
        BY <2>4, <3>1
      <3>4. number' = block' % Mod /\ accepted' = Packets(file', block' - 1) /\ seen'
        BY <1>1, <3>1, <3>2, <3>3 DEF Packets, Data
      <3>5. InSync'
        BY <3>3, <3>4 DEF InSync
      <3>6. Frame(file', block') \in OnLine'
        BY DEF OnLine
      <3>7. Carried'
        BY <1>1, <1>2, <3>1, <3>6 DEF Carried
      <3> QED BY <3>5, <3>7 DEF StepSound, Positions
    <2>7. CASE ~(block <= Blocks(file))
      <3>1. reply' = <<"C">> /\ line' = << >> /\ block' = 0
        BY <1>1, <1>2, <2>1, <2>3, <2>4, <2>7, Singles
      <3>2. number' = 0 /\ ~seen'
        BY <1>1, <2>1, <2>7 DEF Behind
      <3>3. InSync'
        BY <3>1, <3>2 DEF InSync
      <3>4. Quiet'
        BY <1>1, <1>2, <3>1 DEF Quiet
      <3> QED BY <3>3, <3>4 DEF StepSound, Positions
    <2> QED BY <2>4, <2>5, <2>6, <2>7
  <1> QED BY <1>2, <1>3, <1>4

LEMMA HostTimeoutStep ==
    ASSUME TypeInv, StepSound, HostTimeout PROVE StepSound'
  <1>1. /\ line = << >> /\ reply = << >> /\ ~Complete /\ ~waitC
        /\ line' = Append(line, Frame(file, block)) /\ file' = file /\ block' = block /\ waitC' = waitC
        /\ reply' = reply /\ buf' = buf /\ number' = number /\ seen' = seen /\ accepted' = accepted
    BY DEF HostTimeout, Silence, Resend, receiver, callbacks
  <1>2. buf = << >>
    <2>1. ~Carried
      BY <1>1, CarriedIs, Singles
    <2> QED BY <2>1 DEF StepSound, Quiet, Answered
  <1>3. line' = <<Frame(file', block')>>
    BY <1>1, JoinedEmpty
  <1>4. Frame(file', block') \in OnLine'
    BY DEF OnLine
  <1>5. Carried'
    BY <1>1, <1>2, <1>3, <1>4 DEF Carried
  <1>6. Positions'
    BY <1>1, PositionsSame DEF StepSound
  <1> QED BY <1>5, <1>6 DEF StepSound

LEMMA CorruptStep ==
    ASSUME TypeInv, StepSound, Corrupt, met' \subseteq {"corrupt", "packet", "reply"} PROVE StepSound'
  <1>1. /\ line # << >> /\ Head(line).head = "SOH" /\ Head(line).crc /\ buf = << >>
        /\ buf' = buf /\ number' = number /\ seen' = seen /\ accepted' = accepted /\ reply' = reply
        /\ file' = file /\ block' = block /\ waitC' = waitC
    BY CorruptIs DEF receiver, callbacks, host
  <1>2. PICK d \in Damaged(Head(line)) : line' = <<d>> \o Tail(line)
    <2>1. ~("renumber" \in met')
      OBVIOUS
    <2> QED BY <2>1, CorruptIs
  <1>3. Carried
    BY <1>1 DEF StepSound, Quiet, Answered
  <1>4. PICK p \in OnLine : line = <<p>>
    BY <1>1, <1>3, CarriedIs
  <1>5. Head(line) = p /\ Tail(line) = << >>
    BY <1>4, Singles
  <1>6. p = Frame(file, block) /\ Frame(file, block).head = "SOH"
    BY <1>1, <1>4, <1>5, OnLineIs
  <1>7. d \in OnLine'
    <2>1. Frame(file', block') = Frame(file, block)
      BY <1>1
    <2> QED BY <1>2, <1>5, <1>6, <2>1 DEF OnLine
  <1>8. line' = <<d>>
    <2>1. \A x : <<x>> \o << >> = <<x>>
      <3> TAKE x
      <3>1. <<x>> \in Seq({x})
        OBVIOUS
      <3> QED BY <3>1, ConcatEmptySeq
    <2> QED BY <1>2, <1>5, <2>1
  <1>9. Carried'
    BY <1>1, <1>3, <1>7, <1>8 DEF Carried
  <1>10. Positions'
    BY <1>1, PositionsSame DEF StepSound
  <1> QED BY <1>9, <1>10 DEF StepSound

LEMMA LosePacketStep ==
    ASSUME TypeInv, StepSound, LosePacket PROVE StepSound'
  <1>1. /\ line # << >> /\ line' = Tail(line) /\ buf = << >>
        /\ buf' = buf /\ number' = number /\ seen' = seen /\ accepted' = accepted /\ reply' = reply
        /\ file' = file /\ block' = block /\ waitC' = waitC
    BY DEF LosePacket, receiver, callbacks, host
  <1>2. Carried
    BY <1>1 DEF StepSound, Quiet, Answered
  <1>3. reply = << >> /\ \E p : line = <<p>>
    BY <1>1, <1>2, CarriedIs
  <1>4. Quiet'
    BY <1>1, <1>3, Singles DEF Quiet
  <1>5. Positions'
    BY <1>1, PositionsSame DEF StepSound
  <1> QED BY <1>4, <1>5 DEF StepSound

LEMMA LoseReplyStep ==
    ASSUME TypeInv, StepSound, LoseReply PROVE StepSound'
  <1>1. /\ reply # << >> /\ reply' = Tail(reply)
        /\ buf' = buf /\ number' = number /\ seen' = seen /\ accepted' = accepted /\ line' = line
        /\ file' = file /\ block' = block /\ waitC' = waitC
    BY DEF LoseReply, receiver, callbacks, host
  <1>2. line = << >> /\ buf = << >> /\ reply \in {<<"C">>, <<"NAK">>, <<"ACK">>, <<"ACK", "C">>}
    BY <1>1 DEF StepSound, Quiet, Answered, Carried
  <1>3. reply' \in {<< >>, <<"C">>}
    BY <1>1, <1>2, Singles
  <1>4. Quiet'
    BY <1>1, <1>2, <1>3 DEF Quiet
  <1>5. Positions'
    BY <1>1, PositionsSame DEF StepSound
  <1> QED BY <1>4, <1>5 DEF StepSound

LEMMA RecvStep ==
    ASSUME TypeInv, StepSound, ymodem_data_recv PROVE StepSound'
  <1>1. /\ line # << >> /\ ~Complete
        /\ number' = number /\ seen' = seen /\ accepted' = accepted /\ reply' = reply
        /\ file' = file /\ block' = block /\ waitC' = waitC
    BY RecvIs DEF receiver, callbacks, host
  <1>2. Carried
    BY <1>1 DEF StepSound, Quiet, Answered
  <1>3. PICK p \in OnLine : /\ p \in Frames /\ line = <<p>>
                            /\ buf = << >> \/ (buf = <<p>> /\ p.head = "SOH")
    BY <1>1, <1>2, CarriedIs
  <1>4. Head(line) = p /\ Tail(line) = << >> /\ <<p>> # << >> /\ Head(<<p>>) = p
    BY <1>3, Singles
  <1>5. p.head = "SOH" => p \notin Remains
    BY OnLineIs
  <1>6. p \in OnLine'
    <2>1. Frame(file', block') = Frame(file, block)
      BY <1>1
    <2> QED BY <2>1 DEF OnLine
  <1>7. \/ line' = <<p>> /\ buf' = <<p>> /\ p.head = "SOH"
        \/ line' = << >> /\ buf' = IF p.head = "SOH" THEN <<p, "rest">> ELSE <<p>>
    <2>1. CASE /\ buf = << >> /\ buf' = <<Head(line)>>
               /\ line' = IF Head(line).head = "SOH" /\ Head(line) \notin Remains THEN line ELSE Tail(line)
      BY <1>3, <1>4, <1>5, <2>1
    <2>2. CASE /\ buf = <<Head(line)>> /\ buf' = <<Head(line), "rest">> /\ line' = Tail(line)
      <3>1. p.head = "SOH" /\ buf' = <<p, "rest">> /\ line' = << >>
        BY <1>3, <1>4, <2>2
      <3> QED BY <3>1
    <2>3. CASE buf # << >> /\ Head(buf) \in Remains
      BY <1>3, <1>4, <1>5, <2>3
    <2> QED BY <2>1, <2>2, <2>3, RecvIs
  <1>8. Carried'
    BY <1>1, <1>2, <1>6, <1>7 DEF Carried
  <1>9. Positions'
    BY <1>1, PositionsSame DEF StepSound
  <1> QED BY <1>8, <1>9 DEF StepSound

\* A round that ends with ymodem_error_handler and goes on has sent a NAK.
LEMMA NakSent ==
    ASSUME TypeInv, pc = "receive", reply = << >>, line' = << >>, ymodem_error_handler(errors), pc' = "receive"
    PROVE  Quiet'
  <1>1. errors \in 0 .. MaxErrors
    BY SizeAssumption DEF TypeInv
  <1>2. buf' = << >> /\ reply' = Append(reply, "NAK")
    BY <1>1, ErrorType
  <1>3. reply' = <<"NAK">>
    BY <1>2, JoinedEmpty
  <1> QED BY <1>2, <1>3 DEF Quiet

LEMMA TimeoutStep ==
    ASSUME TypeInv, StepSound, Timeout, met' \subseteq {"corrupt", "packet", "reply"}, pc' = "receive"
    PROVE  StepSound'
  <1>1. /\ pc = "receive" /\ ~Complete
        /\ number' = number /\ seen' = seen /\ accepted' = accepted
        /\ file' = file /\ block' = block /\ waitC' = waitC
        /\ ymodem_error_handler(errors) \/ (reply' = Append(reply, "C") /\ buf' = buf)
    BY TimeoutIs DEF callbacks, host
  <1>2. line = << >> /\ reply = << >> /\ line' = line
    <2>1. ~("late" \in met') /\ ~("cut" \in met')
      OBVIOUS
    <2> QED BY <2>1, TimeoutIs DEF Silence
  <1>3. buf = << >>
    <2>1. ~Carried
      BY <1>1, <1>2, CarriedIs, Singles
    <2> QED BY <2>1 DEF StepSound, Quiet, Answered
  <1>4. Quiet'
    <2>1. CASE ymodem_error_handler(errors)
      BY <1>1, <1>2, <2>1, NakSent
    <2>2. CASE reply' = Append(reply, "C") /\ buf' = buf
      <3>1. reply' = <<"C">>
        BY <1>2, <2>2, JoinedEmpty
      <3> QED BY <1>2, <1>3, <2>2, <3>1 DEF Quiet
    <2> QED BY <1>1, <2>1, <2>2
  <1>5. Positions'
    BY <1>1, PositionsSame DEF StepSound
  <1> QED BY <1>4, <1>5 DEF StepSound

\* The number of the packet of a frame, and whether it is a first one.
LEMMA PacketAt ==
    ASSUME TypeInv, Positions, NEW p \in OnLine, p.head = "SOH"
    PROVE  /\ block = 0 => p.num = 0 /\ IsFirst(p) /\ ~seen
           /\ block > 0 => /\ p.num = block % Mod /\ ~IsFirst(p)
                           /\ file \in 1 .. Len(Files) /\ block \in 1 .. Blocks(file)
                           /\ Frame(file, block).data = Data(file, block)
           /\ file > Len(Files) => block = 0 /\ InSync
           /\ file <= Len(Files) => block <= Blocks(file)
  <1>1. p.num = Frame(file, block).num /\ Frame(file, block).head = "SOH"
    BY OnLineIs
  <1>2. block \in Nat /\ file \in 1 .. Len(Files) + 1 /\ Len(Files) \in Nat /\ Mod \in Nat \ {0, 1}
    BY AtHost, SizeAssumption
  <1>3. CASE file > Len(Files)
    <2>1. block = 0 /\ p.num = 0
      BY <1>1, <1>3, AtHost
    <2>2. InSync /\ ~seen
      <3>1. ~Behind
        BY <1>2, <1>3 DEF Behind
      <3> QED BY <2>1, <3>1 DEF Positions, InSync
    <2> QED BY <1>2, <1>3, <2>1, <2>2 DEF IsFirst
  <1>4. CASE file <= Len(Files)
    <2>1. file \in 1 .. Len(Files) /\ Blocks(file) \in Nat \ {0} /\ block <= Blocks(file)
      BY <1>1, <1>4, AtHost
    <2>2. CASE block = 0
      <3>1. p.num = 0
        BY <1>1, <1>4, <2>2, AtHost
      <3>2. ~seen
        BY <2>1, <2>2 DEF Positions, InSync, Behind
      <3> QED BY <1>2, <1>4, <2>1, <2>2, <3>1, <3>2 DEF IsFirst
    <2>3. CASE block > 0
      <3>1. block \in 1 .. Blocks(file)
        BY <1>2, <2>1, <2>3
      <3>2. p.num = block % Mod /\ Frame(file, block).data = Data(file, block)
        BY <1>1, <1>4, <3>1, AtHost
      <3>3. ~IsFirst(p)
        <4>1. CASE seen
          BY <4>1 DEF IsFirst
        <4>2. CASE ~seen
          <5>1. ~Behind
            BY <2>1, <2>3, <4>2 DEF Behind
          <5>2. block = 1
            BY <1>2, <2>3, <4>2, <5>1 DEF Positions, InSync
          <5>3. p.num = 1
            BY <3>2, <5>2, ModSmall
          <5> QED BY <5>3 DEF IsFirst
        <4> QED BY <4>1, <4>2
      <3> QED BY <1>2, <1>4, <2>1, <2>3, <3>1, <3>2, <3>3
    <2> QED BY <1>2, <2>2, <2>3
  <1> QED BY <1>2, <1>3, <1>4

\* A packet that is taken leaves the host one behind.
LEMMA TakenStep ==
    ASSUME TypeInv, Positions, ~waitC, NEW p \in OnLine, p.head = "SOH", p.crc, p.num = number,
           ~(IsFirst(p) /\ ~p.name), number' = (number + 1) % Mod,
           accepted' = (IF IsFirst(p) THEN << >> ELSE Append(accepted, p.data)),
           seen' \in BOOLEAN, seen' = (seen \/ ~IsFirst(p)),
           file' = file, block' = block, waitC' = waitC
    PROVE  /\ Behind' /\ file <= Len(Files) /\ block <= Blocks(file) /\ InSync
           /\ seen' <=> block \in 1 .. Blocks(file)
  <1>1. p = Frame(file, block)
    BY OnLineIs
  <1>2. block \in Nat /\ file \in 1 .. Len(Files) + 1 /\ Len(Files) \in Nat
    BY AtHost
  <1>3. file <= Len(Files) /\ block <= Blocks(file)
    <2>1. CASE file > Len(Files)
      <3>1. block = 0 /\ ~p.name
        BY <1>1, <2>1, AtHost
      <3>2. IsFirst(p)
        BY <3>1, PacketAt
      <3> QED BY <3>1, <3>2
    <2> QED BY <1>2, <2>1, PacketAt
  <1>4. file \in 1 .. Len(Files) /\ Blocks(file) \in Nat \ {0}
    BY <1>3, AtHost
  <1>5. CASE block = 0
    <2>1. p.num = 0 /\ IsFirst(p) /\ ~seen
      BY <1>5, PacketAt
    <2>2. number' = (block + 1) % Mod
      BY <1>5, <2>1
    <2>3. accepted' = Packets(file, block)
      <3>1. accepted' = << >> /\ Packets(file, 0) = << >>
        <4>1. 1 \in Nat \ {0}
          OBVIOUS
        <4> QED BY <1>4, <2>1, <4>1, PacketsStep
      <3> QED BY <1>5, <3>1
    <2>4. ~seen' /\ ~(block > 0) /\ ~(block \in 1 .. Blocks(file))
      <3>1. ~seen'
        BY <2>1
      <3>2. ~(block > 0) /\ ~(block \in 1 .. Blocks(file))
        BY <1>4, <1>5
      <3> QED BY <3>1, <3>2
    <2>5. Packets(file', block') = Packets(file, block) /\ Blocks(file') = Blocks(file)
      BY DEF Packets, Data, Blocks
    <2>6. Behind'
      BY <1>3, <2>2, <2>3, <2>4, <2>5 DEF Behind
    <2>7. InSync
      <3>1. ~Behind
        <4>1. (0 + 1) % Mod = 1
          BY ModSmall
        <4> QED BY <1>3, <1>5, <2>1, <4>1 DEF Behind
      <3> QED BY <3>1 DEF Positions
    <2> QED BY <1>3, <2>4, <2>6, <2>7
  <1>6. CASE block > 0
    <2>1. /\ p.num = block % Mod /\ ~IsFirst(p) /\ block \in 1 .. Blocks(file)
          /\ p.data = Data(file, block)
      BY <1>1, <1>6, PacketAt
    <2>2. /\ ((block % Mod) + 1) % Mod = (block + 1) % Mod
          /\ block % Mod # (block + 1) % Mod
      BY <1>2, ModStep
    <2>3. ~Behind
      BY <1>3, <2>1, <2>2 DEF Behind
    <2>4. InSync
      BY <2>3 DEF Positions
    <2>5. accepted = Packets(file, block - 1)
      BY <1>6, <2>4 DEF InSync
    <2>6. accepted' = Packets(file, block)
      <3>1. block \in Nat \ {0}
        BY <1>2, <1>6
      <3> QED BY <1>4, <2>1, <2>5, <3>1, PacketsStep
    <2>7. number' = (block + 1) % Mod /\ seen'
      BY <2>1, <2>2
    <2>8. Packets(file', block') = Packets(file, block) /\ Blocks(file') = Blocks(file)
      BY DEF Packets, Data, Blocks
    <2>9. Behind'
      BY <1>3, <1>6, <2>6, <2>7, <2>8 DEF Behind
    <2> QED BY <1>3, <2>1, <2>4, <2>7, <2>9
  <1> QED BY <1>2, <1>5, <1>6

\* A packet that is refused leaves both where they are.
LEMMA RefusedStep ==
    ASSUME TypeInv, Positions, NEW p \in OnLine, p.head = "SOH",
           number' = number, accepted' = (IF IsFirst(p) THEN << >> ELSE accepted),
           seen' \in BOOLEAN, seen' = (seen \/ ~IsFirst(p)),
           file' = file, block' = block, waitC' = waitC
    PROVE  Positions' /\ (InSync => InSync')
  <1>1. block \in Nat
    BY AtHost
  <1>2. CASE block = 0
    <2>1. IsFirst(p) /\ ~seen
      BY <1>2, PacketAt
    <2>2. ~seen' /\ accepted' = << >>
      BY <2>1
    <2>3. InSync => InSync'
      BY <1>2, <2>2 DEF InSync
    <2>4. Behind => Behind'
      <3> SUFFICES ASSUME Behind PROVE Behind'
        OBVIOUS
      <3>1. file \in 1 .. Len(Files) /\ Blocks(file) \in Nat
        BY AtHost DEF Behind
      <3>2. Packets(file, 0) = << >>
        <4>1. 1 \in Nat \ {0}
          OBVIOUS
        <4> QED BY <3>1, <4>1, PacketsStep
      <3>3. Packets(file', block') = Packets(file, 0) /\ Blocks(file') = Blocks(file)
        BY <1>2 DEF Packets, Data, Blocks
      <3> QED BY <1>2, <2>2, <3>1, <3>2, <3>3 DEF Behind
    <2> QED BY <2>3, <2>4 DEF Positions
  <1>3. CASE block > 0
    <2>1. ~IsFirst(p) /\ block <= Blocks(file)
      BY <1>1, <1>3, PacketAt
    <2>2. accepted' = accepted /\ seen'
      BY <2>1
    <2>3. Packets(file', block') = Packets(file, block) /\ Blocks(file') = Blocks(file)
          /\ Packets(file', block' - 1) = Packets(file, block - 1)
      BY DEF Packets, Data, Blocks
    <2>4. InSync => InSync'
      BY <1>3, <2>2, <2>3 DEF InSync
    <2>5. Behind => Behind'
      BY <1>3, <2>1, <2>2, <2>3 DEF Behind
    <2> QED BY <2>4, <2>5 DEF Positions
  <1> QED BY <1>1, <1>2, <1>3

LEMMA ReceiveStep ==
    ASSUME TypeInv, StepSound, Receive, met' \subseteq {"corrupt", "packet", "reply"}, pc' = "receive"
    PROVE  StepSound'
  <1>1. /\ pc = "receive" /\ Complete /\ buf # << >> /\ line' = line
        /\ file' = file /\ block' = block /\ waitC' = waitC
        /\ (\E fails \in BOOLEAN : HandlePacket(fails)) \/ HandleEOT \/ HandleCAN \/ HandleOther
    BY ReceiveIs DEF host
  <1>2. Carried /\ Positions
    BY <1>1 DEF StepSound, Quiet, Answered
  <1>3. PICK p \in OnLine : p \in Frames /\ line = << >> /\ Head(buf) = p
    BY <1>1, <1>2, CarriedIs
  <1>4. reply = << >> /\ ~waitC /\ p.head \in {"SOH", "EOT"}
    BY <1>2, CarriedIs, OnLineIs
  <1>5. ASSUME NEW fails \in BOOLEAN, HandlePacket(fails) PROVE StepSound'
    <2>1. /\ PacketEnds(p, fails) /\ Deliver(p, fails) /\ p.head = "SOH" /\ ~fails
      <3>1. /\ PacketEnds(p, fails) /\ Deliver(p, fails) /\ p.head = "SOH"
            /\ fails => Fault("flash")
        BY <1>1, <1>3, <1>5, HandlePacketIs
      <3>2. Fault("flash") => "flash" \in met'
        BY DEF Fault
      <3>3. ~("flash" \in met')
        OBVIOUS
      <3> QED BY <3>1, <3>2, <3>3
    <2>2. seen' \in BOOLEAN /\ seen' = (seen \/ ~IsFirst(p))
      BY <1>3, <2>1, DeliverType
    <2>3. CASE /\ p.crc /\ p.num = number /\ ~(IsFirst(p) /\ ~p.name)
               /\ number' = (number + 1) % Mod
               /\ accepted' = (IF IsFirst(p) THEN << >> ELSE Append(accepted, p.data))
               /\ reply' = reply \o (IF seen' THEN <<"ACK">> ELSE <<"ACK", "C">>)
               /\ buf' = << >>
      <3>1. Behind' /\ (seen' <=> block \in 1 .. Blocks(file))
        BY <1>1, <1>2, <1>4, <2>1, <2>2, <2>3, TakenStep
      <3>2. reply' = IF seen' THEN <<"ACK">> ELSE <<"ACK", "C">>
        BY <1>4, <2>3, JoinedEmpty
      <3>3. reply' = IF block' \in 1 .. Blocks(file') THEN <<"ACK">> ELSE <<"ACK", "C">>
        BY <1>1, <3>1, <3>2
      <3>4. Answered'
        BY <1>1, <1>3, <2>3, <3>1, <3>3 DEF Answered
      <3> QED BY <3>1, <3>4 DEF StepSound, Positions
    <2>4. CASE /\ number' = number /\ accepted' = (IF IsFirst(p) THEN << >> ELSE accepted)
               /\ ymodem_error_handler(errors)
      <3>1. Positions'
        BY <1>1, <1>2, <2>1, <2>2, <2>4, RefusedStep
      <3>2. Quiet'
        BY <1>1, <1>3, <1>4, <2>4, NakSent
      <3> QED BY <3>1, <3>2 DEF StepSound
    <2> QED BY <2>1, <2>3, <2>4 DEF PacketEnds
  <1>6. CASE HandleEOT
    <2>1. /\ p.head = "EOT" /\ buf' = << >> /\ accepted' = accepted
          /\ \/ /\ reply' = Append(reply, "NAK") /\ number' = number /\ seen' = seen
             \/ /\ reply' = reply \o <<"ACK", "C">> /\ seen' = FALSE /\ number' = 0
      BY <1>3, <1>6 DEF HandleEOT
    <2>2. CASE /\ reply' = Append(reply, "NAK") /\ number' = number /\ seen' = seen
      <3>1. reply' = <<"NAK">>
        BY <1>4, <2>2, JoinedEmpty
      <3>2. Quiet'
        BY <1>1, <1>3, <2>1, <3>1 DEF Quiet
      <3>3. Positions'
        BY <1>1, <1>2, <2>1, <2>2, PositionsSame
      <3> QED BY <3>2, <3>3 DEF StepSound
    <2>3. CASE /\ reply' = reply \o <<"ACK", "C">> /\ seen' = FALSE /\ number' = 0
      <3>1. /\ Frame(file, block).head = "EOT" /\ file <= Len(Files) /\ Blocks(file) \in Nat \ {0}
            /\ block = Blocks(file) + 1
        <4>1. Frame(file, block).head = "EOT"
          BY <2>1, OnLineIs
        <4>2. ~(file > Len(Files))
          BY <4>1, AtHost
        <4>3. file <= Len(Files)
          BY <4>2, AtHost
        <4>4. Blocks(file) \in Nat \ {0} /\ ~(block <= Blocks(file)) /\ block <= Blocks(file) + 1
              /\ block \in Nat
          BY <4>1, <4>3, AtHost
        <4> QED BY <4>1, <4>3, <4>4
      <3>2. ~(block <= Blocks(file)) /\ block > 0 /\ block - 1 = Blocks(file)
            /\ ~(block \in 1 .. Blocks(file))
        BY <3>1
      <3>3. accepted = Packets(file, Blocks(file))
        BY <1>2, <3>2 DEF Positions, InSync, Behind
      <3>4. Packets(file', Blocks(file')) = Packets(file, Blocks(file)) /\ Blocks(file') = Blocks(file)
        BY <1>1 DEF Packets, Data, Blocks
      <3>5. Behind'
        BY <1>1, <1>4, <2>1, <2>3, <3>1, <3>2, <3>3, <3>4 DEF Behind
      <3>6. reply' = <<"ACK", "C">>
        BY <1>4, <2>3, JoinedEmpty
      <3>7. Answered'
        BY <1>1, <1>3, <2>1, <3>2, <3>4, <3>5, <3>6 DEF Answered
      <3> QED BY <3>5, <3>7 DEF StepSound, Positions
    <2> QED BY <2>1, <2>2, <2>3
  <1>7. CASE HandleCAN \/ HandleOther
    <2>1. p.head \in {"CAN", "other"}
      BY <1>3, <1>7 DEF HandleCAN, HandleOther
    <2> QED BY <1>4, <2>1
  <1> QED BY <1>1, <1>5, <1>6, <1>7

LEMMA StepStep ==
    ASSUME TypeInv, StepSound, [Next]_vars, met' \subseteq {"corrupt", "packet", "reply"}, pc' = "receive"
    PROVE  StepSound'
  <1>1. CASE UNCHANGED vars
    <2>1. /\ number' = number /\ seen' = seen /\ accepted' = accepted /\ file' = file
          /\ block' = block /\ waitC' = waitC /\ line' = line /\ buf' = buf /\ reply' = reply
      BY <1>1 DEF vars, receiver, callbacks, host
    <2>2. Positions' /\ (Behind => Behind')
      BY <2>1, PositionsSame DEF StepSound
    <2>3. Quiet => Quiet'
      BY <2>1 DEF Quiet
    <2>4. Blocks(file') = Blocks(file) /\ OnLine' = OnLine
      BY <2>1 DEF OnLine
    <2>5. Answered => Answered'
      BY <2>1, <2>2, <2>4 DEF Answered
    <2>6. Carried => Carried'
      BY <2>1, <2>4 DEF Carried
    <2> QED BY <2>2, <2>3, <2>5, <2>6 DEF StepSound
  <1> QED BY <1>1, HostReceiveStep, HostTimeoutStep, CorruptStep, LosePacketStep, LoseReplyStep,
          RecvStep, TimeoutStep, ReceiveStep DEF Next

LEMMA InitStep == Init => StepInv
  <1> SUFFICES ASSUME Init PROVE StepInv
    OBVIOUS
  <1>1. Quiet /\ InSync
    BY DEF Init, Quiet, InSync
  <1> QED BY <1>1 DEF StepInv

LEMMA StepNext == ASSUME TypeInv, StepInv, [Next]_vars PROVE StepInv'
  <1> SUFFICES ASSUME met' \subseteq {"corrupt", "packet", "reply"}, pc' = "receive" PROVE StepSound'
    BY DEF StepInv, StepSound, Positions
  <1>1. StepSound
    BY MetGrows, PcBack DEF StepInv, StepSound, Positions
  <1> QED BY <1>1, StepStep

\* While packets are damaged or lost and answers are lost, what the receiver has
\* acknowledged is the beginning of the file, and the host has not gone on without it.
THEOREM AcksInOrder == Spec => []AckedInOrder
  <1>1. TypeInv /\ StepInv /\ [Next]_vars => (TypeInv /\ StepInv)'
    BY TypeStep, StepNext
  <1>2. ASSUME TypeInv, StepInv PROVE AckedInOrder
    <2> SUFFICES ASSUME met \subseteq {"corrupt", "packet", "reply"}, pc = "receive", block > 1
                 PROVE  \E n \in block - 1 .. Blocks(file) : accepted = Packets(file, n)
      BY DEF AckedInOrder, Packets
    <2>1. InSync \/ Behind
      BY <1>2 DEF StepInv
    <2>2. block \in Nat /\ Len(Files) \in Nat /\ file \in 1 .. Len(Files) + 1
      BY <1>2, AtHost
    <2>3. file <= Len(Files)
      BY <1>2, <2>2, AtHost
    <2>4. Blocks(file) \in Nat \ {0} /\ block <= Blocks(file) + 1
      BY <1>2, <2>3, AtHost
    <2>5. CASE InSync
      <3>1. accepted = Packets(file, block - 1) /\ block - 1 \in block - 1 .. Blocks(file)
        BY <2>2, <2>4, <2>5 DEF InSync
      <3> QED BY <3>1
    <2>6. CASE Behind
      <3>1. CASE block <= Blocks(file)
        <4>1. accepted = Packets(file, block) /\ block \in block - 1 .. Blocks(file)
          BY <2>2, <2>4, <2>6, <3>1 DEF Behind
        <4> QED BY <4>1
      <3>2. CASE ~(block <= Blocks(file))
        <4>1. accepted = Packets(file, Blocks(file)) /\ Blocks(file) \in block - 1 .. Blocks(file)
          BY <2>2, <2>4, <2>6, <3>2 DEF Behind
        <4> QED BY <4>1
      <3> QED BY <3>1, <3>2
    <2> QED BY <2>1, <2>5, <2>6
  <1> QED BY <1>1, <1>2, InitType, InitStep, PTL DEF Spec

-----------------------------------------------------------------------------
(* What is stored, while packets are lost                                  *)

\* A host that has heard an acknowledgement, and one that has not.
LEMMA AckedIs ==
    ASSUME TypeInv, StepSound
    PROVE  (Acked => Answered) /\ (~Acked => (Quiet \/ Carried) /\ ~Answered)
  <1>1. Quiet \/ Carried => ~Acked
    BY Singles DEF Quiet, Carried, Acked
  <1>2. Answered => Acked
    BY Singles DEF Answered, Acked
  <1> QED BY <1>1, <1>2 DEF StepSound

\* The units of a file, one packet after the other; the last one is cut to its length.
LEMMA UnitsStep ==
    ASSUME NEW f \in 1 .. Len(Files), NEW b \in Nat \ {0}, NEW size \in Nat,
           size = (IF Files[f] - Done(f, b - 1) < Unit THEN Files[f] - Done(f, b - 1) ELSE Unit)
    PROVE  /\ Done(f, b) = Done(f, b - 1) + size
           /\ Units(Done(f, b - 1)) \o SubSeq(Data(f, b), 1, size) = Units(Done(f, b))
  <1> DEFINE a == (b - 1) * Unit
             n == Done(f, b - 1)
             F == Files[f]
  <1>1. F \in Nat \ {0} /\ Unit \in Nat \ {0} /\ a \in Nat /\ b * Unit = a + Unit
    BY BlocksEnough, UnitType
  <1>2. n = (IF a <= F THEN a ELSE F) /\ Done(f, b) = (IF b * Unit <= F THEN b * Unit ELSE F)
    BY DEF Done
  <1>3. Data(f, b) = [i \in 1 .. Unit |-> IF a + i <= F THEN a + i ELSE Pad]
    BY DEF Data
  <1>4. Data(f, b) \in Seq(Int) /\ Len(Data(f, b)) = Unit
    BY DataType
  <1>5. size = (IF F - n < Unit THEN F - n ELSE Unit)
    OBVIOUS
  <1> HIDE DEF a, n, F
  <1>6. n \in Nat /\ n <= F /\ size <= Unit /\ Done(f, b) = n + size /\ (size > 0 => n = a /\ a + size <= F)
    BY <1>1, <1>2, <1>5
  <1> DEFINE u == Units(n)
             d == SubSeq(Data(f, b), 1, size)
             w == Units(n + size)
  <1>7. /\ u \in Seq(Int) /\ Len(u) = n /\ \A i \in 1 .. n : u[i] = i
    BY <1>6 DEF Units
  <1>8. /\ w \in Seq(Int) /\ Len(w) = n + size /\ \A i \in 1 .. n + size : w[i] = i
    <2> DEFINE m == n + size
    <2>1. m \in Nat
      BY <1>6
    <2> HIDE DEF m
    <2>2. Units(m) \in Seq(Int) /\ Len(Units(m)) = m /\ \A i \in 1 .. m : Units(m)[i] = i
      BY <2>1 DEF Units
    <2> QED BY <2>2 DEF m
  <1>9. /\ d \in Seq(Int) /\ Len(d) = size /\ \A i \in 1 .. size : d[i] = Data(f, b)[i]
    BY <1>4, <1>6
  <1>10. \A i \in 1 .. size : d[i] = n + i
    <2> TAKE i \in 1 .. size
    <2>1. i \in 1 .. Unit /\ n = a /\ a + i <= F
      BY <1>1, <1>6
    <2>2. Data(f, b)[i] = a + i
      BY <1>3, <2>1
    <2> QED BY <1>9, <2>1, <2>2
  <1> HIDE DEF u, d, w
  <1>11. /\ u \o d \in Seq(Int) /\ Len(u \o d) = n + size
         /\ \A i \in 1 .. n + size : (u \o d)[i] = IF i <= n THEN u[i] ELSE d[i - n]
    <2>1. u \in Seq(Int) /\ d \in Seq(Int)
      BY <1>7, <1>9
    <2>2. /\ u \o d \in Seq(Int) /\ Len(u \o d) = Len(u) + Len(d)
          /\ \A i \in 1 .. Len(u) + Len(d) :
                (u \o d)[i] = IF i <= Len(u) THEN u[i] ELSE d[i - Len(u)]
      BY <2>1, ConcatProperties
    <2>3. Len(u) = n /\ Len(d) = size
      BY <1>7, <1>9
    <2> QED BY <2>2, <2>3
  <1>12. \A i \in 1 .. n + size : (u \o d)[i] = w[i]
    <2> TAKE i \in 1 .. n + size
    <2>1. CASE i <= n
      <3>1. i \in 1 .. n
        BY <1>6, <2>1
      <3> QED BY <1>7, <1>8, <1>11, <2>1, <3>1
    <2>2. CASE ~(i <= n)
      <3>1. i - n \in 1 .. size /\ n + (i - n) = i
        BY <1>6, <2>2
      <3>2. d[i - n] = i
        BY <1>10, <3>1
      <3> QED BY <1>8, <1>11, <2>2, <3>2
    <2> QED BY <2>1, <2>2
  <1>13. u \o d = w
    BY <1>8, <1>11, <1>12, SeqEqual
  <1> QED BY <1>6, <1>13 DEF u, d, w, n

\* All packets of a file are the file.
LEMMA UnitsAll ==
    ASSUME NEW f \in 1 .. Len(Files)
    PROVE  Units(Done(f, Blocks(f))) = Content(f) /\ Done(f, 0) = 0 /\ Units(0) = << >>
  <1>1. Files[f] \in Nat \ {0} /\ Blocks(f) * Unit >= Files[f] /\ Blocks(f) * Unit \in Nat /\ 0 * Unit = 0
    BY BlocksEnough, UnitType
  <1>2. Done(f, Blocks(f)) = Files[f] /\ Done(f, 0) = 0
    BY <1>1 DEF Done
  <1>3. Units(0) \in Seq(Int) /\ Len(Units(0)) = 0
    BY DEF Units
  <1> QED BY <1>2, <1>3, EmptySeq DEF Units, Content

LossSound == StepSound /\ FileInv

\* The receiver's files stay as they are while neither side moves on.
LEMMA LossSame ==
    ASSUME FileInv, ~Acked, ~Acked', InSync',
           UNCHANGED <<files, stored, file_len, written, file, block>>
    PROVE  FileInv'
  <1>1. Taken' = Taken /\ Blocks(file') = Blocks(file)
        /\ Done(file', Taken') = Done(file, Taken)
    BY DEF Taken, Blocks, Done
  <1> QED BY <1>1 DEF FileInv

LEMMA HostReceiveLoss ==
    ASSUME TypeInv, LossSound, HostReceive
    PROVE  FileInv'
  <1>1. /\ StepSound' /\ (Answered \/ InSync => InSync')
        /\ reply # << >> /\ reply' = Tail(reply)
        /\ UNCHANGED <<files, stored, file_len, written>>
    BY HostReceiveStep, HostMoves DEF LossSound, receiver, callbacks
  <1>2. InSync' /\ (~Acked => Quiet)
    <2>1. Acked => Answered
      BY AckedIs DEF LossSound
    <2>2. ~Acked => Quiet
      BY <1>1, AckedIs DEF LossSound, Carried
    <2> QED BY <1>1, <2>1, <2>2 DEF LossSound, FileInv
  <1>3. reply' = << >> \/ reply' = <<"C">>
    <2>1. reply \in {<<"C">>, <<"NAK">>, <<"ACK">>, <<"ACK", "C">>}
      BY <1>1, <1>2, AckedIs DEF LossSound, Quiet, Answered
    <2> QED BY <1>1, <2>1, Singles
  <1>4. ~Acked'
    BY <1>3, Singles DEF Acked
  <1>5. CASE ~Acked
    <2>1. Head(reply) # "ACK"
      BY <1>1, <1>5 DEF Acked
    <2>2. file' = file /\ block' = block
      BY <2>1, HostMoves DEF host
    <2> QED BY <1>1, <1>2, <1>4, <1>5, <2>2, LossSame DEF LossSound
  <1>6. CASE Acked
    <2>1. Answered /\ Head(reply) = "ACK"
      BY <1>6, AckedIs DEF LossSound, Acked
    <2>2. Behind /\ file <= Len(Files) /\ ~waitC
      BY <2>1 DEF Answered, Behind
    <2>3. file \in 1 .. Len(Files) /\ block \in Nat /\ Blocks(file) \in Nat \ {0} /\ block <= Blocks(file) + 1
          /\ Len(Files) \in Nat
      BY <2>2, AtHost
    <2>4. IF block <= Blocks(file) THEN block' = block + 1 /\ file' = file ELSE block' = 0 /\ file' = file + 1
      <3>1. ~(file > Len(Files))
        BY <2>3
      <3> QED BY <2>1, <2>2, <3>1, HostMoves
    <2>5. Taken = block /\ Taken' = block' - 1
      BY <1>4, <1>6 DEF Taken
    <2>6. CASE block <= Blocks(file)
      <3>1. Taken' = Taken /\ file' = file /\ block # Blocks(file) + 1
        BY <2>3, <2>4, <2>5, <2>6
      <3>2. Blocks(file') = Blocks(file) /\ Done(file', Taken') = Done(file, Taken)
        BY <3>1
      <3> QED BY <1>1, <1>2, <1>4, <1>6, <3>1, <3>2 DEF LossSound, FileInv
    <2>7. CASE ~(block <= Blocks(file))
      <3>1. block = Blocks(file) + 1 /\ file' = file + 1 /\ file' - 1 = file /\ Taken' = -1
        BY <2>3, <2>4, <2>5, <2>7
      <3>2. ~(Taken' \in 0 .. Blocks(file'))
        BY <3>1
      <3> QED BY <1>1, <1>2, <1>4, <1>6, <3>1, <3>2 DEF LossSound, FileInv
    <2> QED BY <2>6, <2>7
  <1> QED BY <1>5, <1>6

\* The steps of the line, the handler of the interrupt and the clocks.
LEMMA OthersLoss ==
    ASSUME TypeInv, LossSound, HostTimeout \/ LosePacket \/ ymodem_data_recv \/ Timeout,
           met' \subseteq {"packet"}, pc' = "receive"
    PROVE  FileInv'
  <1>1. /\ UNCHANGED <<files, stored, file_len, written, file, block>>
        /\ UNCHANGED <<number, seen, accepted>> /\ waitC' = waitC
    BY TimeoutIs, RecvIs DEF HostTimeout, LosePacket, Resend, receiver, callbacks, host
  <1>2. StepSound'
    <2>1. met' \subseteq {"corrupt", "packet", "reply"}
      OBVIOUS
    <2> QED BY <2>1, HostTimeoutStep, LosePacketStep, RecvStep, TimeoutStep DEF LossSound
  <1>3. reply = << >> /\ ~Acked'
    <2>1. CASE HostTimeout
      <3>1. reply = << >> /\ reply' = reply
        BY <2>1 DEF HostTimeout, Silence
      <3> QED BY <3>1 DEF Acked
    <2>2. CASE LosePacket \/ ymodem_data_recv
      <3>1. line # << >> /\ reply' = reply
        BY <2>2, RecvIs DEF LosePacket
      <3>2. reply = << >>
        BY <3>1 DEF LossSound, StepSound, Quiet, Answered, Carried
      <3> QED BY <3>1, <3>2 DEF Acked
    <2>3. CASE Timeout
      <3>1. ~("late" \in met') /\ ~("cut" \in met')
        OBVIOUS
      <3>2. /\ reply = << >> /\ pc = "receive"
            /\ ymodem_error_handler(errors) \/ reply' = Append(reply, "C")
        BY <2>3, <3>1, TimeoutIs DEF Silence
      <3>3. errors \in 0 .. MaxErrors
        BY <3>2, SizeAssumption DEF TypeInv
      <3>4. reply' = Append(reply, "NAK") \/ reply' = Append(reply, "C")
        BY <3>2, <3>3, ErrorType
      <3>5. reply' = <<"NAK">> \/ reply' = <<"C">>
        BY <3>2, <3>4, JoinedEmpty
      <3> QED BY <3>2, <3>5, Singles DEF Acked
    <2> QED BY <2>1, <2>2, <2>3
  <1>4. ~Acked /\ InSync
    BY <1>3 DEF Acked, LossSound, FileInv
  <1>5. InSync'
    BY <1>1, <1>4, PositionsSame DEF LossSound, StepSound
  <1> QED BY <1>1, <1>3, <1>4, <1>5, LossSame DEF LossSound

\* The frame the receiver handles is the one the host is at, and the one it waits for.
LEMMA ReceivedIs ==
    ASSUME TypeInv, CleanInv, LossSound, Receive, met \subseteq {"packet"}
    PROVE  /\ Head(buf) = Frame(file, block) /\ Frame(file, block) \in OnLine
           /\ reply = << >> /\ ~waitC /\ ~Acked /\ InSync
           /\ Head(buf).head \in {"SOH", "EOT"}
           /\ Head(buf).head = "SOH" => Head(buf).crc /\ Head(buf).num = number
  <1>1. pc = "receive" /\ Complete /\ buf # << >>
    BY ReceiveIs
  <1>2. Carried /\ Positions
    BY <1>1 DEF LossSound, StepSound, Quiet, Answered
  <1>3. reply = << >> /\ ~waitC
    BY <1>2, CarriedIs
  <1>4. ~Acked /\ InSync
    BY <1>3 DEF Acked, LossSound, FileInv
  <1>5. PICK p \in OnLine : p \in Frames /\ Head(buf) = p
    BY <1>1, <1>2, CarriedIs
  <1>6. p.head = "SOH" => p.crc
    <2>1. met \subseteq {"packet", "reply", "flash"}
      OBVIOUS
    <2> QED BY <1>1, <1>5, <2>1 DEF CleanInv, WholeFrames
  <1>7. p = Frame(file, block) /\ p.head \in {"SOH", "EOT"}
    BY <1>6, OnLineIs
  <1>8. p.head = "SOH" => p.num = number
    <2> SUFFICES ASSUME p.head = "SOH" PROVE p.num = number
      OBVIOUS
    <2>1. /\ block = 0 => p.num = 0
          /\ block > 0 => p.num = block % Mod
      BY <1>2, PacketAt
    <2>2. block = 0 \/ block > 0
      BY AtHost
    <2> QED BY <1>4, <2>1, <2>2 DEF InSync
  <1> QED BY <1>3, <1>4, <1>5, <1>6, <1>7, <1>8

\* A data packet that is taken adds its part of the file.
LEMMA DataLoss ==
    ASSUME TypeInv, FileInv, Announce, ~Acked, block > 0, file \in 1 .. Len(Files), block \in 1 .. Blocks(file),
           NEW p \in Frames, p.data = Data(file, block), ~IsFirst(p), Deliver(p, FALSE)
    PROVE  /\ file_len' = Files[file] - Done(file, block)
           /\ written' = Units(Done(file, block))
  <1> DEFINE f == file
             b == block
             size == IF file_len = Unknown THEN get_active_length(p.data)
                     ELSE IF file_len < Len(p.data) THEN file_len ELSE Len(p.data)
             rest == Files[f] - Done(f, b - 1)
  <1>1. /\ file_len' = (IF file_len = Unknown THEN Unknown ELSE file_len - size)
        /\ written' = written \o SubSeq(p.data, 1, size)
    BY DEF Deliver
  <1>2. b \in Nat \ {0} /\ Taken = b - 1 /\ b - 1 \in 0 .. Blocks(f) /\ f <= Len(Files)
    <2>1. Blocks(f) \in Nat /\ Len(Files) \in Nat
      BY BlocksEnough, UnitType
    <2> QED BY <2>1 DEF Taken
  <1>3. file_len = rest /\ written = Units(Done(f, b - 1))
    BY <1>2 DEF FileInv
  <1>4. rest \in Nat /\ Done(f, b - 1) \in Nat /\ Files[f] \in Nat
    <2>1. Files[f] \in Nat /\ Unit \in Nat /\ (b - 1) * Unit \in Nat
      BY <1>2, BlocksEnough, UnitType
    <2> QED BY <2>1 DEF Done
  <1>5. Len(p.data) = Unit /\ Unit \in Nat
    BY <1>2, DataType, UnitType
  <1> HIDE DEF rest
  <1>6. size = (IF rest < Unit THEN rest ELSE Unit) /\ file_len # Unknown
    BY <1>3, <1>4, <1>5 DEF Unknown
  <1>7. size \in Nat
    BY <1>4, <1>5, <1>6
  <1> HIDE DEF size
  <1>8. /\ Done(f, b) = Done(f, b - 1) + size
        /\ Units(Done(f, b - 1)) \o SubSeq(Data(f, b), 1, size) = Units(Done(f, b))
    BY <1>2, <1>6, <1>7, UnitsStep DEF rest
  <1>9. written' = Units(Done(f, b))
    BY <1>1, <1>3, <1>8
  <1>10. file_len' = Files[f] - Done(f, b)
    BY <1>1, <1>3, <1>4, <1>6, <1>7, <1>8 DEF rest
  <1> QED BY <1>9, <1>10

\* Block 0 starts a file with the length it announces.
LEMMA FirstLoss ==
    ASSUME TypeInv, Announce, file \in 1 .. Len(Files), block = 0,
           NEW p, p = Frame(file, block), IsFirst(p), Deliver(p, FALSE)
    PROVE  /\ file_len' = Files[file] - Done(file, block)
           /\ written' = Units(Done(file, block))
  <1>1. p.name /\ p.len = Files[file] /\ Files[file] \in Nat
    <2>1. file \in 1 .. Len(Files) + 1 /\ block \in Nat /\ file <= Len(Files)
      BY AtHost
    <2> QED BY <2>1, FrameIs, BlocksEnough
  <1>2. file_len' = Files[file] /\ written' = << >>
    <2>1. file_len' = get_file_len(p.len) /\ written' = << >>
      BY <1>1 DEF Deliver
    <2> QED BY <1>1, <2>1 DEF get_file_len, NoDigits
  <1> QED BY <1>1, <1>2, UnitsAll

\* A packet: it is taken, or it is the end of all files.
LEMMA PacketLoss ==
    ASSUME TypeInv, CleanInv, LossSound, Receive, met \subseteq {"packet"}, met' \subseteq {"packet"},
           NEW fails \in BOOLEAN, HandlePacket(fails)
    PROVE  /\ pc' = "receive" => FileInv'
           /\ pc' = "ok" => files' = Len(Files) /\ (Announce => stored' = [f \in 1 .. files' |-> Content(f)])
  <1> DEFINE p == Head(buf)
  <1>1. /\ p = Frame(file, block) /\ p \in OnLine /\ reply = << >> /\ ~waitC /\ ~Acked /\ InSync
        /\ p.head = "SOH" => p.crc /\ p.num = number
    BY ReceivedIs
  <1>2. /\ pc = "receive" /\ buf # << >> /\ file' = file /\ block' = block /\ waitC' = waitC
    BY ReceiveIs DEF host
  <1>3. /\ PacketEnds(p, fails) /\ Deliver(p, fails) /\ p \in Frames /\ p.head = "SOH"
        /\ files' = files /\ stored' = stored /\ fails = FALSE
    <2>1. fails => Fault("flash")
      BY <1>2, HandlePacketIs
    <2>2. Fault("flash") => "flash" \in met'
      BY DEF Fault
    <2>3. ~("flash" \in met')
      OBVIOUS
    <2> QED BY <1>2, <2>1, <2>2, <2>3, HandlePacketIs
  <1> HIDE DEF p
  <1>4. Positions /\ block \in Nat /\ file \in 1 .. Len(Files) + 1 /\ Len(Files) \in Nat
    BY AtHost DEF LossSound, StepSound
  <1>5. seen' \in BOOLEAN /\ seen' = (seen \/ ~IsFirst(p))
    BY <1>3, DeliverType
  <1>6. files = file - 1 /\ (Announce => stored = [f \in 1 .. files |-> Content(f)])
    BY <1>1 DEF LossSound, FileInv
  <1>7. CASE /\ p.crc /\ p.num = number /\ ~(IsFirst(p) /\ ~p.name)
             /\ number' = (number + 1) % Mod
             /\ accepted' = (IF IsFirst(p) THEN << >> ELSE Append(accepted, p.data))
             /\ reply' = reply \o (IF seen' THEN <<"ACK">> ELSE <<"ACK", "C">>)
             /\ pc' = pc
    <2>1. file <= Len(Files) /\ block <= Blocks(file)
      BY <1>1, <1>2, <1>3, <1>4, <1>5, <1>7, TakenStep
    <2>2. file \in 1 .. Len(Files) /\ Blocks(file) \in Nat \ {0}
      BY <2>1, AtHost
    <2>3. reply' = IF seen' THEN <<"ACK">> ELSE <<"ACK", "C">>
      BY <1>1, <1>7, JoinedEmpty
    <2>4. Acked' /\ Taken' = block
      <3>1. Acked'
        BY <2>3, Singles DEF Acked
      <3> QED BY <1>2, <3>1 DEF Taken
    <2>5. ASSUME Announce PROVE /\ file_len' = Files[file] - Done(file, block)
                                /\ written' = Units(Done(file, block))
      <3>1. Deliver(p, FALSE)
        BY <1>3
      <3>2. CASE block = 0
        <4>1. IsFirst(p)
          BY <1>1, <1>3, <1>4, <3>2, PacketAt
        <4> QED BY <1>1, <2>2, <2>5, <3>1, <3>2, <4>1, FirstLoss
      <3>3. CASE block > 0
        <4>1. ~IsFirst(p) /\ block \in 1 .. Blocks(file) /\ p.data = Data(file, block)
          BY <1>1, <1>3, <1>4, <3>3, PacketAt
        <4>2. FileInv
          BY DEF LossSound
        <4> QED BY <1>1, <1>3, <2>2, <2>5, <3>1, <3>3, <4>1, <4>2, DataLoss
      <3> QED BY <1>4, <3>2, <3>3
    <2>6. block' # Blocks(file') + 1
      BY <1>2, <1>4, <2>1, <2>2
    <2>7. FileInv'
      <3>1. files' = file' - 1 /\ (Announce => stored' = [f \in 1 .. files' |-> Content(f)])
        BY <1>2, <1>3, <1>6
      <3>2. Announce => /\ file_len' = Files[file'] - Done(file', Taken')
                        /\ written' = Units(Done(file', Taken'))
        <4>1. file' = file /\ Taken' = block
          BY <1>2, <2>4
        <4> QED BY <2>5, <4>1
      <3> QED BY <2>4, <2>6, <3>1, <3>2 DEF FileInv
    <2> QED BY <1>2, <1>7, <2>7
  <1>8. CASE /\ IsFirst(p) /\ ~p.name /\ pc' = "ok"
    <2>1. file > Len(Files)
      <3>1. block = 0
        BY <1>1, <1>3, <1>4, <1>8, PacketAt
      <3>2. file <= Len(Files) => p.name
        BY <1>1, <1>4, <3>1, FrameIs
      <3> QED BY <1>4, <1>8, <3>2
    <2>2. files' = Len(Files)
      BY <1>3, <1>4, <1>6, <2>1
    <2> QED BY <1>3, <1>6, <1>8, <2>2
  <1> QED BY <1>1, <1>3, <1>7, <1>8 DEF PacketEnds

\* One more file.
LEMMA StoredStep ==
    ASSUME NEW n \in Nat \ {0}
    PROVE  Append([f \in 1 .. n - 1 |-> Content(f)], Content(n)) = [f \in 1 .. n |-> Content(f)]
  <1> DEFINE S == {Content(f) : f \in 1 .. n}
             a == [f \in 1 .. n - 1 |-> Content(f)]
             b == [f \in 1 .. n |-> Content(f)]
             d == Content(n)
  <1>1. a \in Seq(S) /\ Len(a) = n - 1 /\ b \in Seq(S) /\ Len(b) = n /\ d \in S
    OBVIOUS
  <1>2. (\A i \in 1 .. n - 1 : a[i] = b[i]) /\ b[n] = d
    OBVIOUS
  <1> HIDE DEF S, a, b, d
  <1>3. /\ Append(a, d) \in Seq(S) /\ Len(Append(a, d)) = n
        /\ \A i \in 1 .. n - 1 : Append(a, d)[i] = a[i]
        /\ Append(a, d)[n] = d
    BY <1>1, AppendProperties
  <1>4. \A i \in 1 .. n : Append(a, d)[i] = b[i]
    <2> TAKE i \in 1 .. n
    <2>1. i \in 1 .. n - 1 \/ i = n
      OBVIOUS
    <2> QED BY <1>2, <1>3, <2>1
  <1>5. Append(a, d) = b
    BY <1>1, <1>3, <1>4, SeqEqual
  <1> QED BY <1>5 DEF a, b, d

\* EOT: refused once, and then the file is whole.
LEMMA EotLoss ==
    ASSUME TypeInv, CleanInv, LossSound, Receive, met \subseteq {"packet"}, HandleEOT
    PROVE  FileInv' /\ pc' = "receive"
  <1>1. /\ Head(buf) = Frame(file, block) /\ reply = << >> /\ ~waitC /\ ~Acked /\ InSync
    BY ReceivedIs
  <1>2. /\ pc = "receive" /\ file' = file /\ block' = block /\ waitC' = waitC
    BY ReceiveIs DEF host
  <1>3. /\ Frame(file, block).head = "EOT" /\ pc' = pc /\ file_len' = file_len /\ accepted' = accepted
        /\ \/ /\ reply' = Append(reply, "NAK")
              /\ UNCHANGED <<seen, number, files, stored, written>>
           \/ /\ reply' = reply \o <<"ACK", "C">> /\ seen' = FALSE /\ number' = 0 /\ files' = files + 1
              /\ stored' = Append(stored, written)
    BY <1>1 DEF HandleEOT
  <1>4. CASE /\ reply' = Append(reply, "NAK") /\ UNCHANGED <<seen, number, files, stored, written>>
    <2>1. reply' = <<"NAK">>
      BY <1>1, <1>4, JoinedEmpty
    <2>2. ~Acked'
      BY <2>1, Singles DEF Acked
    <2>3. InSync'
      BY <1>1, <1>2, <1>3, <1>4, PositionsSame DEF LossSound, StepSound
    <2>4. FileInv'
      BY <1>1, <1>2, <1>3, <1>4, <2>2, <2>3, LossSame DEF LossSound
    <2> QED BY <1>2, <1>3, <2>4
  <1>5. CASE /\ reply' = reply \o <<"ACK", "C">> /\ files' = files + 1 /\ stored' = Append(stored, written)
    <2>1. file \in 1 .. Len(Files) /\ Blocks(file) \in Nat \ {0} /\ block = Blocks(file) + 1
      <3>1. ~(file > Len(Files))
        BY <1>3, AtHost
      <3>2. file <= Len(Files)
        BY <3>1, AtHost
      <3>3. /\ file \in 1 .. Len(Files) /\ Blocks(file) \in Nat \ {0} /\ ~(block <= Blocks(file))
            /\ block <= Blocks(file) + 1 /\ block \in Nat
        BY <1>3, <3>2, AtHost
      <3> QED BY <3>3
    <2>2. reply' = <<"ACK", "C">>
      BY <1>1, <1>5, JoinedEmpty
    <2>3. Acked'
      BY <2>2, Singles DEF Acked
    <2>4. files = file - 1 /\ files' = file /\ Taken = Blocks(file) /\ file <= Len(Files)
          /\ Taken \in 0 .. Blocks(file)
      <3>1. files = file - 1 /\ Taken = block - 1
        BY <1>1 DEF LossSound, FileInv, Taken
      <3> QED BY <1>5, <2>1, <3>1, UnitType
    <2>5. ASSUME Announce PROVE stored' = [f \in 1 .. files' |-> Content(f)]
      <3>1. written = Content(file) /\ stored = [f \in 1 .. file - 1 |-> Content(f)]
        <4>1. written = Units(Done(file, Blocks(file))) /\ stored = [f \in 1 .. file - 1 |-> Content(f)]
          BY <2>4, <2>5 DEF LossSound, FileInv
        <4> QED BY <2>1, <4>1, UnitsAll
      <3>2. file \in Nat \ {0} /\ stored' = Append(stored, written) /\ files' = file
        BY <1>5, <2>1, <2>4, UnitType
      <3> QED BY <3>1, <3>2, StoredStep
    <2>6. ~(Taken' \in 0 .. Blocks(file'))
      <3>1. Taken' = block' /\ block' = Blocks(file) + 1 /\ file' = file
        BY <1>2, <2>1, <2>3 DEF Taken
      <3> QED BY <2>1, <3>1
    <2>7. files' = file' /\ block' = Blocks(file') + 1
      BY <1>2, <2>1, <2>4
    <2>8. FileInv'
      BY <2>3, <2>5, <2>6, <2>7 DEF FileInv
    <2> QED BY <1>2, <1>3, <2>8
  <1> QED BY <1>3, <1>4, <1>5

LEMMA InitLoss == Init => LossInv
  <1> SUFFICES ASSUME Init PROVE LossInv
    OBVIOUS
  <1>1. pc = "receive" /\ reply = <<"C">> /\ file = 1 /\ block = 0 /\ files = 0 /\ stored = << >>
        /\ seen = FALSE /\ number = 0
    BY DEF Init
  <1>2. ~Acked /\ InSync
    BY <1>1, Singles DEF Acked, InSync
  <1>3. Taken = -1 /\ ~(Taken \in 0 .. Blocks(file))
    <2>1. Taken = -1
      BY <1>1, <1>2 DEF Taken
    <2> QED BY <2>1
  <1>4. stored = [f \in 1 .. files |-> Content(f)]
    <2> DEFINE e == [f \in 1 .. 0 |-> Content(f)]
    <2>1. e = << >>
      OBVIOUS
    <2> QED BY <1>1, <2>1
  <1>5. files = file - 1
    BY <1>1
  <1>6. FileInv
    BY <1>2, <1>3, <1>4, <1>5 DEF FileInv
  <1> QED BY <1>1, <1>6 DEF LossInv

LEMMA LossNext ==
    ASSUME TypeInv, CleanInv, StepInv, LossInv, [Next]_vars
    PROVE  LossInv'
  <1> SUFFICES ASSUME met' \subseteq {"packet"}, pc' \in {"receive", "ok"}
               PROVE  /\ pc' = "receive" => FileInv'
                      /\ pc' = "ok" => /\ files' = Len(Files)
                                       /\ Announce => stored' = [f \in 1 .. files' |-> Content(f)]
    BY DEF LossInv
  <1>1. met \subseteq {"packet"}
    BY MetGrows
  <1>2. pc = "receive" => LossSound
    <2>1. met \subseteq {"corrupt", "packet", "reply"}
      BY <1>1
    <2> QED BY <1>1, <2>1 DEF StepInv, StepSound, Positions, LossInv, LossSound
  <1>3. pc = "ok" => files = Len(Files) /\ (Announce => stored = [f \in 1 .. files |-> Content(f)])
    BY <1>1 DEF LossInv
  <1>4. CASE pc' = "ok" /\ UNCHANGED <<pc, files, stored>>
    BY <1>3, <1>4
  <1>5. CASE Receive
    <2>1. pc = "receive" /\ LossSound
      BY <1>2, <1>5 DEF Receive
    <2>2. Head(buf).head \in {"SOH", "EOT"}
      BY <1>1, <1>5, <2>1, ReceivedIs
    <2>3. ~HandleCAN /\ ~HandleOther
      BY <2>2 DEF HandleCAN, HandleOther
    <2>4. (\E fails \in BOOLEAN : HandlePacket(fails)) \/ HandleEOT
      BY <1>5, <2>3 DEF Receive
    <2> QED BY <1>1, <1>5, <2>1, <2>4, PacketLoss, EotLoss
  <1>6. CASE Corrupt \/ LoseReply
    <2>1. "corrupt" \in met' \/ "renumber" \in met' \/ "reply" \in met'
      BY <1>6 DEF Corrupt, LoseReply, Fault
    <2> QED BY <2>1
  <1>7. CASE HostReceive
    <2>1. UNCHANGED <<pc, files, stored>>
      BY <1>7 DEF HostReceive, receiver, callbacks
    <2> QED BY <1>2, <1>4, <1>7, <2>1, HostReceiveLoss
  <1>8. CASE HostTimeout \/ LosePacket \/ ymodem_data_recv \/ Timeout
    <2>1. pc' = "ok" => UNCHANGED <<pc, files, stored>>
      BY <1>8 DEF HostTimeout, LosePacket, ymodem_data_recv, Timeout, ymodem_error_handler, receiver, callbacks
    <2>2. pc' = "receive" => pc = "receive"
      BY PcBack
    <2> QED BY <1>2, <1>4, <1>8, <2>1, <2>2, OthersLoss
  <1>9. CASE UNCHANGED vars
    <2>1. UNCHANGED <<pc, files, stored>> /\ UNCHANGED <<file_len, written, file, block, reply, number, seen, accepted>>
      BY <1>9 DEF vars, receiver, callbacks, host
    <2>2. FileInv => FileInv'
      BY <2>1 DEF FileInv, Acked, InSync, Taken, Done
    <2> QED BY <1>2, <1>4, <2>1, <2>2 DEF LossSound
  <1> QED BY <1>5, <1>6, <1>7, <1>8, <1>9 DEF Next

\* What every state satisfies: the types, a clean line where nothing was damaged, the
\* two sides in step, and the files stored so far.
THEOREM Invariant == Spec => [](TypeInv /\ CleanInv /\ StepInv /\ LossInv)
  <1> DEFINE I == TypeInv /\ CleanInv /\ StepInv /\ LossInv
  <1>1. Init => I
    BY InitType, InitClean, InitStep, InitLoss
  <1>2. I /\ [Next]_vars => I'
    BY TypeStep, CleanNext, StepNext, LossNext
  <1> QED BY <1>1, <1>2, PTL DEF Spec

\* While the line only loses packets, the number of files that ymodem_receive gives back is the
\* number of files that were sent: the first part of CountRight, without renumbered packets and
\* failing callbacks.
THEOREM CountKept == Spec => [](met \subseteq {"packet"} /\ pc = "ok" => files = Len(Files))
  <1>1. LossInv => (met \subseteq {"packet"} /\ pc = "ok" => files = Len(Files))
    BY DEF LossInv
  <1> QED BY <1>1, Invariant, PTL

\* While the line only loses packets, and the host announces the length of every
\* file, the callbacks are given every file once, whole and in order.
THEOREM FilesDelivered == ASSUME Announce PROVE Spec => []Delivered
  <1>1. LossInv => Delivered
    BY DEF LossInv, Delivered, AllDelivered
  <1> QED BY <1>1, Invariant, PTL
=============================================================================
