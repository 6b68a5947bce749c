----------------------------- MODULE HeatPacket -----------------------------
(***************************************************************************)
(* decode() of heatmeter_receive.py: a packet of the heat meter, read from *)
(* the serial port as bytes, to a reading.  What counts as one packet is   *)
(* decided by the timing of the port, so decode may be given a part of a   *)
(* packet, or two that run together.                                       *)
(***************************************************************************)
EXTENDS Integers, Sequences, TLC

\* DIFs: the length of the data, and whether it is BCD or an integer.
DIFs == (4 :> [length |-> 4, bcd |-> FALSE]) @@ (11 :> [length |-> 3, bcd |-> TRUE])
        @@ (12 :> [length |-> 4, bcd |-> TRUE])
EndOfData == 15

\* VIFs: the masked value is vif \div unit; the low bits hold an exponent, less
\* bias.
VIFs ==
  {[field |-> "energy", value |-> 0, unit |-> 8, bias |-> 3],
   [field |-> "volume", value |-> 2, unit |-> 8, bias |-> 6],
   [field |-> "volumeFlow", value |-> 7, unit |-> 8, bias |-> 6],
   [field |-> "power", value |-> 5, unit |-> 8, bias |-> 3],
   [field |-> "flowTemp", value |-> 22, unit |-> 4, bias |-> 3],
   [field |-> "returnTemp", value |-> 23, unit |-> 4, bias |-> 3],
   [field |-> "timestamp", value |-> 109, unit |-> 1, bias |-> 0]}

Return(reading) == [tag |-> "reading", reading |-> reading]
False == [tag |-> "False", reading |-> <<>>]
Raises == [tag |-> "raises", reading |-> <<>>]

\* Python's data[from:to], which stops at the end of the data.
Slice(data, from, to) == SubSeq(data, from + 1, IF to > Len(data) THEN Len(data) ELSE to)

\* Little-endian digits of a given base, two per byte for BCD.
Number(digits, base) ==
  LET Sum[i \in 0..Len(digits)] ==
        IF i = 0 THEN 0 ELSE Sum[i - 1] + digits[i] * base^(i - 1)
  IN  Sum[Len(digits)]

TwoDigits(byte) == (byte \div 16) * 10 + (byte % 16)

\* A digit above 9 makes the whole number 0.
decodeBCD(data) ==
  IF \E i \in DOMAIN data : data[i] % 16 > 9 \/ data[i] \div 16 > 9 THEN 0
  ELSE Number([i \in DOMAIN data |-> TwoDigits(data[i])], 100)

\* The value under a field's name; the time of the meter is replaced by that of
\* the clock.
Decoded(v, vif, value) ==
  v.field :> IF v.field = "timestamp" THEN [value |-> "now", exp |-> 0]
             ELSE [value |-> value, exp |-> (vif % v.unit) - v.bias]

\* The data blocks from an offset on; a later block of the same kind wins.
Blocks(packet) ==
  LET From[at \in 17..Len(packet) + 6] ==
        LET head == Slice(packet, at, at + 2)
            dif == head[1]
            vif == head[2]
            data == Slice(packet, at + 2, at + 2 + DIFs[dif].length)
            value == IF DIFs[dif].bcd THEN decodeBCD(data) ELSE Number(data, 256)
            match == {v \in VIFs : vif \div v.unit = v.value}
            rest == From[at + 2 + DIFs[dif].length]
        IN  IF Len(head) < 2 THEN Raises
            ELSE IF dif >= 128 \/ vif >= 128 THEN False
            ELSE IF dif = EndOfData THEN Return(<<>>)
            ELSE IF dif \notin DOMAIN DIFs THEN False
            ELSE IF ~DIFs[dif].bcd /\ Len(data) < 4 THEN Raises
            ELSE IF match = {} THEN False
            ELSE IF rest.tag = "reading"
            THEN Return(rest.reading @@ Decoded(CHOOSE v \in match : TRUE, vif, value))
            ELSE rest
  IN  From[17]

decode(packet) ==
  LET blocks == Blocks(packet)
  IN  IF Len(packet) < 10 \/ Len(packet) - 1 # packet[1] \/ packet[2] # 68 THEN False
      ELSE IF Len(packet) < 17 THEN Raises
      ELSE IF Slice(packet, 15, 17) # <<47, 47>> THEN False
      ELSE IF blocks.tag = "reading"
      THEN Return(blocks.reading @@ ("serialNumber" :>
                    [value |-> decodeBCD(Slice(packet, 4, 8)), exp |-> 0]))
      ELSE blocks

-----------------------------------------------------------------------------
(* The meter. *)

\* n in BCD, a number of bytes long.
BCD(n, bytes) ==
  [i \in 1..bytes |-> LET two == (n \div 100^(i - 1)) % 100 IN (two \div 10) * 16 + (two % 10)]

\* What the meter shows, from 68160018 on its front to a date, and the packet it
\* sends, as the comment at the head of the receiver describes it.
Shown(energy, flowTemp) ==
  [serialNumber |-> [value |-> 68160018, exp |-> 0],
   energy |-> [value |-> energy, exp |-> 3],
   flowTemp |-> [value |-> flowTemp, exp |-> -1],
   timestamp |-> [value |-> "now", exp |-> 0]]
Packet(energy, flowTemp, end) ==
  LET rest == <<68, 167, 50>> \o BCD(68160018, 4) \o <<7, 4, 122, 46, 16, 0, 32, 47, 47>>
              \o <<12, 6>> \o BCD(energy, 4) \o <<11, 90>> \o BCD(flowTemp, 3)
              \o <<4, 109, 53, 11, 227, 26>> \o end
  IN  <<Len(rest)>> \o rest
Manufacturer == <<15, 0, 0, 1, 10>>

Energies == {0, 24, 1099, 99999999}
FlowTemps == {0, 190, 100005}

\* Does decode return what the meter shows?
RoundTrip ==
  \A e \in Energies, t \in FlowTemps : decode(Packet(e, t, Manufacturer)) = Return(Shown(e, t))

\* Does it refuse bytes that begin or end inside a packet, or run on into the
\* next one?
RefusesParts ==
  \A e, f \in Energies :
    LET stream == Packet(e, 190, Manufacturer) \o Packet(f, 190, Manufacturer)
        n == Len(stream) \div 2
    IN  \A from \in 0..n, to \in 1..2 * n :
          from < to /\ ~(from \in {0, n} /\ to - from = n) =>
            decode(Slice(stream, from, to)) = False
=============================================================================
