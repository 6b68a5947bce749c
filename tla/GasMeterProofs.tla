--------------------------- MODULE GasMeterProofs ---------------------------
(***************************************************************************)
(* Proofs about GasMeter, for every width of the sensor's counter and any  *)
(* number of pulses, packets and restarts.                                 *)
(***************************************************************************)
EXTENDS GasMeter, TLAPS

\* For two values of the counter the remainder in the handler changes nothing:
\* gas_pulse is the plain difference, negative after a wrap.
LEMMA RemainderIsIdle ==
  ASSUME NEW a \in 0..(PulseModulus - 1), NEW b \in 0..(PulseModulus - 1)
  PROVE  JsRem(a - b, PulseModulus) = a - b
<1>1. PulseModulus \in Nat /\ PulseModulus > 0
  BY PacketAssumption
<1>2. \A n \in Nat : n < PulseModulus => n % PulseModulus = n
  BY <1>1
<1>3. CASE a >= b
  BY <1>1, <1>2, <1>3 DEF JsRem
<1>4. CASE a < b
  <2>1. -(a - b) = b - a /\ b - a \in Nat /\ b - a < PulseModulus
    BY <1>1, <1>4
  <2>2. (-(a - b)) % PulseModulus = b - a
    BY <1>2, <2>1
  <2> QED  BY <1>1, <1>4, <2>2 DEF JsRem
<1> QED  BY <1>3, <1>4

\* What makes NeverOverReports inductive: a packet's own count reaches back to
\* the last packet sent, which is not older than the last one received; and
\* the counter has moved, since that one, by no more than the gas used.
Reach ==
  /\ unsent <= total
  /\ seen <= total - unsent
  /\ previous # Undefined => counter - previous <= total - seen

IInv == TypeOK /\ Reach /\ NeverOverReports

\* The handler's gas_pulse for the packet the sensor would send now.
LEMMA GasPulseBound ==
  ASSUME IInv, NEW h
  PROVE  LET pulse == GasPulse(previous, GasPacket(h))
         IN  pulse \in Int /\ pulse <= total - seen
<1>1. CASE previous = Undefined
  BY <1>1 DEF IInv, TypeOK, Reach, GasPulse, GasPacket
<1>2. CASE previous # Undefined
  <2>1. previous \in 0..(PulseModulus - 1) /\ counter \in 0..(PulseModulus - 1)
    BY <1>2 DEF IInv, TypeOK
  <2>2. GasPulse(previous, GasPacket(h)) = counter - previous
    BY <1>2, <2>1, RemainderIsIdle DEF GasPulse, GasPacket
  <2>3. PulseModulus \in Nat
    BY PacketAssumption
  <2> QED  BY <1>2, <2>1, <2>2, <2>3 DEF IInv, Reach
<1> QED  BY <1>1, <1>2

LEMMA InitIInv == Init => IInv
<1> SUFFICES ASSUME Init PROVE IInv
  OBVIOUS
<1>1. PulseModulus \in Nat /\ PulseModulus > 1
  BY PacketAssumption
<1> QED  BY <1>1 DEF Init, IInv, TypeOK, Reach, NeverOverReports

LEMMA NextIInv == IInv /\ [Next]_vars => IInv'
<1> SUFFICES ASSUME IInv, [Next]_vars PROVE IInv'
  OBVIOUS
<1> USE DEF IInv, TypeOK, Reach, NeverOverReports
<1>0. PulseModulus \in Nat /\ PulseModulus > 1 /\ Undefined \notin Int
  BY PacketAssumption
<1>1. CASE Pulse
  BY <1>0, <1>1 DEF Pulse
<1>2. CASE PacketLost
  BY <1>0, <1>2 DEF PacketLost
<1>3. ASSUME NEW h \in {home, NoHome}, OnGas(h)
      PROVE  IInv'
  <2>1. /\ GasPulse(previous, GasPacket(h)) \in Int
        /\ GasPulse(previous, GasPacket(h)) <= total - seen
    BY GasPulseBound
  <2>2. TypeOK'
    BY <1>0, <1>3, <2>1 DEF OnGas
  <2>3. Reach'
    BY <1>0, <1>3 DEF OnGas
  <2>4. NeverOverReports'
    BY <1>3, <2>1 DEF OnGas
  <2> QED  BY <2>2, <2>3, <2>4
<1>4. CASE Restart
  BY <1>0, <1>4 DEF Restart
<1>5. CASE UNCHANGED vars
  BY <1>5 DEF vars
<1> QED  BY <1>1, <1>2, <1>3, <1>4, <1>5 DEF Next

\* The type invariant of the gas meter.
THEOREM TypeCorrect == Spec => []TypeOK
<1>1. IInv => TypeOK
  BY DEF IInv
<1> QED  BY InitIInv, NextIInv, <1>1, PTL DEF Spec

\* The gas_pulse values of the accepted readings never add up to more than the
\* meter has given, across lost packets, refused readings, counter wraps and
\* restarts of the server.
THEOREM NoOverReporting == Spec => []NeverOverReports
<1>1. IInv => NeverOverReports
  BY DEF IInv
<1> QED  BY InitIInv, NextIInv, <1>1, PTL DEF Spec

-----------------------------------------------------------------------------
(* The sum of the differences, and what wraps of the counter cost. *)

\* Quotient and remainder.
LEMMA DivMod ==
  ASSUME NEW M \in Nat, M > 0, NEW n \in Nat
  PROVE  /\ n \div M \in Int
         /\ n % M \in 0..(M - 1)
         /\ n = M * (n \div M) + (n % M)
<1>1. n % M \in 0..(M - 1)
  OBVIOUS
<1>2. n = M * (n \div M) + (n % M)
  OBVIOUS
<1>3. n \div M \in Int
  OBVIOUS
<1> QED  BY <1>1, <1>2, <1>3

\* The remainder of the next number: the sensor's counter wraps exactly when the
\* number of pulses passes a multiple of the modulus.
LEMMA NextRemainder ==
  ASSUME NEW M \in Nat, M > 0, NEW n \in Nat
  PROVE  (n + 1) % M = IF n % M = M - 1 THEN 0 ELSE (n % M) + 1
<1> DEFINE q == n \div M
           r == n % M
<1>1. q \in Int /\ r \in 0..(M - 1) /\ n = M * q + r
  BY DivMod
<1> HIDE DEF q, r
<1>2. CASE r = M - 1
  <2>1. n + 1 = M * (q + 1) + 0
    BY <1>1, <1>2
  <2>2. (n + 1) % M = 0
    BY <1>1, <2>1
  <2> QED  BY <1>2, <2>2 DEF r
<1>3. CASE r # M - 1
  <2>1. n + 1 = M * q + (r + 1) /\ r + 1 \in 0..(M - 1)
    BY <1>1, <1>3
  <2>2. (n + 1) % M = r + 1
    BY <1>1, <2>1
  <2> QED  BY <1>3, <2>2 DEF r
<1> QED  BY <1>2, <1>3

\* The counter shows the pulses modulo its range, the server remembers what it
\* showed at the last packet, and the differences telescope.
Telescope ==
  /\ counter = total % PulseModulus
  /\ previous # Undefined =>
       /\ previous = seen % PulseModulus
       /\ session = (seen % PulseModulus) - (first % PulseModulus)

WrapInv == TypeOK /\ Telescope

LEMMA NextWrapInv == IInv /\ WrapInv /\ [Next]_vars => WrapInv'
<1> SUFFICES ASSUME IInv, WrapInv, [Next]_vars PROVE Telescope'
  BY NextIInv DEF WrapInv, IInv
<1>0. PulseModulus \in Nat /\ PulseModulus > 0 /\ Undefined \notin Int
  BY PacketAssumption
<1>1. CASE Pulse
  <2>1. total \in Nat /\ counter = total % PulseModulus
    BY DEF WrapInv, TypeOK, Telescope
  <2>2. (total + 1) % PulseModulus =
          IF total % PulseModulus = PulseModulus - 1 THEN 0 ELSE (total % PulseModulus) + 1
    BY <1>0, <2>1, NextRemainder, Zenon
  <2>3. counter' = total' % PulseModulus
    BY <1>1, <2>1, <2>2 DEF Pulse
  <2> QED  BY <1>1, <2>3 DEF Pulse, WrapInv, Telescope
<1>2. CASE PacketLost
  BY <1>2 DEF PacketLost, WrapInv, Telescope
<1>3. ASSUME NEW h \in {home, NoHome}, OnGas(h) PROVE Telescope'
  <2>1. /\ previous' = counter /\ seen' = total /\ UNCHANGED <<total, counter>>
        /\ counter = total % PulseModulus
    BY <1>3 DEF OnGas, WrapInv, Telescope
  <2>2. CASE previous = Undefined
    <3>1. first' = total /\ session' = 0
      BY <1>3, <2>2 DEF OnGas
    <3>2. total % PulseModulus \in Int
      BY <2>1 DEF WrapInv, TypeOK
    <3> QED  BY <2>1, <3>1, <3>2 DEF Telescope
  <2>3. CASE previous # Undefined
    <3>1. previous \in 0..(PulseModulus - 1) /\ counter \in 0..(PulseModulus - 1)
      BY <2>3 DEF WrapInv, TypeOK
    <3>2. GasPulse(previous, GasPacket(h)) = counter - previous
      BY <2>3, <3>1, RemainderIsIdle DEF GasPulse, GasPacket
    <3>3. session' = session + (counter - previous) /\ first' = first
      BY <1>3, <2>3, <3>2 DEF OnGas
    <3>4. session = previous - (first % PulseModulus) /\ first % PulseModulus \in Int
      BY <1>0, <2>3, DivMod DEF WrapInv, Telescope, TypeOK
    <3>5. session' = counter - (first % PulseModulus)
      BY <1>0, <3>1, <3>3, <3>4
    <3> QED  BY <2>1, <3>3, <3>5 DEF Telescope
  <2> QED  BY <2>2, <2>3
<1>4. CASE Restart
  BY <1>4 DEF Restart, WrapInv, Telescope
<1>5. CASE UNCHANGED vars
  BY <1>5 DEF vars, WrapInv, Telescope
<1> QED  BY <1>1, <1>2, <1>3, <1>4, <1>5 DEF Next

\* However many packets are lost, the gas_pulse values since the server's first
\* gas packet add up to the gas used since then less one full counter range for
\* every wrap: no pulse is lost with a packet, and each wrap costs exactly the
\* modulus.
THEOREM WrapsCostTheModulus == Spec => []ShortByWraps
<1>0. PulseModulus \in Nat /\ PulseModulus > 0 /\ Undefined \notin Int
  BY PacketAssumption
<1>1. Init => WrapInv
  <2> SUFFICES ASSUME Init PROVE Telescope
    BY InitIInv DEF WrapInv, IInv
  <2>1. 0 % PulseModulus = 0
    BY <1>0
  <2> QED  BY <2>1 DEF Init, Telescope
<1>2. WrapInv => ShortByWraps
  <2> SUFFICES ASSUME WrapInv, previous # Undefined PROVE ShortByWraps
    BY DEF ShortByWraps
  <2> DEFINE qs == seen \div PulseModulus
             qf == first \div PulseModulus
             rs == seen % PulseModulus
             rf == first % PulseModulus
  <2>1. seen \in Nat /\ first \in Nat
    BY DEF WrapInv, TypeOK
  <2>2. qs \in Int /\ rs \in Int /\ seen = PulseModulus * qs + rs
    BY <1>0, <2>1, DivMod
  <2>3. qf \in Int /\ rf \in Int /\ first = PulseModulus * qf + rf
    BY <1>0, <2>1, DivMod
  <2>4. session = rs - rf
    BY DEF WrapInv, Telescope
  <2> HIDE DEF qs, qf, rs, rf
  <2>5. session = seen - first - PulseModulus * (qs - qf)
    BY <1>0, <2>2, <2>3, <2>4
  <2> QED  BY <2>5 DEF ShortByWraps, qs, qf
<1> QED  BY <1>1, <1>2, InitIInv, NextIInv, NextWrapInv, PTL DEF Spec
=============================================================================
