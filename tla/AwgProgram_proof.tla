-------------------------- MODULE AwgProgram_proof --------------------------
(***************************************************************************)
(* Proofs about AwgProgram, for any waveforms, code, dictionaries of       *)
(* constants, any granularity and any number of slots and calls.           *)
(***************************************************************************)
EXTENDS AwgProgram, FiniteSetTheorems, TLAPS

Array == [is : {"array"}, len : Nat, complex : BOOLEAN, bits : SUBSET Channel]
Part  == Array \cup {NoPart}

\* Up to three arrays of one length.
Wave == {w \in [1..3 -> Part] :
           w[1] \in Array /\ \A i \in 2..3 : Given(w[i]) => w[i].len = w[1].len}
SlotsOf(S) == UNION {[slots -> S] : slots \in SUBSET Slot}

Name   == {"placeholder", "filler", "playWave", "wave"}
Info   == [name : Name, len : Nat, channels : Channel, bits : SUBSET Channel]
Vector == [len : Nat, channels : Channel, marked : BOOLEAN, bits : SUBSET Channel]
Pulse  == [len : Nat]

\* The memory has the slots that the program plays.
Played(info) == {i - 1 : i \in {j \in DOMAIN info : info[j].name # "filler"}}
DeviceState ==
  {d \in [program : Seq(Info), memory : UNION {[slots -> Vector] : slots \in SUBSET Nat},
          pulses : SlotsOf(Pulse)] :
     DOMAIN d.memory = Played(d.program)}
Command == [elf : Seq(Info)] \cup [wave : Vector, slot : Slot] \cup [clear : {TRUE}]
           \cup [pulse : Pulse, slot : Slot]

TypeInv ==
  /\ waves \in SlotsOf(Wave) /\ back \in SlotsOf(Wave)
  /\ sequence \in [code : Code, constants : Constants]
  /\ device \in DeviceState /\ queue \in Seq(Command)
  /\ open \in BOOLEAN /\ validated \in BOOLEAN
  /\ ~open => queue = << >>
  /\ calls \in 0..MaxCalls

\* Waveforms that passed `validate` have the lengths of the program.
Fits ==
  validated => \A n \in DOMAIN waves :
    /\ n < Len(device.program)
    /\ AtLeastOne(waves[n][1]).len = device.program[n + 1].len

AwgInv == TypeInv /\ Fits

-----------------------------------------------------------------------------
(* Induction over the steps of a loop.                                     *)

LEMMA LeastNat ==
  ASSUME NEW S \in SUBSET Nat, S # {}
  PROVE  \E n \in S : \A m \in S : n <= m
<1> DEFINE R == OpToRel(<, Nat)
<1>1. IsWellFoundedOn(R, Nat)
  BY NatLessThanWellFounded
<1>2. \A x, y \in Nat : <<y, x>> \in R <=> y < x
  BY DEF OpToRel
<1>. HIDE DEF R
<1>3. PICK n \in S : \A m \in S : ~ (<<m, n>> \in R)
  BY <1>1, WFMin
<1>4. ASSUME NEW m \in S PROVE n <= m
  <2>1. n \in Nat /\ m \in Nat
    OBVIOUS
  <2>2. ~(m < n)
    BY <1>2, <1>3, <2>1
  <2>. QED BY <2>1, <2>2
<1>. QED BY <1>4

LEMMA Loop ==
  ASSUME NEW n \in Nat, NEW S, 0 \in S, \A k \in 1..n : k - 1 \in S => k \in S
  PROVE  \A k \in 0..n : k \in S
<1> DEFINE Out == {k \in 0..n : k \notin S}
<1>. SUFFICES ASSUME Out # {} PROVE FALSE
  OBVIOUS
<1>1. PICK k \in Out : \A m \in Out : k <= m
  <2>1. Out \in SUBSET Nat
    OBVIOUS
  <2>. HIDE DEF Out
  <2>. QED BY <2>1, LeastNat
<1>2. k \in 1..n
  BY <1>1
<1>3. k - 1 \in S
  <2>1. k - 1 \in 0..n /\ ~(k <= k - 1)
    BY <1>2
  <2>. QED BY <1>1, <2>1
<1>. QED BY <1>1, <1>2, <1>3

LEMMA Concatenated ==
  ASSUME NEW S, NEW s \in Seq(S), NEW t \in Seq(S)
  PROVE  /\ s \o t \in Seq(S) /\ Len(s \o t) = Len(s) + Len(t)
         /\ \A i \in 1..Len(s) : (s \o t)[i] = s[i]
         /\ \A i \in 1..Len(t) : (s \o t)[Len(s) + i] = t[i]
<1>1. s \o t \in Seq(S) /\ Len(s \o t) = Len(s) + Len(t)
  OBVIOUS
<1>2. \A i \in 1..Len(s) : (s \o t)[i] = s[i]
  OBVIOUS
<1>3. ASSUME NEW i \in 1..Len(t) PROVE (s \o t)[Len(s) + i] = t[i]
  <2>1. Len(s) \in Nat /\ Len(t) \in Nat
    OBVIOUS
  <2>2. /\ Len(s) + i \in 1..Len(s) + Len(t) /\ ~(Len(s) + i <= Len(s))
        /\ (Len(s) + i) - Len(s) = i
    BY <2>1
  <2>. QED BY <2>1, <2>2
<1>. QED BY <1>1, <1>2, <1>3

-----------------------------------------------------------------------------
(* What the device makes of a list of commands: it executes one after      *)
(* another.                                                                *)

Executions(d, commands, after) ==
  after = [k \in 0..Len(commands) |->
             IF k = 0 THEN d ELSE Executed(after[k - 1], commands[k])]

LEMMA ExecutionsExist ==
  ASSUME NEW d, NEW commands, Len(commands) \in Nat
  PROVE  \E after : Executions(d, commands, after)
<1> DEFINE n == Len(commands)
           Is(k, f) == f = [i \in 0..k |-> IF i = 0 THEN d ELSE Executed(f[i - 1], commands[i])]
           S == {k \in 0..n : \E f : Is(k, f)}
<1>1. 0 \in S
  <2> DEFINE f == [i \in 0..0 |-> d]
  <2>1. Is(0, f) /\ 0 \in 0..n
    OBVIOUS
  <2>. HIDE DEF Is, f, n
  <2>. QED BY <2>1
<1>2. ASSUME NEW k \in 1..n, k - 1 \in S PROVE k \in S
  <2>1. PICK g : Is(k - 1, g)
    BY <1>2
  <2> DEFINE f == [i \in 0..k |-> IF i = k THEN Executed(g[k - 1], commands[k]) ELSE g[i]]
  <2>2. \A i \in 0..k : f[i] = IF i = 0 THEN d ELSE Executed(f[i - 1], commands[i])
    <3>1. \A i \in 0..k - 1 : f[i] = g[i]
      OBVIOUS
    <3>2. f[k] = Executed(g[k - 1], commands[k]) /\ k # 0
      OBVIOUS
    <3>3. \A i \in 0..k - 1 : g[i] = IF i = 0 THEN d ELSE Executed(g[i - 1], commands[i])
      <4>1. DOMAIN g = 0..k - 1
        BY <2>1
      <4>. QED BY <2>1, <4>1
    <3>. HIDE DEF f
    <3>. SUFFICES ASSUME NEW i \in 0..k
         PROVE  f[i] = IF i = 0 THEN d ELSE Executed(f[i - 1], commands[i])
      OBVIOUS
    <3>4. CASE i = k
      <4>1. f[k - 1] = g[k - 1]
        BY <3>1
      <4>. QED BY <3>2, <3>4, <4>1
    <3>5. CASE i # k
      <4>1. i \in 0..k - 1 /\ (i # 0 => i - 1 \in 0..k - 1)
        BY <3>5
      <4>. QED BY <3>1, <3>3, <4>1
    <3>. QED BY <3>4, <3>5
  <2>3. Is(k, f)
    <3>1. f = [i \in 0..k |-> f[i]]
      OBVIOUS
    <3>. HIDE DEF f
    <3>. QED BY <2>2, <3>1
  <2>4. k \in 0..n
    OBVIOUS
  <2>. HIDE DEF Is, f, n
  <2>. QED BY <2>3, <2>4
<1>3. n \in S
  <2>1. n \in Nat
    OBVIOUS
  <2>. HIDE DEF S, Is, n
  <2>2. \A k \in 0..n : k \in S
    BY <1>1, <1>2, <2>1, Loop
  <2>. QED BY <2>1, <2>2
<1>. QED BY <1>3 DEF Executions

\* The states the device goes through.
LEMMA ExecutedAllSteps ==
  ASSUME NEW d, NEW commands, Len(commands) \in Nat
  PROVE  \E after : /\ after[0] = d /\ after[Len(commands)] = ExecutedAll(d, commands)
                    /\ \A k \in 1..Len(commands) : after[k] = Executed(after[k - 1], commands[k])
<1> DEFINE after == CHOOSE f : Executions(d, commands, f)
<1>1. Executions(d, commands, after)
  BY ExecutionsExist
<1>2. ExecutedAll(d, commands) = after[Len(commands)]
  BY DEF ExecutedAll, Executions
<1>. HIDE DEF after
<1>3. \A k \in 0..Len(commands) :
        after[k] = IF k = 0 THEN d ELSE Executed(after[k - 1], commands[k])
  BY <1>1 DEF Executions
<1>. QED BY <1>2, <1>3

LEMMA SlotsOfFacts ==
  ASSUME NEW S, NEW f
  PROVE  /\ f \in SlotsOf(S) => /\ f \in [DOMAIN f -> S] /\ DOMAIN f \subseteq Slot
                                /\ \A n \in DOMAIN f : f[n] \in S
         /\ \A slots : slots \subseteq Slot /\ f \in [slots -> S] => f \in SlotsOf(S)
BY DEF SlotsOf

LEMMA EmptySlots ==
  ASSUME NEW S PROVE Empty \in SlotsOf(S)
BY DEF SlotsOf, Empty

LEMMA WithSlot ==
  ASSUME NEW S, NEW f \in SlotsOf(S), NEW n \in Slot, NEW v \in S
  PROVE  With(f, n, v) \in SlotsOf(S)
<1>1. f \in [DOMAIN f -> S] /\ DOMAIN f \subseteq Slot
  BY SlotsOfFacts
<1>2. With(f, n, v) \in [DOMAIN f \cup {n} -> S]
  BY <1>1 DEF With
<1>. QED BY <1>1, <1>2 DEF SlotsOf

LEMMA DeviceFacts ==
  ASSUME NEW program, NEW memory, NEW pulses
  PROVE  [program |-> program, memory |-> memory, pulses |-> pulses] \in DeviceState
         <=> /\ program \in Seq(Info) /\ pulses \in SlotsOf(Pulse)
             /\ memory \in [Played(program) -> Vector] /\ Played(program) \subseteq Nat
<1> DEFINE d == [program |-> program, memory |-> memory, pulses |-> pulses]
<1>1. d.program = program /\ d.memory = memory /\ d.pulses = pulses
  OBVIOUS
<1>2. ASSUME d \in DeviceState
      PROVE  /\ program \in Seq(Info) /\ pulses \in SlotsOf(Pulse)
             /\ memory \in [Played(program) -> Vector] /\ Played(program) \subseteq Nat
  <2>1. /\ program \in Seq(Info) /\ pulses \in SlotsOf(Pulse)
        /\ memory \in UNION {[slots -> Vector] : slots \in SUBSET Nat}
        /\ DOMAIN memory = Played(program)
    BY <1>2 DEF DeviceState
  <2>2. PICK slots \in SUBSET Nat : memory \in [slots -> Vector]
    BY <2>1
  <2>. QED BY <2>1, <2>2
<1>3. ASSUME program \in Seq(Info), pulses \in SlotsOf(Pulse),
             memory \in [Played(program) -> Vector], Played(program) \subseteq Nat
      PROVE  d \in DeviceState
  <2>1. memory \in UNION {[slots -> Vector] : slots \in SUBSET Nat}
    BY <1>3
  <2>2. DOMAIN memory = Played(program)
    BY <1>3
  <2>. QED BY <1>1, <1>3, <2>1, <2>2 DEF DeviceState
<1>. QED BY <1>2, <1>3

LEMMA DeviceParts ==
  ASSUME NEW d \in DeviceState
  PROVE  /\ d = [program |-> d.program, memory |-> d.memory, pulses |-> d.pulses]
         /\ d.program \in Seq(Info) /\ d.pulses \in SlotsOf(Pulse)
         /\ d.memory \in [Played(d.program) -> Vector] /\ Played(d.program) \subseteq Nat
<1>1. d = [program |-> d.program, memory |-> d.memory, pulses |-> d.pulses]
  BY DEF DeviceState
<1>. QED BY <1>1, DeviceFacts

LEMMA PlayedType ==
  ASSUME NEW info \in Seq(Info)
  PROVE  Played(info) \subseteq Nat
BY DEF Played

LEMMA ZerosType ==
  ASSUME NEW info \in Seq(Info)
  PROVE  Zeros(info) \in [Played(info) -> Vector]
<1>1. ASSUME NEW n \in Played(info)
      PROVE  [len |-> info[n + 1].len, channels |-> info[n + 1].channels,
              marked |-> info[n + 1].bits # {}, bits |-> {}] \in Vector
  <2>1. n + 1 \in DOMAIN info
    BY <1>1 DEF Played
  <2>2. info[n + 1] \in Info
    BY <2>1
  <2>. QED BY <2>2 DEF Info, Vector
<1>2. Zeros(info) = [n \in Played(info) |->
                       [len |-> info[n + 1].len, channels |-> info[n + 1].channels,
                        marked |-> info[n + 1].bits # {}, bits |-> {}]]
  BY DEF Zeros, Played
<1>. QED BY <1>1, <1>2

\* A command is of one kind.
LEMMA Kinds ==
  ASSUME NEW c
  PROVE  /\ c \in [elf : Seq(Info)] => "elf" \in DOMAIN c /\ DOMAIN c \subseteq {"elf"}
         /\ c \in [wave : Vector, slot : Slot]
              => "wave" \in DOMAIN c /\ DOMAIN c \subseteq {"wave", "slot"}
         /\ c \in [clear : {TRUE}] => "clear" \in DOMAIN c /\ DOMAIN c \subseteq {"clear"}
         /\ c \in [pulse : Pulse, slot : Slot]
              => "pulse" \in DOMAIN c /\ DOMAIN c \subseteq {"pulse", "slot"}
OBVIOUS

\* What each command changes.
LEMMA ExecutedCases ==
  ASSUME NEW d \in DeviceState, NEW c \in Command
  PROVE  \/ /\ c \in [elf : Seq(Info)]
            /\ Executed(d, c) = [program |-> c.elf, memory |-> Zeros(c.elf), pulses |-> d.pulses]
         \/ /\ c \in [wave : Vector, slot : Slot] /\ c.slot \in DOMAIN d.memory
            /\ Executed(d, c) = [program |-> d.program, memory |-> With(d.memory, c.slot, c.wave),
                                 pulses |-> d.pulses]
         \/ /\ c \in [wave : Vector, slot : Slot] /\ c.slot \notin DOMAIN d.memory
            /\ Executed(d, c) = d
         \/ /\ c \in [clear : {TRUE}]
            /\ Executed(d, c) = [program |-> d.program, memory |-> d.memory, pulses |-> Empty]
         \/ /\ c \in [pulse : Pulse, slot : Slot]
            /\ Executed(d, c) = [program |-> d.program, memory |-> d.memory,
                                 pulses |-> With(d.pulses, c.slot, c.pulse)]
<1>0. d = [program |-> d.program, memory |-> d.memory, pulses |-> d.pulses]
  BY DeviceParts
<1>1. CASE c \in [elf : Seq(Info)]
  <2>1. DOMAIN c = {"elf"}
    BY <1>1
  <2>2. Executed(d, c) = [program |-> c.elf, memory |-> Zeros(c.elf), pulses |-> d.pulses]
    BY <2>1 DEF Executed
  <2>. QED BY <1>1, <2>2
<1>2. CASE c \in [wave : Vector, slot : Slot]
  <2>1. DOMAIN c = {"wave", "slot"}
    BY <1>2
  <2>2. Executed(d, c) = IF c.slot \in DOMAIN d.memory
                           THEN [d EXCEPT !.memory = With(d.memory, c.slot, c.wave)] ELSE d
    BY <2>1 DEF Executed
  <2> DEFINE memory == With(d.memory, c.slot, c.wave)
  <2>3. [d EXCEPT !.memory = memory]
          = [program |-> d.program, memory |-> memory, pulses |-> d.pulses]
    <3>. HIDE DEF memory
    <3>. QED BY <1>0
  <2>. QED BY <1>2, <2>2, <2>3
<1>3. CASE c \in [clear : {TRUE}]
  <2>1. DOMAIN c = {"clear"}
    BY <1>3
  <2>2. Executed(d, c) = [d EXCEPT !.pulses = Empty]
    BY <2>1 DEF Executed
  <2> DEFINE pulses == Empty
  <2>3. [d EXCEPT !.pulses = pulses]
          = [program |-> d.program, memory |-> d.memory, pulses |-> pulses]
    <3>. HIDE DEF pulses
    <3>. QED BY <1>0
  <2>. QED BY <1>3, <2>2, <2>3
<1>4. CASE c \in [pulse : Pulse, slot : Slot]
  <2>1. DOMAIN c = {"pulse", "slot"}
    BY <1>4
  <2>2. Executed(d, c) = [d EXCEPT !.pulses = With(d.pulses, c.slot, c.pulse)]
    BY <2>1 DEF Executed
  <2> DEFINE pulses == With(d.pulses, c.slot, c.pulse)
  <2>3. [d EXCEPT !.pulses = pulses]
          = [program |-> d.program, memory |-> d.memory, pulses |-> pulses]
    <3>. HIDE DEF pulses
    <3>. QED BY <1>0
  <2>. QED BY <1>4, <2>2, <2>3
<1>. QED BY <1>1, <1>2, <1>3, <1>4 DEF Command

LEMMA ExecutedType ==
  ASSUME NEW d \in DeviceState, NEW c \in Command
  PROVE  Executed(d, c) \in DeviceState
<1>1. /\ d.program \in Seq(Info) /\ d.pulses \in SlotsOf(Pulse)
      /\ d.memory \in [Played(d.program) -> Vector] /\ Played(d.program) \subseteq Nat
  BY DeviceParts
<1>2. ASSUME c \in [elf : Seq(Info)]
      PROVE  [program |-> c.elf, memory |-> Zeros(c.elf), pulses |-> d.pulses] \in DeviceState
  <2>1. c.elf \in Seq(Info)
    BY <1>2
  <2>. QED BY <1>1, <2>1, ZerosType, PlayedType, DeviceFacts
<1>3. ASSUME c \in [wave : Vector, slot : Slot], c.slot \in DOMAIN d.memory
      PROVE  [program |-> d.program, memory |-> With(d.memory, c.slot, c.wave),
              pulses |-> d.pulses] \in DeviceState
  <2>1. With(d.memory, c.slot, c.wave) \in [Played(d.program) -> Vector]
    BY <1>1, <1>3 DEF With
  <2>. QED BY <1>1, <2>1, DeviceFacts
<1>4. [program |-> d.program, memory |-> d.memory, pulses |-> Empty] \in DeviceState
  BY <1>1, EmptySlots, DeviceFacts
<1>5. ASSUME c \in [pulse : Pulse, slot : Slot]
      PROVE  [program |-> d.program, memory |-> d.memory,
              pulses |-> With(d.pulses, c.slot, c.pulse)] \in DeviceState
  <2>1. c.slot \in Slot /\ c.pulse \in Pulse
    BY <1>5
  <2>. QED BY <1>1, <2>1, WithSlot, DeviceFacts
<1>. QED BY <1>2, <1>3, <1>4, <1>5, ExecutedCases

LEMMA ExecutedAllType ==
  ASSUME NEW d \in DeviceState, NEW commands \in Seq(Command)
  PROVE  ExecutedAll(d, commands) \in DeviceState
<1> DEFINE n == Len(commands)
<1>1. n \in Nat /\ \A k \in 1..n : commands[k] \in Command
  OBVIOUS
<1>2. PICK after : /\ after[0] = d /\ after[n] = ExecutedAll(d, commands)
                   /\ \A k \in 1..n : after[k] = Executed(after[k - 1], commands[k])
  BY ExecutedAllSteps
<1> DEFINE S == {k \in 0..n : after[k] \in DeviceState}
<1>. HIDE DEF n
<1>3. 0 \in S
  BY <1>1, <1>2
<1>4. \A k \in 1..n : k - 1 \in S => k \in S
  BY <1>1, <1>2, ExecutedType
<1>5. n \in S
  <2>. HIDE DEF S
  <2>1. \A k \in 0..n : k \in S
    BY <1>1, <1>3, <1>4, Loop
  <2>. QED BY <1>1, <2>1
<1>. QED BY <1>2, <1>5

\* Waveforms that are written change the slots they are for, and no more.
WaveCommand == [wave : Vector, slot : Slot]

LEMMA WavesExecuted ==
  ASSUME NEW d \in DeviceState, NEW commands \in Seq(WaveCommand)
  PROVE  LET e == ExecutedAll(d, commands) IN
         /\ e.program = d.program
         /\ \A n \in DOMAIN e.memory :
              e.memory[n] = d.memory[n]
              \/ \E i \in 1..Len(commands) :
                   commands[i].slot = n /\ e.memory[n] = commands[i].wave
<1> DEFINE n == Len(commands)
           Written(e) ==
             \A m \in DOMAIN e.memory :
               e.memory[m] = d.memory[m]
               \/ \E i \in 1..n : commands[i].slot = m /\ e.memory[m] = commands[i].wave
           Good(e) == e \in DeviceState /\ e.program = d.program /\ Written(e)
<1>1. n \in Nat /\ \A k \in 1..n : commands[k] \in WaveCommand
  OBVIOUS
<1>2. PICK after : /\ after[0] = d /\ after[n] = ExecutedAll(d, commands)
                   /\ \A k \in 1..n : after[k] = Executed(after[k - 1], commands[k])
  BY ExecutedAllSteps
<1> DEFINE S == {k \in 0..n : Good(after[k])}
<1>3. Good(d)
  OBVIOUS
<1>4. ASSUME NEW e, Good(e), NEW k \in 1..n
      PROVE  Good(Executed(e, commands[k]))
  <2> DEFINE c == commands[k]
  <2>1. c \in WaveCommand /\ c \in Command
    BY <1>1 DEF Command, WaveCommand
  <2>2. Executed(e, c) \in DeviceState
    BY <1>4, <2>1, ExecutedType
  <2>3. ~(c \in [elf : Seq(Info)]) /\ ~(c \in [clear : {TRUE}])
        /\ ~(c \in [pulse : Pulse, slot : Slot])
    <3>1. c \in [wave : Vector, slot : Slot]
      BY <2>1 DEF WaveCommand
    <3>. HIDE DEF c
    <3>. QED BY <3>1, Kinds
  <2>4. \/ Executed(e, c) = e
        \/ Executed(e, c) = [program |-> e.program, memory |-> With(e.memory, c.slot, c.wave),
                             pulses |-> e.pulses]
    <3>. HIDE DEF c, n
    <3>. QED BY <1>4, <2>1, <2>3, ExecutedCases
  <2>5. ASSUME Executed(e, c) = [program |-> e.program,
                                 memory |-> With(e.memory, c.slot, c.wave),
                                 pulses |-> e.pulses]
        PROVE  Good(Executed(e, c))
    <3> DEFINE x == Executed(e, c)
    <3>1. x.program = d.program /\ x.memory = With(e.memory, c.slot, c.wave)
      BY <1>4, <2>5
    <3>. HIDE DEF x
    <3>2. Written(x)
      <4>. SUFFICES ASSUME NEW m \in DOMAIN x.memory
           PROVE  x.memory[m] = d.memory[m]
                  \/ \E i \in 1..n : commands[i].slot = m /\ x.memory[m] = commands[i].wave
        OBVIOUS
      <4>1. CASE m = c.slot
        BY <3>1, <4>1 DEF With
      <4>2. CASE m # c.slot
        <5>1. m \in DOMAIN e.memory /\ x.memory[m] = e.memory[m]
          BY <3>1, <4>2 DEF With
        <5>. QED BY <1>4, <5>1
      <4>. QED BY <4>1, <4>2
    <3>. QED BY <2>2, <3>1, <3>2 DEF x
  <2>. HIDE DEF Good
  <2>. QED BY <1>4, <2>4, <2>5
<1>. HIDE DEF n, Good
<1>5. 0 \in S
  BY <1>1, <1>2, <1>3
<1>6. \A k \in 1..n : k - 1 \in S => k \in S
  BY <1>1, <1>2, <1>4
<1>7. n \in S
  <2>. HIDE DEF S
  <2>1. \A k \in 0..n : k \in S
    BY <1>1, <1>5, <1>6, Loop
  <2>. QED BY <1>1, <2>1
<1>. QED BY <1>2, <1>7 DEF Good, n

\* Pulses leave the program alone.
PulseCommand == [clear : {TRUE}] \cup [pulse : Pulse, slot : Slot]

LEMMA PulseExecuted ==
  ASSUME NEW d \in DeviceState, NEW c \in PulseCommand
  PROVE  /\ Executed(d, c) \in DeviceState
         /\ Executed(d, c).program = d.program
         /\ c \in [clear : {TRUE}] => Executed(d, c).pulses = Empty
         /\ c \in [pulse : Pulse, slot : Slot] =>
              Executed(d, c).pulses = With(d.pulses, c.slot, c.pulse)
<1>1. c \in Command
  BY DEF Command, PulseCommand
<1>2. CASE c \in [clear : {TRUE}]
  <2>2. /\ ~(c \in [elf : Seq(Info)]) /\ ~(c \in [wave : Vector, slot : Slot])
        /\ ~(c \in [pulse : Pulse, slot : Slot])
    BY <1>2, Kinds
  <2>3. Executed(d, c) = [program |-> d.program, memory |-> d.memory, pulses |-> Empty]
    BY <1>1, <2>2, ExecutedCases
  <2>4. Executed(d, c) \in DeviceState
    BY <1>1, ExecutedType
  <2>. QED BY <2>2, <2>3, <2>4
<1>3. CASE c \in [pulse : Pulse, slot : Slot]
  <2>2. /\ ~(c \in [elf : Seq(Info)]) /\ ~(c \in [wave : Vector, slot : Slot])
        /\ ~(c \in [clear : {TRUE}])
    BY <1>3, Kinds
  <2>3. Executed(d, c) = [program |-> d.program, memory |-> d.memory,
                          pulses |-> With(d.pulses, c.slot, c.pulse)]
    BY <1>1, <2>2, ExecutedCases
  <2>4. Executed(d, c) \in DeviceState
    BY <1>1, ExecutedType
  <2>5. /\ Executed(d, c).program = d.program
        /\ Executed(d, c).pulses = With(d.pulses, c.slot, c.pulse)
    BY <2>3
  <2>. QED BY <2>2, <2>4, <2>5
<1>. QED BY <1>2, <1>3 DEF PulseCommand

LEMMA PulsesExecuted ==
  ASSUME NEW d \in DeviceState, NEW commands \in Seq(PulseCommand)
  PROVE  ExecutedAll(d, commands).program = d.program
<1> DEFINE n == Len(commands)
<1>1. n \in Nat /\ \A k \in 1..n : commands[k] \in PulseCommand
  OBVIOUS
<1>2. PICK after : /\ after[0] = d /\ after[n] = ExecutedAll(d, commands)
                   /\ \A k \in 1..n : after[k] = Executed(after[k - 1], commands[k])
  BY ExecutedAllSteps
<1> DEFINE S == {k \in 0..n : after[k] \in DeviceState /\ after[k].program = d.program}
<1>. HIDE DEF n
<1>3. 0 \in S
  BY <1>1, <1>2
<1>4. ASSUME NEW k \in 1..n, k - 1 \in S PROVE k \in S
  <2>1. after[k] = Executed(after[k - 1], commands[k]) /\ commands[k] \in PulseCommand
    BY <1>1, <1>2
  <2>2. after[k - 1] \in DeviceState /\ after[k - 1].program = d.program
    BY <1>4
  <2>3. after[k] \in DeviceState /\ after[k].program = d.program
    <3> DEFINE e == after[k - 1]
               c == commands[k]
    <3>. HIDE DEF e, c
    <3>1. e \in DeviceState /\ c \in PulseCommand
      BY <2>1, <2>2 DEF e, c
    <3>2. Executed(e, c) \in DeviceState /\ Executed(e, c).program = e.program
      BY <3>1, PulseExecuted
    <3>. QED BY <2>1, <2>2, <3>2 DEF e, c
  <2>. QED BY <1>1, <2>3
<1>5. n \in S
  <2>. HIDE DEF S
  <2>1. \A k \in 0..n : k \in S
    BY <1>1, <1>3, <1>4, Loop
  <2>. QED BY <1>1, <2>1
<1>. QED BY <1>2, <1>5

\* A dictionary is gone through in some order, and to the end.
LEMMA OrderFacts ==
  ASSUME NEW D, IsFiniteSet(D), NEW order \in SetToSeqs(D)
  PROVE  /\ order \in Seq(D) /\ Len(order) = Cardinality(D) /\ Len(order) \in Nat
         /\ DOMAIN order = 1..Len(order)
         /\ D = {order[i] : i \in 1..Len(order)}
<1> DEFINE n == Cardinality(D)
<1>1. n \in Nat
  BY FS_CardinalityType
<1>2. order \in [1..n -> D] /\ \A i, j \in 1..n : i # j => order[i] # order[j]
  BY DEF SetToSeqs
<1>3. order \in Injection(1..n, D)
  BY <1>2 DEF Injection, IsInjective
<1>4. IsFiniteSet(1..n) /\ Cardinality(1..n) = n
  BY <1>1, FS_Interval
<1>5. order \in Surjection(1..n, D)
  BY <1>3, <1>4, FS_Injection
<1>6. \A x \in D : \E i \in 1..n : order[i] = x
  BY <1>5 DEF Surjection
<1>7. order \in Seq(D) /\ Len(order) = n
  BY <1>1, <1>2
<1>. HIDE DEF n
<1>. QED BY <1>1, <1>2, <1>6, <1>7 DEF n

\* Pulses that replace all others are those that are left.
PulsesOf(ws) == [n \in DOMAIN ws |-> ComplexVector(ws[n])]

LEMMA PulsesReplaced ==
  ASSUME NEW d \in DeviceState, NEW ws, IsFiniteSet(DOMAIN ws), DOMAIN ws \subseteq Slot,
         \A n \in DOMAIN ws : ComplexVector(ws[n]) \in Pulse,
         NEW order \in SetToSeqs(DOMAIN ws),
         NEW commands \in Seq(PulseCommand), Len(commands) = Len(order) + 1,
         commands[1] \in [clear : {TRUE}],
         \A i \in 1..Len(order) :
           commands[i + 1] = [pulse |-> ComplexVector(ws[order[i]]), slot |-> order[i]]
  PROVE  ExecutedAll(d, commands).pulses = PulsesOf(ws)
<1> DEFINE n == Len(order)
           Set(k) == {order[i] : i \in 1..k}
           Pulses(D) == [m \in D |-> ComplexVector(ws[m])]
<1>1. /\ n \in Nat /\ Len(commands) = n + 1 /\ DOMAIN ws = Set(n)
      /\ \A i \in 1..n : order[i] \in DOMAIN ws
  <2> DEFINE D == DOMAIN ws
  <2>1. IsFiniteSet(D) /\ order \in SetToSeqs(D)
    OBVIOUS
  <2>. HIDE DEF D
  <2>2. /\ order \in Seq(D) /\ Len(order) \in Nat
        /\ D = {order[i] : i \in 1..Len(order)}
    BY <2>1, OrderFacts
  <2>. QED BY <2>2 DEF D
<1>2. PICK after : /\ after[0] = d /\ after[n + 1] = ExecutedAll(d, commands)
                   /\ \A k \in 1..n + 1 : after[k] = Executed(after[k - 1], commands[k])
  <2>1. Len(commands) \in Nat
    OBVIOUS
  <2>2. \E after :
          /\ after[0] = d /\ after[Len(commands)] = ExecutedAll(d, commands)
          /\ \A k \in 1..Len(commands) : after[k] = Executed(after[k - 1], commands[k])
    <3> DEFINE all == commands
    <3>1. Len(all) \in Nat
      BY <2>1
    <3>. HIDE DEF all
    <3>2. \E after :
            /\ after[0] = d /\ after[Len(all)] = ExecutedAll(d, all)
            /\ \A k \in 1..Len(all) : after[k] = Executed(after[k - 1], all[k])
      BY <3>1, ExecutedAllSteps
    <3>. QED BY <3>2 DEF all
  <2>3. Len(commands) = n + 1
    BY <1>1
  <2>. HIDE DEF n
  <2>. QED BY <2>2, <2>3
<1> DEFINE S == {k \in 0..n : /\ after[k + 1] \in DeviceState
                              /\ after[k + 1].pulses = Pulses(Set(k))}
<1>. HIDE DEF n
<1>3. 0 \in S
  <2>1. 1 \in 1..n + 1 /\ 1 - 1 = 0
    BY <1>1
  <2>2. after[1] = Executed(d, commands[1])
    BY <1>2, <2>1
  <2>3. commands[1] \in PulseCommand
    BY DEF PulseCommand
  <2>4. after[1] \in DeviceState /\ after[1].pulses = Empty
    <3> DEFINE c == commands[1]
    <3>1. c \in PulseCommand /\ c \in [clear : {TRUE}]
      BY <2>3
    <3>. HIDE DEF c
    <3>2. Executed(d, c) \in DeviceState /\ Executed(d, c).pulses = Empty
      BY <3>1, PulseExecuted
    <3>. QED BY <2>2, <3>2 DEF c
  <2>5. Set(0) = {}
    OBVIOUS
  <2>6. Pulses({}) = Empty
    BY DEF Empty
  <2>7. 0 + 1 = 1 /\ 0 \in 0..n
    BY <1>1
  <2>. HIDE DEF Set, Pulses
  <2>. QED BY <2>4, <2>5, <2>6, <2>7
<1>4. ASSUME NEW k \in 1..n, k - 1 \in S PROVE k \in S
  <2> DEFINE e == after[k]
             c == commands[k + 1]
             v == ComplexVector(ws[order[k]])
  <2>1. k + 1 \in 1..n + 1 /\ (k + 1) - 1 = k /\ (k - 1) + 1 = k
    BY <1>1
  <2>2. after[k + 1] = Executed(e, c)
    BY <1>2, <2>1
  <2>3. e \in DeviceState /\ e.pulses = Pulses(Set(k - 1))
    BY <1>4, <2>1
  <2>4. c = [pulse |-> v, slot |-> order[k]] /\ order[k] \in DOMAIN ws
    <3>1. k \in 1..Len(order)
      BY DEF n
    <3>. QED BY <1>1, <3>1
  <2>5. c \in [pulse : Pulse, slot : Slot] /\ c.pulse = v /\ c.slot = order[k]
    <3>1. v \in Pulse /\ order[k] \in Slot
      BY <2>4
    <3>. HIDE DEF v
    <3>. QED BY <2>4, <3>1
  <2>. HIDE DEF e, c
  <2>6. Executed(e, c) \in DeviceState /\ Executed(e, c).pulses = With(e.pulses, order[k], v)
    <3>1. c \in PulseCommand
      BY <2>5 DEF PulseCommand
    <3>. HIDE DEF v
    <3>. QED BY <2>3, <2>5, <3>1, PulseExecuted
  <2>7. Set(k) = Set(k - 1) \cup {order[k]}
    <3>1. \A i : i \in 1..k <=> i \in 1..k - 1 \/ i = k
      BY <1>1
    <3>. QED BY <3>1
  <2>8. With(Pulses(Set(k - 1)), order[k], v) = Pulses(Set(k))
    <3>. SUFFICES ASSUME NEW D, NEW m
         PROVE  With(Pulses(D), m, ComplexVector(ws[m])) = Pulses(D \cup {m})
      <4>. HIDE DEF Set, Pulses
      <4>. QED BY <2>7
    <3>1. DOMAIN Pulses(D) = D /\ \A x \in D : Pulses(D)[x] = ComplexVector(ws[x])
      OBVIOUS
    <3>2. With(Pulses(D), m, ComplexVector(ws[m]))
            = [x \in D \cup {m} |-> IF x = m THEN ComplexVector(ws[m]) ELSE Pulses(D)[x]]
      <4>. HIDE DEF Pulses
      <4>. QED BY <3>1 DEF With
    <3>3. \A x \in D \cup {m} : (IF x = m THEN ComplexVector(ws[m]) ELSE Pulses(D)[x])
                                   = ComplexVector(ws[x])
      BY <3>1
    <3>. QED BY <3>2, <3>3
  <2>9. k \in 0..n
    BY <1>1
  <2>. HIDE DEF Set, Pulses, v
  <2>. QED BY <2>2, <2>3, <2>6, <2>8, <2>9
<1>5. n \in S
  <2>. HIDE DEF S
  <2>1. \A k \in 0..n : k \in S
    BY <1>1, <1>3, <1>4, Loop
  <2>. QED BY <1>1, <2>1
<1>. HIDE DEF Set
<1>. QED BY <1>1, <1>2, <1>5 DEF PulsesOf

-----------------------------------------------------------------------------
(* Waveforms and the programs compiled from them.                          *)

LEMMA WaveFacts ==
  ASSUME NEW w \in Wave
  PROVE  /\ w \in [1..3 -> Part] /\ w[1] \in Array /\ w[2] \in Part /\ w[3] \in Part
         /\ Given(w[1]) /\ ~(w[1].complex /\ w[1] = NoPart)
         /\ Given(w[2]) => w[2].len = w[1].len
         /\ Given(w[3]) => w[3].len = w[1].len
BY DEF Wave, Array, Given, NoPart

LEMMA PartFacts ==
  ASSUME NEW p \in Part
  PROVE  /\ p.len \in Nat /\ p.bits \in SUBSET Channel /\ p.complex \in BOOLEAN
         /\ p.is \in {"array", "none"}
         /\ Given(p) => p \in Array
         /\ ~Given(p) => p = NoPart
<1>1. CASE p \in Array
  BY <1>1 DEF Array, Given
<1>2. CASE p = NoPart
  BY <1>2 DEF NoPart, Given
<1>. QED BY <1>1, <1>2 DEF Part

LEMMA AtLeastOneFacts ==
  ASSUME NEW p \in Part
  PROVE  /\ AtLeastOne(p) \in Part
         /\ Given(AtLeastOne(p)) = Given(p)
         /\ p.len > 0 \/ ~Given(p) => AtLeastOne(p) = p
<1>1. CASE Given(p) /\ p.len = 0
  <2> DEFINE q == [is |-> p.is, len |-> 1, complex |-> FALSE, bits |-> p.bits]
  <2>1. AtLeastOne(p) = q
    BY <1>1 DEF AtLeastOne
  <2>2. p \in Array
    BY <1>1, PartFacts
  <2>3. q \in Array /\ q.is = "array"
    BY <2>2 DEF Array
  <2>4. Given(q)
    BY <2>3 DEF Given
  <2>. HIDE DEF q
  <2>. QED BY <1>1, <2>1, <2>3, <2>4 DEF Part
<1>2. CASE ~(Given(p) /\ p.len = 0)
  <2>1. AtLeastOne(p) = p
    BY <1>2 DEF AtLeastOne
  <2>. QED BY <2>1, <1>2
<1>. QED BY <1>1, <1>2

LEMMA VectorType ==
  ASSUME NEW w \in Wave
  PROVE  /\ RawVector(w) \in Vector
         /\ RawVector(w).len = AtLeastOne(w[1]).len
         /\ ComplexVector(w) \in Pulse
         /\ Snippet(w) \in Info /\ Snippet(w).name = "placeholder"
         /\ Snippet(w).channels = Channels(w) /\ Snippet(w).bits = Markers(w).bits
<1> DEFINE v == <<AtLeastOne(w[1]), AtLeastOne(w[2]), w[3]>>
<1>1. /\ w[1] \in Part /\ w[2] \in Part /\ w[3] \in Part
  BY WaveFacts DEF Part
<1>2. /\ v[1] = AtLeastOne(w[1]) /\ v[1] \in Part /\ v[2] \in Part /\ v[3] \in Part
  BY <1>1, AtLeastOneFacts
<1>3. Markers(v) \in Part /\ Markers(w) \in Part
  <2>. HIDE DEF v
  <2>. QED BY <1>1, <1>2 DEF Markers
<1>4. Channels(v) \in Channel /\ Channels(w) \in Channel
  BY DEF Channels, Channel
<1>5. Given(Markers(v)) \in BOOLEAN
  BY DEF Given
<1>6. RawVector(w) = [len |-> v[1].len, channels |-> Channels(v),
                      marked |-> Given(Markers(v)), bits |-> Markers(v).bits]
  BY DEF RawVector
<1>7. RawVector(w) \in Vector /\ RawVector(w).len = AtLeastOne(w[1]).len
  <2>1. v[1].len \in Nat /\ Markers(v).bits \in SUBSET Channel
    BY <1>2, <1>3, PartFacts
  <2>. HIDE DEF v
  <2>. QED BY <1>2, <1>4, <1>5, <1>6, <2>1 DEF Vector
<1>8. AtLeastOne(w[1]).len \in Nat /\ Markers(w).bits \in SUBSET Channel
  BY <1>2, <1>3, PartFacts
<1>9. /\ Snippet(w) \in Info /\ Snippet(w).name = "placeholder"
      /\ Snippet(w).channels = Channels(w) /\ Snippet(w).bits = Markers(w).bits
  <2> DEFINE n == AtLeastOne(w[1]).len
             channels == Channels(w)
             bits == Markers(w).bits
  <2>1. Snippet(w) = [name |-> "placeholder", len |-> n, channels |-> channels, bits |-> bits]
    BY DEF Snippet
  <2>2. n \in Nat /\ channels \in Channel /\ bits \in SUBSET Channel
    BY <1>4, <1>8
  <2>. HIDE DEF n, channels, bits
  <2>3. Snippet(w) \in Info
    BY <2>1, <2>2 DEF Info, Name
  <2>4. /\ Snippet(w).name = "placeholder"
        /\ Snippet(w).channels = channels /\ Snippet(w).bits = bits
    BY <2>1
  <2>. QED BY <2>3, <2>4 DEF channels, bits
<1>10. ComplexVector(w) \in Pulse
  BY <1>8 DEF ComplexVector, Pulse
<1>. QED BY <1>7, <1>9, <1>10

\* Three parts of one length are a waveform.
LEMMA Parts ==
  ASSUME NEW a \in Array, NEW b \in Part, NEW c \in Part,
         Given(b) => b.len = a.len, Given(c) => c.len = a.len
  PROVE  <<a, b, c>> \in Wave
<1> DEFINE w == <<a, b, c>>
<1>1. w[1] = a /\ w[2] = b /\ w[3] = c /\ w \in [1..3 -> Part]
  <2>1. a \in Part
    BY DEF Part
  <2>. HIDE DEF Part
  <2>. QED BY <2>1
<1>2. \A i \in 2..3 : i = 2 \/ i = 3
  OBVIOUS
<1>. HIDE DEF w
<1>3. w \in Wave
  BY <1>1, <1>2 DEF Wave
<1>. QED BY <1>3 DEF w

LEMMA NativeType ==
  ASSUME NEW raw \in Vector, NEW channels \in Channel, NEW marked \in BOOLEAN
  PROVE  Native(raw, channels, marked) \in Wave
<1> DEFINE width(c, m) == c + (IF m THEN 1 ELSE 0)
           n == (raw.len * width(raw.channels, raw.marked)) \div width(channels, marked)
           real == [is |-> "array", len |-> n, complex |-> FALSE, bits |-> {}]
           marks == [real EXCEPT !.bits = raw.bits]
<1>1. raw.len \in Nat /\ raw.channels \in Channel /\ raw.bits \in SUBSET Channel
  BY DEF Vector
<1>2. n \in Nat
  <2>1. width(channels, marked) \in Nat \ {0} /\ width(raw.channels, raw.marked) \in Nat
    BY <1>1 DEF Channel
  <2> DEFINE a == raw.len * width(raw.channels, raw.marked)
             b == width(channels, marked)
  <2>2. a \in Nat
    <3> DEFINE x == width(raw.channels, raw.marked)
    <3>. HIDE DEF x
    <3>1. \A l \in Nat : l * x \in Nat
      BY <2>1 DEF x
    <3>. QED BY <1>1, <3>1 DEF x
  <2>3. n = a \div b
    OBVIOUS
  <2>. HIDE DEF width, a, b, n
  <2>. QED BY <2>1, <2>2, <2>3 DEF b
<1>. HIDE DEF n
<1>3. real \in Array /\ real.len = n
  BY <1>2 DEF Array
<1>4. marks \in Array /\ marks.len = n
  BY <1>1, <1>2 DEF Array
<1>5. NoPart \in Part /\ ~Given(NoPart)
  BY DEF Part, Given, NoPart
<1>6. Native(raw, channels, marked)
        = <<real, IF channels = 2 THEN real ELSE NoPart, IF marked THEN marks ELSE NoPart>>
  BY DEF Native, n
<1>7. <<real, IF channels = 2 THEN real ELSE NoPart, IF marked THEN marks ELSE NoPart>> \in Wave
  <2> DEFINE b == IF channels = 2 THEN real ELSE NoPart
             c == IF marked THEN marks ELSE NoPart
  <2>. HIDE DEF real, marks
  <2>1. b \in Part /\ (Given(b) => b.len = real.len)
    BY <1>3, <1>5 DEF Part
  <2>2. c \in Part /\ (Given(c) => c.len = real.len)
    BY <1>3, <1>4, <1>5 DEF Part
  <2>. HIDE DEF b, c
  <2>3. <<real, b, c>> \in Wave
    BY <1>3, <2>1, <2>2, Parts
  <2>. QED BY <2>3 DEF b, c
<1>. QED BY <1>6, <1>7

\* Dealing out the samples is exact for the channels they were made of.
LEMMA NativeOfRaw ==
  ASSUME NEW w \in Wave, Described(w)
  PROVE  Native(RawVector(w), Channels(w), 1 \in Markers(w).bits) = Reals(w)
<1> DEFINE v == <<AtLeastOne(w[1]), AtLeastOne(w[2]), w[3]>>
           width(c, m) == c + (IF m THEN 1 ELSE 0)
<1>1. /\ w[1] \in Part /\ w[2] \in Part /\ w[3] \in Part /\ w[1].len \in Nat
      /\ w[1].len > 0 /\ (Given(w[2]) => w[2].len = w[1].len)
  BY WaveFacts, PartFacts DEF Described, Part
<1>2. v[1] = w[1] /\ v[2] = w[2] /\ v[3] = w[3]
  BY <1>1, AtLeastOneFacts
<1>3. Markers(v) = Markers(w) /\ Channels(v) = Channels(w)
  <2>. HIDE DEF v
  <2>. QED BY <1>2 DEF Markers, Channels
<1>4. Markers(w) \in Part
  BY <1>1 DEF Markers
<1>5. Given(Markers(w)) <=> 1 \in Markers(w).bits
  BY <1>4, PartFacts DEF Described, NoPart
<1> DEFINE len == w[1].len
           channels == Channels(w)
           marked == 1 \in Markers(w).bits
           given == Given(Markers(w))
           bits == Markers(w).bits
           real == [is |-> "array", len |-> len, complex |-> FALSE, bits |-> {}]
<1>6. RawVector(w) = [len |-> len, channels |-> channels, marked |-> given, bits |-> bits]
  <2>. HIDE DEF v
  <2>. QED BY <1>2, <1>3 DEF RawVector, v
<1>7. channels \in Channel /\ marked \in BOOLEAN /\ (given <=> marked) /\ len \in Nat
  BY <1>1, <1>5 DEF Channels, Channel
<1>8. (len * width(channels, given)) \div width(channels, marked) = len
  <2>1. width(channels, given) = width(channels, marked)
    BY <1>7
  <2>2. width(channels, marked) \in {1, 2, 3}
    <3>. HIDE DEF channels, marked
    <3>. QED BY <1>7 DEF Channel
  <2>. HIDE DEF width, len
  <2>3. \A k \in {1, 2, 3} : (len * k) \div k = len
    BY <1>7
  <2>. QED BY <2>1, <2>2, <2>3
<1>9. Native(RawVector(w), Channels(w), marked)
        = <<real, IF channels = 2 THEN real ELSE NoPart,
            IF marked THEN [real EXCEPT !.bits = bits] ELSE NoPart>>
  <2>. HIDE DEF len, channels, marked, given, bits
  <2>1. ASSUME NEW raw, raw = [len |-> len, channels |-> channels, marked |-> given, bits |-> bits]
        PROVE  Native(raw, channels, marked)
                 = <<real, IF channels = 2 THEN real ELSE NoPart,
                     IF marked THEN [real EXCEPT !.bits = bits] ELSE NoPart>>
    BY <1>8, <2>1 DEF Native
  <2>. QED BY <1>6, <2>1 DEF channels
<1>10. Reals(w) = <<real, IF channels = 2 THEN real ELSE NoPart,
                    IF given THEN [real EXCEPT !.bits = bits] ELSE NoPart>>
  BY DEF Reals
<1>. QED
  <2>. HIDE DEF real, bits, channels, given
  <2>. QED BY <1>7, <1>9, <1>10

LEMMA TopFacts ==
  ASSUME NEW ws, DOMAIN ws \subseteq Slot
  PROVE  Top(ws) \in Nat /\ \A n \in DOMAIN ws : n \in Nat /\ n < Top(ws)
<1> DEFINE D == DOMAIN ws
           Above == {k \in Nat : \A m \in D : m <= k}
<1>1. \A m \in D : m \in Nat /\ m <= MaxSlot
  BY AwgAssumption DEF Slot
<1>2. CASE D = {}
  BY <1>2 DEF Top
<1>3. CASE D # {}
  <2>1. PICK u \in Above : \A k \in Above : u <= k
    <3>1. MaxSlot \in Above
      BY <1>1, AwgAssumption
    <3>2. Above \in SUBSET Nat
      OBVIOUS
    <3>. HIDE DEF Above
    <3>. QED BY <3>1, <3>2, LeastNat
  <2>2. u \in D
    <3>. SUFFICES ASSUME u \notin D PROVE FALSE
      OBVIOUS
    <3>. HIDE DEF D
    <3>1. \A m \in D : m <= u - 1
      BY <1>1
    <3>2. PICK m \in D : TRUE
      BY <1>3
    <3>3. u - 1 \in Above
      BY <1>1, <3>1, <3>2
    <3>. QED BY <2>1, <3>3
  <2>3. \E n \in D : \A m \in D : m <= n
    BY <2>2
  <2> DEFINE top == CHOOSE n \in D : \A m \in D : m <= n
  <2>4. top \in D /\ \A m \in D : m <= top
    BY <2>3
  <2>5. Top(ws) = 1 + top
    BY <1>3 DEF Top
  <2>. HIDE DEF top, D
  <2>6. Top(ws) \in Nat /\ \A n \in D : n \in Nat /\ n < Top(ws)
    BY <1>1, <2>4, <2>5
  <2>. QED BY <2>6 DEF D
<1>. QED BY <1>2, <1>3

LEMMA RoundUpType ==
  ASSUME NEW n \in Nat PROVE RoundUp(n) \in Nat
<1>1. Granularity \in Nat /\ Granularity > 0
  BY AwgAssumption
<1> DEFINE q == (n + Granularity - 1) \div Granularity
<1>2. q \in Nat
  BY <1>1
<1>3. \A k \in Nat : k * Granularity \in Nat
  BY <1>1
<1>. HIDE DEF q
<1>. QED BY <1>2, <1>3 DEF RoundUp, q

\* In the program the waveform of slot n is number n + 1.
LEMMA CompileFacts ==
  ASSUME NEW ws \in SlotsOf(Wave), NEW s, s.code \in Code
  PROVE  /\ Compile(ws, s) \in Seq(Info)
         /\ \A n \in DOMAIN ws :
              /\ n + 1 \in 1..Len(Compile(ws, s)) /\ n < Len(Compile(ws, s))
              /\ Compile(ws, s)[n + 1].name = "placeholder"
              /\ Compile(ws, s)[n + 1].channels = Channels(ws[n])
              /\ Compile(ws, s)[n + 1].bits = Markers(ws[n]).bits
<1> DEFINE t == Top(ws)
           own == s.code.own
           At(i) == IF i - 1 \in DOMAIN ws
                      THEN LET p == Snippet(ws[i - 1]) IN [p EXCEPT !.len = RoundUp(@)]
                      ELSE Other("filler")
           A == [i \in 1..t |-> At(i)]
           B == [i \in DOMAIN own |-> Other(own[i])]
<1>1. t \in Nat /\ \A n \in DOMAIN ws : n \in Nat /\ n < t /\ ws[n] \in Wave
  BY SlotsOfFacts, TopFacts
<1>2. own \in Seq({"playWave", "wave"})
  BY AwgAssumption
<1>3. \A name \in Name : Other(name) \in Info
  BY AwgAssumption DEF Other, Info, Channel
<1>4. ASSUME NEW i \in 1..t, i - 1 \in DOMAIN ws
      PROVE  /\ At(i) \in Info /\ At(i).name = "placeholder"
             /\ At(i).channels = Channels(ws[i - 1]) /\ At(i).bits = Markers(ws[i - 1]).bits
  <2> DEFINE w == ws[i - 1]
             p == Snippet(w)
             q == [p EXCEPT !.len = RoundUp(@)]
  <2>1. w \in Wave
    BY <1>1, <1>4
  <2>2. At(i) = q
    BY <1>4
  <2>. HIDE DEF w, At
  <2>3. p \in Info /\ p.name = "placeholder" /\ p.channels = Channels(w) /\ p.bits = Markers(w).bits
    BY <2>1, VectorType
  <2>. HIDE DEF p
  <2>4. RoundUp(p.len) \in Nat
    BY <2>3, RoundUpType DEF Info
  <2>5. q \in Info /\ q.name = p.name /\ q.channels = p.channels /\ q.bits = p.bits
    BY <2>3, <2>4 DEF Info
  <2>. QED BY <2>2, <2>3, <2>5 DEF w
<1>5. \A i \in 1..t : At(i) \in Info
  <2>. SUFFICES ASSUME NEW i \in 1..t PROVE At(i) \in Info
    OBVIOUS
  <2>1. CASE i - 1 \in DOMAIN ws
    BY <1>4, <2>1
  <2>2. CASE i - 1 \notin DOMAIN ws
    BY <1>3, <2>2 DEF Name
  <2>. QED BY <2>1, <2>2
<1>. HIDE DEF At, own, t
<1>6. A \in Seq(Info) /\ Len(A) = t /\ \A i \in 1..t : A[i] = At(i)
  BY <1>1, <1>5
<1>7. B \in Seq(Info)
  <2>1. \A i \in 1..Len(own) : own[i] \in Name
    BY <1>2 DEF Name
  <2>2. B = [i \in 1..Len(own) |-> Other(own[i])]
    BY <1>2
  <2>. HIDE DEF B
  <2>. QED BY <1>2, <1>3, <2>1, <2>2
<1>8. Compile(ws, s) = A \o B
  BY DEF Compile, At, own, t
<1>. HIDE DEF A, B
<1>9. /\ Compile(ws, s) \in Seq(Info) /\ Len(Compile(ws, s)) \in Nat /\ t <= Len(Compile(ws, s))
      /\ \A i \in 1..t : Compile(ws, s)[i] = At(i)
  BY <1>1, <1>6, <1>7, <1>8
<1>10. ASSUME NEW n \in DOMAIN ws
       PROVE  /\ n + 1 \in 1..t
              /\ At(n + 1).name = "placeholder"
              /\ At(n + 1).channels = Channels(ws[n])
              /\ At(n + 1).bits = Markers(ws[n]).bits
  <2>1. n + 1 \in 1..t /\ (n + 1) - 1 = n
    BY <1>1
  <2>. QED BY <1>4, <2>1
<1>. QED BY <1>1, <1>9, <1>10

-----------------------------------------------------------------------------
(* What was written is read back.                                          *)

LEMMA RoundTripHolds ==
  TypeInv => RoundTrip
<1>. SUFFICES ASSUME TypeInv,
                     device.program = Compile(waves, sequence),
                     \A n \in DOMAIN waves : /\ Described(waves[n])
                                             /\ device.memory[n] = RawVector(waves[n]),
                     NEW indexes \in SUBSET DOMAIN waves
              PROVE  ReadBack(indexes) = [n \in indexes |-> Reals(waves[n])]
  BY DEF RoundTrip
<1> DEFINE info == device.program
           read == {n \in indexes \cap DOMAIN device.memory :
                      n < Len(info) /\ info[n + 1].name # "filler"}
<1>1. /\ waves \in SlotsOf(Wave) /\ sequence.code \in Code
      /\ DOMAIN device.memory = Played(info)
  BY DeviceParts DEF TypeInv
<1>2. ASSUME NEW n \in DOMAIN waves
      PROVE  /\ waves[n] \in Wave /\ n \in Nat
             /\ n + 1 \in 1..Len(info) /\ n < Len(info) /\ info[n + 1].name = "placeholder"
             /\ info[n + 1].channels = Channels(waves[n])
             /\ info[n + 1].bits = Markers(waves[n]).bits
  <2>1. waves[n] \in Wave /\ n \in Nat
    BY <1>1, SlotsOfFacts DEF Slot
  <2>. QED BY <1>1, <2>1, CompileFacts
<1>3. \A n \in DOMAIN waves : n \in DOMAIN device.memory
  <2>1. info \in Seq(Info)
    BY DeviceParts DEF TypeInv
  <2>2. ASSUME NEW n \in DOMAIN waves PROVE n \in Played(info)
    <3>1. n + 1 \in DOMAIN info /\ info[n + 1].name # "filler" /\ n = (n + 1) - 1
      BY <1>2, <2>1
    <3>. QED BY <3>1 DEF Played
  <2>. QED BY <1>1, <2>2
<1>4. read = indexes
  BY <1>2, <1>3
<1>5. ReadBack(indexes) =
        [n \in read |-> Native(device.memory[n], info[n + 1].channels, 1 \in info[n + 1].bits)]
  BY DEF ReadBack
<1>6. ASSUME NEW n \in indexes
      PROVE  Native(device.memory[n], info[n + 1].channels, 1 \in info[n + 1].bits)
               = Reals(waves[n])
  <2>1. waves[n] \in Wave /\ Described(waves[n])
    BY <1>2
  <2>2. Native(RawVector(waves[n]), Channels(waves[n]), 1 \in Markers(waves[n]).bits)
          = Reals(waves[n])
    BY <2>1, NativeOfRaw
  <2>3. /\ device.memory[n] = RawVector(waves[n])
        /\ info[n + 1].channels = Channels(waves[n])
        /\ info[n + 1].bits = Markers(waves[n]).bits
    BY <1>2
  <2>. QED BY <2>2, <2>3
<1>. HIDE DEF read, info
<1>. QED BY <1>4, <1>5, <1>6

-----------------------------------------------------------------------------
(* The actions.                                                            *)

LEMMA IssueType ==
  ASSUME TypeInv, NEW commands \in Seq(Command), Issue(commands)
  PROVE  /\ device' \in DeviceState /\ queue' \in Seq(Command)
         /\ ~open => queue' = << >> /\ device' = ExecutedAll(device, commands)
         /\ open => device' = device
<1>1. device \in DeviceState /\ queue \in Seq(Command) /\ open \in BOOLEAN
      /\ (~open => queue = << >>)
  BY DEF TypeInv
<1>2. CASE open
  <2>1. queue \o commands \in Seq(Command)
    <3>. SUFFICES ASSUME NEW q \in Seq(Command) PROVE q \o commands \in Seq(Command)
      BY <1>1
    <3>. QED BY Concatenated
  <2>. QED BY <1>1, <1>2, <2>1 DEF Issue
<1>3. CASE ~open
  BY <1>1, <1>3, ExecutedAllType DEF Issue
<1>. QED BY <1>1, <1>2, <1>3

\* The slots of a set of waveforms are finitely many.
LEMMA SlotsFinite ==
  ASSUME NEW D \in SUBSET Slot
  PROVE  IsFiniteSet(D) /\ Cardinality(D) \in Nat /\ Cardinality(D) <= MaxSlot + 1
<1>1. IsFiniteSet(Slot) /\ Cardinality(Slot) = MaxSlot + 1
  BY AwgAssumption, FS_Interval DEF Slot
<1>. QED BY <1>1, FS_Subset, FS_CardinalityType

\* The waveforms one write uploads.
WriteOrders(indexes) ==
  SetToSeqs(IF indexes = {} THEN DOMAIN waves ELSE DOMAIN waves \cap indexes)
Unconvertible(order) == {i \in DOMAIN order : ~Convertible(waves[order[i]])}
Uploaded(order) ==
  IF Unconvertible(order) = {} THEN Len(order)
  ELSE (CHOOSE i \in Unconvertible(order) : \A j \in Unconvertible(order) : i <= j) - 1
Uploads(order) ==
  [i \in 1..Uploaded(order) |-> [wave |-> RawVector(waves[order[i]]), slot |-> order[i]]]

LEMMA UploadFacts ==
  ASSUME TypeInv, NEW indexes \in SUBSET Slot, NEW order \in WriteOrders(indexes)
  PROVE  /\ Uploads(order) \in Seq(WaveCommand)
         /\ \A i \in 1..Len(Uploads(order)) :
              /\ order[i] \in DOMAIN waves
              /\ Uploads(order)[i].slot = order[i]
              /\ Uploads(order)[i].wave = RawVector(waves[order[i]])
<1> DEFINE D == IF indexes = {} THEN DOMAIN waves ELSE DOMAIN waves \cap indexes
           n == Uploaded(order)
           bad == Unconvertible(order)
<1>1. waves \in SlotsOf(Wave)
  BY DEF TypeInv
<1>2. DOMAIN waves \subseteq Slot /\ \A m \in DOMAIN waves : waves[m] \in Wave
  BY <1>1, SlotsOfFacts
<1>3. IsFiniteSet(D) /\ D \subseteq DOMAIN waves
  <2>1. D \subseteq DOMAIN waves /\ D \in SUBSET Slot
    BY <1>2
  <2>. HIDE DEF D
  <2>. QED BY <2>1, SlotsFinite
<1>4. Len(order) \in Nat /\ DOMAIN order = 1..Len(order)
      /\ \A i \in 1..Len(order) : order[i] \in D
  <2>1. order \in SetToSeqs(D)
    BY DEF WriteOrders
  <2>. HIDE DEF D
  <2>2. order \in Seq(D) /\ Len(order) \in Nat /\ DOMAIN order = 1..Len(order)
    BY <1>3, <2>1, OrderFacts
  <2>. QED BY <2>2
<1>. HIDE DEF D
<1>5. n \in 0..Len(order)
  <2>1. CASE bad = {}
    BY <1>4, <2>1 DEF Uploaded
  <2>2. CASE bad # {}
    <3>1. bad \in SUBSET Nat /\ bad \subseteq 1..Len(order)
      BY <1>4 DEF Unconvertible
    <3> DEFINE first == CHOOSE i \in bad : \A j \in bad : i <= j
    <3>2. n = first - 1
      BY <2>2 DEF Uploaded
    <3>. HIDE DEF bad, n
    <3>3. first \in bad
      BY <2>2, <3>1, LeastNat
    <3>. HIDE DEF first
    <3>. QED BY <1>4, <3>1, <3>2, <3>3
  <2>. QED BY <2>1, <2>2
<1>6. Uploads(order) = [i \in 1..n |-> [wave |-> RawVector(waves[order[i]]), slot |-> order[i]]]
  BY DEF Uploads
<1>. HIDE DEF n
<1>7. \A i \in 1..n : order[i] \in DOMAIN waves /\ order[i] \in Slot
  BY <1>2, <1>3, <1>4, <1>5
<1>8. ASSUME NEW i \in 1..n
      PROVE  [wave |-> RawVector(waves[order[i]]), slot |-> order[i]] \in WaveCommand
  <2>1. RawVector(waves[order[i]]) \in Vector
    BY <1>2, <1>7, VectorType
  <2>. QED BY <1>7, <2>1 DEF WaveCommand
<1>9. Uploads(order) \in Seq(WaveCommand) /\ Len(Uploads(order)) = n
  <2>1. n \in Nat
    BY <1>4, <1>5
  <2>. QED BY <1>6, <1>8, <2>1
<1>10. \A i \in 1..n : /\ Uploads(order)[i].slot = order[i]
                       /\ Uploads(order)[i].wave = RawVector(waves[order[i]])
  BY <1>6
<1>. QED BY <1>7, <1>9, <1>10

\* The commands of a write to a generator.
Replaces(clear_existing, order) ==
  (IF clear_existing THEN <<[clear |-> TRUE]>> ELSE << >>)
  \o [i \in DOMAIN order |-> [pulse |-> ComplexVector(waves[order[i]]), slot |-> order[i]]]

LEMMA ReplacesFacts ==
  ASSUME TypeInv, NEW clear_existing \in BOOLEAN, NEW order \in SetToSeqs(DOMAIN waves)
  PROVE  /\ Replaces(clear_existing, order) \in Seq(PulseCommand)
         /\ clear_existing =>
              /\ Len(Replaces(clear_existing, order)) = Len(order) + 1
              /\ Replaces(clear_existing, order)[1] \in [clear : {TRUE}]
              /\ \A i \in 1..Len(order) :
                   Replaces(clear_existing, order)[i + 1]
                     = [pulse |-> ComplexVector(waves[order[i]]), slot |-> order[i]]
<1> DEFINE D == DOMAIN waves
           n == Len(order)
           Pulse1(i) == [pulse |-> ComplexVector(waves[order[i]]), slot |-> order[i]]
           A == IF clear_existing THEN <<[clear |-> TRUE]>> ELSE << >>
           B == [i \in 1..n |-> Pulse1(i)]
<1>1. waves \in SlotsOf(Wave)
  BY DEF TypeInv
<1>2. D \in SUBSET Slot /\ \A m \in D : waves[m] \in Wave
  BY <1>1, SlotsOfFacts
<1>3. n \in Nat /\ DOMAIN order = 1..n /\ \A i \in 1..n : order[i] \in D
  <2>1. order \in SetToSeqs(D)
    OBVIOUS
  <2>. HIDE DEF D
  <2>2. IsFiniteSet(D)
    BY <1>2, SlotsFinite
  <2>3. order \in Seq(D) /\ Len(order) \in Nat /\ DOMAIN order = 1..Len(order)
    BY <2>1, <2>2, OrderFacts
  <2>. QED BY <2>3
<1>. HIDE DEF D
<1>4. \A i \in 1..n : Pulse1(i) \in PulseCommand
  <2>. SUFFICES ASSUME NEW i \in 1..n PROVE Pulse1(i) \in PulseCommand
    OBVIOUS
  <2>1. order[i] \in Slot /\ ComplexVector(waves[order[i]]) \in Pulse
    BY <1>2, <1>3, VectorType
  <2>. QED BY <2>1 DEF PulseCommand
<1>5. A \in Seq(PulseCommand) /\ (clear_existing => Len(A) = 1 /\ A[1] = [clear |-> TRUE])
  <2> DEFINE c == [clear |-> TRUE]
  <2>1. c \in PulseCommand
    BY DEF PulseCommand
  <2>2. A = IF clear_existing THEN <<c>> ELSE << >>
    OBVIOUS
  <2>. HIDE DEF c, A
  <2>3. A \in Seq(PulseCommand) /\ (clear_existing => Len(A) = 1 /\ A[1] = c)
    BY <2>1, <2>2
  <2>. QED BY <2>3 DEF c
<1>6. Replaces(clear_existing, order) = A \o B
  BY <1>3 DEF Replaces
<1>. HIDE DEF n, Pulse1, A
<1>7. B \in Seq(PulseCommand) /\ Len(B) = n /\ \A i \in 1..n : B[i] = Pulse1(i)
  BY <1>3, <1>4
<1>. HIDE DEF B
<1> DEFINE C == A \o B
<1>8. C = Replaces(clear_existing, order)
  BY <1>6
<1>9. /\ C \in Seq(PulseCommand) /\ Len(C) = Len(A) + Len(B)
      /\ \A i \in 1..Len(A) : C[i] = A[i]
      /\ \A i \in 1..Len(B) : C[Len(A) + i] = B[i]
  <2>1. A \in Seq(PulseCommand) /\ B \in Seq(PulseCommand)
    BY <1>5, <1>7
  <2>2. ASSUME NEW a \in Seq(PulseCommand), NEW b \in Seq(PulseCommand)
        PROVE  /\ a \o b \in Seq(PulseCommand) /\ Len(a \o b) = Len(a) + Len(b)
               /\ \A i \in 1..Len(a) : (a \o b)[i] = a[i]
               /\ \A i \in 1..Len(b) : (a \o b)[Len(a) + i] = b[i]
    BY Concatenated
  <2>3. /\ A \o B \in Seq(PulseCommand) /\ Len(A \o B) = Len(A) + Len(B)
        /\ \A i \in 1..Len(A) : (A \o B)[i] = A[i]
        /\ \A i \in 1..Len(B) : (A \o B)[Len(A) + i] = B[i]
    BY <2>1, <2>2, Zenon
  <2>. QED BY <2>3
<1>. HIDE DEF C
<1>10. ASSUME clear_existing
       PROVE  /\ Len(C) = n + 1 /\ C[1] \in [clear : {TRUE}]
              /\ \A i \in 1..n : C[i + 1] = Pulse1(i)
  <2>1. Len(A) = 1 /\ A[1] = [clear |-> TRUE]
    BY <1>5, <1>10
  <2>2. C[1] = [clear |-> TRUE] /\ Len(C) = 1 + n
    <3>1. 1 \in 1..Len(A)
      BY <2>1
    <3>2. C[1] = A[1]
      BY <1>9, <3>1
    <3>. QED BY <1>7, <1>9, <2>1, <3>2
  <2>3. ASSUME NEW i \in 1..n PROVE C[i + 1] = Pulse1(i)
    <3>1. C[1 + i] = B[i]
      BY <1>7, <1>9, <2>1
    <3>2. 1 + i = i + 1
      BY <1>3
    <3>. QED BY <1>7, <3>1, <3>2
  <2>4. 1 + n = n + 1 /\ [clear |-> TRUE] \in [clear : {TRUE}]
    BY <1>3
  <2>. QED BY <2>2, <2>3, <2>4
<1>. QED BY <1>8, <1>9, <1>10 DEF n, Pulse1

LEMMA StoredType ==
  ASSUME NEW v \in Seq(Part), Len(v) \in 1..3, v[1] \in Array,
         \A i \in 2..Len(v) : Given(v[i]) => v[i].len = v[1].len
  PROVE  Stored(v) \in Wave
<1> DEFINE part(i) == IF i \in DOMAIN v THEN v[i] ELSE NoPart
<1>1. NoPart \in Part /\ ~Given(NoPart)
  BY DEF Part, Given, NoPart
<1>2. DOMAIN v = 1..Len(v) /\ \A i \in 1..Len(v) : v[i] \in Part
  OBVIOUS
<1>3. \A i \in 1..3 : part(i) \in Part
  BY <1>1, <1>2
<1>4. part(1) = v[1]
  BY <1>2
<1>5. \A i \in 2..3 : Given(part(i)) => part(i).len = v[1].len
  BY <1>1, <1>2
<1>6. Stored(v) = [i \in 1..3 |-> part(i)]
  BY DEF Stored
<1>. HIDE DEF part
<1>. QED BY <1>3, <1>4, <1>5, <1>6 DEF Wave

LEMMA ValueStored ==
  ASSUME NEW v \in Value, ~Refused(v), \A i \in DOMAIN v : v[i].is # "list"
  PROVE  Stored(v) \in Wave
<1>1. v \in Seq(PartOf({"array", "list"}))
  BY AwgAssumption
<1>2. \A p \in PartOf({"array", "list"}) : p.is # "list" => p \in Part
  BY DEF PartOf, Part, Array
<1>3. Len(v) \in 1..3 /\ v[1].is = "array"
      /\ \A i \in 2..Len(v) : Given(v[i]) => v[i].len = v[1].len
  BY DEF Refused
<1>4. \A i \in 1..Len(v) : v[i] \in Part
  BY <1>1, <1>2
<1>5. v \in Seq(Part)
  <2>1. v = [i \in 1..Len(v) |-> v[i]] /\ Len(v) \in Nat
    BY <1>1
  <2>. QED BY <1>4, <2>1
<1>6. v[1] \in Array
  <2>1. v[1] \in Part /\ Given(v[1])
    BY <1>3, <1>4 DEF Given
  <2>. QED BY <2>1, PartFacts
<1>. QED BY <1>3, <1>5, <1>6, StoredType

LEMMA InitInv ==
  Init => AwgInv
<1>. SUFFICES ASSUME Init PROVE AwgInv
  OBVIOUS
<1>1. device \in DeviceState
  <2>1. Played(<< >>) = {} /\ << >> \in Seq(Info)
    BY DEF Played
  <2>2. Empty \in [{} -> Vector]
    BY DEF Empty
  <2>. QED BY <2>1, <2>2, EmptySlots, DeviceFacts DEF Init
<1>2. 0 \in 0..MaxCalls /\ << >> \in Seq(Command)
  BY AwgAssumption
<1>. QED BY <1>1, <1>2, EmptySlots DEF Init, AwgInv, TypeInv, Fits

LEMMA CallCounted ==
  ASSUME TypeInv, NEW op, NEW how, Returns(op, how)
  PROVE  calls' \in 0..MaxCalls
BY AwgAssumption DEF TypeInv, Returns

LEMMA SetInv ==
  ASSUME AwgInv, NEW slot \in Slot, NEW v \in Value, SetWaveform(slot, v)
  PROVE  AwgInv'
<1>1. TypeInv /\ Fits
  BY DEF AwgInv
<1>2. calls' \in 0..MaxCalls
  BY <1>1, CallCounted DEF SetWaveform
<1>3. CASE Refused(v) \/ \E i \in DOMAIN v : v[i].is = "list"
  <2>1. UNCHANGED <<waves, validated>>
    BY <1>3 DEF SetWaveform
  <2>. QED BY <1>1, <1>2, <2>1, EmptySlots DEF SetWaveform, AwgInv, TypeInv, Fits
<1>4. CASE ~(Refused(v) \/ \E i \in DOMAIN v : v[i].is = "list")
  <2>1. waves' = With(waves, slot, Stored(v)) /\ validated' = FALSE
    BY <1>4 DEF SetWaveform
  <2>2. waves' \in SlotsOf(Wave)
    BY <1>1, <1>4, <2>1, ValueStored, WithSlot DEF TypeInv
  <2>. QED BY <1>1, <1>2, <2>1, <2>2, EmptySlots DEF SetWaveform, AwgInv, TypeInv, Fits
<1>. QED BY <1>3, <1>4

LEMMA DeleteInv ==
  ASSUME AwgInv, NEW slot \in Slot, DelItem(slot)
  PROVE  AwgInv'
<1>1. TypeInv /\ Fits
  BY DEF AwgInv
<1>2. calls' \in 0..MaxCalls
  BY <1>1, CallCounted DEF DelItem
<1>3. waves' \in SlotsOf(Wave)
  <2>1. DOMAIN waves \subseteq Slot /\ \A n \in DOMAIN waves : waves[n] \in Wave
    BY <1>1, SlotsOfFacts DEF TypeInv
  <2>2. waves' = [n \in DOMAIN waves \ {slot} |-> waves[n]]
    BY DEF DelItem
  <2> DEFINE D == DOMAIN waves \ {slot}
  <2>3. waves' \in [D -> Wave] /\ D \subseteq Slot
    BY <2>1, <2>2
  <2>. HIDE DEF D
  <2>. QED BY <2>3, SlotsOfFacts
<1>. QED BY <1>1, <1>2, <1>3, EmptySlots DEF DelItem, AwgInv, TypeInv, Fits

LEMMA LoadInv ==
  ASSUME AwgInv, LoadSequencerProgram
  PROVE  AwgInv'
<1>1. TypeInv /\ Fits
  BY DEF AwgInv
<1>2. calls' \in 0..MaxCalls
  BY <1>1, CallCounted DEF LoadSequencerProgram
<1>3. CASE UNCHANGED <<device, queue>>
  BY <1>1, <1>2, <1>3, EmptySlots DEF LoadSequencerProgram, AwgInv, TypeInv, Fits
<1>4. CASE Issue(<<[elf |-> Compile(waves, sequence)]>>)
  <2> DEFINE c == [elf |-> Compile(waves, sequence)]
  <2>1. c \in Command
    <3>1. waves \in SlotsOf(Wave) /\ sequence.code \in Code
      BY <1>1 DEF TypeInv
    <3>2. Compile(waves, sequence) \in Seq(Info)
      BY <3>1, CompileFacts
    <3>. QED BY <3>2 DEF Command
  <2>2. <<c>> \in Seq(Command)
    <3>. HIDE DEF c
    <3>. QED BY <2>1
  <2>3. /\ device' \in DeviceState /\ queue' \in Seq(Command)
        /\ ~open => queue' = << >>
        /\ open => device' = device
    <3>. HIDE DEF c
    <3>1. Issue(<<c>>)
      BY <1>4 DEF c
    <3>. QED BY <1>1, <2>2, <3>1, IssueType
  <2>. QED BY <1>1, <1>2, <2>3, EmptySlots DEF LoadSequencerProgram, AwgInv, TypeInv, Fits
<1>. QED BY <1>3, <1>4 DEF LoadSequencerProgram

LEMMA ValidateInv ==
  ASSUME AwgInv, NEW allow_missing \in BOOLEAN, Validate(allow_missing)
  PROVE  AwgInv'
<1>1. TypeInv /\ Fits
  BY DEF AwgInv
<1> DEFINE errors == ValidationErrors(device.program, waves, allow_missing)
<1>2. CASE errors = {}
  <2> DEFINE info == device.program
             misfits == UNION {Misfit(info, waves, n) : n \in DOMAIN waves}
  <2>1. misfits = {}
    BY <1>2 DEF ValidationErrors
  <2>2. ASSUME NEW n \in DOMAIN waves
        PROVE  n < Len(info) /\ AtLeastOne(waves[n][1]).len = info[n + 1].len
    <3>1. Misfit(info, waves, n) = {}
      BY <2>1
    <3>2. ~(n >= Len(info))
      BY <3>1 DEF Misfit
    <3>3. AtLeastOne(waves[n][1]).len = info[n + 1].len
      BY <3>1, <3>2 DEF Misfit
    <3>4. n \in Nat /\ Len(info) \in Nat
      BY <1>1, SlotsOfFacts, DeviceParts DEF TypeInv, Slot
    <3>. QED BY <3>2, <3>3, <3>4
  <2>3. validated' = TRUE
    BY <1>2 DEF Validate
  <2>. QED BY <1>1, <2>2, <2>3, EmptySlots DEF Validate, AwgInv, TypeInv, Fits
<1>3. CASE errors # {}
  <2>1. validated' = validated
    BY <1>3 DEF Validate
  <2>. QED BY <1>1, <2>1, EmptySlots DEF Validate, AwgInv, TypeInv, Fits
<1>. QED BY <1>2, <1>3

\* What a write issues, and how it ends.
LEMMA WriteSteps ==
  ASSUME TypeInv, NEW indexes \in SUBSET Slot, WriteToWaveformMemory(indexes)
  PROVE  \E order \in WriteOrders(indexes) :
           \/ /\ Unconvertible(order) # {} /\ ~open /\ Issue(<< >>)
              /\ Returns("write", "ValueError")
           \/ /\ Unconvertible(order) = {} \/ open
              /\ Issue(Uploads(order))
              /\ Returns("write", IF Unconvertible(order) = {} THEN "returned" ELSE "ValueError")
<1>1. PICK order \in WriteOrders(indexes) :
        /\ Issue(IF Unconvertible(order) # {} /\ ~open THEN << >> ELSE Uploads(order))
        /\ Returns("write", IF Unconvertible(order) = {} THEN "returned" ELSE "ValueError")
  BY DEF WriteToWaveformMemory, WriteOrders, Uploads, Uploaded, Unconvertible
<1>2. CASE Unconvertible(order) # {} /\ ~open
  BY <1>1, <1>2
<1>3. CASE ~(Unconvertible(order) # {} /\ ~open)
  BY <1>1, <1>3
<1>. QED BY <1>2, <1>3

\* Writing waveforms leaves the program in the device alone.
LEMMA WriteDevice ==
  ASSUME TypeInv, NEW indexes \in SUBSET Slot, WriteToWaveformMemory(indexes)
  PROVE  /\ device' \in DeviceState /\ queue' \in Seq(Command)
         /\ ~open => queue' = << >>
         /\ device'.program = device.program
         /\ \A n \in DOMAIN device'.memory :
              device'.memory[n] = device.memory[n]
              \/ (n \in DOMAIN waves /\ device'.memory[n] = RawVector(waves[n]))
         /\ ~open /\ last'.how = "ValueError" => device' = device
         /\ calls' \in 0..MaxCalls
<1>1. PICK order \in WriteOrders(indexes) :
        \/ /\ Unconvertible(order) # {} /\ ~open /\ Issue(<< >>)
           /\ Returns("write", "ValueError")
        \/ /\ Unconvertible(order) = {} \/ open
           /\ Issue(Uploads(order))
           /\ Returns("write", IF Unconvertible(order) = {} THEN "returned" ELSE "ValueError")
  BY WriteSteps
<1>2. calls' \in 0..MaxCalls
  BY <1>1, CallCounted
<1>3. device \in DeviceState
  BY DEF TypeInv
<1> DEFINE none == << >>
<1>4. none \in Seq(Command) /\ Len(none) = 0
  OBVIOUS
<1>5. ExecutedAll(device, none) = device
  <2>1. PICK after : after[0] = device /\ after[0] = ExecutedAll(device, none)
    <3>. HIDE DEF none
    <3>1. \E after : after[0] = device /\ after[Len(none)] = ExecutedAll(device, none)
      <4>1. Len(none) \in Nat
        BY <1>4
      <4>. QED BY <4>1, ExecutedAllSteps
    <3>. QED BY <1>4, <3>1
  <2>. QED BY <2>1
<1>6. CASE /\ Unconvertible(order) # {} /\ ~open /\ Issue(none)
           /\ Returns("write", "ValueError")
  <2>. HIDE DEF none
  <2>1. device' \in DeviceState /\ queue' \in Seq(Command) /\ queue' = << >> /\ device' = device
    BY <1>4, <1>5, <1>6, IssueType
  <2>. QED BY <1>2, <1>6, <2>1
<1>7. CASE /\ Unconvertible(order) = {} \/ open
           /\ Issue(Uploads(order))
           /\ Returns("write", IF Unconvertible(order) = {} THEN "returned" ELSE "ValueError")
  <2> DEFINE commands == Uploads(order)
  <2>1. /\ commands \in Seq(WaveCommand)
        /\ \A i \in 1..Len(commands) :
             /\ order[i] \in DOMAIN waves
             /\ commands[i].slot = order[i]
             /\ commands[i].wave = RawVector(waves[order[i]])
    BY UploadFacts
  <2>. HIDE DEF commands
  <2>2. commands \in Seq(Command)
    <3>1. \A c \in WaveCommand : c \in Command
      BY DEF WaveCommand, Command
    <3>. QED BY <2>1, <3>1
  <2>3. /\ device' \in DeviceState /\ queue' \in Seq(Command)
        /\ ~open => queue' = << >> /\ device' = ExecutedAll(device, commands)
        /\ open => device' = device
    <3>1. Issue(commands)
      BY <1>7 DEF commands
    <3>. QED BY <2>2, <3>1, IssueType
  <2>4. CASE open
    BY <1>2, <2>3, <2>4
  <2>5. CASE ~open
    <3> DEFINE e == ExecutedAll(device, commands)
    <3>1. /\ e.program = device.program
          /\ \A n \in DOMAIN e.memory :
               e.memory[n] = device.memory[n]
               \/ \E i \in 1..Len(commands) :
                    commands[i].slot = n /\ e.memory[n] = commands[i].wave
      BY <1>3, <2>1, WavesExecuted
    <3>2. device' = e
      BY <2>3, <2>5
    <3>. HIDE DEF e
    <3>3. \A n \in DOMAIN e.memory :
             e.memory[n] = device.memory[n]
             \/ (n \in DOMAIN waves /\ e.memory[n] = RawVector(waves[n]))
      BY <2>1, <3>1
    <3>4. last'.how = "returned"
      BY <1>7, <2>5 DEF Returns, Ends
    <3>. QED BY <1>2, <2>3, <2>5, <3>1, <3>2, <3>3, <3>4
  <2>. QED BY <2>4, <2>5
<1>. QED BY <1>1, <1>6, <1>7

LEMMA WriteInv ==
  ASSUME AwgInv, NEW indexes \in SUBSET Slot, WriteToWaveformMemory(indexes)
  PROVE  AwgInv'
<1>1. TypeInv /\ Fits
  BY DEF AwgInv
<1>2. /\ device' \in DeviceState /\ queue' \in Seq(Command)
      /\ ~open => queue' = << >>
      /\ device'.program = device.program
      /\ calls' \in 0..MaxCalls
  BY <1>1, WriteDevice
<1>. QED BY <1>1, <1>2, EmptySlots DEF WriteToWaveformMemory, AwgInv, TypeInv, Fits

LEMMA ReadInv ==
  ASSUME AwgInv, NEW indexes \in SUBSET Slot, ReadFromWaveformMemory(indexes)
  PROVE  AwgInv'
<1>1. TypeInv /\ Fits
  BY DEF AwgInv
<1> DEFINE info == device.program
           read == {n \in indexes \cap DOMAIN device.memory :
                      n < Len(info) /\ info[n + 1].name # "filler"}
           native(n) == Native(device.memory[n], info[n + 1].channels, 1 \in info[n + 1].bits)
<1>2. /\ info \in Seq(Info) /\ DOMAIN device.memory = Played(info)
      /\ \A n \in DOMAIN device.memory : device.memory[n] \in Vector
  BY <1>1, DeviceParts DEF TypeInv
<1>3. ASSUME NEW n \in read PROVE native(n) \in Wave
  <2>1. n \in Nat /\ n < Len(info) /\ n \in DOMAIN device.memory
    <3>1. n \in Slot /\ n < Len(info) /\ n \in DOMAIN device.memory
      OBVIOUS
    <3>. HIDE DEF info, read
    <3>. QED BY <3>1, AwgAssumption DEF Slot
  <2>2. info[n + 1] \in Info
    <3>1. n + 1 \in 1..Len(info)
      BY <1>2, <2>1
    <3>. QED BY <1>2, <3>1
  <2>3. info[n + 1].channels \in Channel /\ (1 \in info[n + 1].bits) \in BOOLEAN
    BY <2>2 DEF Info
  <2>4. device.memory[n] \in Vector
    BY <1>2, <2>1
  <2>. QED BY <2>3, <2>4, NativeType
<1>4. back' = [n \in read |-> native(n)]
  BY DEF ReadFromWaveformMemory, ReadBack
<1>5. read \subseteq Slot
  OBVIOUS
<1>. HIDE DEF read, native
<1>6. back' \in SlotsOf(Wave)
  <2>1. back' \in [read -> Wave]
    BY <1>3, <1>4
  <2>. QED BY <1>5, <2>1, SlotsOfFacts
<1>. QED BY <1>1, <1>6 DEF ReadFromWaveformMemory, AwgInv, TypeInv, Fits

LEMMA UseInv ==
  ASSUME AwgInv, UseRead
  PROVE  AwgInv'
<1>1. calls' \in 0..MaxCalls
  BY CallCounted DEF UseRead, AwgInv
<1>. QED BY <1>1, EmptySlots DEF UseRead, AwgInv, TypeInv, Fits

\* Writing pulses leaves the program alone, and replacing them leaves these.
LEMMA GeneratorDevice ==
  ASSUME TypeInv, NEW clear_existing \in BOOLEAN, GeneratorWrite(clear_existing)
  PROVE  /\ device' \in DeviceState /\ queue' \in Seq(Command)
         /\ ~open => queue' = << >>
         /\ device'.program = device.program
         /\ last'.op = "replace" /\ ~open => device'.pulses = PulsesOf(waves)
         /\ last'.op \in {"replace", "pulses"}
         /\ calls' \in 0..MaxCalls
<1>1. calls' \in 0..MaxCalls /\ last'.op \in {"replace", "pulses"}
  <2>1. PICK op \in {"replace", "pulses"} : \E how : Returns(op, how)
    BY DEF GeneratorWrite
  <2>2. last'.op = op
    BY <2>1 DEF Returns, Ends
  <2>. QED BY <2>1, <2>2, CallCounted
<1>2. device \in DeviceState /\ queue \in Seq(Command) /\ (~open => queue = << >>)
      /\ waves \in SlotsOf(Wave)
  BY DEF TypeInv
<1>3. CASE \E n \in DOMAIN waves : n >= MaxQubits
  <2>1. last'.op = "pulses" /\ UNCHANGED <<device, queue>>
    BY <1>3 DEF GeneratorWrite, Returns, Ends
  <2>. QED BY <1>1, <1>2, <2>1
<1>4. CASE ~ \E n \in DOMAIN waves : n >= MaxQubits
  <2>1. PICK order \in SetToSeqs(DOMAIN waves) :
          /\ Returns(IF clear_existing THEN "replace" ELSE "pulses", "returned")
          /\ Issue(Replaces(clear_existing, order))
    BY <1>4 DEF GeneratorWrite, Replaces
  <2> DEFINE commands == Replaces(clear_existing, order)
  <2>2. /\ commands \in Seq(PulseCommand)
        /\ clear_existing =>
             /\ Len(commands) = Len(order) + 1
             /\ commands[1] \in [clear : {TRUE}]
             /\ \A i \in 1..Len(order) :
                  commands[i + 1] = [pulse |-> ComplexVector(waves[order[i]]), slot |-> order[i]]
    BY ReplacesFacts
  <2>3. Issue(commands)
    BY <2>1
  <2>. HIDE DEF commands
  <2>4. commands \in Seq(Command)
    <3>1. \A c \in PulseCommand : c \in Command
      BY DEF PulseCommand, Command
    <3>. QED BY <2>2, <3>1
  <2>5. /\ device' \in DeviceState /\ queue' \in Seq(Command)
        /\ ~open => queue' = << >> /\ device' = ExecutedAll(device, commands)
        /\ open => device' = device
    BY <2>3, <2>4, IssueType
  <2>6. ExecutedAll(device, commands).program = device.program
    BY <1>2, <2>2, PulsesExecuted
  <2>7. ASSUME clear_existing
        PROVE  ExecutedAll(device, commands).pulses = PulsesOf(waves)
    <3>1. DOMAIN waves \in SUBSET Slot /\ \A n \in DOMAIN waves : ComplexVector(waves[n]) \in Pulse
      BY <1>2, SlotsOfFacts, VectorType
    <3>2. IsFiniteSet(DOMAIN waves)
      BY <3>1, SlotsFinite
    <3> DEFINE d == device
               ws == waves
    <3>3. /\ d \in DeviceState /\ IsFiniteSet(DOMAIN ws) /\ DOMAIN ws \subseteq Slot
          /\ \A n \in DOMAIN ws : ComplexVector(ws[n]) \in Pulse
          /\ order \in SetToSeqs(DOMAIN ws)
          /\ commands \in Seq(PulseCommand) /\ Len(commands) = Len(order) + 1
          /\ commands[1] \in [clear : {TRUE}]
          /\ \A i \in 1..Len(order) :
               commands[i + 1] = [pulse |-> ComplexVector(ws[order[i]]), slot |-> order[i]]
      BY <1>2, <2>2, <2>7, <3>1, <3>2
    <3>. HIDE DEF d, ws
    <3>4. ExecutedAll(d, commands).pulses = PulsesOf(ws)
      BY <3>3, PulsesReplaced
    <3>. QED BY <3>4 DEF d, ws
  <2>8. last'.op = "replace" => clear_existing
    BY <2>1 DEF Returns, Ends
  <2>. QED BY <1>1, <2>5, <2>6, <2>7, <2>8
<1>. QED BY <1>3, <1>4

LEMMA GeneratorWriteInv ==
  ASSUME AwgInv, NEW clear_existing \in BOOLEAN, GeneratorWrite(clear_existing)
  PROVE  AwgInv'
<1>1. TypeInv /\ Fits
  BY DEF AwgInv
<1>2. /\ device' \in DeviceState /\ queue' \in Seq(Command)
      /\ ~open => queue' = << >>
      /\ device'.program = device.program
      /\ calls' \in 0..MaxCalls
  BY <1>1, GeneratorDevice
<1>. QED BY <1>1, <1>2, EmptySlots DEF GeneratorWrite, AwgInv, TypeInv, Fits

LEMMA GeneratorReadInv ==
  ASSUME AwgInv, GeneratorRead
  PROVE  AwgInv'
<1>1. TypeInv /\ Fits
  BY DEF AwgInv
<1> DEFINE D == DOMAIN device.pulses
<1>2. D \in SUBSET Slot /\ \A n \in D : device.pulses[n] \in Pulse
  BY <1>1, SlotsOfFacts, DeviceParts DEF TypeInv
<1> DEFINE wave(n) == Stored(<<[is |-> "array", complex |-> TRUE, bits |-> {},
                                len |-> device.pulses[n].len]>>)
<1>3. ASSUME NEW n \in D PROVE wave(n) \in Wave
  <2> DEFINE a == [is |-> "array", complex |-> TRUE, bits |-> {}, len |-> device.pulses[n].len]
  <2>1. a \in Array
    BY <1>2 DEF Array, Pulse
  <2>2. a \in Part
    BY <2>1 DEF Part
  <2>. HIDE DEF a
  <2> DEFINE v == <<a>>
  <2>3. v \in Seq(Part) /\ Len(v) = 1 /\ v[1] \in Array
    BY <2>1, <2>2
  <2>. HIDE DEF v
  <2>4. Stored(v) \in Wave
    BY <2>3, StoredType
  <2>. QED BY <2>4 DEF v, a
<1>4. PICK slots \in SetToSeqs(D) : back' = [k \in 0..(Len(slots) - 1) |-> wave(slots[k + 1])]
  BY DEF GeneratorRead
<1>. HIDE DEF D, wave
<1>5. /\ Len(slots) \in Nat /\ Len(slots) <= MaxSlot + 1
      /\ \A k \in 1..Len(slots) : slots[k] \in D
  <2>1. IsFiniteSet(D) /\ Cardinality(D) <= MaxSlot + 1
    BY <1>2, SlotsFinite
  <2>2. slots \in Seq(D) /\ Len(slots) = Cardinality(D) /\ Len(slots) \in Nat
    BY <2>1, OrderFacts
  <2>. QED BY <2>1, <2>2
<1>6. back' \in SlotsOf(Wave)
  <2> DEFINE S == 0..(Len(slots) - 1)
  <2>1. S \subseteq Slot
    BY <1>5, AwgAssumption DEF Slot
  <2>2. \A k \in S : wave(slots[k + 1]) \in Wave
    <3>1. \A k \in S : k + 1 \in 1..Len(slots)
      BY <1>5
    <3>. QED BY <1>3, <1>5, <3>1
  <2>3. back' \in [S -> Wave]
    BY <1>4, <2>2
  <2>. HIDE DEF S
  <2>. QED BY <2>1, <2>3, SlotsOfFacts
<1>. QED BY <1>1, <1>6 DEF GeneratorRead, AwgInv, TypeInv, Fits

LEMMA BlockInv ==
  ASSUME AwgInv, EnterBlock \/ LeaveBlock \/ AbortBlock
  PROVE  AwgInv'
<1>1. TypeInv /\ Fits
  BY DEF AwgInv
<1>2. calls' \in 0..MaxCalls
  BY <1>1, CallCounted DEF EnterBlock, LeaveBlock, AbortBlock
<1>3. << >> \in Seq(Command)
  OBVIOUS
<1>4. CASE EnterBlock
  BY <1>1, <1>2, <1>4, EmptySlots DEF EnterBlock, AwgInv, TypeInv, Fits
<1>5. CASE LeaveBlock
  <2>1. device' \in DeviceState
    BY <1>1, <1>5, ExecutedAllType DEF LeaveBlock, TypeInv
  <2>. QED BY <1>1, <1>2, <1>3, <1>5, <2>1, EmptySlots DEF LeaveBlock, AwgInv, TypeInv, Fits
<1>6. CASE AbortBlock
  BY <1>1, <1>2, <1>3, <1>6, EmptySlots DEF AbortBlock, AwgInv, TypeInv, Fits
<1>. QED BY <1>4, <1>5, <1>6

LEMMA NextInv ==
  AwgInv /\ [Next]_vars => AwgInv'
<1>. SUFFICES ASSUME AwgInv, [Next]_vars PROVE AwgInv'
  OBVIOUS
<1>1. CASE AssignWaveforms
  BY <1>1, SetInv, DeleteInv DEF AssignWaveforms
<1>2. CASE UseRead
  BY <1>2, UseInv
<1>3. CASE LoadSequencerProgram
  BY <1>3, LoadInv
<1>4. CASE \E allow_missing \in BOOLEAN : Validate(allow_missing)
  BY <1>4, ValidateInv
<1>5. CASE \E indexes \in SUBSET Slot :
             WriteToWaveformMemory(indexes) \/ ReadFromWaveformMemory(indexes)
  BY <1>5, WriteInv, ReadInv
<1>6. CASE \E clear_existing \in BOOLEAN : GeneratorWrite(clear_existing)
  BY <1>6, GeneratorWriteInv
<1>7. CASE GeneratorRead
  BY <1>7, GeneratorReadInv
<1>8. CASE EnterBlock \/ LeaveBlock \/ AbortBlock
  BY <1>8, BlockInv
<1>9. CASE UNCHANGED vars
  BY <1>9 DEF vars, AwgInv, TypeInv, Fits
<1>. QED BY <1>1, <1>2, <1>3, <1>4, <1>5, <1>6, <1>7, <1>8, <1>9 DEF Next

-----------------------------------------------------------------------------
(* The steps that upload.                                                  *)

\* Which action a step with an operation's name was.
LEMMA LastTells ==
  ASSUME [Next]_vars
  PROVE  /\ last'.op = "write" =>
              \/ \E indexes \in SUBSET Slot : WriteToWaveformMemory(indexes)
              \/ UNCHANGED vars
         /\ last'.op = "replace" =>
              \/ \E clear_existing \in BOOLEAN : GeneratorWrite(clear_existing)
              \/ UNCHANGED vars
<1>1. ASSUME NEW slot, NEW v, SetWaveform(slot, v) \/ DelItem(slot)
      PROVE  last'.op \in {"set", "delete"}
  BY <1>1 DEF SetWaveform, DelItem, Returns, Ends
<1>2. CASE AssignWaveforms
  BY <1>1, <1>2 DEF AssignWaveforms
<1>3. CASE UseRead \/ LoadSequencerProgram
  BY <1>3 DEF UseRead, LoadSequencerProgram, Returns, Ends
<1>4. ASSUME NEW allow_missing, Validate(allow_missing)
      PROVE  last'.op = "validate"
  BY <1>4 DEF Validate, Ends
<1>5. ASSUME NEW indexes, ReadFromWaveformMemory(indexes)
      PROVE  last'.op = "read"
  BY <1>5 DEF ReadFromWaveformMemory, Ends
<1>6. ASSUME NEW indexes, WriteToWaveformMemory(indexes)
      PROVE  last'.op = "write"
  BY <1>6 DEF WriteToWaveformMemory, Returns, Ends
<1>7. ASSUME NEW clear_existing, GeneratorWrite(clear_existing)
      PROVE  last'.op \in {"replace", "pulses"}
  <2>1. PICK op \in {"replace", "pulses"} : \E how : Returns(op, how)
    BY <1>7 DEF GeneratorWrite
  <2>. QED BY <2>1 DEF Returns, Ends
<1>8. CASE GeneratorRead
  BY <1>8 DEF GeneratorRead, Ends
<1>9. CASE EnterBlock \/ LeaveBlock \/ AbortBlock
  BY <1>9 DEF EnterBlock, LeaveBlock, AbortBlock, Returns, Ends
<1>10. CASE \E allow_missing \in BOOLEAN : Validate(allow_missing)
  BY <1>4, <1>10
<1>11. CASE \E indexes \in SUBSET Slot :
              WriteToWaveformMemory(indexes) \/ ReadFromWaveformMemory(indexes)
  BY <1>5, <1>6, <1>11
<1>12. CASE \E clear_existing \in BOOLEAN : GeneratorWrite(clear_existing)
  BY <1>7, <1>12
<1>. QED BY <1>2, <1>3, <1>8, <1>9, <1>10, <1>11, <1>12 DEF Next

LEMMA UploadFits ==
  ASSUME AwgInv, [Next]_vars
  PROVE  [last'.op = "write" /\ validated /\ ~open =>
            \A n \in DOMAIN device'.memory :
              device'.memory[n] # device.memory[n] =>
                device'.memory[n].len = device.program[n + 1].len]_vars
<1>. SUFFICES ASSUME last'.op = "write", validated, ~open, ~ UNCHANGED vars,
                     NEW n \in DOMAIN device'.memory,
                     device'.memory[n] # device.memory[n]
              PROVE  device'.memory[n].len = device.program[n + 1].len
  OBVIOUS
<1>1. TypeInv /\ Fits
  BY DEF AwgInv
<1>2. PICK indexes \in SUBSET Slot : WriteToWaveformMemory(indexes)
  BY LastTells
<1>3. n \in DOMAIN waves /\ device'.memory[n] = RawVector(waves[n])
  BY <1>1, <1>2, WriteDevice
<1>4. RawVector(waves[n]).len = AtLeastOne(waves[n][1]).len
  BY <1>1, <1>3, SlotsOfFacts, VectorType DEF TypeInv
<1>. QED BY <1>1, <1>3, <1>4 DEF Fits

LEMMA WholeWrites ==
  ASSUME AwgInv, [Next]_vars
  PROVE  [/\ last'.op = "write" /\ last'.how = "ValueError" => UNCHANGED device
          /\ last'.op = "replace" /\ ~open =>
               device'.pulses = [n \in DOMAIN waves |-> ComplexVector(waves[n])]]_vars
<1>1. TypeInv
  BY DEF AwgInv
<1>2. ASSUME last'.op = "write", last'.how = "ValueError", ~ UNCHANGED vars
      PROVE  UNCHANGED device
  <2>1. PICK indexes \in SUBSET Slot : WriteToWaveformMemory(indexes)
    BY <1>2, LastTells
  <2>2. CASE ~open
    BY <1>1, <1>2, <2>1, <2>2, WriteDevice
  <2>3. CASE open
    BY <2>1, <2>3 DEF WriteToWaveformMemory, Issue
  <2>. QED BY <2>2, <2>3
<1>3. ASSUME last'.op = "replace", ~open, ~ UNCHANGED vars
      PROVE  device'.pulses = [n \in DOMAIN waves |-> ComplexVector(waves[n])]
  <2>1. PICK clear_existing \in BOOLEAN : GeneratorWrite(clear_existing)
    BY <1>3, LastTells
  <2>. QED BY <1>1, <1>3, <2>1, GeneratorDevice DEF PulsesOf
<1>. QED BY <1>2, <1>3

-----------------------------------------------------------------------------
(* Constants in the text of a sequence.                                    *)

\* A line with at most one declaration.
ShortLine == {line \in Seq(Declaration) : Len(line) <= 1}

LEMMA ShortFacts ==
  ASSUME NEW line \in ShortLine
  PROVE  line \in Seq(Declaration) /\ Len(line) \in {0, 1} /\ DOMAIN line = 1..Len(line)
<1>1. line \in Seq(Declaration) /\ Len(line) <= 1
  BY DEF ShortLine
<1>2. Len(line) \in Nat /\ DOMAIN line = 1..Len(line)
  BY <1>1
<1>3. Len(line) \in {0, 1}
  BY <1>1, <1>2
<1>. QED BY <1>1, <1>2, <1>3

LEMMA DeclarationIn ==
  ASSUME NEW lines, NEW key, NEW x
  PROVE  x \in Declared(lines, key) <=>
           \E i \in DOMAIN lines : \E j \in DOMAIN lines[i] :
             lines[i][j][1] = key /\ x = lines[i][j][2]
BY DEF Declared, DeclaredIn

\* What a short line declares.
LEMMA ShortDeclares ==
  ASSUME NEW lines \in Seq(ShortLine), NEW key, NEW x
  PROVE  x \in Declared(lines, key) <=>
           \E i \in 1..Len(lines) :
             Len(lines[i]) = 1 /\ lines[i][1][1] = key /\ x = lines[i][1][2]
<1>1. ASSUME NEW i \in 1..Len(lines)
      PROVE  /\ Len(lines[i]) \in {0, 1} /\ DOMAIN lines[i] = 1..Len(lines[i])
  <2>1. lines[i] \in ShortLine
    OBVIOUS
  <2>. QED BY <2>1, ShortFacts
<1>2. DOMAIN lines = 1..Len(lines)
  OBVIOUS
<1>3. ASSUME NEW i \in 1..Len(lines), NEW j \in DOMAIN lines[i]
      PROVE  j = 1 /\ Len(lines[i]) = 1
  BY <1>1
<1>4. ASSUME NEW i \in 1..Len(lines), Len(lines[i]) = 1
      PROVE  1 \in DOMAIN lines[i]
  BY <1>1, <1>4
<1>. QED BY <1>2, <1>3, <1>4, DeclarationIn

\* Replacing in short lines exchanges those that declare the constant.
LEMMA ReplacedShort ==
  ASSUME NEW lines \in Seq(ShortLine), NEW c \in Declaration
  PROVE  /\ Replaced(lines, c) \in Seq(ShortLine) /\ Len(Replaced(lines, c)) = Len(lines)
         /\ \A i \in 1..Len(lines) :
              Replaced(lines, c)[i] =
                IF Len(lines[i]) = 1 /\ lines[i][1][1] = c[1] THEN <<c>> ELSE lines[i]
<1> DEFINE at(line) == {j \in DOMAIN line : line[j][1] = c[1]}
           new(line) == IF at(line) = {} THEN line
                        ELSE LET j == CHOOSE j \in at(line) : \A k \in at(line) : j <= k
                             IN  Append(SubSeq(line, 1, j - 1), c)
           short(line) == IF Len(line) = 1 /\ line[1][1] = c[1] THEN <<c>> ELSE line
<1>1. ASSUME NEW line \in ShortLine
      PROVE  new(line) = short(line) /\ short(line) \in ShortLine
  <2>1. line \in Seq(Declaration) /\ Len(line) \in {0, 1} /\ DOMAIN line = 1..Len(line)
    BY ShortFacts
  <2>2. CASE Len(line) = 1 /\ line[1][1] = c[1]
    <3>1. at(line) = {1}
      BY <2>1, <2>2
    <3>2. (CHOOSE j \in at(line) : \A k \in at(line) : j <= k) = 1
      BY <3>1
    <3>3. SubSeq(line, 1, 0) = << >>
      BY <2>1
    <3>4. Append(SubSeq(line, 1, 1 - 1), c) = <<c>>
      <4>1. 1 - 1 = 0
        OBVIOUS
      <4>2. Append(<< >>, c) = <<c>>
        OBVIOUS
      <4>. QED BY <3>3, <4>1, <4>2
    <3>5. new(line) = <<c>>
      BY <3>1, <3>2, <3>4
    <3>6. short(line) = <<c>>
      BY <2>2
    <3>7. <<c>> \in ShortLine
      BY DEF ShortLine
    <3>. QED BY <3>5, <3>6, <3>7
  <2>3. CASE ~(Len(line) = 1 /\ line[1][1] = c[1])
    <3>1. at(line) = {}
      BY <2>1, <2>3
    <3>. QED BY <2>3, <3>1
  <2>. QED BY <2>2, <2>3
<1>2. Replaced(lines, c) = [i \in DOMAIN lines |-> new(lines[i])]
  BY DEF Replaced
<1>. HIDE DEF new, short
<1>3. \A i \in 1..Len(lines) : lines[i] \in ShortLine
  OBVIOUS
<1>4. Replaced(lines, c) = [i \in 1..Len(lines) |-> short(lines[i])]
  BY <1>1, <1>2, <1>3
<1>5. /\ Replaced(lines, c) \in Seq(ShortLine) /\ Len(Replaced(lines, c)) = Len(lines)
      /\ \A i \in 1..Len(lines) : Replaced(lines, c)[i] = short(lines[i])
  <2>1. \A i \in 1..Len(lines) : short(lines[i]) \in ShortLine
    BY <1>1, <1>3
  <2>2. Len(lines) \in Nat
    OBVIOUS
  <2>. QED BY <1>4, <2>1, <2>2
<1>. QED BY <1>5 DEF short

LEMMA DeclaredConcatenated ==
  ASSUME NEW a \in Seq(ShortLine), NEW b \in Seq(ShortLine), NEW key
  PROVE  Declared(a \o b, key) = Declared(a, key) \cup Declared(b, key)
<1> DEFINE d(line, x) == Len(line) = 1 /\ line[1][1] = key /\ x = line[1][2]
           ab == a \o b
<1>1. /\ ab \in Seq(ShortLine) /\ Len(ab) = Len(a) + Len(b)
      /\ \A i \in 1..Len(a) : ab[i] = a[i]
      /\ \A i \in 1..Len(b) : ab[Len(a) + i] = b[i]
  BY Concatenated
<1>2. Len(a) \in Nat /\ Len(b) \in Nat
  OBVIOUS
<1>. HIDE DEF ab
<1>3. ASSUME NEW x
      PROVE  x \in Declared(ab, key) <=> x \in Declared(a, key) \/ x \in Declared(b, key)
  <2>1. /\ x \in Declared(ab, key) <=> \E i \in 1..Len(ab) : d(ab[i], x)
        /\ x \in Declared(a, key) <=> \E i \in 1..Len(a) : d(a[i], x)
        /\ x \in Declared(b, key) <=> \E i \in 1..Len(b) : d(b[i], x)
    <3>1. ASSUME NEW l \in Seq(ShortLine)
          PROVE  x \in Declared(l, key) <=> \E i \in 1..Len(l) : d(l[i], x)
      BY ShortDeclares
    <3>. HIDE DEF d
    <3>. QED BY <1>1, <3>1
  <2>. HIDE DEF d
  <2>2. ASSUME NEW i \in 1..Len(ab), d(ab[i], x)
        PROVE  (\E j \in 1..Len(a) : d(a[j], x)) \/ \E j \in 1..Len(b) : d(b[j], x)
    <3>1. CASE i <= Len(a)
      <4>1. i \in 1..Len(a)
        BY <1>1, <1>2, <3>1
      <4>. QED BY <1>1, <2>2, <4>1
    <3>2. CASE ~(i <= Len(a))
      <4> DEFINE j == i - Len(a)
      <4>1. j \in 1..Len(b) /\ Len(a) + j = i
        BY <1>1, <1>2, <3>2
      <4>. HIDE DEF j
      <4>. QED BY <1>1, <2>2, <4>1
    <3>. QED BY <3>1, <3>2
  <2>3. ASSUME NEW i \in 1..Len(a), d(a[i], x)
        PROVE  \E j \in 1..Len(ab) : d(ab[j], x)
    <3>1. i \in 1..Len(ab)
      BY <1>1, <1>2
    <3>. QED BY <1>1, <2>3, <3>1
  <2>4. ASSUME NEW i \in 1..Len(b), d(b[i], x)
        PROVE  \E j \in 1..Len(ab) : d(ab[j], x)
    <3>1. Len(a) + i \in 1..Len(ab) /\ ab[Len(a) + i] = b[i]
      BY <1>1, <1>2
    <3>. QED BY <2>4, <3>1
  <2>. QED BY <2>1, <2>2, <2>3, <2>4
<1>. QED BY <1>3 DEF ab

LEMMA DeclaredReplaced ==
  ASSUME NEW lines \in Seq(ShortLine), NEW c \in Declaration, NEW key
  PROVE  /\ key # c[1] => Declared(Replaced(lines, c), key) = Declared(lines, key)
         /\ key = c[1] /\ Declared(lines, key) # {} => Declared(Replaced(lines, c), key) = {c[2]}
<1> DEFINE d(line, x) == Len(line) = 1 /\ line[1][1] = key /\ x = line[1][2]
           r == Replaced(lines, c)
<1>1. /\ r \in Seq(ShortLine) /\ Len(r) = Len(lines)
      /\ \A i \in 1..Len(lines) :
           r[i] = IF Len(lines[i]) = 1 /\ lines[i][1][1] = c[1] THEN <<c>> ELSE lines[i]
  BY ReplacedShort
<1>. HIDE DEF r
<1>2. ASSUME NEW x
      PROVE  /\ x \in Declared(r, key) <=> \E i \in 1..Len(lines) : d(r[i], x)
             /\ x \in Declared(lines, key) <=> \E i \in 1..Len(lines) : d(lines[i], x)
  BY <1>1, ShortDeclares
<1>3. Len(<<c>>) = 1 /\ <<c>>[1] = c
  OBVIOUS
<1>4. ASSUME key # c[1] PROVE Declared(r, key) = Declared(lines, key)
  <2>1. ASSUME NEW x, NEW i \in 1..Len(lines)
        PROVE  d(r[i], x) <=> d(lines[i], x)
    BY <1>1, <1>3, <1>4
  <2>. HIDE DEF d
  <2>2. \A x : x \in Declared(r, key) <=> x \in Declared(lines, key)
    BY <1>2, <2>1
  <2>. QED BY <2>2
<1>5. ASSUME key = c[1], Declared(lines, key) # {} PROVE Declared(r, key) = {c[2]}
  <2>1. ASSUME NEW x, NEW i \in 1..Len(lines), d(r[i], x)
        PROVE  x = c[2]
    BY <1>1, <1>3, <1>5, <2>1
  <2>2. PICK i \in 1..Len(lines) : Len(lines[i]) = 1 /\ lines[i][1][1] = key
    BY <1>2, <1>5
  <2>3. d(r[i], c[2])
    BY <1>1, <1>3, <1>5, <2>2
  <2>. HIDE DEF d
  <2>4. c[2] \in Declared(r, key)
    BY <1>2, <2>3
  <2>5. \A x \in Declared(r, key) : x = c[2]
    BY <1>2, <2>1
  <2>. QED BY <2>4, <2>5
<1>. QED BY <1>4, <1>5 DEF r

\* The text with some of the constants in it.
Text == [lines : Seq(ShortLine), new : Seq(ShortLine)]
InText(text, key) == Declared(text.lines, key) \cup Declared(text.new, key)

LEMMA InsertFacts ==
  ASSUME NEW text \in Text, NEW c \in Declaration, Declared(text.new, c[1]) = {}
  PROVE  /\ Insert(text, c) \in Text
         /\ InText(Insert(text, c), c[1]) = {c[2]}
         /\ \A key : key # c[1] =>
              /\ InText(Insert(text, c), key) = InText(text, key)
              /\ Declared(Insert(text, c).new, key) = Declared(text.new, key)
<1>1. /\ text = [lines |-> text.lines, new |-> text.new]
      /\ text.lines \in Seq(ShortLine) /\ text.new \in Seq(ShortLine)
  BY DEF Text
<1>2. CASE Declared(text.lines, c[1]) # {}
  <2> DEFINE r == Replaced(text.lines, c)
             t == [lines |-> r, new |-> text.new]
  <2>1. Insert(text, c) = t
    <3>1. Insert(text, c) = [text EXCEPT !.lines = r]
      BY <1>2 DEF Insert
    <3>. HIDE DEF r
    <3>. QED BY <1>1, <3>1
  <2>2. ASSUME NEW lines \in Seq(ShortLine)
        PROVE  Replaced(lines, c) \in Seq(ShortLine)
    BY ReplacedShort
  <2>3. ASSUME NEW lines \in Seq(ShortLine), Declared(lines, c[1]) # {}
        PROVE  Declared(Replaced(lines, c), c[1]) = {c[2]}
    <3> DEFINE key == c[1]
    <3>1. key = c[1] /\ Declared(lines, key) # {}
      BY <2>3
    <3>. HIDE DEF key
    <3>2. Declared(Replaced(lines, c), key) = {c[2]}
      BY <3>1, DeclaredReplaced, ZenonT(60)
    <3>. QED BY <3>1, <3>2
  <2>4. ASSUME NEW lines \in Seq(ShortLine)
        PROVE  \A key : key # c[1] => Declared(Replaced(lines, c), key) = Declared(lines, key)
    BY DeclaredReplaced
  <2>5. /\ r \in Seq(ShortLine) /\ Declared(r, c[1]) = {c[2]}
        /\ \A key : key # c[1] => Declared(r, key) = Declared(text.lines, key)
    BY <1>1, <1>2, <2>2, <2>3, <2>4, Zenon
  <2>. HIDE DEF r
  <2>6. t \in Text /\ t.lines = r /\ t.new = text.new
    BY <1>1, <2>5 DEF Text
  <2>. HIDE DEF t
  <2>. QED BY <2>1, <2>5, <2>6 DEF InText
<1>3. CASE Declared(text.lines, c[1]) = {}
  <2> DEFINE a == Append(text.new, <<c>>)
             t == [lines |-> text.lines, new |-> a]
             one == << <<c>> >>
  <2>1. Insert(text, c) = t
    <3>1. Insert(text, c) = [text EXCEPT !.new = a]
      BY <1>3 DEF Insert
    <3>. HIDE DEF a
    <3>. QED BY <1>1, <3>1
  <2>2. <<c>> \in ShortLine
    BY DEF ShortLine
  <2>3. one \in Seq(ShortLine) /\ Len(one) = 1 /\ one[1] = <<c>> /\ Len(one[1]) = 1 /\ one[1][1] = c
    <3> DEFINE line == <<c>>
    <3>1. Len(line) = 1 /\ line[1] = c /\ line \in ShortLine
      BY <2>2
    <3>. HIDE DEF line
    <3>2. <<line>> \in Seq(ShortLine) /\ Len(<<line>>) = 1 /\ <<line>>[1] = line
      BY <3>1
    <3>. QED BY <3>1, <3>2 DEF line
  <2>4. a = text.new \o one
    <3>. SUFFICES ASSUME NEW new \in Seq(ShortLine), NEW line \in ShortLine
         PROVE  Append(new, line) = new \o <<line>>
      BY <1>1, <2>2
    <3>. QED OBVIOUS
  <2>5. a \in Seq(ShortLine)
    <3>. HIDE DEF one
    <3>. QED BY <1>1, <2>3, <2>4, Concatenated
  <2>6. \A key, x : x \in Declared(one, key) <=> c[1] = key /\ x = c[2]
    <3>. HIDE DEF one
    <3>1. \A i \in 1..Len(one) : i = 1
      BY <2>3
    <3>2. 1 \in 1..Len(one)
      BY <2>3
    <3>. QED BY <2>3, <3>1, <3>2, ShortDeclares
  <2>. HIDE DEF one
  <2>7. \A key : Declared(a, key) = Declared(text.new, key) \cup Declared(one, key)
    <3>1. ASSUME NEW p \in Seq(ShortLine), NEW q \in Seq(ShortLine), NEW key
          PROVE  Declared(p \o q, key) = Declared(p, key) \cup Declared(q, key)
      BY DeclaredConcatenated
    <3>2. text.new \in Seq(ShortLine) /\ one \in Seq(ShortLine)
      BY <1>1, <2>3
    <3>3. \A key : Declared(text.new \o one, key)
                     = Declared(text.new, key) \cup Declared(one, key)
      BY <3>1, <3>2, Zenon
    <3>. HIDE DEF a
    <3>. QED BY <2>4, <3>3
  <2>. HIDE DEF a
  <2>8. t \in Text /\ t.lines = text.lines /\ t.new = a
    BY <1>1, <2>5 DEF Text
  <2>. HIDE DEF t
  <2>9. Declared(a, c[1]) = {c[2]}
    BY <2>6, <2>7
  <2>10. \A key : key # c[1] => Declared(a, key) = Declared(text.new, key)
    BY <2>6, <2>7
  <2>. QED BY <1>3, <2>1, <2>8, <2>9, <2>10 DEF InText
<1>. QED BY <1>2, <1>3

\* The text takes in one constant after another.
Insertions(s, text) ==
  text = [k \in 0..Len(s.constants) |->
            IF k = 0 THEN [lines |-> s.code.lines, new |-> << >>]
            ELSE Insert(text[k - 1], s.constants[k])]

LEMMA InsertionsExist ==
  ASSUME NEW s, Len(s.constants) \in Nat
  PROVE  \E text : Insertions(s, text)
<1> DEFINE n == Len(s.constants)
           start == [lines |-> s.code.lines, new |-> << >>]
           Is(k, f) == f = [i \in 0..k |-> IF i = 0 THEN start
                                           ELSE Insert(f[i - 1], s.constants[i])]
           S == {k \in 0..n : \E f : Is(k, f)}
<1>1. 0 \in S
  <2> DEFINE f == [i \in 0..0 |-> start]
  <2>1. Is(0, f) /\ 0 \in 0..n
    <3>. HIDE DEF start
    <3>. QED OBVIOUS
  <2>. HIDE DEF Is, f, n
  <2>. QED BY <2>1
<1>2. ASSUME NEW k \in 1..n, k - 1 \in S PROVE k \in S
  <2>. HIDE DEF start
  <2>1. PICK g : Is(k - 1, g)
    BY <1>2
  <2> DEFINE f == [i \in 0..k |-> IF i = k THEN Insert(g[k - 1], s.constants[k]) ELSE g[i]]
  <2>2. \A i \in 0..k : f[i] = IF i = 0 THEN start ELSE Insert(f[i - 1], s.constants[i])
    <3>1. \A i \in 0..k - 1 : f[i] = g[i]
      OBVIOUS
    <3>2. f[k] = Insert(g[k - 1], s.constants[k]) /\ k # 0
      OBVIOUS
    <3>3. \A i \in 0..k - 1 : g[i] = IF i = 0 THEN start ELSE Insert(g[i - 1], s.constants[i])
      <4>1. DOMAIN g = 0..k - 1
        BY <2>1
      <4>. QED BY <2>1, <4>1
    <3>. HIDE DEF f
    <3>. SUFFICES ASSUME NEW i \in 0..k
         PROVE  f[i] = IF i = 0 THEN start ELSE Insert(f[i - 1], s.constants[i])
      OBVIOUS
    <3>4. CASE i = k
      <4>1. f[k - 1] = g[k - 1]
        BY <3>1
      <4>. QED BY <3>2, <3>4, <4>1
    <3>5. CASE i # k
      <4>1. i \in 0..k - 1 /\ (i # 0 => i - 1 \in 0..k - 1)
        BY <3>5
      <4>. QED BY <3>1, <3>3, <4>1
    <3>. QED BY <3>4, <3>5
  <2>3. Is(k, f)
    <3>1. f = [i \in 0..k |-> f[i]]
      OBVIOUS
    <3>. HIDE DEF f
    <3>. QED BY <2>2, <3>1
  <2>4. k \in 0..n
    OBVIOUS
  <2>. HIDE DEF Is, f, n
  <2>. QED BY <2>3, <2>4
<1>3. n \in S
  <2>1. n \in Nat
    OBVIOUS
  <2>. HIDE DEF S, Is, n
  <2>2. \A k \in 0..n : k \in S
    BY <1>1, <1>2, <2>1, Loop
  <2>. QED BY <2>1, <2>2
<1>. QED BY <1>3 DEF Insertions

LEMMA SequenceTextSteps ==
  ASSUME NEW s, Len(s.constants) \in Nat
  PROVE  \E text :
           /\ text[0] = [lines |-> s.code.lines, new |-> << >>]
           /\ \A k \in 1..Len(s.constants) : text[k] = Insert(text[k - 1], s.constants[k])
           /\ SequenceText(s) = text[Len(s.constants)].new \o text[Len(s.constants)].lines
<1> DEFINE text == CHOOSE f : Insertions(s, f)
<1>1. Insertions(s, text)
  BY InsertionsExist
<1> DEFINE n == Len(s.constants)
<1>2. SequenceText(s) = text[n].new \o text[n].lines
  BY DEF SequenceText, Insertions
<1>. HIDE DEF text
<1>3. \A k \in 0..n : text[k] = IF k = 0 THEN [lines |-> s.code.lines, new |-> << >>]
                                ELSE Insert(text[k - 1], s.constants[k])
  BY <1>1 DEF Insertions
<1>4. 0 \in 0..n /\ \A k \in 1..n : k \in 0..n /\ k # 0
  OBVIOUS
<1>5. text[0] = [lines |-> s.code.lines, new |-> << >>]
  BY <1>3, <1>4
<1>6. \A k \in 1..n : text[k] = Insert(text[k - 1], s.constants[k])
  BY <1>3, <1>4
<1>. HIDE DEF n
<1>7. \E t : /\ t[0] = [lines |-> s.code.lines, new |-> << >>]
             /\ \A k \in 1..n : t[k] = Insert(t[k - 1], s.constants[k])
             /\ SequenceText(s) = t[n].new \o t[n].lines
  BY <1>2, <1>5, <1>6
<1>. QED BY <1>7 DEF n

LEMMA TextDeclares ==
  ASSUME NEW s \in [code : Code, constants : Constants],
         \A i \in DOMAIN s.code.lines : Len(s.code.lines[i]) <= 1,
         NEW i \in DOMAIN s.constants
  PROVE  Declared(SequenceText(s), s.constants[i][1]) = {s.constants[i][2]}
<1> DEFINE dict == s.constants
           n == Len(dict)
           start == [lines |-> s.code.lines, new |-> << >>]
<1>1. /\ dict \in Seq(Declaration) /\ s.code.lines \in Seq(Seq(Declaration))
      /\ \A k, j \in DOMAIN dict : dict[k][1] = dict[j][1] => k = j
  <2>1. dict \in Dictionary /\ s.code \in Code
    BY AwgAssumption
  <2>2. s.code.lines \in Seq(Seq(Declaration))
    BY <2>1, AwgAssumption
  <2>. QED BY <2>1, <2>2 DEF Dictionary
<1>2. /\ n \in Nat /\ DOMAIN dict = 1..n /\ \A k \in 1..n : dict[k] \in Declaration
      /\ \A k, j \in 1..n : k # j => dict[k][1] # dict[j][1]
  BY <1>1
<1>3. start \in Text
  <2> DEFINE lines == s.code.lines
  <2>1. \A k \in 1..Len(lines) : lines[k] \in ShortLine
    BY <1>1 DEF ShortLine
  <2>2. lines = [k \in 1..Len(lines) |-> lines[k]] /\ Len(lines) \in Nat
    BY <1>1
  <2>. HIDE DEF lines
  <2>3. lines \in Seq(ShortLine)
    BY <2>1, <2>2
  <2>4. << >> \in Seq(ShortLine)
    OBVIOUS
  <2>. QED BY <2>3, <2>4 DEF Text, lines
<1>4. PICK text : /\ text[0] = start
                  /\ \A k \in 1..n : text[k] = Insert(text[k - 1], dict[k])
                  /\ SequenceText(s) = text[n].new \o text[n].lines
  BY <1>2, SequenceTextSteps
<1> DEFINE Good(k, t) ==
             /\ t \in Text
             /\ \A j \in 1..k : InText(t, dict[j][1]) = {dict[j][2]}
             /\ \A j \in k + 1..n : Declared(t.new, dict[j][1]) = {}
           S == {k \in 0..n : Good(k, text[k])}
<1>. HIDE DEF dict, n
<1>5. 0 \in S
  <2>1. \A key : Declared(start.new, key) = {}
    <3>1. start.new = << >> /\ DOMAIN << >> = {}
      OBVIOUS
    <3>2. \A key : Declared(<< >>, key) = {}
      BY <3>1, DeclarationIn
    <3>. HIDE DEF start
    <3>. QED BY <3>1, <3>2
  <2>. HIDE DEF start
  <2>2. \A j \in 1..0 : InText(start, dict[j][1]) = {dict[j][2]}
    OBVIOUS
  <2>. QED BY <1>2, <1>3, <1>4, <2>1, <2>2
<1>. HIDE DEF start
<1>6. ASSUME NEW k \in 1..n, k - 1 \in S PROVE k \in S
  <2> DEFINE t == text[k - 1]
             c == dict[k]
             u == Insert(t, c)
  <2>1. Good(k - 1, t)
    BY <1>6
  <2>2. text[k] = u /\ c \in Declaration
    BY <1>2, <1>4
  <2>3. Declared(t.new, c[1]) = {}
    <3>1. k \in (k - 1) + 1..n
      BY <1>2
    <3>. HIDE DEF t
    <3>. QED BY <2>1, <3>1
  <2>. HIDE DEF t
  <2>4. /\ u \in Text /\ InText(u, c[1]) = {c[2]}
        /\ \A key : key # c[1] => /\ InText(u, key) = InText(t, key)
                                  /\ Declared(u.new, key) = Declared(t.new, key)
    <3>. HIDE DEF c
    <3>. QED BY <2>1, <2>2, <2>3, InsertFacts
  <2>. HIDE DEF u
  <2>5. ASSUME NEW j \in 1..k PROVE InText(u, dict[j][1]) = {dict[j][2]}
    <3>1. CASE j = k
      BY <2>4, <3>1
    <3>2. CASE j # k
      <4>1. j \in 1..k - 1 /\ j \in 1..n /\ k \in 1..n
        BY <1>2, <3>2
      <4>2. dict[j][1] # c[1]
        BY <1>2, <3>2, <4>1
      <4>. QED BY <2>1, <2>4, <4>1, <4>2
    <3>. QED BY <3>1, <3>2
  <2>6. ASSUME NEW j \in k + 1..n PROVE Declared(u.new, dict[j][1]) = {}
    <3>1. j \in (k - 1) + 1..n /\ j \in 1..n /\ j # k
      BY <1>2
    <3>2. dict[j][1] # c[1]
      BY <1>2, <3>1
    <3>. QED BY <2>1, <2>4, <3>1, <3>2
  <2>7. k \in 0..n
    BY <1>2
  <2>. QED BY <2>2, <2>4, <2>5, <2>6, <2>7
<1>7. n \in S
  <2>. HIDE DEF S
  <2>1. \A k \in 0..n : k \in S
    BY <1>2, <1>5, <1>6, Loop
  <2>. QED BY <1>2, <2>1
<1> DEFINE t == text[n]
<1>8. t \in Text /\ InText(t, dict[i][1]) = {dict[i][2]}
  BY <1>2, <1>7 DEF dict
<1>9. Declared(t.new \o t.lines, dict[i][1]) = InText(t, dict[i][1])
  <2>1. t.new \in Seq(ShortLine) /\ t.lines \in Seq(ShortLine)
    BY <1>8 DEF Text
  <2>2. ASSUME NEW a \in Seq(ShortLine), NEW b \in Seq(ShortLine), NEW key
        PROVE  Declared(a \o b, key) = Declared(b, key) \cup Declared(a, key)
    BY DeclaredConcatenated
  <2>. HIDE DEF t
  <2>3. Declared(t.new \o t.lines, dict[i][1])
          = Declared(t.lines, dict[i][1]) \cup Declared(t.new, dict[i][1])
    BY <2>1, <2>2, Zenon
  <2>. QED BY <2>3 DEF InText
<1>. QED BY <1>4, <1>8, <1>9 DEF dict

-----------------------------------------------------------------------------
(* Theorems                                                                *)

\* Whatever is assigned, deleted, loaded, validated, written, read and used
\* again, in transactions and outside of them: the waveforms are up to three
\* arrays of one length, the memory of the AWG core has the slots its program
\* plays, and waveforms that passed `validate` have the lengths of the program.
THEOREM AwgInvariance == Spec => []AwgInv
<1>. QED BY InitInv, NextInv, PTL DEF Spec

\* The types hold, and a waveform that is stored was accepted by
\* _set_waveform or made by a read: what _set_waveform lets through is
\* well-formed in every slot.
THEOREM AwgTypes == Spec => []TypeOK
<1>1. AwgInv => TypeOK
  <2>. SUFFICES ASSUME AwgInv PROVE TypeOK
    OBVIOUS
  <2>1. DOMAIN waves \subseteq Slot /\ \A n \in DOMAIN waves : waves[n] \in Wave
    BY SlotsOfFacts DEF AwgInv, TypeInv
  <2>2. ASSUME NEW w \in Wave
        PROVE  /\ DOMAIN w = 1..3 /\ w[1].is = "array"
               /\ \A i \in 2..3 : w[i].is # "list" /\ (Given(w[i]) => w[i].len = w[1].len)
    <3>1. w \in [1..3 -> Part] /\ w[1] \in Array
          /\ \A i \in 2..3 : Given(w[i]) => w[i].len = w[1].len
      BY DEF Wave
    <3>2. \A i \in 2..3 : w[i].is # "list"
      BY <3>1, PartFacts
    <3>. QED BY <3>1, <3>2 DEF Array
  <2>. QED BY <2>1, <2>2 DEF TypeOK, AwgInv, TypeInv
<1>. QED BY AwgInvariance, <1>1, PTL

\* Waveforms that an AWG core was given for the program compiled from them
\* are read back the same, each in its slot.
THEOREM WrittenIsReadBack == Spec => []RoundTrip
<1>1. AwgInv => RoundTrip
  BY RoundTripHolds DEF AwgInv
<1>. QED BY AwgInvariance, <1>1, PTL

\* Every constant of a sequence is declared with its value in the code that is
\* compiled, and with no other, in code of one declaration in a line.
THEOREM ConstantsAreDeclared == Spec => []ConstantsArrive
<1>1. AwgInv => ConstantsArrive
  <2>. SUFFICES ASSUME AwgInv PROVE ConstantsArrive
    OBVIOUS
  <2>1. sequence \in [code : Code, constants : Constants]
    BY DEF AwgInv, TypeInv
  <2>. QED BY <2>1, TextDeclares DEF ConstantsArrive
<1>. QED BY AwgInvariance, <1>1, PTL

\* After `validate`, a write outside of a transaction gives a slot a waveform
\* of exactly the length the loaded program has for it.
THEOREM ValidatedFits == Spec => ValidatedUploadFits
<1>1. AwgInv /\ [Next]_vars =>
        [last'.op = "write" /\ validated /\ ~open =>
           \A n \in DOMAIN device'.memory :
             device'.memory[n] # device.memory[n] =>
               device'.memory[n].len = device.program[n + 1].len]_vars
  BY UploadFits
<1>. QED BY AwgInvariance, <1>1, PTL DEF Spec, ValidatedUploadFits

\* Outside of a transaction a write that fails leaves the device as it was, and
\* pulses that replace the others are all there is in the generator.
THEOREM NothingHalfDone == Spec => WritesAreWhole
<1>1. AwgInv /\ [Next]_vars =>
        [/\ last'.op = "write" /\ last'.how = "ValueError" => UNCHANGED device
         /\ last'.op = "replace" /\ ~open =>
              device'.pulses = [n \in DOMAIN waves |-> ComplexVector(waves[n])]]_vars
  BY WholeWrites
<1>. QED BY AwgInvariance, <1>1, PTL DEF Spec, WritesAreWhole
=============================================================================
