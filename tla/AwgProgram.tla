----------------------------- MODULE AwgProgram -----------------------------
(***************************************************************************)
(* The waveform memories of an instrument: what a program puts into a      *)
(* Waveforms object (waveform.py), what a Sequence makes of it and of its  *)
(* constants (sequence.py), and how sequencer programs and waveforms get   *)
(* to an AWG core (driver/nodes/awg.py) or a generator (shfqa.py) of one   *)
(* device tree, in a transaction of that tree or outside of one.           *)
(*                                                                         *)
(* A waveform is a tuple of up to three parts (wave, second wave, markers).*)
(* Of a part only its kind, its length, whether it is complex and the      *)
(* channels it sets a marker bit for are told apart.                       *)
(***************************************************************************)
EXTENDS Integers, Sequences, FiniteSets, SequencesExt

CONSTANTS
  MaxSlot,      \* waveform slots a program uses: 0..MaxSlot
  Value,        \* tuples a program assigns to a slot
  Code,         \* sequencer code: [lines, own] (see SequenceText, Compile)
  Constants,    \* dictionaries of constants, each a sequence of <<key, value>>
  Granularity,  \* the compiler rounds lengths up to multiples of this
  MaxQubits,    \* slots of a generator
  MaxCalls      \* bound: calls that change something

Slot == 0..MaxSlot

\* One part of a waveform, a list or an array.
Channel == {1, 2}
NoPart  == [is |-> "none", len |-> 0, complex |-> FALSE, bits |-> {}]
PartOf(kinds) ==
  {NoPart} \cup [is : kinds, len : Nat, complex : BOOLEAN, bits : SUBSET Channel]

\* A dictionary holds a key once.
Declaration == UNION {Range(line) : line \in UNION {Range(c.lines) : c \in Code}}
               \cup UNION {Range(dict) : dict \in Constants}
Dictionary == {dict \in Seq(Declaration) :
                 \A i, j \in DOMAIN dict : dict[i][1] = dict[j][1] => i = j}

ASSUME AwgAssumption ==
  /\ MaxSlot \in Nat /\ MaxQubits \in Nat /\ MaxCalls \in Nat
  /\ Granularity \in Nat \ {0}
  /\ Value \subseteq Seq(PartOf({"array", "list"}))
  /\ Code \subseteq [lines : Seq(Seq(Declaration)), own : Seq({"playWave", "wave"})]
  /\ Constants \subseteq Dictionary

VARIABLES
  waves,      \* Waveforms._waveforms: parts by slot
  sequence,   \* the Sequence: its code and its constants
  device,     \* program, waveform memory and generator memory of the device
  open,       \* a transaction of the device tree is in progress
  queue,      \* its commands
  last,       \* the last call and how it ended
  back,       \* what the last read has returned
  validated,  \* waves passed `validate` for the device, nothing changed since
  calls       \* number of calls that changed something

vars == <<waves, sequence, device, open, queue, last, back, validated, calls>>

Empty == [s \in {} |-> <<>>]

-----------------------------------------------------------------------------
(* Waveforms *)

Given(p) == p.is # "none"

\* _set_waveform raises RuntimeError.  The second part of a pair and the
\* third part are never asked for their type: a list gets to AttributeError.
Refused(v) ==
  \/ Len(v) \notin 1..3
  \/ v[1].is # "array"
  \/ Len(v) > 2 /\ v[2].is = "list"
  \/ \E i \in 2..Len(v) : Given(v[i]) /\ v[i].len # v[1].len
  \/ Len(v) = 3 /\ v[1].complex /\ Given(v[2])

Stored(v) == [i \in 1..3 |-> IF i \in DOMAIN v THEN v[i] ELSE NoPart]

\* An empty wave becomes one zero, which is real; empty markers stay empty.
AtLeastOne(p) ==
  IF Given(p) /\ p.len = 0
    THEN [is |-> p.is, len |-> 1, complex |-> FALSE, bits |-> p.bits] ELSE p

\* A complex wave has its imaginary part as second wave, and then a second
\* part is its markers.
Markers(w) == IF w[1].complex /\ Given(w[2]) THEN w[2] ELSE w[3]
Channels(w) == IF w[1].complex \/ Given(w[2]) THEN 2 ELSE 1

\* get_raw_vector for an AWG: samples interleaved with their markers.
RawVector(w) ==
  LET v == <<AtLeastOne(w[1]), AtLeastOne(w[2]), w[3]>>
  IN  [len |-> v[1].len, channels |-> Channels(v),
       marked |-> Given(Markers(v)), bits |-> Markers(v).bits]

\* The conversion raises ValueError for markers of another length.
Convertible(w) ==
  LET v == <<AtLeastOne(w[1]), AtLeastOne(w[2]), w[3]>>
  IN  Given(Markers(v)) => Markers(v).len = v[1].len

\* get_raw_vector for a generator: always complex, without markers.
ComplexVector(w) == [len |-> AtLeastOne(w[1]).len]

\* assign_native_awg_waveform: the samples are dealt out to the channels and
\* markers the caller names, whatever they were made of.
Native(raw, channels, marked) ==
  LET width(c, m) == c + (IF m THEN 1 ELSE 0)
      n == (raw.len * width(raw.channels, raw.marked)) \div width(channels, marked)
      real == [is |-> "array", len |-> n, complex |-> FALSE, bits |-> {}]
  IN  <<real, IF channels = 2 THEN real ELSE NoPart,
        IF marked THEN [real EXCEPT !.bits = raw.bits] ELSE NoPart>>

-----------------------------------------------------------------------------
(* Sequences and their compilation *)

\* Mutant of Replaced: only the first line with the constant is rewritten.
ReplacedOnce(lines, c) ==
  LET hits == {i \in DOMAIN lines : \E j \in DOMAIN lines[i] : lines[i][j][1] = c[1]}
  IN  [i \in DOMAIN lines |->
         IF i \in hits /\ \A h \in hits : i <= h THEN <<c>> ELSE lines[i]]

\* The substitution of a constant: a line is a sequence of declarations, and
\* the pattern runs from the first one of the constant to the end of the line.
Replaced(lines, c) ==
  LET at(line) == {j \in DOMAIN line : line[j][1] = c[1]}
  IN  [i \in DOMAIN lines |->
         IF at(lines[i]) = {} THEN lines[i]
         ELSE LET j == CHOOSE j \in at(lines[i]) : \A k \in at(lines[i]) : j <= k
              IN  Append(SubSeq(lines[i], 1, j - 1), c)]

DeclaredIn(line, key) == {line[j][2] : j \in {k \in DOMAIN line : line[k][1] = key}}
Declared(lines, key)  == UNION {DeclaredIn(lines[i], key) : i \in DOMAIN lines}

\* Sequence.to_string: a constant the text declares is replaced there, the
\* others are declared on top.
Insert(text, c) ==
  IF Declared(text.lines, c[1]) # {}
    THEN [text EXCEPT !.lines = Replaced(text.lines, c)]
    ELSE [text EXCEPT !.new = Append(text.new, <<c>>)]

SequenceText(s) ==
  LET text[k \in 0..Len(s.constants)] ==
        IF k = 0 THEN [lines |-> s.code.lines, new |-> <<>>]
                 ELSE Insert(text[k - 1], s.constants[k])
      end == text[Len(s.constants)]
  IN  end.new \o end.lines

\* One placeholder of get_sequence_snippet: a marker is declared for a
\* channel of which at least one bit is set.
Snippet(w) ==
  [name |-> "placeholder", len |-> AtLeastOne(w[1]).len,
   channels |-> Channels(w), bits |-> Markers(w).bits]

RoundUp(n) == ((n + Granularity - 1) \div Granularity) * Granularity

Other(name) ==
  [name |-> name, len |-> Granularity, channels |-> 1, bits |-> {}]

Top(ws) == IF DOMAIN ws = {} THEN 0
           ELSE 1 + (CHOOSE n \in DOMAIN ws : \A m \in DOMAIN ws : m <= n)

\* compile_seqc: lengths are rounded up, gaps between slots become fillers,
\* and the waveforms of the code itself come last.
Compile(ws, s) ==
  [i \in 1..Top(ws) |->
     IF i - 1 \in DOMAIN ws
       THEN LET p == Snippet(ws[i - 1]) IN [p EXCEPT !.len = RoundUp(@)]
       ELSE Other("filler")]
  \o [i \in DOMAIN s.code.own |-> Other(s.code.own[i])]

\* Mutant of Misfit: a wave may be shorter than its placeholder.
MisfitShorterPasses(info, ws, n) ==
  IF n >= Len(info) THEN {"IndexError"}
  ELSE IF \/ info[n + 1].name \notin {"placeholder", "playWave"}
          \/ AtLeastOne(ws[n][1]).len > info[n + 1].len
         THEN {"ValidationError"} ELSE {}

\* What `validate` has against the waveform in a slot.
Misfit(info, ws, n) ==
  IF n >= Len(info) THEN {"IndexError"}
  ELSE IF \/ info[n + 1].name \notin {"placeholder", "playWave"}
          \/ AtLeastOne(ws[n][1]).len # info[n + 1].len
         THEN {"ValidationError"} ELSE {}

\* The errors `validate` may raise: that of the slot it comes to first, or
\* that placeholders are missing, of which only the number is compared.
ValidationErrors(info, ws, allow_missing) ==
  LET misfits == UNION {Misfit(info, ws, n) : n \in DOMAIN ws}
      defined == {i \in DOMAIN info : info[i].name \in {"placeholder", "playWave"}}
  IN  IF misfits # {} THEN misfits
      ELSE IF ~allow_missing /\ Cardinality(defined) > Cardinality(DOMAIN ws)
             THEN {"ValidationError"} ELSE {}

-----------------------------------------------------------------------------
(* The device and its transaction *)

With(f, s, v) == [x \in DOMAIN f \cup {s} |-> IF x = s THEN v ELSE f[x]]

\* The memory of a program just loaded: zeros in every slot that is played.
Zeros(info) ==
  [n \in {i - 1 : i \in {j \in DOMAIN info : info[j].name # "filler"}} |->
     [len |-> info[n + 1].len, channels |-> info[n + 1].channels,
      marked |-> info[n + 1].bits # {}, bits |-> {}]]

\* What the device does with one command.  A waveform for a slot that is not
\* played is dropped.
Executed(d, c) ==
  CASE "elf" \in DOMAIN c ->
         [program |-> c.elf, memory |-> Zeros(c.elf), pulses |-> d.pulses]
    [] "wave" \in DOMAIN c ->
         IF c.slot \in DOMAIN d.memory
           THEN [d EXCEPT !.memory = With(@, c.slot, c.wave)] ELSE d
    [] "clear" \in DOMAIN c -> [d EXCEPT !.pulses = Empty]
    [] "pulse" \in DOMAIN c -> [d EXCEPT !.pulses = With(@, c.slot, c.pulse)]

ExecutedAll(d, commands) ==
  LET after[k \in 0..Len(commands)] ==
        IF k = 0 THEN d ELSE Executed(after[k - 1], commands[k])
  IN  after[Len(commands)]

\* Commands are held back in a transaction.
Issue(commands) ==
  IF open
    THEN queue' = queue \o commands /\ UNCHANGED device
    ELSE device' = ExecutedAll(device, commands) /\ UNCHANGED queue

Ends(op, how) == last' = [op |-> op, how |-> how]

Returns(op, how) ==
  calls < MaxCalls /\ calls' = calls + 1 /\ Ends(op, how)

Init ==
  /\ waves = Empty
  /\ sequence \in [code : Code, constants : Constants]
  /\ device = [program |-> <<>>, memory |-> Empty, pulses |-> Empty]
  /\ open = FALSE /\ queue = <<>>
  /\ last = [op |-> "none", how |-> "returned"]
  /\ back = Empty /\ validated = FALSE /\ calls = 0

-----------------------------------------------------------------------------
(* Calls *)

SetWaveform(slot, v) ==
  /\ LET bad == Refused(v)
         odd == ~bad /\ \E i \in DOMAIN v : v[i].is = "list"
     IN  /\ Returns("set", IF bad THEN "RuntimeError"
                           ELSE IF odd THEN "AttributeError" ELSE "returned")
         /\ IF bad \/ odd
              THEN UNCHANGED <<waves, validated>>
              ELSE waves' = With(waves, slot, Stored(v)) /\ validated' = FALSE
  /\ back' = Empty
  /\ UNCHANGED <<sequence, device, open, queue>>

DelItem(slot) ==
  /\ slot \in DOMAIN waves
  /\ Returns("delete", "returned")
  /\ waves' = [s \in DOMAIN waves \ {slot} |-> waves[s]]
  /\ validated' = FALSE /\ back' = Empty
  /\ UNCHANGED <<sequence, device, open, queue>>

\* A Sequence keeps the Waveforms object: it is compiled as it is now.
LoadSequencerProgram ==
  /\ IF DOMAIN waves = {} /\ sequence.code.own = <<>> /\ SequenceText(sequence) = <<>>
       THEN Returns("load", "RuntimeError") /\ UNCHANGED <<device, queue>>
       ELSE /\ Returns("load", "returned")
            /\ Issue(<<[elf |-> Compile(waves, sequence)]>>)
  /\ validated' = (validated /\ open) /\ back' = Empty
  /\ UNCHANGED <<waves, sequence, open>>

Validate(allow_missing) ==
  /\ LET errors == ValidationErrors(device.program, waves, allow_missing)
     IN  IF errors = {} THEN Ends("validate", "returned") /\ validated' = TRUE
         ELSE \E e \in errors : Ends("validate", e) /\ UNCHANGED validated
  /\ back' = Empty
  /\ UNCHANGED <<waves, sequence, device, open, queue, calls>>

\* Mutant of WriteToWaveformMemory: every waveform is set on its own.
WriteToWaveformMemoryOneByOne(indexes) ==
  /\ \E order \in SetToSeqs(IF indexes = {} THEN DOMAIN waves
                            ELSE DOMAIN waves \cap indexes) :
       LET bad  == {i \in DOMAIN order : ~Convertible(waves[order[i]])}
           n    == IF bad = {} THEN Len(order)
                   ELSE (CHOOSE i \in bad : \A j \in bad : i <= j) - 1
       IN  /\ Issue([i \in 1..n |-> [wave |-> RawVector(waves[order[i]]),
                                     slot |-> order[i]]])
           /\ Returns("write", IF bad = {} THEN "returned" ELSE "ValueError")
  /\ back' = Empty
  /\ UNCHANGED <<waves, sequence, open, validated>>

\* AWG.write_to_waveform_memory.  No indexes are all indexes.  A transaction
\* of its own is dropped when a conversion fails; one it has joined keeps
\* what was added by then.
WriteToWaveformMemory(indexes) ==
  /\ \E order \in SetToSeqs(IF indexes = {} THEN DOMAIN waves
                            ELSE DOMAIN waves \cap indexes) :
       LET bad  == {i \in DOMAIN order : ~Convertible(waves[order[i]])}
           n    == IF bad = {} THEN Len(order)
                   ELSE (CHOOSE i \in bad : \A j \in bad : i <= j) - 1
       IN  /\ Issue(IF bad # {} /\ ~open THEN <<>>
                    ELSE [i \in 1..n |-> [wave |-> RawVector(waves[order[i]]),
                                          slot |-> order[i]]])
           /\ Returns("write", IF bad = {} THEN "returned" ELSE "ValueError")
  /\ back' = Empty
  /\ UNCHANGED <<waves, sequence, open, validated>>

\* Mutant of ReadBack: slots are counted, as the generator does.
ReadBackCounted(indexes) ==
  LET info == device.program
      read == {n \in indexes \cap DOMAIN device.memory : n < Len(info)}
      nth(n) == Cardinality({m \in read : m < n})
  IN  [k \in {nth(n) : n \in read} |->
         LET n == CHOOSE n \in read : nth(n) = k
         IN  Native(device.memory[n], info[n + 1].channels, 1 \in info[n + 1].bits)]

\* AWG.read_from_waveform_memory: fillers are left out, and whether there are
\* markers is read from the descriptor of the first channel.
ReadBack(indexes) ==
  LET info == device.program
      read == {n \in indexes \cap DOMAIN device.memory :
                 n < Len(info) /\ info[n + 1].name # "filler"}
  IN  [n \in read |->
         Native(device.memory[n], info[n + 1].channels, 1 \in info[n + 1].bits)]

ReadFromWaveformMemory(indexes) ==
  /\ Ends("read", "returned")
  /\ back' = ReadBack(indexes)
  /\ UNCHANGED <<waves, sequence, device, open, queue, validated, calls>>

\* The program goes on with the Waveforms object a read has returned.
UseRead ==
  /\ DOMAIN back # {}
  /\ Returns("use", "returned")
  /\ waves' = back /\ back' = Empty /\ validated' = FALSE
  /\ UNCHANGED <<sequence, device, open, queue>>

\* Generator.write_to_waveform_memory: one transaction, cleared first.
GeneratorWrite(clear_existing) ==
  /\ IF \E s \in DOMAIN waves : s >= MaxQubits
       THEN Returns("pulses", "ToolkitError") /\ UNCHANGED <<device, queue>>
       ELSE \E order \in SetToSeqs(DOMAIN waves) :
            /\ Returns(IF clear_existing THEN "replace" ELSE "pulses", "returned")
            /\ Issue((IF clear_existing THEN <<[clear |-> TRUE]>> ELSE <<>>)
                     \o [i \in DOMAIN order |->
                           [pulse |-> ComplexVector(waves[order[i]]),
                            slot |-> order[i]]])
  /\ back' = Empty
  /\ UNCHANGED <<waves, sequence, open, validated>>

\* Generator.read_from_waveform_memory: the answers are counted, so slots
\* after a gap move down.
GeneratorRead ==
  /\ Ends("read pulses", "returned")
  /\ \E slots \in SetToSeqs(DOMAIN device.pulses) :
       /\ \A i, j \in DOMAIN slots : i < j => slots[i] < slots[j]
       /\ back' = [k \in 0..(Len(slots) - 1) |->
                     Stored(<<[is |-> "array", complex |-> TRUE, bits |-> {},
                               len |-> device.pulses[slots[k + 1]].len]>>)]
  /\ UNCHANGED <<waves, sequence, device, open, queue, validated, calls>>

EnterBlock ==
  /\ ~open /\ open' = TRUE /\ Returns("enter", "returned")
  /\ back' = Empty
  /\ UNCHANGED <<waves, sequence, device, queue, validated>>

LeaveBlock ==
  /\ open /\ open' = FALSE /\ Returns("leave", "returned")
  /\ device' = ExecutedAll(device, queue) /\ queue' = <<>>
  /\ validated' = FALSE /\ back' = Empty
  /\ UNCHANGED <<waves, sequence>>

AbortBlock ==
  /\ open /\ open' = FALSE /\ Returns("abort", "returned")
  /\ queue' = <<>> /\ back' = Empty
  /\ UNCHANGED <<waves, sequence, device, validated>>

-----------------------------------------------------------------------------
AssignWaveforms ==
  \E s \in Slot : DelItem(s) \/ \E v \in Value : SetWaveform(s, v)

Next ==
  \/ AssignWaveforms \/ UseRead
  \/ LoadSequencerProgram
  \/ \E allow_missing \in BOOLEAN : Validate(allow_missing)
  \/ \E indexes \in SUBSET Slot :
       WriteToWaveformMemory(indexes) \/ ReadFromWaveformMemory(indexes)
  \/ \E clear_existing \in BOOLEAN : GeneratorWrite(clear_existing)
  \/ GeneratorRead
  \/ EnterBlock \/ LeaveBlock \/ AbortBlock

Spec == Init /\ [][Next]_vars

-----------------------------------------------------------------------------
(* Properties *)

\* Types; what is in a slot are up to three arrays of one length.
TypeOK ==
  /\ DOMAIN waves \subseteq Slot /\ open \in BOOLEAN /\ validated \in BOOLEAN
  /\ \A n \in DOMAIN waves :
       /\ DOMAIN waves[n] = 1..3 /\ waves[n][1].is = "array"
       /\ \A i \in 2..3 : /\ waves[n][i].is # "list"
                          /\ Given(waves[n][i]) => waves[n][i].len = waves[n][1].len
  /\ ~open => queue = <<>>
  /\ calls \in 0..MaxCalls

Reals(w) ==
  LET real == [is |-> "array", len |-> w[1].len, complex |-> FALSE, bits |-> {}]
  IN  <<real, IF Channels(w) = 2 THEN real ELSE NoPart,
        IF Given(Markers(w)) THEN [real EXCEPT !.bits = Markers(w).bits] ELSE NoPart>>

\* Waveforms that the descriptor of their own snippet describes: not empty, and
\* with markers only if the first channel has one.
Described(w) ==
  w[1].len > 0 /\ (Given(Markers(w)) => 1 \in Markers(w).bits)

\* What was written for the program compiled from it is read back the same,
\* each waveform in its slot, a complex one as two real ones.
RoundTrip ==
  (/\ device.program = Compile(waves, sequence)
   /\ \A n \in DOMAIN waves : /\ Described(waves[n])
                              /\ device.memory[n] = RawVector(waves[n]))
  => \A indexes \in SUBSET DOMAIN waves :
       ReadBack(indexes) = [n \in indexes |-> Reals(waves[n])]

\* Waveforms that passed `validate` for the program in the device, and were not
\* changed since, are written with exactly the lengths that program has.
ValidatedUploadFits ==
  [][last'.op = "write" /\ validated /\ ~open =>
       \A n \in DOMAIN device'.memory :
         device'.memory[n] # device.memory[n] =>
           device'.memory[n].len = device.program[n + 1].len]_vars

\* Outside of a transaction a write leaves nothing half done: one that fails
\* on a waveform has uploaded none of the others, and one that replaces the
\* pulses of a generator leaves exactly those it was given.
WritesAreWhole ==
  [][/\ last'.op = "write" /\ last'.how = "ValueError" => UNCHANGED device
     /\ last'.op = "replace" /\ ~open =>
          device'.pulses = [n \in DOMAIN waves |-> ComplexVector(waves[n])]]_vars

\* In the code that is compiled every constant of the sequence is declared
\* with its value, and nowhere with another one, as long as the code has no
\* two declarations in one line.
ConstantsArrive ==
  (\A i \in DOMAIN sequence.code.lines : Len(sequence.code.lines[i]) <= 1)
  => \A i \in DOMAIN sequence.constants :
       Declared(SequenceText(sequence), sequence.constants[i][1])
         = {sequence.constants[i][2]}

=============================================================================
