----------------------------- MODULE HeaderChain -----------------------------
(***************************************************************************)
(* headerChain, the Go accumulator that validates block headers: it keeps  *)
(* the last Window of them, and of the others only the work they add up    *)
(* to.  Headers are appended and rolled back; its state is exported, and   *)
(* imported by a later process.                                            *)
(*                                                                         *)
(* A header's hash is made of what it commits to, so that two headers are  *)
(* the same if their hashes are; whether it meets a target is the miner's  *)
(* luck.  Times and targets are small, and compact bits have digits of     *)
(* base Byte: three of them, less a sign bit; Byte is 256 in the code.     *)
(***************************************************************************)
EXTENDS Integers, Sequences, FiniteSets

CONSTANTS
    Networks,       \* chaincfg.Params: [retargets, minimum : BOOLEAN]
    Window,         \* ringWindow: 2048
    Period,         \* blocksPerRetarget: 2016
    MedianBlocks,   \* medianTimeBlocks: 11
    Spacing,        \* TargetTimePerBlock; MinDiffReductionTime is twice that
    Factor,         \* RetargetAdjustmentFactor: 4
    Byte,
    PowLimit,       \* the highest target
    HashSpace,      \* the number of hashes: 2^256
    MaxTime,        \* the latest timestamp taken: two hours from now
    MaxTip,         \* bound: the highest header of a behaviour
    MaxBack         \* how far below its highest tip the chain is rolled back

ASSUME ConstantsAssumption ==
    /\ \A net \in Networks : net \in [retargets : BOOLEAN, minimum : BOOLEAN]
    /\ Window \in Nat \ {0} /\ Period \in Nat \ {0}
    /\ MedianBlocks \in Nat \ {0} /\ Spacing \in Nat \ {0}
    /\ Factor \in Nat \ {0} /\ Factor <= Period * Spacing
    /\ Byte \in Nat \ {0} /\ Byte % 2 = 0
    /\ PowLimit \in Nat \ {0} /\ HashSpace \in Nat /\ HashSpace > PowLimit
    /\ MaxTime \in Nat /\ MaxTip \in Nat /\ MaxBack \in Nat
    /\ MaxBack + Period <= Window /\ MaxBack + MedianBlocks <= Window

VARIABLES
    net,        \* the network, fixed
    tipHeight, chainWork,
    ring,       \* the recent headers, oldest first
    archive,    \* history: every header of the chain
    peak,       \* history: the highest tip its window remembers
    exported    \* the state exported last, if any, with its history

vars == <<net, tipHeight, chainWork, ring, archive, peak, exported>>

Least(x, y) == IF x <= y THEN x ELSE y
Last(s) == s[Len(s)]
LastOf(s, n) == SubSeq(s, Len(s) - n + 1, Len(s))

-----------------------------------------------------------------------------
Power[k \in Nat] == IF k = 0 THEN 1 ELSE Byte * Power[k - 1]

(* Compact bits: an exponent, a sign bit and three digits.                 *)
Digits == Power[3]

CompactToBig(bits) ==
    LET exponent == bits \div Digits
        mantissa == bits % (Digits \div 2)
        big == IF exponent <= 3 THEN mantissa \div Power[3 - exponent]
                                ELSE mantissa * Power[exponent - 3]
    IN IF bits % Digits >= Digits \div 2 THEN -big ELSE big

(* The number of digits of n: of n.Bytes() in the code.                    *)
Length(n) == CHOOSE k \in 0..n : Power[k] > n /\ (k > 0 => Power[k - 1] <= n)

(* Mutant: the sign bit is not kept clear.                                 *)
BigToCompact_Sign(n) ==
    LET size == Length(n)
        mantissa == IF size <= 3 THEN n * Power[3 - size]
                                 ELSE n \div Power[size - 3]
    IN size * Digits + mantissa

(* No target is negative.  A mantissa that reaches the sign bit is shifted *)
(* right by a digit.                                                       *)
BigToCompact(n) ==
    LET size == Length(n)
        mantissa == IF size <= 3 THEN n * Power[3 - size]
                                 ELSE n \div Power[size - 3]
    IN IF n = 0 THEN 0
       ELSE IF mantissa >= Digits \div 2
            THEN (size + 1) * Digits + mantissa \div Byte
            ELSE size * Digits + mantissa

PowLimitBits == BigToCompact(PowLimit)

CalcWork(bits) ==
    IF CompactToBig(bits) <= 0 THEN 0 ELSE HashSpace \div (CompactToBig(bits) + 1)

-----------------------------------------------------------------------------
(* The upper median, of the last MedianBlocks timestamps or of all.        *)
Median(headers) ==
    LET n == Len(headers)
    IN CHOOSE t \in {headers[i].time : i \in 1..n} :
          /\ Cardinality({i \in 1..n : headers[i].time < t}) <= n \div 2
          /\ Cardinality({i \in 1..n : headers[i].time <= t}) > n \div 2

MedianTimePast == Median(LastOf(ring, Least(Len(ring), MedianBlocks)))

(* ringEntry(): ok, and the entry.                                         *)
InRing(height) == tipHeight - height \in 0..(Len(ring) - 1)
RingEntry(height) == ring[Len(ring) - (tipHeight - height)]

(* Mutant: a target above the limit is kept.                               *)
Retarget_NoLimit(prev, start) ==
    LET timespan == Period * Spacing
        actual == prev.time - start.time
        clamped == IF actual < timespan \div Factor THEN timespan \div Factor
                   ELSE Least(actual, timespan * Factor)
    IN BigToCompact((CompactToBig(prev.bits) * clamped) \div timespan)

(* The old target scaled by the duration of the period, within bounds.     *)
Retarget(prev, start) ==
    LET timespan == Period * Spacing
        actual == prev.time - start.time
        clamped == IF actual < timespan \div Factor THEN timespan \div Factor
                   ELSE Least(actual, timespan * Factor)
    IN BigToCompact(Least((CompactToBig(prev.bits) * clamped) \div timespan,
                          PowLimit))

(* Mutant: the walk does not stop where the period starts.                 *)
LastRealBits_PastStart ==
    LET real == {h \in 0..tipHeight : InRing(h) /\ RingEntry(h).bits # PowLimitBits}
    IN IF real = {} THEN PowLimitBits
       ELSE RingEntry(CHOOSE h \in real : \A g \in real : g <= h).bits

(* The last bits of this period that are not the minimum difficulty.       *)
LastRealBits ==
    LET real == {h \in (tipHeight - (tipHeight % Period))..tipHeight :
                    InRing(h) /\ RingEntry(h).bits # PowLimitBits}
    IN IF real = {} THEN PowLimitBits
       ELSE RingEntry(CHOOSE h \in real : \A g \in real : g <= h).bits

AtBoundary == (tipHeight + 1) % Period = 0

(* expectedBits() returns an error.                                        *)
PeriodStartLost ==
    /\ tipHeight >= 0 /\ net.retargets
    /\ AtBoundary /\ ~InRing(tipHeight + 1 - Period)

ExpectedBits(time) ==
    IF tipHeight < 0 THEN PowLimitBits
    ELSE IF ~net.retargets THEN Last(ring).bits
    ELSE IF AtBoundary THEN Retarget(Last(ring), RingEntry(tipHeight + 1 - Period))
    ELSE IF ~net.minimum THEN Last(ring).bits
    ELSE IF time > Last(ring).time + 2 * Spacing THEN PowLimitBits
    ELSE LastRealBits

-----------------------------------------------------------------------------
(* Block hashes.  The genesis block has no predecessor.                    *)
Hash(prev, time, bits) == <<prev, time, bits>>
Nothing == << >>
GenesisHash == Hash(Nothing, 0, PowLimitBits)

(* The header extends the tip, after the median time past.                 *)
Links(prev, time) ==
    IF tipHeight < 0 THEN Hash(prev, time, PowLimitBits) = GenesisHash
    ELSE /\ prev = Last(ring).hash
         /\ time > MedianTimePast
         /\ time <= MaxTime

(* A target the network allows.                                            *)
Allowed(bits) == CompactToBig(bits) \in 1..PowLimit

(* Mutant: an entry too many slides out.                                   *)
Slide_Early(entries) ==
    IF Len(entries) >= Window THEN LastOf(entries, Window - 1) ELSE entries

(* Mutant: nothing does.                                                   *)
Slide_Never(entries) == entries

Slide(entries) == IF Len(entries) > Window THEN LastOf(entries, Window) ELSE entries

(* connectHeader(), of each header of a batch in turn: the first that is   *)
(* refused ends the batch.  One that claims other bits than the required   *)
(* ones, or whose hash is above its target, is refused and left out here.  *)
Connect(prev, time) ==
    LET bits == ExpectedBits(time)
        entry == [hash |-> Hash(prev, time, bits), time |-> time, bits |-> bits]
    IN /\ tipHeight < MaxTip
       /\ Links(prev, time) /\ ~PeriodStartLost /\ Allowed(bits)
       /\ tipHeight' = tipHeight + 1
       /\ chainWork' = chainWork + CalcWork(bits)
       /\ ring' = Slide(Append(ring, entry))
       /\ archive' = Append(archive, entry)
       /\ peak' = IF tipHeight + 1 > peak THEN tipHeight + 1 ELSE peak
       /\ UNCHANGED <<net, exported>>

(* The work of the first headers of a sequence.                            *)
Work(headers) ==
    LET total[n \in 0..Len(headers)] ==
            IF n = 0 THEN 0 ELSE total[n - 1] + CalcWork(headers[n].bits)
    IN total[Len(headers)]

(* rollback(): refused unless the height is below the tip, in the window.  *)
Rollback(height) ==
    LET drop == tipHeight - height
    IN /\ peak - height <= MaxBack
       /\ height < tipHeight /\ drop < Len(ring)
       /\ tipHeight' = height
       /\ chainWork' = chainWork - Work(LastOf(ring, drop))
       /\ ring' = SubSeq(ring, 1, Len(ring) - drop)
       /\ archive' = SubSeq(archive, 1, Len(archive) - drop)
       /\ UNCHANGED <<net, peak, exported>>

(* exportState(), and what a later process makes of it.                    *)
Export ==
    /\ exported' = {[tipHeight |-> tipHeight, chainWork |-> chainWork,
                     ring |-> ring, archive |-> archive, peak |-> peak]}
    /\ UNCHANGED <<net, tipHeight, chainWork, ring, archive, peak>>

(* Mutant: the work is counted from the headers of the window.             *)
Import_WindowWork ==
    /\ \E state \in exported :
          /\ tipHeight' = state.tipHeight /\ ring' = state.ring
          /\ chainWork' = Work(state.ring)
          /\ archive' = state.archive /\ peak' = state.peak
    /\ UNCHANGED <<net, exported>>

Import ==
    /\ \E state \in exported :
          /\ tipHeight' = state.tipHeight /\ ring' = state.ring
          /\ chainWork' = state.chainWork
          /\ archive' = state.archive /\ peak' = state.peak
    /\ UNCHANGED <<net, exported>>

(* newHeaderChain(), for a process that resumes from nothing.              *)
New ==
    /\ tipHeight' = -1 /\ chainWork' = 0 /\ ring' = << >>
    /\ archive' = << >> /\ peak' = -1
    /\ UNCHANGED <<net, exported>>

-----------------------------------------------------------------------------
Init ==
    /\ net \in Networks
    /\ tipHeight = -1 /\ chainWork = 0 /\ ring = << >>
    /\ archive = << >> /\ peak = -1
    /\ exported = {}

(* The headers a peer may send: of this chain, of one it left, or none.    *)
Hashes == {Nothing} \cup {archive[i].hash : i \in 1..Len(archive)}
          \cup UNION {{s.archive[i].hash : i \in 1..Len(s.archive)} : s \in exported}
Bits == 0..((Length(PowLimit) + 2) * Digits)

Next ==
    \/ \E prev \in Hashes, time \in 0..(MaxTime + 1) : Connect(prev, time)
    \/ \E height \in -1..MaxTip : Rollback(height)
    \/ Export \/ Import \/ New

Spec == Init /\ [][Next]_vars

-----------------------------------------------------------------------------
Entries == {archive[i] : i \in 1..Len(archive)}

TypeOK ==
    /\ net \in Networks
    /\ tipHeight \in -1..MaxTip /\ peak \in tipHeight..MaxTip
    /\ chainWork \in 0..(MaxTip + 1) * HashSpace
    /\ Len(ring) \in 0..Window
    /\ \A entry \in Entries : entry.time \in 0..MaxTime /\ Allowed(entry.bits)

RingIsRecent ==
    /\ Len(archive) = tipHeight + 1
    /\ Len(ring) <= Len(archive)
    /\ ring = LastOf(archive, Len(ring))
    /\ tipHeight >= 0 => ring # << >>
WorkAddsUp == chainWork = Work(archive)

(* The accumulator's state is that of the headers on the chain, whatever   *)
(* was appended, rolled back and resumed: the window is the end of the     *)
(* chain and the tip its last height, and the work is that of every        *)
(* header, those that left the window included.                            *)
StateOfChain == RingIsRecent /\ WorkAddsUp

(* A retarget finds the start of its period in the window, and the median  *)
(* its blocks: "so both the retarget calculation and a tail rollback       *)
(* always find what they need" (neutrino.go:53-56), for rollbacks that     *)
(* stay within MaxBack of the highest tip.                                 *)
WindowSuffices ==
    /\ ~PeriodStartLost
    /\ Len(ring) >= Least(Len(archive), MedianBlocks)

(* The rules of a network, for a header that follows all of past.          *)
Required(rules, past, time) ==
    LET height == Len(past)
        real == {h \in (height - 1 - ((height - 1) % Period))..(height - 1) :
                    past[h + 1].bits # PowLimitBits}
    IN IF rules.retargets /\ height % Period = 0
       THEN Retarget(Last(past), past[height - Period + 1])
       ELSE IF ~rules.retargets \/ ~rules.minimum THEN Last(past).bits
       ELSE IF time > Last(past).time + 2 * Spacing \/ real = {} THEN PowLimitBits
       ELSE past[1 + CHOOSE h \in real : \A g \in real : g <= h].bits

Obeys(rules, past, entry) ==
    /\ entry.hash[1] = Last(past).hash
    /\ entry.time > Median(LastOf(past, Least(Len(past), MedianBlocks)))
    /\ entry.bits = Required(rules, past, entry.time)

AllObey(rules, headers) ==
    \A i \in 2..Len(headers) : Obeys(rules, SubSeq(headers, 1, i - 1), headers[i])

(* The accumulator accepts what a node that keeps every header accepts:    *)
(* each header of the chain obeys the rules over all its predecessors,     *)
(* whatever left the window, was rolled back or resumed before it came.    *)
RulesKept ==
    /\ archive # << >> => archive[1].hash = GenesisHash
    /\ AllObey(net, archive)

(* The chain can always go on: the bits required next are a target the     *)
(* network allows, whatever the times of the headers before were.          *)
CanGoOn ==
    \A time \in 0..MaxTime :
        ~PeriodStartLost => Allowed(ExpectedBits(time))

FloorOfEach ==
    LET exact == {CompactToBig(bits) : bits \in Bits}
    IN \A n \in 0..PowLimit :
          /\ CompactToBig(BigToCompact(n)) <= n
          /\ \A m \in exact : m <= n => m <= CompactToBig(BigToCompact(n))

(* A target survives compact form but for the digits it has no room for,   *)
(* and has one form on the chain: its bits can be compared for its value.  *)
CompactIsFloor ==
    /\ FloorOfEach
    /\ \A entry \in Entries : BigToCompact(CompactToBig(entry.bits)) = entry.bits
=============================================================================
