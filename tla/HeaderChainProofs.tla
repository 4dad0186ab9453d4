-------------------------- MODULE HeaderChainProofs --------------------------
(***************************************************************************)
(* Proofs about HeaderChain: for every network, window, period and median, *)
(* what the accumulator accepts from its window is what the rules over the *)
(* whole chain accept.                                                     *)
(*                                                                         *)
(* The invariant relates the window to the history variables: it is the    *)
(* end of the chain, and long enough for the rules, because it lost at     *)
(* most as many headers as the tip is below its peak.  The same is true of *)
(* an exported state.  A second invariant adds the work up, and a third    *)
(* says that the bits of every header are the compact form of a target,    *)
(* after the arithmetic of compact forms in any even base.                 *)
(***************************************************************************)
EXTENDS HeaderChain, SequenceTheorems, WellFoundedInduction, TLAPS

(* A sequence, of whatever it holds.                                       *)
IsSeq(s) == s \in Seq({s[i] : i \in 1..Len(s)})

(* The window is the end of the chain, and is short of headers only where  *)
(* the chain is, or by what was rolled back.                               *)
Shape(tip, window, headers, top) ==
    /\ tip \in Int /\ tip >= -1
    /\ top \in Int /\ top >= tip /\ top - tip <= MaxBack
    /\ IsSeq(window) /\ IsSeq(headers)
    /\ Len(headers) = tip + 1
    /\ Len(window) <= Len(headers) /\ Len(window) <= Window
    /\ Len(window) >= Least(tip + 1, Window - (top - tip))
    /\ \A i \in 1..Len(window) :
          window[i] = headers[Len(headers) - Len(window) + i]

(* Every header of a chain obeys the rules over its predecessors.          *)
Clean(rules, headers) ==
    /\ headers # << >> => headers[1].hash = GenesisHash
    /\ AllObey(rules, headers)

IInv ==
    /\ net \in Networks
    /\ Shape(tipHeight, ring, archive, peak) /\ Clean(net, archive)
    /\ \A state \in exported :
          /\ Shape(state.tipHeight, state.ring, state.archive, state.peak)
          /\ Clean(net, state.archive)

-----------------------------------------------------------------------------
(* Sequences.                                                              *)

(* A sequence over any set is one.                                         *)
LEMMA AnySeq ==
    ASSUME NEW S, NEW s \in Seq(S)
    PROVE  IsSeq(s)
<1>1. Len(s) \in Nat /\ s \in [1..Len(s) -> S]
  BY LenProperties
<1>2. s \in [1..Len(s) -> {s[i] : i \in 1..Len(s)}]
  BY <1>1
<1> QED
  BY <1>1, <1>2, SeqDef DEF IsSeq

LEMMA SeqLen ==
    ASSUME NEW s, IsSeq(s)
    PROVE  Len(s) \in Nat /\ (s = << >> <=> Len(s) = 0)
<1> DEFINE S == {s[i] : i \in 1..Len(s)}
<1>1. s \in Seq(S)
  BY DEF IsSeq
<1> HIDE DEF S
<1>2. Len(s) \in Nat
  BY <1>1, LenProperties
<1>3. Len(<< >>) = 0 /\ (s # << >> => Len(s) \in Nat \ {0})
  BY <1>1, EmptySeq
<1> QED
  BY <1>2, <1>3

LEMMA EmptyIsSeq == IsSeq(<< >>) /\ Len(<< >>) = 0
<1>1. << >> \in Seq({}) /\ Len(<< >>) = 0
  BY EmptySeq
<1> QED
  BY <1>1, AnySeq

(* Sequences of the same length with the same elements are the same.       *)
LEMMA SameSeq ==
    ASSUME NEW s, NEW t, IsSeq(s), IsSeq(t),
           Len(s) = Len(t), \A i \in 1..Len(s) : s[i] = t[i]
    PROVE  s = t
<1> DEFINE S == {s[i] : i \in 1..Len(s)}
<1>1. s \in Seq(S)
  BY DEF IsSeq
<1>2. {t[i] : i \in 1..Len(t)} = S
  OBVIOUS
<1>3. t \in Seq(S)
  BY <1>2 DEF IsSeq
<1> HIDE DEF S
<1> QED
  BY <1>1, <1>3, SeqEqual

LEMMA Appended ==
    ASSUME NEW s, IsSeq(s), NEW e
    PROVE  /\ IsSeq(Append(s, e)) /\ Len(Append(s, e)) = Len(s) + 1
           /\ \A i \in 1..Len(s) : Append(s, e)[i] = s[i]
           /\ Append(s, e)[Len(s) + 1] = e
<1> DEFINE S == {s[i] : i \in 1..Len(s)}
<1>1. s \in Seq(S)
  BY DEF IsSeq
<1> HIDE DEF S
<1>2. S \subseteq S \cup {e} /\ e \in S \cup {e}
  OBVIOUS
<1>3. s \in Seq(S \cup {e})
  BY <1>1, <1>2, SeqMonotonic
<1>4. /\ Append(s, e) \in Seq(S \cup {e})
      /\ Len(Append(s, e)) = Len(s) + 1
      /\ \A i \in 1..Len(s) : Append(s, e)[i] = s[i]
      /\ Append(s, e)[Len(s) + 1] = e
  BY <1>2, <1>3, AppendProperties
<1> QED
  BY <1>4, AnySeq

(* A part of a sequence.                                                   *)
LEMMA Part ==
    ASSUME NEW s, IsSeq(s), NEW m \in Nat, NEW n \in Nat,
           1 <= m, m <= n + 1, n <= Len(s)
    PROVE  /\ IsSeq(SubSeq(s, m, n)) /\ Len(SubSeq(s, m, n)) = n - m + 1
           /\ \A i \in 1..(n - m + 1) : SubSeq(s, m, n)[i] = s[m + i - 1]
<1> DEFINE S == {s[i] : i \in 1..Len(s)}
<1>1. Len(s) \in Nat
  BY SeqLen
<1>2. \A i \in m..n : s[i] \in S
  BY <1>1
<1> HIDE DEF S
<1>3. m \in Int /\ n \in Int
  OBVIOUS
<1>4. /\ SubSeq(s, m, n) \in Seq(S)
      /\ Len(SubSeq(s, m, n)) = IF m <= n THEN n - m + 1 ELSE 0
      /\ \A i \in 1..(n - m + 1) : SubSeq(s, m, n)[i] = s[m + i - 1]
  BY <1>2, <1>3, SubSeqProperties
<1>5. (IF m <= n THEN n - m + 1 ELSE 0) = n - m + 1
  OBVIOUS
<1> QED
  BY <1>4, <1>5, AnySeq

LEMMA Prefix ==
    ASSUME NEW s, IsSeq(s), NEW n \in 0..Len(s)
    PROVE  /\ IsSeq(SubSeq(s, 1, n)) /\ Len(SubSeq(s, 1, n)) = n
           /\ \A i \in 1..n : SubSeq(s, 1, n)[i] = s[i]
<1>1. Len(s) \in Nat
  BY SeqLen
<1>2. /\ IsSeq(SubSeq(s, 1, n)) /\ Len(SubSeq(s, 1, n)) = n - 1 + 1
      /\ \A i \in 1..(n - 1 + 1) : SubSeq(s, 1, n)[i] = s[1 + i - 1]
  BY <1>1, Part
<1>3. n - 1 + 1 = n /\ \A i \in 1..n : 1 + i - 1 = i
  BY <1>1
<1> QED
  BY <1>2, <1>3

LEMMA Suffix ==
    ASSUME NEW s, IsSeq(s), NEW n \in 0..Len(s)
    PROVE  /\ IsSeq(LastOf(s, n)) /\ Len(LastOf(s, n)) = n
           /\ \A i \in 1..n : LastOf(s, n)[i] = s[Len(s) - n + i]
<1>1. Len(s) \in Nat
  BY SeqLen
<1> DEFINE m == Len(s) - n + 1
<1>2. m \in Nat /\ 1 <= m /\ m <= Len(s) + 1 /\ Len(s) - m + 1 = n
  BY <1>1
<1>3. \A i \in 1..n : m + i - 1 = Len(s) - n + i
  BY <1>1
<1>4. LastOf(s, n) = SubSeq(s, m, Len(s))
  BY DEF LastOf
<1> HIDE DEF m
<1>5. /\ IsSeq(SubSeq(s, m, Len(s)))
      /\ Len(SubSeq(s, m, Len(s))) = Len(s) - m + 1
      /\ \A i \in 1..(Len(s) - m + 1) : SubSeq(s, m, Len(s))[i] = s[m + i - 1]
  BY <1>1, <1>2, Part
<1> QED
  BY <1>2, <1>3, <1>4, <1>5

-----------------------------------------------------------------------------
(* What the shape gives the rules.                                         *)

LEMMA Remainder ==
    ASSUME NEW n \in Nat
    PROVE  /\ n % Period \in 0..(Period - 1)
           /\ n < Period => n % Period = n
<1>1. Period \in Nat \ {0}
  BY ConstantsAssumption
<1> QED
  BY <1>1

LEMMA Constants ==
    /\ Window \in Nat \ {0} /\ Period \in Nat \ {0} /\ MedianBlocks \in Nat \ {0}
    /\ MaxBack \in Nat
    /\ MaxBack + Period <= Window /\ MaxBack + MedianBlocks <= Window
  BY ConstantsAssumption

(* A set of numbers that is not empty has a least one.  It stands in for   *)
(* induction, of which the library's rules are out of the provers' reach.  *)
LEMMA Smallest ==
    ASSUME NEW S, S \subseteq Nat, S # {}
    PROVE  \E least \in S : \A n \in S : least <= n
<1>1. PICK least \in S : \A n \in S : <<n, least>> \notin OpToRel(<, Nat)
  BY NatLessThanWellFounded, WFMin, Zenon
<1>2. \A n \in S : ~(n < least)
  BY <1>1, Zenon DEF OpToRel
<1> QED
  BY <1>2

(* A set of numbers that is not empty, and bounded, has a largest one.     *)
LEMMA Highest ==
    ASSUME NEW n \in Nat, NEW S, S \subseteq 0..n, S # {}
    PROVE  \E h \in S : \A g \in S : g <= h
<1> DEFINE D == {n - h : h \in S}
<1>1. D \subseteq Nat
  OBVIOUS
<1>2. PICK k \in S : TRUE
  OBVIOUS
<1>3. n - k \in D
  OBVIOUS
<1>4. D # {}
  BY <1>3
<1>5. PICK d \in D : \A e \in D : d <= e
  BY <1>1, <1>4, Smallest
<1>6. PICK h \in S : d = n - h
  OBVIOUS
<1>7. ASSUME NEW g \in S
      PROVE  g <= h
  <2>1. n - g \in D /\ g \in Int /\ h \in Int
    OBVIOUS
  <2> HIDE DEF D
  <2>2. d <= n - g
    BY <1>5, <2>1
  <2> QED
    BY <1>6, <2>1, <2>2
<1> QED
  BY <1>7

(* The window has the last Period headers and the last MedianBlocks ones,  *)
(* or all there are.                                                       *)
LEMMA LongEnough ==
    ASSUME Shape(tipHeight, ring, archive, peak)
    PROVE  /\ Len(ring) \in Nat /\ Len(archive) = tipHeight + 1
           /\ tipHeight \in Int /\ tipHeight >= -1
           /\ Len(ring) >= Least(Len(archive), Period)
           /\ Len(ring) >= Least(Len(archive), MedianBlocks)
           /\ Len(ring) <= Len(archive)
<1>1. Len(ring) \in Nat
  BY SeqLen DEF Shape
<1> QED
  BY <1>1, Constants DEF Shape, Least

(* What an entry of the window is.                                         *)
LEMMA EntryIsHeader ==
    ASSUME Shape(tipHeight, ring, archive, peak), NEW height \in Int,
           InRing(height)
    PROVE  RingEntry(height) = archive[height + 1]
<1>1. Len(ring) \in Nat /\ Len(archive) = tipHeight + 1 /\ tipHeight \in Int
  BY LongEnough
<1>2. tipHeight - height \in 0..(Len(ring) - 1)
  BY DEF InRing
<1> DEFINE i == Len(ring) - (tipHeight - height)
<1>3. i \in 1..Len(ring) /\ Len(archive) - Len(ring) + i = height + 1
  BY <1>1, <1>2
<1> HIDE DEF i
<1>4. ring[i] = archive[Len(archive) - Len(ring) + i]
  BY <1>3 DEF Shape
<1> QED
  BY <1>3, <1>4 DEF RingEntry, i

LEMMA LastIsTip ==
    ASSUME Shape(tipHeight, ring, archive, peak), tipHeight >= 0
    PROVE  Len(ring) >= 1 /\ Last(ring) = Last(archive)
<1>1. /\ Len(ring) \in Nat /\ Len(archive) = tipHeight + 1 /\ tipHeight \in Int
      /\ Len(ring) >= Least(Len(archive), Period)
  BY LongEnough
<1>2. Len(ring) >= 1
  BY <1>1, Constants DEF Least
<1>3. Len(ring) \in 1..Len(ring)
      /\ Len(archive) - Len(ring) + Len(ring) = Len(archive)
  BY <1>1, <1>2
<1>4. ring[Len(ring)] = archive[Len(archive)]
  BY <1>3 DEF Shape
<1> QED
  BY <1>2, <1>4 DEF Last

LEMMA RecentInRing ==
    ASSUME Shape(tipHeight, ring, archive, peak), NEW height \in Nat,
           height <= tipHeight, tipHeight - height < Period
    PROVE  InRing(height)
  BY LongEnough, Constants DEF InRing, Least

(* The period start a retarget needs is there.                             *)
LEMMA StartInRing ==
    ASSUME Shape(tipHeight, ring, archive, peak), tipHeight >= 0, AtBoundary
    PROVE  /\ InRing(tipHeight + 1 - Period)
           /\ RingEntry(tipHeight + 1 - Period) = archive[Len(archive) - Period + 1]
<1>1. tipHeight \in Int /\ Len(archive) = tipHeight + 1 /\ Period \in Nat \ {0}
  BY LongEnough, Constants
<1>2. tipHeight + 1 \in Nat /\ tipHeight + 1 > 0
  BY <1>1
<1>3. tipHeight + 1 >= Period
  BY <1>1, <1>2, Remainder DEF AtBoundary
<1> DEFINE start == tipHeight + 1 - Period
<1>4. start \in Nat /\ start <= tipHeight /\ tipHeight - start < Period
      /\ start + 1 = Len(archive) - Period + 1
  BY <1>1, <1>3
<1> HIDE DEF start
<1>5. InRing(start)
  BY <1>4, RecentInRing
<1>6. RingEntry(start) = archive[start + 1]
  BY <1>4, <1>5, EntryIsHeader
<1> QED
  BY <1>4, <1>5, <1>6 DEF start

(* The median is that of the chain.                                        *)
LEMMA MedianOfChain ==
    ASSUME Shape(tipHeight, ring, archive, peak)
    PROVE  MedianTimePast
              = Median(LastOf(archive, Least(Len(archive), MedianBlocks)))
<1> DEFINE n == Least(Len(ring), MedianBlocks)
<1>1. /\ Len(ring) \in Nat /\ Len(archive) \in Nat /\ Len(ring) <= Len(archive)
      /\ Len(ring) >= Least(Len(archive), MedianBlocks)
      /\ MedianBlocks \in Nat
  BY LongEnough, Constants
<1>2. n = Least(Len(archive), MedianBlocks)
      /\ n \in 0..Len(ring) /\ n \in 0..Len(archive)
  BY <1>1 DEF Least
<1> HIDE DEF n
<1>3. /\ IsSeq(LastOf(ring, n)) /\ Len(LastOf(ring, n)) = n
      /\ \A i \in 1..n : LastOf(ring, n)[i] = ring[Len(ring) - n + i]
  BY <1>2, Suffix DEF Shape
<1>4. /\ IsSeq(LastOf(archive, n)) /\ Len(LastOf(archive, n)) = n
      /\ \A i \in 1..n : LastOf(archive, n)[i] = archive[Len(archive) - n + i]
  BY <1>2, Suffix DEF Shape
<1>5. ASSUME NEW i \in 1..n
      PROVE  LastOf(ring, n)[i] = LastOf(archive, n)[i]
  <2> DEFINE k == Len(ring) - n + i
  <2>1. k \in 1..Len(ring)
        /\ Len(archive) - Len(ring) + k = Len(archive) - n + i
    BY <1>1, <1>2
  <2> HIDE DEF k
  <2>2. ring[k] = archive[Len(archive) - Len(ring) + k]
    BY <2>1 DEF Shape
  <2> QED
    BY <1>3, <1>4, <2>1, <2>2 DEF k
<1>6. LastOf(ring, n) = LastOf(archive, n)
  BY <1>3, <1>4, <1>5, SameSeq
<1> QED
  BY <1>2, <1>6 DEF MedianTimePast, n

(* The walk for the last real bits misses no header of the period.         *)
LEMMA RealBitsOfChain ==
    ASSUME Shape(tipHeight, ring, archive, peak), tipHeight >= 0
    PROVE  LET real == {h \in (tipHeight - (tipHeight % Period))..tipHeight :
                           archive[h + 1].bits # PowLimitBits}
           IN LastRealBits =
                IF real = {} THEN PowLimitBits
                ELSE archive[1 + CHOOSE h \in real : \A g \in real : g <= h].bits
<1> DEFINE period == (tipHeight - (tipHeight % Period))..tipHeight
           real == {h \in period : archive[h + 1].bits # PowLimitBits}
           seen == {h \in period : InRing(h) /\ RingEntry(h).bits # PowLimitBits}
           Greatest(S) == CHOOSE h \in S : \A g \in S : g <= h
           last == Greatest(real)
<1>1. tipHeight \in Nat
  BY LongEnough
<1>2. tipHeight % Period \in 0..(Period - 1) /\ tipHeight % Period <= tipHeight
  <2>1. Period \in Nat \ {0}
    BY Constants
  <2>2. CASE tipHeight < Period
    BY <1>1, <2>1, <2>2, Remainder
  <2>3. CASE tipHeight >= Period
    BY <1>1, <2>1, <2>3, Remainder
  <2> QED
    BY <1>1, <2>1, <2>2, <2>3
<1>3. ASSUME NEW h \in period
      PROVE  h \in Int /\ InRing(h) /\ RingEntry(h) = archive[h + 1]
  <2>1. h \in Nat /\ h <= tipHeight /\ tipHeight - h < Period
    BY <1>1, <1>2, Constants
  <2>2. InRing(h)
    BY <2>1, RecentInRing
  <2> QED
    BY <2>1, <2>2, EntryIsHeader
<1>4. seen = real
  BY <1>3
<1>5. LastRealBits =
         IF seen = {} THEN PowLimitBits
         ELSE RingEntry(Greatest(seen)).bits
  BY DEF LastRealBits
<1>6. LastRealBits = IF real = {} THEN PowLimitBits ELSE RingEntry(last).bits
  <2> HIDE DEF seen, real, Greatest
  <2> QED
    BY <1>4, <1>5
<1>7. CASE real = {}
  BY <1>6, <1>7
<1>8. CASE real # {}
  <2>1. real \subseteq 0..tipHeight
    BY <1>1, <1>2, Constants
  <2>2. \E h \in real : \A g \in real : g <= h
    BY <1>1, <1>8, <2>1, Highest
  <2>3. last \in real
    BY <2>2
  <2> HIDE DEF last
  <2>4. last \in period
    BY <2>3
  <2>5. last \in Int /\ RingEntry(last) = archive[last + 1]
    BY <1>3, <2>4
  <2>6. last + 1 = 1 + last
    BY <2>5
  <2> QED
    BY <1>6, <1>8, <2>5, <2>6 DEF last
<1> QED
  BY <1>7, <1>8

(* The bits the accumulator requires are those the rules do.               *)
LEMMA BitsOfChain ==
    ASSUME Shape(tipHeight, ring, archive, peak), tipHeight >= 0,
           ~PeriodStartLost, NEW time
    PROVE  ExpectedBits(time) = Required(net, archive, time)
<1> DEFINE height == Len(archive)
           real == {h \in (height - 1 - ((height - 1) % Period))..(height - 1) :
                       archive[h + 1].bits # PowLimitBits}
           last == CHOOSE h \in real : \A g \in real : g <= h
<1>1. tipHeight \in Int /\ height = tipHeight + 1 /\ height - 1 = tipHeight
  BY LongEnough
<1>2. Last(ring) = Last(archive)
  BY LastIsTip
<1>3. Required(net, archive, time) =
        IF net.retargets /\ height % Period = 0
        THEN Retarget(Last(archive), archive[height - Period + 1])
        ELSE IF ~net.retargets \/ ~net.minimum THEN Last(archive).bits
        ELSE IF time > Last(archive).time + 2 * Spacing \/ real = {} THEN PowLimitBits
        ELSE archive[1 + last].bits
  BY DEF Required
<1>4. LastRealBits = IF real = {} THEN PowLimitBits ELSE archive[1 + last].bits
  BY <1>1, RealBitsOfChain
<1>5. AtBoundary <=> height % Period = 0
  BY <1>1 DEF AtBoundary
<1>6. AtBoundary => RingEntry(tipHeight + 1 - Period) = archive[height - Period + 1]
  BY StartInRing
<1>7. ~(tipHeight < 0)
  BY <1>1
<1> HIDE DEF real, last, height
<1> QED
  BY <1>2, <1>3, <1>4, <1>5, <1>6, <1>7, Zenon DEF ExpectedBits

-----------------------------------------------------------------------------
(* The steps keep the shape.                                               *)

(* Sliding keeps the end of a sequence.                                    *)
LEMMA Slid ==
    ASSUME NEW s, IsSeq(s)
    PROVE  /\ IsSeq(Slide(s)) /\ Len(Slide(s)) = Least(Len(s), Window)
           /\ \A i \in 1..Len(Slide(s)) : Slide(s)[i] = s[Len(s) - Len(Slide(s)) + i]
<1>1. Len(s) \in Nat /\ Window \in Nat
  BY SeqLen, Constants
<1>2. CASE Len(s) > Window
  <2>1. Window \in 0..Len(s) /\ Least(Len(s), Window) = Window
    BY <1>1, <1>2 DEF Least
  <2>2. Slide(s) = LastOf(s, Window)
    BY <1>2 DEF Slide
  <2>3. /\ IsSeq(LastOf(s, Window)) /\ Len(LastOf(s, Window)) = Window
        /\ \A i \in 1..Window : LastOf(s, Window)[i] = s[Len(s) - Window + i]
    BY <2>1, Suffix
  <2> QED
    BY <2>1, <2>2, <2>3
<1>3. CASE ~(Len(s) > Window)
  <2>1. Least(Len(s), Window) = Len(s)
    BY <1>1, <1>3 DEF Least
  <2>2. Slide(s) = s
    BY <1>3 DEF Slide
  <2>3. ASSUME NEW i \in 1..Len(s)
        PROVE  s[i] = s[Len(s) - Len(s) + i]
    <3>1. Len(s) - Len(s) + i = i
      BY <1>1
    <3> QED
      BY <3>1
  <2> QED
    BY <2>1, <2>2, <2>3
<1> QED
  BY <1>2, <1>3

LEMMA ConnectShape ==
    ASSUME NEW tip, NEW window, NEW headers, NEW top, NEW entry,
           Shape(tip, window, headers, top)
    PROVE  Shape(tip + 1, Slide(Append(window, entry)), Append(headers, entry),
                 IF tip + 1 > top THEN tip + 1 ELSE top)
<1> DEFINE long == Append(window, entry)
           w == Slide(long)
           h == Append(headers, entry)
           t == IF tip + 1 > top THEN tip + 1 ELSE top
<1>1. /\ IsSeq(window) /\ IsSeq(headers)
      /\ tip \in Int /\ tip >= -1 /\ top \in Int /\ top >= tip /\ top - tip <= MaxBack
      /\ Len(headers) = tip + 1
      /\ Len(window) <= Len(headers) /\ Len(window) <= Window
      /\ Len(window) >= Least(tip + 1, Window - (top - tip))
      /\ \A i \in 1..Len(window) :
            window[i] = headers[Len(headers) - Len(window) + i]
  BY DEF Shape
<1>2. Len(window) \in Nat /\ Len(headers) \in Nat
  BY <1>1, SeqLen
<1>3. /\ IsSeq(long) /\ Len(long) = Len(window) + 1
      /\ \A i \in 1..Len(window) : long[i] = window[i]
      /\ long[Len(window) + 1] = entry
  BY <1>1, Appended
<1>4. /\ IsSeq(h) /\ Len(h) = Len(headers) + 1
      /\ \A i \in 1..Len(headers) : h[i] = headers[i]
      /\ h[Len(headers) + 1] = entry
  BY <1>1, Appended
<1> HIDE DEF long, h
<1>5. /\ IsSeq(w) /\ Len(w) = Least(Len(long), Window)
      /\ \A i \in 1..Len(w) : w[i] = long[Len(long) - Len(w) + i]
  BY <1>3, Slid
<1>6. ASSUME NEW i \in 1..Len(long)
      PROVE  long[i] = h[Len(h) - Len(long) + i]
  <2>1. CASE i \in 1..Len(window)
    <3>1. long[i] = headers[Len(headers) - Len(window) + i]
      BY <1>1, <1>3, <2>1
    <3>2. Len(headers) - Len(window) + i \in 1..Len(headers)
          /\ Len(h) - Len(long) + i = Len(headers) - Len(window) + i
      BY <1>1, <1>2, <1>3, <1>4, <2>1
    <3> QED
      BY <1>4, <3>1, <3>2
  <2>2. CASE i = Len(window) + 1
    <3>1. Len(h) - Len(long) + i = Len(headers) + 1
      BY <1>2, <1>3, <1>4, <2>2
    <3> QED
      BY <1>3, <1>4, <2>2, <3>1
  <2> QED
    BY <1>2, <1>3, <2>1, <2>2
<1> HIDE DEF w
<1>7. Len(w) \in Nat /\ Len(w) <= Len(long) /\ Len(w) <= Window
  BY <1>2, <1>3, <1>5, Constants DEF Least
<1>8. ASSUME NEW i \in 1..Len(w)
      PROVE  w[i] = h[Len(h) - Len(w) + i]
  <2> DEFINE k == Len(long) - Len(w) + i
  <2>1. k \in 1..Len(long) /\ Len(h) - Len(long) + k = Len(h) - Len(w) + i
    BY <1>2, <1>3, <1>4, <1>7
  <2>2. w[i] = long[k]
    BY <1>5
  <2> HIDE DEF k
  <2>3. long[k] = h[Len(h) - Len(long) + k]
    BY <1>6, <2>1
  <2> QED
    BY <2>1, <2>2, <2>3
<1>9. t \in Int /\ t >= tip + 1 /\ t - (tip + 1) <= MaxBack
  BY <1>1, Constants
<1>10. Len(w) >= Least(tip + 1 + 1, Window - (t - (tip + 1)))
  BY <1>1, <1>2, <1>3, <1>5, Constants DEF Least
<1>11. Len(h) = tip + 1 + 1 /\ Len(w) <= Len(h)
  BY <1>1, <1>2, <1>3, <1>4, <1>7
<1> HIDE DEF t
<1>12. Shape(tip + 1, w, h, t)
  BY <1>1, <1>4, <1>5, <1>7, <1>8, <1>9, <1>10, <1>11 DEF Shape
<1> QED
  BY <1>12 DEF w, h, t, long

LEMMA RollbackShape ==
    ASSUME NEW tip, NEW window, NEW headers, NEW top, NEW height \in Int,
           Shape(tip, window, headers, top),
           height < tip, tip - height < Len(window), top - height <= MaxBack
    PROVE  Shape(height, SubSeq(window, 1, Len(window) - (tip - height)),
                 SubSeq(headers, 1, Len(headers) - (tip - height)), top)
<1> DEFINE drop == tip - height
           w == SubSeq(window, 1, Len(window) - drop)
           h == SubSeq(headers, 1, Len(headers) - drop)
<1>1. /\ IsSeq(window) /\ IsSeq(headers)
      /\ tip \in Int /\ tip >= -1 /\ top \in Int /\ top >= tip
      /\ Len(headers) = tip + 1
      /\ Len(window) <= Len(headers) /\ Len(window) <= Window
      /\ Len(window) >= Least(tip + 1, Window - (top - tip))
      /\ \A i \in 1..Len(window) :
            window[i] = headers[Len(headers) - Len(window) + i]
  BY DEF Shape
<1>2. Len(window) \in Nat /\ Len(headers) \in Nat
  BY <1>1, SeqLen
<1>3. /\ drop \in Nat
      /\ Len(window) - drop \in 0..Len(window)
      /\ Len(headers) - drop \in 0..Len(headers)
  BY <1>1, <1>2
<1>4. /\ IsSeq(w) /\ Len(w) = Len(window) - drop
      /\ \A i \in 1..Len(w) : w[i] = window[i]
  BY <1>1, <1>3, Prefix
<1>5. /\ IsSeq(h) /\ Len(h) = Len(headers) - drop
      /\ \A i \in 1..Len(h) : h[i] = headers[i]
  BY <1>1, <1>3, Prefix
<1> HIDE DEF w, h
<1>6. ASSUME NEW i \in 1..Len(w)
      PROVE  w[i] = h[Len(h) - Len(w) + i]
  <2>1. i \in 1..Len(window)
        /\ Len(h) - Len(w) + i \in 1..Len(h)
        /\ Len(h) - Len(w) + i = Len(headers) - Len(window) + i
    BY <1>1, <1>2, <1>3, <1>4, <1>5
  <2> QED
    BY <1>1, <1>4, <1>5, <2>1
<1>7. /\ height >= -1 /\ top >= height
      /\ Len(h) = height + 1 /\ Len(w) <= Len(h) /\ Len(w) <= Window
      /\ Len(w) >= Least(height + 1, Window - (top - height))
  BY <1>1, <1>2, <1>3, <1>4, <1>5, Constants DEF Least
<1> QED
  BY <1>1, <1>4, <1>5, <1>6, <1>7 DEF Shape, w, h

-----------------------------------------------------------------------------
(* The steps keep the rules.                                               *)

(* A prefix of a chain that obeys the rules does.                          *)
LEMMA PrefixClean ==
    ASSUME NEW rules, NEW s, IsSeq(s), Clean(rules, s), NEW n \in 1..Len(s)
    PROVE  Clean(rules, SubSeq(s, 1, n))
<1> DEFINE p == SubSeq(s, 1, n)
<1>1. Len(s) \in Nat /\ n \in 0..Len(s) /\ s # << >>
  BY SeqLen
<1>2. IsSeq(p) /\ Len(p) = n /\ \A i \in 1..n : p[i] = s[i]
  BY <1>1, Prefix
<1> HIDE DEF p
<1>3. p[1].hash = GenesisHash
  BY <1>1, <1>2 DEF Clean
<1>4. ASSUME NEW i \in 2..n
      PROVE  Obeys(rules, SubSeq(p, 1, i - 1), p[i])
  <2>1. i - 1 \in 0..Len(p) /\ i - 1 \in 0..Len(s) /\ i \in 2..Len(s) /\ i \in 1..n
    BY <1>1, <1>2
  <2>2. /\ IsSeq(SubSeq(p, 1, i - 1)) /\ Len(SubSeq(p, 1, i - 1)) = i - 1
        /\ \A j \in 1..(i - 1) : SubSeq(p, 1, i - 1)[j] = p[j]
    BY <1>2, <2>1, Prefix
  <2>3. /\ IsSeq(SubSeq(s, 1, i - 1)) /\ Len(SubSeq(s, 1, i - 1)) = i - 1
        /\ \A j \in 1..(i - 1) : SubSeq(s, 1, i - 1)[j] = s[j]
    BY <2>1, Prefix
  <2>4. \A j \in 1..(i - 1) : j \in 1..n
    BY <2>1
  <2>5. \A j \in 1..(i - 1) : SubSeq(p, 1, i - 1)[j] = SubSeq(s, 1, i - 1)[j]
    BY <1>2, <2>2, <2>3, <2>4
  <2>6. SubSeq(p, 1, i - 1) = SubSeq(s, 1, i - 1)
    BY <2>2, <2>3, <2>5, SameSeq
  <2>7. Obeys(rules, SubSeq(s, 1, i - 1), s[i])
    BY <2>1 DEF Clean, AllObey
  <2> QED
    BY <1>2, <2>1, <2>6, <2>7
<1> QED
  BY <1>2, <1>3, <1>4 DEF Clean, AllObey, p

(* So does one that a header is appended to which obeys them.              *)
LEMMA AppendClean ==
    ASSUME NEW rules, NEW s, IsSeq(s), Clean(rules, s), NEW entry,
           Len(s) = 0 => entry.hash = GenesisHash,
           Len(s) > 0 => Obeys(rules, s, entry)
    PROVE  Clean(rules, Append(s, entry))
<1> DEFINE a == Append(s, entry)
<1>1. Len(s) \in Nat /\ (s # << >> => Len(s) > 0)
  BY SeqLen
<1>2. /\ IsSeq(a) /\ Len(a) = Len(s) + 1
      /\ \A i \in 1..Len(s) : a[i] = s[i]
      /\ a[Len(s) + 1] = entry
  BY Appended
<1> HIDE DEF a
<1>3. a[1].hash = GenesisHash
  <2>1. CASE Len(s) = 0
    BY <1>2, <2>1
  <2>2. CASE Len(s) > 0
    <3>1. s # << >> /\ 1 \in 1..Len(s)
      BY <1>1, <2>2, SeqLen
    <3> QED
      BY <1>2, <3>1 DEF Clean
  <2> QED
    BY <1>1, <2>1, <2>2
<1>4. ASSUME NEW i \in 2..Len(a)
      PROVE  Obeys(rules, SubSeq(a, 1, i - 1), a[i])
  <2>1. i - 1 \in 0..Len(a) /\ i - 1 \in 0..Len(s)
    BY <1>1, <1>2
  <2>2. /\ IsSeq(SubSeq(a, 1, i - 1)) /\ Len(SubSeq(a, 1, i - 1)) = i - 1
        /\ \A j \in 1..(i - 1) : SubSeq(a, 1, i - 1)[j] = a[j]
    BY <1>2, <2>1, Prefix
  <2>3. /\ IsSeq(SubSeq(s, 1, i - 1)) /\ Len(SubSeq(s, 1, i - 1)) = i - 1
        /\ \A j \in 1..(i - 1) : SubSeq(s, 1, i - 1)[j] = s[j]
    BY <2>1, Prefix
  <2>4. \A j \in 1..(i - 1) : j \in 1..Len(s)
    BY <1>1, <2>1
  <2>5. \A j \in 1..(i - 1) : SubSeq(a, 1, i - 1)[j] = SubSeq(s, 1, i - 1)[j]
    BY <1>2, <2>2, <2>3, <2>4
  <2>6. SubSeq(a, 1, i - 1) = SubSeq(s, 1, i - 1)
    BY <2>2, <2>3, <2>5, SameSeq
  <2>7. CASE i \in 2..Len(s)
    <3>1. Obeys(rules, SubSeq(s, 1, i - 1), s[i])
      BY <2>7 DEF Clean, AllObey
    <3>2. i \in 1..Len(s)
      BY <1>1, <2>7
    <3> QED
      BY <1>2, <2>6, <3>1, <3>2
  <2>8. CASE i = Len(s) + 1
    <3>1. i - 1 = Len(s) /\ Len(s) > 0
      BY <1>1, <2>8
    <3>2. \A j \in 1..Len(s) : SubSeq(s, 1, Len(s))[j] = s[j]
      BY <2>3, <3>1
    <3>3. SubSeq(s, 1, Len(s)) = s
      BY <2>3, <3>1, <3>2, SameSeq
    <3> QED
      BY <1>2, <2>6, <2>8, <3>1, <3>3
  <2> QED
    BY <1>1, <1>2, <2>7, <2>8
<1> QED
  BY <1>2, <1>3, <1>4 DEF Clean, AllObey, a

(* What is connected obeys the rules over the whole chain.                 *)
LEMMA ConnectObeys ==
    ASSUME Shape(tipHeight, ring, archive, peak), ~PeriodStartLost,
           NEW prev, NEW time, Links(prev, time)
    PROVE  LET bits == ExpectedBits(time)
               entry == [hash |-> Hash(prev, time, bits), time |-> time, bits |-> bits]
           IN /\ Len(archive) = 0 => entry.hash = GenesisHash
              /\ Len(archive) > 0 => Obeys(net, archive, entry)
<1> DEFINE bits == ExpectedBits(time)
           entry == [hash |-> Hash(prev, time, bits), time |-> time, bits |-> bits]
<1>1. tipHeight \in Int /\ Len(archive) = tipHeight + 1
  BY LongEnough
<1>2. entry.hash = Hash(prev, time, bits) /\ entry.time = time /\ entry.bits = bits
  OBVIOUS
<1>3. CASE tipHeight < 0
  <2>1. bits = PowLimitBits
    BY <1>3 DEF ExpectedBits
  <2>2. Hash(prev, time, PowLimitBits) = GenesisHash
    BY <1>3 DEF Links
  <2>3. entry.hash = GenesisHash
    BY <1>2, <2>1, <2>2
  <2>4. ~(Len(archive) > 0)
    BY <1>1, <1>3
  <2> QED
    BY <2>3, <2>4
<1>4. CASE tipHeight >= 0
  <2>1. ~(tipHeight < 0) /\ ~(Len(archive) = 0)
    BY <1>1, <1>4
  <2>2. prev = Last(ring).hash /\ time > MedianTimePast
    BY <2>1 DEF Links
  <2>3. prev = Last(archive).hash
    BY <1>4, <2>2, LastIsTip
  <2>4. entry.hash[1] = prev
    BY <1>2 DEF Hash
  <2>5. time > Median(LastOf(archive, Least(Len(archive), MedianBlocks)))
    BY <2>2, MedianOfChain
  <2>6. bits = Required(net, archive, time)
    BY <1>4, BitsOfChain
  <2>7. Obeys(net, archive, entry)
    <3> HIDE DEF entry, bits
    <3> QED
      BY <1>2, <2>3, <2>4, <2>5, <2>6 DEF Obeys
  <2> QED
    BY <2>1, <2>7
<1> QED
  BY <1>1, <1>3, <1>4

-----------------------------------------------------------------------------
(* The invariant.                                                          *)

LEMMA EmptyIsSound ==
    ASSUME NEW rules
    PROVE  Shape(-1, << >>, << >>, -1) /\ Clean(rules, << >>)
<1>1. IsSeq(<< >>) /\ Len(<< >>) = 0
  BY EmptyIsSeq
<1>2. Shape(-1, << >>, << >>, -1)
  BY <1>1, Constants DEF Shape, Least
<1> QED
  BY <1>1, <1>2 DEF Clean, AllObey

LEMMA InitIInv == Init => IInv
  BY EmptyIsSound DEF Init, IInv

(* A header connected leaves a sound chain.                                *)
LEMMA ConnectKeeps ==
    ASSUME IInv, NEW prev, NEW time, Connect(prev, time)
    PROVE  IInv'
<1> DEFINE bits == ExpectedBits(time)
           entry == [hash |-> Hash(prev, time, bits), time |-> time, bits |-> bits]
<1>1. /\ net' = net /\ exported' = exported
      /\ Links(prev, time) /\ ~PeriodStartLost
      /\ tipHeight' = tipHeight + 1
      /\ ring' = Slide(Append(ring, entry))
      /\ archive' = Append(archive, entry)
      /\ peak' = IF tipHeight + 1 > peak THEN tipHeight + 1 ELSE peak
  BY DEF Connect
<1>2. Shape(tipHeight, ring, archive, peak) /\ Clean(net, archive) /\ IsSeq(archive)
  BY DEF IInv, Shape
<1>3. /\ Len(archive) = 0 => entry.hash = GenesisHash
      /\ Len(archive) > 0 => Obeys(net, archive, entry)
  BY <1>1, <1>2, ConnectObeys
<1> HIDE DEF entry
<1>4. Shape(tipHeight', ring', archive', peak')
  BY <1>1, <1>2, ConnectShape
<1>5. Clean(net, archive')
  BY <1>1, <1>2, <1>3, AppendClean
<1> QED
  BY <1>1, <1>4, <1>5 DEF IInv

(* So does a rollback.                                                     *)
LEMMA RollbackKeeps ==
    ASSUME IInv, NEW height \in Int, Rollback(height)
    PROVE  IInv'
<1> DEFINE drop == tipHeight - height
<1>1. /\ net' = net /\ exported' = exported /\ peak' = peak
      /\ peak - height <= MaxBack /\ height < tipHeight /\ drop < Len(ring)
      /\ tipHeight' = height
      /\ ring' = SubSeq(ring, 1, Len(ring) - drop)
      /\ archive' = SubSeq(archive, 1, Len(archive) - drop)
  BY DEF Rollback
<1>2. Shape(tipHeight, ring, archive, peak) /\ Clean(net, archive) /\ IsSeq(archive)
  BY DEF IInv, Shape
<1>3. Shape(tipHeight', ring', archive', peak')
  BY <1>1, <1>2, RollbackShape
<1>4. Len(archive) - drop \in 1..Len(archive)
  BY <1>1, <1>2, LongEnough
<1>5. Clean(net, archive')
  BY <1>1, <1>2, <1>4, PrefixClean
<1> QED
  BY <1>1, <1>3, <1>5 DEF IInv

LEMMA NextIInv == IInv /\ [Next]_vars => IInv'
<1> SUFFICES ASSUME IInv, [Next]_vars
             PROVE  IInv'
  OBVIOUS
<1>1. ASSUME NEW prev \in Hashes, NEW time \in 0..(MaxTime + 1), Connect(prev, time)
      PROVE  IInv'
  BY <1>1, ConnectKeeps
<1>2. ASSUME NEW height \in -1..MaxTip, Rollback(height)
      PROVE  IInv'
  <2>1. height \in Int
    BY ConstantsAssumption
  <2> QED
    BY <1>2, <2>1, RollbackKeeps
<1>3. CASE Export
  BY <1>3 DEF Export, IInv
<1>4. CASE Import
  BY <1>4 DEF Import, IInv
<1>5. CASE New
  BY <1>5, EmptyIsSound DEF New, IInv
<1>6. CASE UNCHANGED vars
  BY <1>6 DEF vars, IInv
<1> QED
  BY <1>1, <1>2, <1>3, <1>4, <1>5, <1>6 DEF Next

LEMMA Invariant == Spec => []IInv
  BY InitIInv, NextIInv, PTL DEF Spec

-----------------------------------------------------------------------------
(* The window is the end of the chain in every state.                      *)
LEMMA WindowIsRecent == Spec => []RingIsRecent
<1>1. ASSUME IInv
      PROVE  RingIsRecent
  <2>1. /\ Shape(tipHeight, ring, archive, peak)
        /\ IsSeq(ring) /\ IsSeq(archive) /\ Len(archive) = tipHeight + 1
        /\ Len(ring) <= Len(archive)
    BY <1>1 DEF IInv, Shape
  <2>2. Len(ring) \in Nat /\ Len(archive) \in Nat
    BY <2>1, SeqLen
  <2>3. Len(ring) \in 0..Len(archive)
    BY <2>1, <2>2
  <2>4. /\ IsSeq(LastOf(archive, Len(ring))) /\ Len(LastOf(archive, Len(ring))) = Len(ring)
        /\ \A i \in 1..Len(ring) :
              LastOf(archive, Len(ring))[i] = archive[Len(archive) - Len(ring) + i]
    BY <2>1, <2>3, Suffix
  <2>5. \A i \in 1..Len(ring) : ring[i] = archive[Len(archive) - Len(ring) + i]
    BY <2>1 DEF Shape
  <2>6. ring = LastOf(archive, Len(ring))
    BY <2>1, <2>4, <2>5, SameSeq
  <2>7. tipHeight >= 0 => ring # << >>
    BY <2>1, LastIsTip, EmptyIsSeq
  <2> QED
    BY <2>1, <2>6, <2>7 DEF RingIsRecent
<1> QED
  BY <1>1, Invariant, PTL

(* Every retarget finds the start of its period in the window, and every   *)
(* median its blocks, while rollbacks stay within MaxBack of the highest   *)
(* tip: the promise of neutrino.go:53-56, with the margin it takes.        *)
THEOREM WindowIsEnough == Spec => []WindowSuffices
<1>1. ASSUME IInv
      PROVE  WindowSuffices
  <2>1. Shape(tipHeight, ring, archive, peak)
    BY <1>1 DEF IInv
  <2>2. ~PeriodStartLost
    BY <2>1, StartInRing DEF PeriodStartLost
  <2> QED
    BY <2>1, <2>2, LongEnough DEF WindowSuffices
<1> QED
  BY <1>1, Invariant, PTL

(* Whatever connectHeader() accepts from its window, a node that keeps     *)
(* every header accepts: the chain obeys the rules of its network.         *)
THEOREM ChainObeysRules == Spec => []RulesKept
<1>1. IInv => RulesKept
  BY DEF IInv, Clean, RulesKept
<1> QED
  BY <1>1, Invariant, PTL

-----------------------------------------------------------------------------
(* Work.  It is a recursive function of a chain's length: that there is    *)
(* such a function, and what it is for two chains that share headers, is   *)
(* shown of the least length for which it would not be so.                 *)

(* t[n] is the work of the first n headers.                                *)
IsTotal(t, s, k) ==
    t = [n \in 0..k |-> IF n = 0 THEN 0 ELSE t[n - 1] + CalcWork(s[n].bits)]

Total(s) == CHOOSE t : IsTotal(t, s, Len(s))

LEMMA TotalExists ==
    ASSUME NEW s, NEW k \in Nat
    PROVE  \E t : IsTotal(t, s, k)
<1> DEFINE Bad == {n \in Nat : ~\E t : IsTotal(t, s, n)}
<1> SUFFICES ASSUME Bad # {}
             PROVE  FALSE
  OBVIOUS
<1>1. Bad \subseteq Nat
  OBVIOUS
<1>2. PICK n \in Bad : \A m \in Bad : n <= m
  BY <1>1, Smallest
<1>3. n \in Nat /\ ~\E t : IsTotal(t, s, n)
  OBVIOUS
<1>4. CASE n = 0
  <2> DEFINE t == [m \in 0..0 |-> 0]
  <2>1. t = [m \in 0..0 |-> IF m = 0 THEN 0 ELSE t[m - 1] + CalcWork(s[m].bits)]
    OBVIOUS
  <2> HIDE DEF t
  <2>2. IsTotal(t, s, n)
    BY <1>4, <2>1 DEF IsTotal
  <2> QED
    BY <1>3, <2>2
<1>5. CASE n # 0
  <2>1. n - 1 \in Nat /\ n - 1 \notin Bad
    BY <1>2, <1>3, <1>5
  <2>2. PICK t : IsTotal(t, s, n - 1)
    BY <2>1
  <2> HIDE DEF Bad
  <2>3. t = [m \in 0..(n - 1) |-> IF m = 0 THEN 0 ELSE t[m - 1] + CalcWork(s[m].bits)]
    BY <2>2 DEF IsTotal
  <2> DEFINE W(m) == CalcWork(s[m].bits)
             u == [m \in 0..n |-> IF m = n THEN t[n - 1] + W(n) ELSE t[m]]
  <2>4. \A m \in 0..(n - 1) : t[m] = IF m = 0 THEN 0 ELSE t[m - 1] + W(m)
    BY <2>3
  <2> HIDE DEF W
  <2>5. ASSUME NEW m \in 0..n
        PROVE  u[m] = IF m = 0 THEN 0 ELSE u[m - 1] + W(m)
    <3>1. CASE m = n
      <4>1. u[m] = t[n - 1] + W(n)
        BY <3>1
      <4>2. n - 1 \in 0..n /\ n - 1 # n
        BY <1>3, <1>5
      <4>3. u[n - 1] = t[n - 1]
        BY <4>2
      <4> QED
        BY <1>5, <3>1, <4>1, <4>3
    <3>2. CASE m # n
      <4>1. m \in 0..(n - 1) /\ u[m] = t[m]
        BY <1>3, <3>2
      <4>2. m # 0 => m - 1 \in 0..n /\ m - 1 # n
        BY <1>3, <4>1
      <4>3. m # 0 => u[m - 1] = t[m - 1]
        BY <4>2
      <4> QED
        BY <2>4, <4>1, <4>3
    <3> QED
      BY <3>1, <3>2
  <2>6. u = [m \in 0..n |-> u[m]]
    OBVIOUS
  <2> HIDE DEF u
  <2>7. u = [m \in 0..n |-> IF m = 0 THEN 0 ELSE u[m - 1] + W(m)]
    BY <2>5, <2>6
  <2>8. IsTotal(u, s, n)
    BY <2>7 DEF IsTotal, W
  <2> QED
    BY <1>3, <2>8
<1> QED
  BY <1>4, <1>5

(* What the work of a chain is.                                            *)
LEMMA TotalOf ==
    ASSUME NEW s, IsSeq(s)
    PROVE  /\ Work(s) = Total(s)[Len(s)]
           /\ Total(s)[0] = 0
           /\ \A n \in 1..Len(s) : Total(s)[n] = Total(s)[n - 1] + CalcWork(s[n].bits)
<1>1. Len(s) \in Nat
  BY SeqLen
<1>2. \E t : IsTotal(t, s, Len(s))
  BY <1>1, TotalExists
<1>3. IsTotal(Total(s), s, Len(s))
  BY <1>2 DEF Total
<1>4. Work(s) = Total(s)[Len(s)]
  BY DEF Work, Total, IsTotal
<1> DEFINE t == Total(s)
<1> HIDE DEF t
<1>5. t = [n \in 0..Len(s) |-> IF n = 0 THEN 0 ELSE t[n - 1] + CalcWork(s[n].bits)]
  BY <1>3 DEF IsTotal, t
<1>6. t[0] = 0 /\ \A n \in 1..Len(s) : t[n] = t[n - 1] + CalcWork(s[n].bits)
  BY <1>1, <1>5
<1> QED
  BY <1>4, <1>6 DEF t

(* Chains that begin with the same headers have the same work that far.    *)
LEMMA SameTotals ==
    ASSUME NEW s, IsSeq(s), NEW r, IsSeq(r), NEW k \in Nat,
           k <= Len(s), k <= Len(r), \A i \in 1..k : s[i] = r[i]
    PROVE  \A n \in 0..k : Total(s)[n] = Total(r)[n]
<1> DEFINE Bad == {n \in 0..k : Total(s)[n] # Total(r)[n]}
<1> SUFFICES ASSUME Bad # {}
             PROVE  FALSE
  OBVIOUS
<1>1. Bad \subseteq Nat
  OBVIOUS
<1>2. PICK n \in Bad : \A m \in Bad : n <= m
  BY <1>1, Smallest
<1>3. n \in 0..k /\ Total(s)[n] # Total(r)[n] /\ Len(s) \in Nat /\ Len(r) \in Nat
  BY SeqLen
<1>4. n # 0
  BY <1>3, TotalOf
<1>5. /\ n - 1 \in 0..k /\ n - 1 \notin Bad
      /\ n \in 1..k /\ n \in 1..Len(s) /\ n \in 1..Len(r)
  BY <1>2, <1>3, <1>4
<1>6. Total(s)[n - 1] = Total(r)[n - 1]
  BY <1>5
<1>7. Total(s)[n] = Total(s)[n - 1] + CalcWork(s[n].bits)
      /\ Total(r)[n] = Total(r)[n - 1] + CalcWork(r[n].bits)
  BY <1>5, TotalOf
<1> QED
  BY <1>3, <1>5, <1>6, <1>7

LEMMA WorkAppended ==
    ASSUME NEW s, IsSeq(s), NEW entry
    PROVE  Work(Append(s, entry)) = Work(s) + CalcWork(entry.bits)
<1> DEFINE a == Append(s, entry)
<1>1. /\ IsSeq(a) /\ Len(a) = Len(s) + 1
      /\ \A i \in 1..Len(s) : a[i] = s[i]
      /\ a[Len(s) + 1] = entry
  BY Appended
<1> HIDE DEF a
<1>2. Len(s) \in Nat /\ Len(s) \in 0..Len(s) /\ Len(a) \in 1..Len(a)
      /\ Len(a) - 1 = Len(s) /\ Len(s) <= Len(a)
  BY <1>1, SeqLen
<1>3. Total(a)[Len(s)] = Total(s)[Len(s)]
  BY <1>1, <1>2, SameTotals
<1>4. Total(a)[Len(a)] = Total(a)[Len(s)] + CalcWork(entry.bits)
  BY <1>1, <1>2, TotalOf
<1>5. Work(s) = Total(s)[Len(s)] /\ Work(a) = Total(a)[Len(a)]
  BY <1>1, TotalOf
<1> QED
  BY <1>3, <1>4, <1>5 DEF a

(* Every header of a chain has a target its network allows.                *)
Workable(headers) == \A i \in 1..Len(headers) : Allowed(headers[i].bits)

LEMMA WorkIsNumber ==
    ASSUME NEW bits, Allowed(bits)
    PROVE  CalcWork(bits) \in 0..HashSpace
<1> DEFINE x == CompactToBig(bits)
<1>1. x \in 1..PowLimit /\ PowLimit \in Nat /\ HashSpace \in Nat
  BY ConstantsAssumption DEF Allowed
<1>2. CalcWork(bits) = HashSpace \div (x + 1)
  BY <1>1 DEF CalcWork
<1> HIDE DEF x
<1>3. HashSpace \div (x + 1) \in 0..HashSpace
  BY <1>1
<1> QED
  BY <1>2, <1>3

LEMMA TotalIsNumber ==
    ASSUME NEW s, IsSeq(s), Workable(s)
    PROVE  \A n \in 0..Len(s) : Total(s)[n] \in 0..(n * HashSpace)
<1> DEFINE Bad == {n \in 0..Len(s) : Total(s)[n] \notin 0..(n * HashSpace)}
<1> SUFFICES ASSUME Bad # {}
             PROVE  FALSE
  OBVIOUS
<1>0. HashSpace \in Nat /\ Len(s) \in Nat
  BY ConstantsAssumption, SeqLen
<1>1. Bad \subseteq Nat
  BY <1>0
<1>2. PICK n \in Bad : \A m \in Bad : n <= m
  BY <1>1, Smallest
<1>3. n \in 0..Len(s) /\ Total(s)[n] \notin 0..(n * HashSpace)
  OBVIOUS
<1>4. n # 0
  <2>1. 0 * HashSpace = 0
    BY <1>0
  <2>2. Total(s)[0] = 0
    BY TotalOf
  <2> QED
    BY <1>3, <2>1, <2>2
<1>5. n - 1 \in 0..Len(s) /\ n - 1 \notin Bad /\ n \in 1..Len(s)
  BY <1>0, <1>2, <1>3, <1>4
<1>6. Total(s)[n - 1] \in 0..((n - 1) * HashSpace)
  BY <1>5
<1>7. Total(s)[n] = Total(s)[n - 1] + CalcWork(s[n].bits)
  BY <1>5, TotalOf
<1>8. CalcWork(s[n].bits) \in 0..HashSpace
  BY <1>5, WorkIsNumber DEF Workable
<1> HIDE DEF Bad
<1>9. ASSUME NEW h \in Nat, NEW m \in Nat, m # 0, NEW a \in 0..((m - 1) * h),
             NEW b \in 0..h
      PROVE  a + b \in 0..(m * h)
  <2>1. (m - 1) * h = m * h - h
    OBVIOUS
  <2>2. m * h \in Nat
    OBVIOUS
  <2> QED
    BY <2>1, <2>2
<1> QED
  BY <1>0, <1>3, <1>5, <1>6, <1>7, <1>8, <1>9

(* The work of a chain is that of a prefix and of the rest.                *)
LEMMA TotalOfRest ==
    ASSUME NEW s, IsSeq(s), Workable(s), NEW drop \in 0..Len(s)
    PROVE  /\ Workable(LastOf(s, drop))
           /\ Work(s) = Total(s)[Len(s) - drop] + Work(LastOf(s, drop))
<1> DEFINE r == LastOf(s, drop)
           d == Len(s) - drop
<1>0. Len(s) \in Nat /\ d \in 0..Len(s) /\ d + drop = Len(s)
  BY SeqLen
<1>1. /\ IsSeq(r) /\ Len(r) = drop
      /\ \A i \in 1..drop : r[i] = s[d + i]
  BY <1>0, Suffix
<1> HIDE DEF r, d
<1>2. Workable(r)
  <2>1. \A i \in 1..drop : d + i \in 1..Len(s)
    BY <1>0
  <2> QED
    BY <1>1, <2>1 DEF Workable
<1> DEFINE Bad == {m \in 0..drop : Total(s)[d + m] # Total(s)[d] + Total(r)[m]}
<1>3. Bad = {}
  <2> SUFFICES ASSUME Bad # {}
               PROVE  FALSE
    OBVIOUS
  <2>1. Bad \subseteq Nat
    BY <1>0
  <2>2. PICK m \in Bad : \A k \in Bad : m <= k
    BY <2>1, Smallest
  <2>3. m \in 0..drop /\ Total(s)[d + m] # Total(s)[d] + Total(r)[m]
    OBVIOUS
  <2>4. Total(s)[d] \in Int
    BY <1>0, TotalIsNumber, ConstantsAssumption
  <2>5. m # 0
    <3>1. Total(r)[0] = 0
      BY <1>1, TotalOf
    <3>2. d + 0 = d /\ Total(s)[d] + 0 = Total(s)[d]
      BY <1>0, <2>4
    <3> QED
      BY <2>3, <3>1, <3>2
  <2>6. /\ m - 1 \in 0..drop /\ m - 1 \notin Bad /\ m \in 1..Len(r)
        /\ d + m \in 1..Len(s) /\ d + m - 1 = d + (m - 1) /\ d + m - 1 \in 0..Len(s)
    BY <1>0, <1>1, <2>2, <2>3, <2>5
  <2>7. Total(s)[d + (m - 1)] = Total(s)[d] + Total(r)[m - 1]
    BY <2>6
  <2>8. Total(s)[d + m] = Total(s)[d + (m - 1)] + CalcWork(s[d + m].bits)
    <3> DEFINE e == d + m
    <3>1. e \in 1..Len(s) /\ e - 1 = d + (m - 1)
      BY <1>0, <2>3, <2>6
    <3> HIDE DEF e
    <3>2. Total(s)[e] = Total(s)[e - 1] + CalcWork(s[e].bits)
      BY <3>1, TotalOf
    <3>3. Total(s)[e] = Total(s)[d + (m - 1)] + CalcWork(s[e].bits)
      BY <3>1, <3>2
    <3> QED
      BY <3>3 DEF e
  <2>9. Total(r)[m] = Total(r)[m - 1] + CalcWork(s[d + m].bits)
    BY <1>1, <2>6, TotalOf
  <2>10. CalcWork(s[d + m].bits) \in Int
    BY <2>6, WorkIsNumber DEF Workable
  <2>11. Total(r)[m - 1] \in Int
    <3>1. m - 1 \in 0..Len(r)
      BY <1>1, <2>6
    <3> QED
      BY <1>1, <1>2, <3>1, TotalIsNumber
  <2> HIDE DEF Bad
  <2> QED
    BY <2>3, <2>4, <2>7, <2>8, <2>9, <2>10, <2>11
<1>4. Total(s)[d + drop] = Total(s)[d] + Total(r)[drop]
  <2>1. drop \in 0..drop
    BY <1>0
  <2> QED
    BY <1>3, <2>1
<1>5. Work(s) = Total(s)[d + drop] /\ Work(r) = Total(r)[drop]
  BY <1>0, <1>1, TotalOf
<1> QED
  BY <1>2, <1>4, <1>5 DEF r, d

LEMMA WorkOfPrefix ==
    ASSUME NEW s, IsSeq(s), NEW n \in 0..Len(s)
    PROVE  Work(SubSeq(s, 1, n)) = Total(s)[n]
<1> DEFINE p == SubSeq(s, 1, n)
<1>1. /\ IsSeq(p) /\ Len(p) = n
      /\ \A i \in 1..n : p[i] = s[i]
  BY Prefix
<1> HIDE DEF p
<1>2. Len(s) \in Nat /\ n \in Nat /\ n <= Len(s) /\ n \in 0..n
  BY SeqLen
<1>3. Total(p)[n] = Total(s)[n]
  BY <1>1, <1>2, SameTotals
<1> QED
  BY <1>1, <1>3, TotalOf DEF p

-----------------------------------------------------------------------------
(* The invariant, with the work and the type of what a header says.        *)
Worked(tip, work, headers, top) ==
    /\ work = Work(headers)
    /\ Workable(headers)
    /\ \A i \in 1..Len(headers) : headers[i].time \in 0..MaxTime
    /\ tip <= MaxTip /\ top <= MaxTip

WInv ==
    /\ IInv
    /\ Worked(tipHeight, chainWork, archive, peak)
    /\ \A state \in exported :
          Worked(state.tipHeight, state.chainWork, state.archive, state.peak)

LEMMA EmptyIsWorked == Worked(-1, 0, << >>, -1)
<1>1. IsSeq(<< >>) /\ Len(<< >>) = 0
  BY EmptyIsSeq
<1>2. Work(<< >>) = 0
  BY <1>1, TotalOf
<1>3. \A i \in 1..Len(<< >>) : FALSE
  BY <1>1
<1>4. -1 <= MaxTip
  BY ConstantsAssumption
<1> QED
  BY <1>2, <1>3, <1>4 DEF Worked, Workable

LEMMA InitWInv == Init => WInv
  BY InitIInv, EmptyIsWorked DEF Init, WInv

LEMMA ConnectWorked ==
    ASSUME WInv, NEW prev, NEW time \in Nat, Connect(prev, time)
    PROVE  WInv'
<1> DEFINE bits == ExpectedBits(time)
           entry == [hash |-> Hash(prev, time, bits), time |-> time, bits |-> bits]
<1>1. /\ exported' = exported
      /\ tipHeight < MaxTip /\ Links(prev, time) /\ Allowed(bits)
      /\ tipHeight' = tipHeight + 1
      /\ chainWork' = chainWork + CalcWork(bits)
      /\ archive' = Append(archive, entry)
      /\ peak' = IF tipHeight + 1 > peak THEN tipHeight + 1 ELSE peak
  BY DEF Connect
<1>2. IInv /\ Shape(tipHeight, ring, archive, peak) /\ IsSeq(archive) /\ tipHeight \in Int
  BY DEF WInv, IInv, Shape
<1>3. IInv'
  BY <1>2, ConnectKeeps
<1>4. entry.bits = bits /\ entry.time = time
  OBVIOUS
<1>5. time \in 0..MaxTime
  <2>1. CASE tipHeight < 0
    <3>1. Hash(prev, time, PowLimitBits) = GenesisHash
      BY <1>1, <2>1 DEF Links
    <3>2. time = 0
      BY <3>1 DEF Hash, GenesisHash
    <3> QED
      BY <3>2, ConstantsAssumption
  <2>2. CASE ~(tipHeight < 0)
    <3>1. time <= MaxTime
      BY <1>1, <2>2 DEF Links
    <3> QED
      BY <3>1, ConstantsAssumption
  <2> QED
    BY <2>1, <2>2
<1> HIDE DEF entry, bits
<1>6. Work(archive') = Work(archive) + CalcWork(bits)
  BY <1>1, <1>2, <1>4, WorkAppended
<1>7. /\ Len(archive') = Len(archive) + 1 /\ Len(archive) \in Nat
      /\ \A i \in 1..Len(archive) : archive'[i] = archive[i]
      /\ archive'[Len(archive) + 1] = entry
  BY <1>1, <1>2, Appended, SeqLen
<1>8. ASSUME NEW i \in 1..Len(archive')
      PROVE  Allowed(archive'[i].bits) /\ archive'[i].time \in 0..MaxTime
  <2>1. CASE i \in 1..Len(archive)
    BY <1>7, <2>1 DEF WInv, Worked, Workable
  <2>2. CASE i = Len(archive) + 1
    BY <1>1, <1>4, <1>5, <1>7, <2>2
  <2> QED
    BY <1>7, <2>1, <2>2
<1>9. tipHeight' <= MaxTip /\ peak' <= MaxTip
  <2>1. peak <= MaxTip
    BY DEF WInv, Worked
  <2> QED
    BY <1>1, <1>2, <2>1, ConstantsAssumption
<1>10. chainWork' = Work(archive')
  BY <1>1, <1>6 DEF WInv, Worked
<1>11. Worked(tipHeight', chainWork', archive', peak')
  BY <1>8, <1>9, <1>10 DEF Worked, Workable
<1> QED
  BY <1>1, <1>3, <1>11 DEF WInv

(* What a rollback takes off is the end of the chain.                      *)
LEMMA DroppedHeaders ==
    ASSUME Shape(tipHeight, ring, archive, peak), NEW drop \in 0..Len(ring)
    PROVE  LastOf(ring, drop) = LastOf(archive, drop)
<1>1. /\ IsSeq(ring) /\ IsSeq(archive)
      /\ Len(ring) \in Nat /\ Len(archive) \in Nat /\ Len(ring) <= Len(archive)
  BY SeqLen DEF Shape
<1>2. drop \in 0..Len(archive)
  BY <1>1
<1>3. /\ IsSeq(LastOf(ring, drop)) /\ Len(LastOf(ring, drop)) = drop
      /\ \A i \in 1..drop : LastOf(ring, drop)[i] = ring[Len(ring) - drop + i]
  BY <1>1, Suffix
<1>4. /\ IsSeq(LastOf(archive, drop)) /\ Len(LastOf(archive, drop)) = drop
      /\ \A i \in 1..drop : LastOf(archive, drop)[i] = archive[Len(archive) - drop + i]
  BY <1>1, <1>2, Suffix
<1>5. ASSUME NEW i \in 1..drop
      PROVE  LastOf(ring, drop)[i] = LastOf(archive, drop)[i]
  <2> DEFINE k == Len(ring) - drop + i
  <2>1. k \in 1..Len(ring)
        /\ Len(archive) - Len(ring) + k = Len(archive) - drop + i
    BY <1>1, <1>2
  <2> HIDE DEF k
  <2>2. ring[k] = archive[Len(archive) - Len(ring) + k]
    BY <2>1 DEF Shape
  <2> QED
    BY <1>3, <1>4, <2>1, <2>2 DEF k
<1> QED
  BY <1>3, <1>4, <1>5, SameSeq

LEMMA RollbackWorked ==
    ASSUME WInv, NEW height \in Int, Rollback(height)
    PROVE  WInv'
<1> DEFINE drop == tipHeight - height
           n == Len(archive) - drop
<1>1. /\ exported' = exported /\ peak' = peak
      /\ height < tipHeight /\ drop < Len(ring)
      /\ tipHeight' = height
      /\ chainWork' = chainWork - Work(LastOf(ring, drop))
      /\ archive' = SubSeq(archive, 1, n)
  BY DEF Rollback
<1>2. /\ IInv /\ Shape(tipHeight, ring, archive, peak) /\ IsSeq(archive)
      /\ Worked(tipHeight, chainWork, archive, peak) /\ Workable(archive)
  BY DEF WInv, IInv, Shape, Worked
<1>3. IInv'
  BY <1>2, RollbackKeeps
<1>4. /\ drop \in 0..Len(ring) /\ drop \in 0..Len(archive) /\ n \in 0..Len(archive)
      /\ Len(archive) \in Nat
  <2>1. /\ Len(ring) \in Nat /\ Len(archive) \in Nat /\ Len(ring) <= Len(archive)
        /\ tipHeight \in Int
    <3>1. /\ Len(ring) \in Nat /\ Len(archive) = tipHeight + 1 /\ tipHeight \in Int
          /\ tipHeight >= -1 /\ Len(ring) <= Len(archive)
      BY <1>2, LongEnough
    <3> QED BY <3>1
  <2>2. height < tipHeight /\ drop < Len(ring)
    BY <1>1
  <2> QED BY <2>1, <2>2
<1>5. chainWork' = Work(archive')
  <2>1. LastOf(ring, drop) = LastOf(archive, drop)
    BY <1>2, <1>4, DroppedHeaders
  <2>2. Work(archive) = Total(archive)[n] + Work(LastOf(archive, drop))
        /\ Workable(LastOf(archive, drop))
    BY <1>2, <1>4, TotalOfRest
  <2>3. Work(archive') = Total(archive)[n]
    BY <1>1, <1>2, <1>4, WorkOfPrefix
  <2>4. Total(archive)[n] \in Int
    BY <1>2, <1>4, TotalIsNumber, ConstantsAssumption
  <2>5. Work(LastOf(archive, drop)) \in Int
    <3> DEFINE r == LastOf(archive, drop)
    <3>1. IsSeq(r) /\ Len(r) \in 0..Len(r) /\ Workable(r)
      BY <1>2, <1>4, <2>2, Suffix
    <3> HIDE DEF r
    <3>2. Work(r) = Total(r)[Len(r)]
      BY <3>1, TotalOf
    <3>3. Total(r)[Len(r)] \in Int
      BY <3>1, TotalIsNumber
    <3> QED
      BY <3>2, <3>3 DEF r
  <2>6. chainWork = Work(archive)
    BY <1>2 DEF Worked
  <2> HIDE DEF n, drop
  <2> QED
    BY <1>1, <2>1, <2>2, <2>3, <2>4, <2>5, <2>6
<1>6. /\ Len(archive') = n /\ \A i \in 1..n : archive'[i] = archive[i]
      /\ \A i \in 1..n : i \in 1..Len(archive)
  BY <1>1, <1>2, <1>4, Prefix
<1>7. Workable(archive') /\ \A i \in 1..Len(archive') : archive'[i].time \in 0..MaxTime
  <2> HIDE DEF n
  <2> QED
    BY <1>2, <1>6 DEF Worked, Workable
<1>8. height <= MaxTip /\ peak <= MaxTip
  BY <1>1, <1>2, ConstantsAssumption DEF Worked, Shape
<1>9. Worked(tipHeight', chainWork', archive', peak')
  BY <1>1, <1>5, <1>7, <1>8 DEF Worked
<1> QED
  BY <1>1, <1>3, <1>9 DEF WInv

LEMMA NextWInv == WInv /\ [Next]_vars => WInv'
<1> SUFFICES ASSUME WInv, [Next]_vars
             PROVE  WInv'
  OBVIOUS
<1>0. IInv'
  BY NextIInv DEF WInv
<1>1. ASSUME NEW prev \in Hashes, NEW time \in 0..(MaxTime + 1), Connect(prev, time)
      PROVE  WInv'
  <2>1. time \in Nat
    BY ConstantsAssumption
  <2> QED
    BY <1>1, <2>1, ConnectWorked
<1>2. ASSUME NEW height \in -1..MaxTip, Rollback(height)
      PROVE  WInv'
  <2>1. height \in Int
    BY ConstantsAssumption
  <2> QED
    BY <1>2, <2>1, RollbackWorked
<1>3. CASE Export
  BY <1>0, <1>3 DEF Export, WInv
<1>4. CASE Import
  BY <1>0, <1>4 DEF Import, WInv
<1>5. CASE New
  BY <1>0, <1>5, EmptyIsWorked DEF New, WInv
<1>6. CASE UNCHANGED vars
  BY <1>0, <1>6 DEF vars, WInv
<1> QED
  BY <1>1, <1>2, <1>3, <1>4, <1>5, <1>6 DEF Next

LEMMA WorkInvariant == Spec => []WInv
  BY InitWInv, NextWInv, PTL DEF Spec

(* The state of neutrino.go's accumulator is that of its chain, after any  *)
(* appends, rollbacks, exports, imports and restarts: the window is the    *)
(* end of the chain, and the work, what appends added and rollbacks        *)
(* subtracted, is the sum over all of it, though most headers have long    *)
(* left the window.                                                        *)
THEOREM StateIsOfChain == Spec => []StateOfChain
<1>1. WInv => WorkAddsUp
  BY DEF WInv, Worked, WorkAddsUp
<1>2. RingIsRecent /\ WorkAddsUp => StateOfChain
  BY DEF StateOfChain
<1> QED
  BY <1>1, <1>2, WindowIsRecent, WorkInvariant, PTL

LEMMA TimesMonotonic ==
    ASSUME NEW a \in Nat, NEW b \in Nat, NEW h \in Nat, a <= b
    PROVE  a * h <= b * h
<1>1. (b - a) * h >= 0 /\ b * h = a * h + (b - a) * h
  OBVIOUS
<1> QED
  BY <1>1

(* Types: the window never exceeds its size, every header on the chain has *)
(* a target its network allows, and the work is within its bounds.         *)
THEOREM TypeCorrect == Spec => []TypeOK
<1>1. ASSUME WInv
      PROVE  TypeOK
  <2>1. /\ net \in Networks /\ Shape(tipHeight, ring, archive, peak)
        /\ Worked(tipHeight, chainWork, archive, peak) /\ IsSeq(archive)
        /\ IsSeq(ring)
    BY <1>1 DEF WInv, IInv, Shape
  <2>2. /\ Len(archive) \in Nat /\ Len(archive) \in 0..Len(archive)
        /\ Len(archive) = tipHeight + 1 /\ Len(ring) \in Nat
        /\ MaxTip \in Nat /\ HashSpace \in Nat /\ Window \in Nat
    BY <2>1, SeqLen, ConstantsAssumption DEF Shape
  <2>3. tipHeight \in -1..MaxTip /\ peak \in tipHeight..MaxTip /\ Len(ring) \in 0..Window
    BY <2>1, <2>2 DEF Shape, Worked
  <2>4. chainWork \in 0..(Len(archive) * HashSpace)
    <3>1. Workable(archive) /\ chainWork = Total(archive)[Len(archive)]
      BY <2>1, TotalOf DEF Worked
    <3> QED
      BY <2>1, <2>2, <3>1, TotalIsNumber
  <2>5. Len(archive) * HashSpace <= (MaxTip + 1) * HashSpace
    BY <2>2, <2>3, TimesMonotonic
  <2>6. chainWork \in 0..((MaxTip + 1) * HashSpace)
    <3> DEFINE x == Len(archive) * HashSpace
               y == (MaxTip + 1) * HashSpace
    <3>1. x \in Nat /\ y \in Nat /\ x <= y
      BY <2>2, <2>5
    <3>2. chainWork \in 0..x
      BY <2>4
    <3> HIDE DEF x, y
    <3>3. chainWork \in 0..y
      BY <3>1, <3>2
    <3> QED
      BY <3>3 DEF y
  <2>7. \A entry \in Entries : entry.time \in 0..MaxTime /\ Allowed(entry.bits)
    BY <2>1 DEF Worked, Workable, Entries
  <2> QED
    BY <2>1, <2>3, <2>6, <2>7 DEF TypeOK
<1> QED
  BY <1>1, WorkInvariant, PTL
-----------------------------------------------------------------------------
(* Powers of the base.                                                     *)

(* The first powers, up to that of k.                                      *)
ArePowers(t, k) == t = [n \in 0..k |-> IF n = 0 THEN 1 ELSE Byte * t[n - 1]]

LEMMA PowersExist ==
    ASSUME NEW k \in Nat
    PROVE  \E t : ArePowers(t, k)
<1> DEFINE Bad == {n \in Nat : ~\E t : ArePowers(t, n)}
<1> SUFFICES ASSUME Bad # {}
             PROVE  FALSE
  OBVIOUS
<1>1. Bad \subseteq Nat
  OBVIOUS
<1>2. PICK n \in Bad : \A m \in Bad : n <= m
  BY <1>1, Smallest
<1>3. n \in Nat /\ ~\E t : ArePowers(t, n)
  OBVIOUS
<1>4. CASE n = 0
  <2> DEFINE t == [m \in 0..0 |-> 1]
  <2>1. t = [m \in 0..0 |-> IF m = 0 THEN 1 ELSE Byte * t[m - 1]]
    OBVIOUS
  <2> HIDE DEF t
  <2>2. ArePowers(t, n)
    BY <1>4, <2>1 DEF ArePowers
  <2> QED
    BY <1>3, <2>2
<1>5. CASE n # 0
  <2>1. n - 1 \in Nat /\ n - 1 \notin Bad
    BY <1>2, <1>3, <1>5
  <2>2. PICK t : ArePowers(t, n - 1)
    BY <2>1
  <2> HIDE DEF Bad
  <2> DEFINE u == [m \in 0..n |-> IF m = n THEN Byte * t[n - 1] ELSE t[m]]
  <2>3. \A m \in 0..(n - 1) : t[m] = IF m = 0 THEN 1 ELSE Byte * t[m - 1]
    BY <2>2 DEF ArePowers
  <2>4. ASSUME NEW m \in 0..n
        PROVE  u[m] = IF m = 0 THEN 1 ELSE Byte * u[m - 1]
    <3>1. CASE m = n
      <4>1. n - 1 \in 0..n /\ n - 1 # n
        BY <1>3, <1>5
      <4>2. u[m] = Byte * t[n - 1] /\ u[n - 1] = t[n - 1]
        BY <3>1, <4>1
      <4> QED
        BY <1>5, <3>1, <4>2
    <3>2. CASE m # n
      <4>1. m \in 0..(n - 1) /\ (m # 0 => m - 1 \in 0..n /\ m - 1 # n)
        BY <1>3, <3>2
      <4>2. u[m] = t[m] /\ (m # 0 => u[m - 1] = t[m - 1])
        BY <3>2, <4>1
      <4> QED
        BY <2>3, <4>1, <4>2
    <3> QED
      BY <3>1, <3>2
  <2>5. u = [m \in 0..n |-> u[m]]
    OBVIOUS
  <2> HIDE DEF u
  <2>6. u = [m \in 0..n |-> IF m = 0 THEN 1 ELSE Byte * u[m - 1]]
    BY <2>4, <2>5
  <2>7. ArePowers(u, n)
    BY <2>6 DEF ArePowers
  <2> QED
    BY <1>3, <2>7
<1> QED
  BY <1>4, <1>5

LEMMA SamePowers ==
    ASSUME NEW k \in Nat, NEW n \in Nat, NEW t, NEW u,
           ArePowers(t, k), ArePowers(u, n), k <= n
    PROVE  \A m \in 0..k : t[m] = u[m]
<1> DEFINE Bad == {m \in 0..k : t[m] # u[m]}
<1> SUFFICES ASSUME Bad # {}
             PROVE  FALSE
  OBVIOUS
<1>1. Bad \subseteq Nat
  OBVIOUS
<1>2. PICK m \in Bad : \A i \in Bad : m <= i
  BY <1>1, Smallest
<1>3. m \in 0..k /\ m \in 0..n /\ t[m] # u[m]
  OBVIOUS
<1>4. t[m] = IF m = 0 THEN 1 ELSE Byte * t[m - 1]
  BY <1>3 DEF ArePowers
<1>5. u[m] = IF m = 0 THEN 1 ELSE Byte * u[m - 1]
  BY <1>3 DEF ArePowers
<1>6. m # 0 /\ m - 1 \in 0..k /\ m - 1 \notin Bad
  BY <1>2, <1>3, <1>4, <1>5
<1>7. t[m - 1] = u[m - 1]
  BY <1>6
<1> QED
  BY <1>3, <1>4, <1>5, <1>6, <1>7

LEMMA PowerIs ==
    /\ Power[0] = 1
    /\ \A k \in Nat : Power[k + 1] = Byte * Power[k]
<1> DEFINE Upto(k) == CHOOSE t : ArePowers(t, k)
           p == [k \in Nat |-> Upto(k)[k]]
<1>1. \A k \in Nat : ArePowers(Upto(k), k)
  BY PowersExist
<1>2. ASSUME NEW k \in Nat
      PROVE  p[k] = IF k = 0 THEN 1 ELSE Byte * p[k - 1]
  <2>1. p[k] = Upto(k)[k] /\ ArePowers(Upto(k), k)
    BY <1>1
  <2>2. k # 0 => k - 1 \in Nat /\ k - 1 \in 0..(k - 1) /\ k - 1 <= k
    OBVIOUS
  <2>3. k # 0 => p[k - 1] = Upto(k - 1)[k - 1] /\ ArePowers(Upto(k - 1), k - 1)
    BY <1>1, <2>2
  <2> HIDE DEF p, Upto
  <2>4. k # 0 => Upto(k - 1)[k - 1] = Upto(k)[k - 1]
    BY <2>1, <2>2, <2>3, SamePowers
  <2>5. Upto(k)[k] = IF k = 0 THEN 1 ELSE Byte * Upto(k)[k - 1]
    <3>1. k \in 0..k
      OBVIOUS
    <3> DEFINE t == Upto(k)
    <3>2. t = [n \in 0..k |-> IF n = 0 THEN 1 ELSE Byte * t[n - 1]]
      BY <2>1 DEF ArePowers
    <3> HIDE DEF t
    <3>3. t[k] = IF k = 0 THEN 1 ELSE Byte * t[k - 1]
      BY <3>1, <3>2
    <3> QED
      BY <3>3 DEF t
  <2> QED
    BY <2>1, <2>3, <2>4, <2>5
<1>3. p = [k \in Nat |-> p[k]]
  OBVIOUS
<1> HIDE DEF p
<1>4. p = [k \in Nat |-> IF k = 0 THEN 1 ELSE Byte * p[k - 1]]
  BY <1>2, <1>3
<1>5. Power = [k \in Nat |-> IF k = 0 THEN 1 ELSE Byte * Power[k - 1]]
  <2> DEFINE Is(f) == f = [k \in Nat |-> IF k = 0 THEN 1 ELSE Byte * f[k - 1]]
  <2>1. Is(p)
    BY <1>4
  <2>2. Is(CHOOSE f : Is(f))
    <3> HIDE DEF Is
    <3> QED
      BY <2>1
  <2> QED
    BY <2>2 DEF Power
<1>6. ASSUME NEW k \in Nat
      PROVE  Power[k + 1] = Byte * Power[k]
  <2>1. k + 1 \in Nat /\ k + 1 # 0 /\ (k + 1) - 1 = k
    OBVIOUS
  <2>2. Power[k + 1] = Byte * Power[(k + 1) - 1]
    BY <1>5, <2>1
  <2> QED
    BY <2>1, <2>2
<1>7. Power[0] = 1
  BY <1>5
<1> QED
  BY <1>6, <1>7

LEMMA BaseIs ==
    /\ Byte \in Nat \ {0} /\ Byte \div 2 \in Nat \ {0} /\ Byte = 2 * (Byte \div 2)
<1>1. Byte \in Nat \ {0} /\ Byte % 2 = 0
  BY ConstantsAssumption
<1> QED
  BY <1>1

LEMMA PowerIsNumber ==
    ASSUME NEW k \in Nat
    PROVE  Power[k] \in Nat \ {0} /\ Power[k] > k
<1> DEFINE Bad == {n \in Nat : ~(Power[n] \in Nat \ {0} /\ Power[n] > n)}
<1> SUFFICES ASSUME Bad # {}
             PROVE  FALSE
  OBVIOUS
<1>1. Bad \subseteq Nat
  OBVIOUS
<1>2. PICK n \in Bad : \A m \in Bad : n <= m
  BY <1>1, Smallest
<1>3. n \in Nat /\ ~(Power[n] \in Nat \ {0} /\ Power[n] > n)
  OBVIOUS
<1>4. n # 0
  BY <1>3, PowerIs
<1>5. n - 1 \in Nat /\ n - 1 \notin Bad /\ (n - 1) + 1 = n
  BY <1>2, <1>3, <1>4
<1>6. Power[n - 1] \in Nat \ {0} /\ Power[n - 1] > n - 1
  BY <1>5
<1>7. Power[n] = Byte * Power[n - 1]
  BY <1>5, PowerIs
<1> DEFINE x == Power[n - 1]
<1>8. Byte \in Nat /\ Byte >= 2
  BY BaseIs
<1>9. x \in Nat /\ x >= n
  BY <1>3, <1>5, <1>6
<1> HIDE DEF x
<1>10. Byte * x >= 2 * x /\ Byte * x \in Nat
  BY <1>8, <1>9
<1>11. Byte * x >= n + n
  BY <1>3, <1>9, <1>10
<1>12. Byte * x \in Nat \ {0} /\ Byte * x > n
  BY <1>3, <1>4, <1>10, <1>11
<1> QED
  BY <1>3, <1>7, <1>12 DEF x

LEMMA PowersMultiply ==
    ASSUME NEW a \in Nat, NEW b \in Nat
    PROVE  Power[a + b] = Power[a] * Power[b]
<1> DEFINE Bad == {n \in Nat : Power[a + n] # Power[a] * Power[n]}
<1> SUFFICES ASSUME Bad # {}
             PROVE  FALSE
  OBVIOUS
<1>1. Bad \subseteq Nat
  OBVIOUS
<1>2. PICK n \in Bad : \A m \in Bad : n <= m
  BY <1>1, Smallest
<1>3. n \in Nat /\ Power[a + n] # Power[a] * Power[n]
  OBVIOUS
<1>4. n # 0
  <2>1. a + 0 = a /\ Power[0] = 1 /\ Power[a] \in Nat
    BY PowerIs, PowerIsNumber
  <2> QED
    BY <1>3, <2>1
<1>5. n - 1 \in Nat /\ n - 1 \notin Bad /\ (n - 1) + 1 = n /\ a + (n - 1) \in Nat
      /\ (a + (n - 1)) + 1 = a + n
  BY <1>2, <1>3, <1>4
<1>6. Power[a + (n - 1)] = Power[a] * Power[n - 1]
  BY <1>5
<1>7. Power[n] = Byte * Power[n - 1] /\ Power[a + n] = Byte * Power[a + (n - 1)]
  BY <1>5, PowerIs
<1>8. Power[a] \in Nat /\ Power[n - 1] \in Nat /\ Byte \in Nat
  BY <1>5, PowerIsNumber, BaseIs
<1> DEFINE x == Power[a]
           y == Power[n - 1]
<1>9. x \in Nat /\ y \in Nat
  BY <1>8
<1> HIDE DEF x, y
<1>10. Byte * (x * y) = x * (Byte * y)
  BY <1>8, <1>9
<1> QED
  BY <1>3, <1>6, <1>7, <1>10 DEF x, y

LEMMA PowerGrows ==
    ASSUME NEW a \in Nat, NEW b \in Nat, a <= b
    PROVE  Power[a] <= Power[b]
<1>1. b - a \in Nat /\ a + (b - a) = b
  OBVIOUS
<1>2. Power[b] = Power[a] * Power[b - a]
  BY <1>1, PowersMultiply
<1> DEFINE x == Power[a]
           y == Power[b - a]
<1>3. x \in Nat /\ y \in Nat \ {0}
  BY <1>1, PowerIsNumber
<1> HIDE DEF x, y
<1>4. x <= x * y
  BY <1>3
<1> QED
  BY <1>2, <1>4 DEF x, y

(* Three digits, and half of what they hold.                               *)
LEMMA DigitsAre ==
    LET half == Digits \div 2
    IN /\ Power[1] = Byte /\ Power[2] = Byte * Byte /\ Power[3] = Digits
       /\ half \in Nat \ {0} /\ Digits = 2 * half /\ Digits \in Nat \ {0}
       /\ half = Byte * (Byte * (Byte \div 2)) /\ half >= Power[2]
<1> DEFINE c == Byte \div 2
           half == Digits \div 2
<1>1. 0 + 1 = 1 /\ 1 + 1 = 2 /\ 2 + 1 = 3
  OBVIOUS
<1>2. Power[1] = Byte * Power[0] /\ Power[2] = Byte * Power[1] /\ Power[3] = Byte * Power[2]
  <2>1. Power[0 + 1] = Byte * Power[0] /\ Power[1 + 1] = Byte * Power[1]
        /\ Power[2 + 1] = Byte * Power[2]
    BY PowerIs
  <2> QED
    BY <1>1, <2>1
<1>3. Byte \in Nat \ {0} /\ c \in Nat \ {0} /\ Byte = 2 * c
  BY BaseIs
<1> HIDE DEF c
<1>4. Power[1] = Byte /\ Power[2] = Byte * Byte /\ Power[3] = Byte * (Byte * Byte)
  BY <1>2, <1>3, PowerIs
<1>5. Digits = Byte * (Byte * Byte)
  BY <1>4 DEF Digits
<1> DEFINE h == Byte * (Byte * c)
<1>6. h \in Nat \ {0} /\ Digits = 2 * h /\ h >= Byte * Byte
  BY <1>3, <1>5
<1> HIDE DEF h
<1>7. half = h
  BY <1>6
<1> HIDE DEF half
<1> QED
  BY <1>4, <1>5, <1>6, <1>7 DEF half, h, c, Digits

-----------------------------------------------------------------------------
(* Division, of natural numbers.                                           *)

LEMMA Quotient ==
    ASSUME NEW n \in Nat, NEW g \in Nat \ {0}
    PROVE  /\ n \div g \in Nat /\ n \div g <= n
           /\ (n \div g) * g <= n /\ n < (n \div g) * g + g
  OBVIOUS

LEMMA QuotientIs ==
    ASSUME NEW n \in Nat, NEW g \in Nat \ {0}, NEW q \in Nat,
           q * g <= n, n < q * g + g
    PROVE  n \div g = q
  OBVIOUS

LEMMA QuotientOfProduct ==
    ASSUME NEW n \in Nat, NEW g \in Nat \ {0}
    PROVE  (n * g) \div g = n /\ n * g \in Nat
  OBVIOUS

LEMMA ProductsOrdered ==
    ASSUME NEW a \in Nat, NEW b \in Nat, NEW g \in Nat \ {0}
    PROVE  /\ a <= b => a * g <= b * g
           /\ a < b => a * g < b * g
           /\ a * g < b * g + g => a <= b
           /\ a * g < b * g => a < b
  OBVIOUS

(* Dividing twice is dividing by the product.                              *)
LEMMA QuotientTwice ==
    ASSUME NEW n \in Nat, NEW g \in Nat \ {0}, NEW b \in Nat \ {0}
    PROVE  (n \div g) \div b = n \div (b * g)
<1> DEFINE x == n \div g
<1>1. x \in Nat /\ x * g <= n /\ n < x * g + g
  BY Quotient
<1> HIDE DEF x
<1> DEFINE y == x \div b
<1>2. y \in Nat /\ y * b <= x /\ x < y * b + b
  BY <1>1, Quotient
<1> HIDE DEF y
<1>3. (y * b) * g <= x * g /\ (y * b) * g = y * (b * g)
  BY <1>1, <1>2
<1>4. x + 1 <= y * b + b
  BY <1>1, <1>2
<1>5. (x + 1) * g <= (y * b + b) * g
  BY <1>1, <1>2, <1>4, ProductsOrdered
<1>6. (x + 1) * g = x * g + g /\ (y * b + b) * g = y * (b * g) + b * g
  BY <1>1, <1>2
<1>7. b * g \in Nat \ {0} /\ x * g \in Nat /\ y * (b * g) \in Nat
  BY <1>1, <1>2
<1>8. y * (b * g) <= n /\ n < y * (b * g) + b * g
  BY <1>1, <1>3, <1>5, <1>6, <1>7
<1>9. n \div (b * g) = y
  BY <1>2, <1>7, <1>8, QuotientIs
<1> QED
  BY <1>9 DEF x, y

-----------------------------------------------------------------------------
(* How many digits a number has.                                           *)

HasLength(n, k) == Power[k] > n /\ (k > 0 => Power[k - 1] <= n)

LEMMA OneLength ==
    ASSUME NEW n \in Nat, NEW j \in Nat, NEW k \in Nat, HasLength(n, j), HasLength(n, k)
    PROVE  j = k
<1>1. ASSUME NEW a \in Nat, NEW b \in Nat, HasLength(n, a), HasLength(n, b), a < b
      PROVE  FALSE
  <2>1. b - 1 \in Nat /\ a <= b - 1 /\ b > 0
    BY <1>1
  <2>2. Power[a] <= Power[b - 1] /\ Power[a] \in Nat /\ Power[b - 1] \in Nat
    BY <2>1, PowerGrows, PowerIsNumber
  <2>3. Power[a] > n /\ Power[b - 1] <= n
    BY <1>1, <2>1 DEF HasLength
  <2> QED
    BY <2>2, <2>3
<1>2. j < k \/ k < j \/ j = k
  OBVIOUS
<1> QED
  BY <1>1, <1>2

LEMMA LengthIs ==
    ASSUME NEW n \in Nat
    PROVE  /\ Length(n) \in Nat /\ HasLength(n, Length(n))
           /\ \A k \in Nat : HasLength(n, k) => Length(n) = k
<1> DEFINE Above == {k \in Nat : Power[k] > n}
<1>1. n \in Above /\ Above \subseteq Nat
  BY PowerIsNumber
<1>2. PICK k \in Above : \A m \in Above : k <= m
  BY <1>1, Smallest
<1>3. k \in 0..n /\ Power[k] > n
  BY <1>1, <1>2
<1>4. ASSUME k > 0
      PROVE  Power[k - 1] <= n
  <2>1. k - 1 \in Nat /\ k - 1 \notin Above
    BY <1>2, <1>3, <1>4
  <2>2. Power[k - 1] \in Nat
    BY <2>1, PowerIsNumber
  <2> QED
    BY <2>1, <2>2
<1>5. HasLength(n, k)
  BY <1>3, <1>4 DEF HasLength
<1>6. Length(n) = CHOOSE m \in 0..n : HasLength(n, m)
  BY DEF Length, HasLength
<1>7. Length(n) \in 0..n /\ HasLength(n, Length(n))
  <2> DEFINE c == CHOOSE m \in 0..n : HasLength(n, m)
  <2>1. c \in 0..n /\ HasLength(n, c)
    BY <1>3, <1>5
  <2> QED
    BY <1>6, <2>1
<1> QED
  BY <1>7, OneLength

-----------------------------------------------------------------------------
(* Compact form.  Of a target n an exponent keeps the digits Mantissa; of  *)
(* bits with a clear sign bit, Value is the target.                        *)
Half == Digits \div 2
Mantissa(n, e) == IF e <= 3 THEN n * Power[3 - e] ELSE n \div Power[e - 3]
Value(e, m) == IF e <= 3 THEN m \div Power[3 - e] ELSE m * Power[e - 3]
Exponent(n) ==
    IF Mantissa(n, Length(n)) >= Half THEN Length(n) + 1 ELSE Length(n)

LEMMA HalfIs ==
    /\ Half \in Nat \ {0} /\ Digits = 2 * Half /\ Digits \in Nat \ {0}
    /\ Power[1] = Byte /\ Power[2] \in Nat \ {0} /\ Power[3] = Digits
    /\ Power[2] = Byte * Byte /\ Digits = Byte * Power[2]
    /\ Half = Byte * (Byte * (Byte \div 2)) /\ Half >= Power[2]
<1>1. 2 \in Nat /\ 3 \in Nat /\ 2 + 1 = 3
  OBVIOUS
<1>2. Power[2] \in Nat \ {0} /\ Power[3] = Byte * Power[2]
  <2>1. Power[2 + 1] = Byte * Power[2]
    BY <1>1, PowerIs
  <2> QED
    BY <1>1, <2>1, PowerIsNumber
<1> QED
  BY <1>2, DigitsAre DEF Half

(* The leading digits of a number: three, the first of them not zero.      *)
LEMMA Leading ==
    ASSUME NEW n \in Nat \ {0}
    PROVE  LET m == Mantissa(n, Length(n))
           IN /\ Length(n) \in Nat \ {0} /\ m \in Nat
              /\ Power[2] <= m /\ m < Digits
<1> DEFINE s == Length(n)
<1>1. s \in Nat /\ HasLength(n, s)
  BY LengthIs
<1> HIDE DEF s
<1>2. s # 0 /\ s - 1 \in Nat
  <2>1. ASSUME s = 0
        PROVE  FALSE
    BY <1>1, <2>1, PowerIs DEF HasLength
  <2> QED
    BY <1>1, <2>1
<1>3. Power[s - 1] <= n /\ n < Power[s] /\ Power[s - 1] \in Nat \ {0} /\ Power[s] \in Nat
  BY <1>1, <1>2, PowerIsNumber DEF HasLength
<1>4. CASE s <= 3
  <2>1. 3 - s \in Nat /\ s + (3 - s) = 3 /\ (s - 1) + (3 - s) = 2
    BY <1>1, <1>4
  <2> DEFINE g == Power[3 - s]
             p == Power[s - 1]
             q == Power[s]
  <2>2. g \in Nat \ {0}
    BY <2>1, PowerIsNumber
  <2>3. Digits = q * g /\ Power[2] = p * g
    <3>1. Power[s + (3 - s)] = Power[s] * Power[3 - s]
          /\ Power[(s - 1) + (3 - s)] = Power[s - 1] * Power[3 - s]
      BY <1>1, <1>2, <2>1, PowersMultiply
    <3> QED
      BY <2>1, <3>1, HalfIs
  <2>4. p <= n /\ n < q /\ p \in Nat /\ q \in Nat
    BY <1>3
  <2>5. Mantissa(n, s) = n * g
    BY <1>4 DEF Mantissa
  <2> HIDE DEF g, p, q
  <2>6. p * g <= n * g /\ n * g < q * g /\ n * g \in Nat
    BY <2>2, <2>4, ProductsOrdered
  <2> QED
    BY <1>1, <1>2, <2>3, <2>5, <2>6 DEF s
<1>5. CASE ~(s <= 3)
  <2>1. s - 3 \in Nat /\ 3 + (s - 3) = s /\ 2 + (s - 3) = s - 1
    BY <1>1, <1>5
  <2> DEFINE g == Power[s - 3]
             p == Power[2]
  <2>2. g \in Nat \ {0} /\ p \in Nat /\ Digits \in Nat
    BY <2>1, PowerIsNumber, HalfIs
  <2>3. Power[s] = Digits * g /\ Power[s - 1] = p * g
    <3>1. Power[3 + (s - 3)] = Power[3] * Power[s - 3]
          /\ Power[2 + (s - 3)] = Power[2] * Power[s - 3]
      BY <2>1, PowersMultiply
    <3> QED
      BY <2>1, <3>1, HalfIs
  <2>4. p * g <= n /\ n < Digits * g
    BY <1>3, <2>3
  <2>5. Mantissa(n, s) = n \div g
    BY <1>5 DEF Mantissa
  <2> HIDE DEF g, p
  <2> DEFINE m == n \div g
  <2>6. m \in Nat /\ m * g <= n /\ n < m * g + g
    BY <2>2, Quotient
  <2> HIDE DEF m
  <2>7. p * g < m * g + g /\ m * g < Digits * g
    BY <2>2, <2>4, <2>6
  <2>8. p <= m /\ m < Digits
    BY <2>2, <2>6, <2>7, ProductsOrdered
  <2> QED
    BY <1>1, <1>2, <2>5, <2>6, <2>8 DEF s, m, p
<1> QED
  BY <1>4, <1>5

(* A digit less is kept at the next exponent.                              *)
LEMMA Shifted ==
    ASSUME NEW n \in Nat, NEW e \in Nat
    PROVE  Mantissa(n, e) \div Byte = Mantissa(n, e + 1)
<1>0. Byte \in Nat \ {0}
  BY BaseIs
<1>1. CASE e <= 2
  <2>1. 2 - e \in Nat /\ (2 - e) + 1 = 3 - e /\ 3 - (e + 1) = 2 - e
    BY <1>1
  <2> DEFINE g == Power[2 - e]
  <2>2. g \in Nat /\ Power[3 - e] = Byte * g
    <3>1. Power[(2 - e) + 1] = Byte * Power[2 - e]
      BY <2>1, PowerIs
    <3> QED
      BY <2>1, <3>1, PowerIsNumber
  <2>3. Mantissa(n, e) = n * Power[3 - e] /\ Mantissa(n, e + 1) = n * g
    BY <1>1, <2>1 DEF Mantissa
  <2> HIDE DEF g
  <2>4. n * (Byte * g) = (n * g) * Byte /\ n * g \in Nat
    BY <1>0, <2>2
  <2>5. ((n * g) * Byte) \div Byte = n * g
    BY <1>0, <2>4, QuotientOfProduct
  <2> QED
    BY <2>2, <2>3, <2>4, <2>5
<1>2. CASE e = 3
  <2>1. 3 - e = 0 /\ (e + 1) - 3 = 1 /\ ~(e + 1 <= 3)
    BY <1>2
  <2>2. Mantissa(n, e) = n * Power[0] /\ Mantissa(n, e + 1) = n \div Power[1]
    BY <1>2, <2>1 DEF Mantissa
  <2>3. Power[0] = 1 /\ Power[1] = Byte
    BY PowerIs, HalfIs
  <2> QED
    BY <2>2, <2>3
<1>3. CASE e > 3
  <2>1. e - 3 \in Nat /\ (e - 3) + 1 = (e + 1) - 3 /\ ~(e + 1 <= 3) /\ ~(e <= 3)
    BY <1>3
  <2> DEFINE g == Power[e - 3]
  <2>2. g \in Nat \ {0} /\ Power[(e + 1) - 3] = Byte * g
    <3>1. Power[(e - 3) + 1] = Byte * Power[e - 3]
      BY <2>1, PowerIs
    <3> QED
      BY <2>1, <3>1, PowerIsNumber
  <2>3. Mantissa(n, e) = n \div g /\ Mantissa(n, e + 1) = n \div Power[(e + 1) - 3]
    BY <2>1 DEF Mantissa
  <2> HIDE DEF g
  <2> QED
    BY <1>0, <2>2, <2>3, QuotientTwice
<1> QED
  BY <1>1, <1>2, <1>3

(* What the encoding makes of a number: the exponent, and the digits it    *)
(* keeps, which do not reach the sign bit; but those it has room for.      *)
LEMMA Encoded ==
    ASSUME NEW n \in Nat \ {0}
    PROVE  LET e == Exponent(n)
               m == Mantissa(n, e)
           IN /\ e \in Nat \ {0}
              /\ BigToCompact(n) = e * Digits + m
              /\ m \in 0..(Half - 1)
              /\ e > 3 => m * Byte >= Half
<1> DEFINE s == Length(n)
           w == Mantissa(n, s)
<1>1. s \in Nat \ {0} /\ w \in Nat /\ Power[2] <= w /\ w < Digits
  BY Leading
<1>2. BigToCompact(n) = IF w >= Half THEN (s + 1) * Digits + w \div Byte
                        ELSE s * Digits + w
  BY DEF BigToCompact, Mantissa, Half
<1>3. w \div Byte = Mantissa(n, s + 1)
  BY <1>1, Shifted
<1>4. Exponent(n) = IF w >= Half THEN s + 1 ELSE s
  BY DEF Exponent
<1>5. w = Mantissa(n, s)
  OBVIOUS
<1> HIDE DEF s, w
<1>6. /\ Byte \in Nat \ {0} /\ Half \in Nat \ {0} /\ Power[2] \in Nat \ {0}
      /\ Byte \div 2 \in Nat \ {0}
      /\ Digits = Byte * Power[2] /\ Power[2] = Byte * Byte /\ Half >= Power[2]
      /\ Half = Byte * (Byte * (Byte \div 2)) /\ Digits = 2 * Half
  BY HalfIs, BaseIs
<1>7. CASE w >= Half
  <2> DEFINE m == w \div Byte
             h == Byte * (Byte \div 2)
  <2>1. m \in Nat /\ m * Byte <= w /\ w < m * Byte + Byte
    BY <1>1, <1>6, Quotient
  <2>2. h \in Nat /\ Half = h * Byte
    BY <1>6
  <2> HIDE DEF m, h
  <2>3. h <= m /\ m < Power[2]
    <3>1. h * Byte < m * Byte + Byte /\ m * Byte < Power[2] * Byte
      BY <1>1, <1>6, <1>7, <2>1, <2>2
    <3> QED
      BY <1>6, <2>1, <2>2, <3>1, ProductsOrdered
  <2>4. m * Byte >= Half
    BY <1>6, <2>1, <2>2, <2>3, ProductsOrdered
  <2>5. m \in 0..(Half - 1)
    BY <1>6, <2>1, <2>3
  <2>6. Exponent(n) = s + 1 /\ Mantissa(n, Exponent(n)) = m
        /\ BigToCompact(n) = (s + 1) * Digits + m
    BY <1>2, <1>3, <1>4, <1>7 DEF m
  <2> QED
    BY <1>1, <2>4, <2>5, <2>6
<1>8. CASE ~(w >= Half)
  <2>1. Exponent(n) = s /\ Mantissa(n, Exponent(n)) = w
        /\ BigToCompact(n) = s * Digits + w
    BY <1>2, <1>4, <1>5, <1>8
  <2>2. w \in 0..(Half - 1)
    BY <1>1, <1>6, <1>8
  <2>3. w * Byte >= Half
    <3>1. w * Byte >= Power[2] * Byte
      BY <1>1, <1>6, ProductsOrdered
    <3> QED
      BY <1>1, <1>6, <3>1
  <2> QED
    BY <1>1, <2>1, <2>2, <2>3
<1> QED
  BY <1>7, <1>8

-----------------------------------------------------------------------------
(* What the decoding makes of bits.                                        *)

LEMMA ValueIsNumber ==
    ASSUME NEW e \in Nat, NEW m \in Nat
    PROVE  Value(e, m) \in Nat
<1>1. e <= 3 => 3 - e \in Nat
  OBVIOUS
<1>2. ~(e <= 3) => e - 3 \in Nat
  OBVIOUS
<1>3. CASE e <= 3
  BY <1>1, <1>3, PowerIsNumber, Quotient DEF Value
<1>4. CASE ~(e <= 3)
  <2>1. Power[e - 3] \in Nat
    BY <1>2, <1>4, PowerIsNumber
  <2> QED
    BY <1>4, <2>1 DEF Value
<1> QED
  BY <1>3, <1>4

LEMMA Decoded ==
    ASSUME NEW e \in Nat, NEW m \in 0..(Half - 1)
    PROVE  CompactToBig(e * Digits + m) = Value(e, m)
<1> DEFINE bits == e * Digits + m
<1>1. Half \in Nat \ {0} /\ Digits = 2 * Half
  BY HalfIs
<1>2. bits \in Nat /\ bits = (e * 2) * Half + m /\ e * 2 \in Nat /\ m \in Nat /\ m < Half
  BY <1>1
<1>3. bits \div Digits = e
  BY <1>1, <1>2, QuotientIs
<1>4. bits % Digits = m
  BY <1>1, <1>2
<1>5. bits % Half = m
  BY <1>1, <1>2
<1> HIDE DEF bits
<1>6. ~(bits % Digits >= Half)
  BY <1>1, <1>2, <1>4
<1>7. CompactToBig(bits) = Value(e, m)
  BY <1>3, <1>5, <1>6 DEF CompactToBig, Value, Half
<1> QED
  BY <1>7 DEF bits

LEMMA AnyBits ==
    ASSUME NEW bits \in Nat
    PROVE  /\ CompactToBig(bits) \in Int
           /\ \/ CompactToBig(bits) <= 0
              \/ \E e \in Nat : \E m \in 0..(Half - 1) : CompactToBig(bits) = Value(e, m)
<1> DEFINE e == bits \div Digits
           r == bits % Digits
           m == bits % Half
<1>1. Half \in Nat \ {0} /\ Digits = 2 * Half /\ Digits \in Nat \ {0}
  BY HalfIs
<1>2. e \in Nat /\ r \in Nat /\ m \in 0..(Half - 1)
  BY <1>1
<1>3. CompactToBig(bits) = IF r >= Half THEN -Value(e, m) ELSE Value(e, m)
  BY DEF CompactToBig, Value, Half
<1> HIDE DEF e, r, m
<1>4. Value(e, m) \in Nat
  BY <1>1, <1>2, ValueIsNumber
<1> QED
  BY <1>2, <1>3, <1>4

(* What a target is after the round trip: n itself, or the multiple of the *)
(* last digit's weight that is next below n.                               *)
LEMMA RoundTrip ==
    ASSUME NEW n \in Nat \ {0}
    PROVE  LET e == Exponent(n)
               c == CompactToBig(BigToCompact(n))
           IN /\ c \in Nat /\ c <= n
              /\ e <= 3 => c = n
              /\ e > 3 => c = Mantissa(n, e) * Power[e - 3]
<1> DEFINE e == Exponent(n)
           m == Mantissa(n, e)
           c == CompactToBig(BigToCompact(n))
<1>1. /\ e \in Nat \ {0} /\ m \in 0..(Half - 1)
      /\ BigToCompact(n) = e * Digits + m
  BY Encoded
<1>2. m = Mantissa(n, e)
  OBVIOUS
<1> HIDE DEF e, m
<1>3. c = Value(e, m)
  BY <1>1, Decoded
<1>4. m \in Nat
  BY <1>1, HalfIs
<1> HIDE DEF c
<1>5. CASE e <= 3
  <2>1. 3 - e \in Nat
    BY <1>1, <1>5
  <2> DEFINE g == Power[3 - e]
  <2>2. g \in Nat \ {0}
    BY <2>1, PowerIsNumber
  <2>3. m = n * g /\ c = m \div g
    BY <1>2, <1>3, <1>5 DEF Mantissa, Value
  <2> HIDE DEF g
  <2>4. c = n
    BY <2>2, <2>3, QuotientOfProduct
  <2> QED
    BY <1>1, <1>5, <2>4 DEF e, c
<1>6. CASE ~(e <= 3)
  <2>1. e - 3 \in Nat
    BY <1>1, <1>6
  <2> DEFINE g == Power[e - 3]
  <2>2. g \in Nat \ {0}
    BY <2>1, PowerIsNumber
  <2>3. m = n \div g /\ c = m * g
    BY <1>2, <1>3, <1>6 DEF Mantissa, Value
  <2>4. c = Mantissa(n, e) * Power[e - 3]
    BY <1>2, <2>3
  <2> HIDE DEF g
  <2>5. c \in Nat /\ c <= n
    BY <1>4, <2>2, <2>3, Quotient
  <2> QED
    BY <1>1, <1>6, <2>4, <2>5 DEF e, c
<1> QED
  BY <1>5, <1>6

(* No target that bits express is above the round trip of n and at most n. *)
LEMMA NoneBetween ==
    ASSUME NEW n \in Nat \ {0}, NEW bits \in Nat, CompactToBig(bits) <= n
    PROVE  CompactToBig(bits) <= CompactToBig(BigToCompact(n))
<1> DEFINE e == Exponent(n)
           m == Mantissa(n, e)
           c == CompactToBig(BigToCompact(n))
           x == CompactToBig(bits)
<1>1. /\ e \in Nat \ {0} /\ m \in 0..(Half - 1)
      /\ e > 3 => m * Byte >= Half
  BY Encoded
<1>2. c \in Nat /\ (e <= 3 => c = n) /\ (e > 3 => c = m * Power[e - 3])
  BY RoundTrip
<1>3. x \in Int /\ x <= n
      /\ (x <= 0 \/ \E f \in Nat : \E k \in 0..(Half - 1) : x = Value(f, k))
  BY AnyBits
<1>4. m = Mantissa(n, e)
  OBVIOUS
<1>5. Half \in Nat \ {0} /\ Byte \in Nat \ {0}
  BY HalfIs, BaseIs
<1> SUFFICES x <= c
  OBVIOUS
<1> HIDE DEF e, m, c, x
<1>6. CASE x <= 0 \/ e <= 3
  BY <1>1, <1>2, <1>3, <1>6
<1>7. CASE ~(x <= 0) /\ ~(e <= 3)
  <2>1. PICK f \in Nat : \E k \in 0..(Half - 1) : x = Value(f, k)
    BY <1>3, <1>7
  <2>2. PICK k \in 0..(Half - 1) : x = Value(f, k)
    BY <2>1
  <2>3. k \in Nat /\ k <= Half /\ e > 3
    BY <1>1, <1>5, <1>7
  <2>4. e - 4 \in Nat /\ (e - 4) + 1 = e - 3 /\ e - 3 \in Nat
    BY <1>1, <2>3
  <2> DEFINE p == Power[e - 4]
             g == Power[e - 3]
  <2>5. p \in Nat \ {0} /\ g \in Nat \ {0} /\ g = Byte * p
    <3>1. Power[(e - 4) + 1] = Byte * Power[e - 4]
      BY <2>4, PowerIs
    <3> QED
      BY <2>4, <3>1, PowerIsNumber
  (* What is expressed with a lower exponent is at most c.                 *)
  <2>6. Half * p <= c
    <3>1. c = m * (Byte * p) /\ m \in Nat
      BY <1>1, <1>2, <1>5, <2>3, <2>5
    <3>2. m * (Byte * p) = (m * Byte) * p /\ m * Byte \in Nat /\ m * Byte >= Half
      BY <1>1, <1>5, <2>3, <2>5, <3>1
    <3> HIDE DEF p
    <3>3. Half * p <= (m * Byte) * p
      BY <1>5, <2>5, <3>2, ProductsOrdered
    <3> QED
      BY <3>1, <3>2, <3>3
  <2>7. CASE f <= 3
    <3>1. 3 - f \in Nat /\ x = k \div Power[3 - f]
      BY <2>2, <2>7 DEF Value
    <3>2. Power[3 - f] \in Nat \ {0}
      BY <3>1, PowerIsNumber
    <3>3. x <= k /\ x \in Nat
      BY <2>3, <3>1, <3>2, Quotient
    <3>4. Half <= Half * p
      <4> HIDE DEF p
      <4> QED
        BY <1>5, <2>5
    <3> HIDE DEF p
    <3> QED
      BY <1>2, <1>5, <2>3, <2>5, <2>6, <3>3, <3>4
  <2>8. CASE ~(f <= 3) /\ f < e
    <3>1. f - 3 \in Nat /\ f - 3 <= e - 4 /\ x = k * Power[f - 3]
      BY <1>1, <2>2, <2>8 DEF Value
    <3> DEFINE q == Power[f - 3]
    <3>2. q \in Nat \ {0} /\ q <= p
      BY <2>4, <3>1, PowerGrows, PowerIsNumber
    <3>3. x = k * q
      BY <3>1
    <3> HIDE DEF p, q
    <3>4. k * q <= Half * q /\ Half * q = q * Half /\ q * Half <= p * Half
          /\ p * Half = Half * p
      BY <1>5, <2>3, <2>5, <3>2, ProductsOrdered
    <3>5. k * q \in Nat /\ Half * q \in Nat /\ Half * p \in Nat
      BY <1>5, <2>3, <2>5, <3>2
    <3> QED
      BY <1>2, <2>6, <3>3, <3>4, <3>5
  <2>9. CASE ~(f <= 3) /\ ~(f < e)
    <3>1. f - e \in Nat /\ (f - e) + (e - 3) = f - 3 /\ x = k * Power[f - 3]
      BY <1>1, <2>2, <2>9 DEF Value
    <3> DEFINE q == Power[f - e]
    <3>2. q \in Nat /\ Power[f - 3] = q * g
      <4>1. Power[(f - e) + (e - 3)] = Power[f - e] * Power[e - 3]
        BY <2>4, <3>1, PowersMultiply
      <4> QED
        BY <3>1, <4>1, PowerIsNumber
    <3>3. m = n \div g /\ c = m * g
      BY <1>2, <1>4, <1>7, <2>3 DEF Mantissa
    <3>4. x = k * (q * g)
      BY <3>1, <3>2
    <3> HIDE DEF q, g
    <3>5. k * (q * g) = (k * q) * g /\ k * q \in Nat
      BY <2>3, <2>5, <3>2
    <3>6. n < m * g + g /\ m \in Nat
      BY <2>5, <3>3, Quotient
    <3>7. (k * q) * g < m * g + g
      BY <1>3, <2>5, <3>4, <3>5, <3>6
    <3>8. k * q <= m
      BY <2>5, <3>5, <3>6, <3>7, ProductsOrdered
    <3>9. (k * q) * g <= m * g
      BY <2>5, <3>5, <3>6, <3>8, ProductsOrdered
    <3> QED
      BY <3>3, <3>4, <3>5, <3>9
  <2> QED
    BY <2>7, <2>8, <2>9
<1> QED
  BY <1>6, <1>7

(* The round trip keeps the number of digits, and what they encode to: the *)
(* bits of a target are the only ones for it.                              *)
LEMMA OneForm ==
    ASSUME NEW n \in Nat
    PROVE  BigToCompact(CompactToBig(BigToCompact(n))) = BigToCompact(n)
<1> DEFINE e == Exponent(n)
           m == Mantissa(n, e)
           s == Length(n)
           c == CompactToBig(BigToCompact(n))
<1>1. CASE n = 0
  <2>1. BigToCompact(0) = 0
    BY DEF BigToCompact
  <2>2. 0 \in Nat /\ 0 \in 0..(Half - 1) /\ 0 * Digits + 0 = 0
    BY HalfIs
  <2>3. CompactToBig(0) = Value(0, 0)
    BY <2>2, Decoded
  <2>4. Value(0, 0) = 0 \div Power[3 - 0]
    BY DEF Value
  <2>5. Power[3 - 0] \in Nat \ {0}
    BY PowerIsNumber
  <2>6. 0 \div Power[3 - 0] = 0
    BY <2>5, Quotient
  <2> QED
    BY <1>1, <2>1, <2>3, <2>4, <2>6
<1>2. CASE n # 0
  <2>1. n \in Nat \ {0}
    BY <1>2
  <2>2. /\ e \in Nat \ {0} /\ m \in 0..(Half - 1)
        /\ BigToCompact(n) = e * Digits + m
        /\ e > 3 => m * Byte >= Half
    BY <2>1, Encoded
  <2>3. c \in Nat /\ c <= n /\ (e <= 3 => c = n) /\ (e > 3 => c = m * Power[e - 3])
    BY <2>1, RoundTrip
  <2>4. s \in Nat \ {0} /\ Power[2] <= Mantissa(n, s) /\ Mantissa(n, s) \in Nat
    BY <2>1, Leading
  <2>5. HasLength(n, s)
    BY LengthIs
  <2>6. e = IF Mantissa(n, s) >= Half THEN s + 1 ELSE s
    BY DEF Exponent
  <2>7. m = Mantissa(n, e)
    OBVIOUS
  <2>8. /\ Half \in Nat \ {0} /\ Byte \in Nat \ {0} /\ Power[2] \in Nat \ {0}
        /\ Power[2] = Byte * Byte /\ Power[1] = Byte /\ Half >= Power[2]
    BY HalfIs, BaseIs
  <2> SUFFICES BigToCompact(c) = BigToCompact(n)
    OBVIOUS
  <2> HIDE DEF e, m, s, c
  <2>9. CASE e <= 3
    BY <2>3, <2>9
  <2>10. CASE ~(e <= 3)
    <3>1. e > 3 /\ e - 3 \in Nat /\ m \in Nat
      BY <2>2, <2>8, <2>10
    <3> DEFINE g == Power[e - 3]
    <3>2. g \in Nat \ {0} /\ c = m * g
      BY <2>3, <3>1, PowerIsNumber
    <3>3. m * Byte >= Half
      BY <2>2, <3>1
    (* It has as many digits.                                              *)
    <3>4. Power[s - 1] <= c
      <4>1. CASE e = s
        <5>1. s - 1 = 2 + (e - 3)
          BY <2>4, <4>1
        <5>2. Power[s - 1] = Power[2] * g
          BY <3>1, <5>1, PowersMultiply
        <5>3. Power[2] <= m
          BY <2>4, <2>7, <4>1
        <5> HIDE DEF g
        <5>4. Power[2] * g <= m * g
          BY <2>8, <3>1, <3>2, <5>3, ProductsOrdered
        <5> QED
          BY <3>2, <5>2, <5>4
      <4>2. CASE e = s + 1
        <5>1. s - 1 = 1 + (e - 3)
          BY <2>4, <4>2
        <5>2. Power[s - 1] = Byte * g
          <6>1. Power[1 + (e - 3)] = Power[1] * Power[e - 3]
            BY <3>1, PowersMultiply
          <6> QED
            BY <2>8, <5>1, <6>1
        <5>3. Byte <= m
          <6>1. Byte * Byte < m * Byte + Byte
            <7>1. m * Byte \in Nat
              BY <2>8, <3>1
            <7> QED
              BY <2>8, <3>3, <7>1
          <6> QED
            BY <2>8, <3>1, <6>1, ProductsOrdered
        <5> HIDE DEF g
        <5>4. Byte * g <= m * g
          BY <2>8, <3>1, <3>2, <5>3, ProductsOrdered
        <5> QED
          BY <3>2, <5>2, <5>4
      <4> QED
        BY <2>6, <4>1, <4>2
    <3>5. Length(c) = s
      <4>1. Power[s] > n /\ Power[s] \in Nat
        BY <2>4, <2>5, PowerIsNumber DEF HasLength
      <4>2. Power[s] > c
        BY <2>3, <4>1
      <4>3. HasLength(c, s)
        BY <3>4, <4>2 DEF HasLength
      <4> QED
        BY <2>3, <2>4, <4>3, LengthIs
    <3>6. c # 0
      <4>1. Power[s - 1] \in Nat \ {0}
        BY <2>4, PowerIsNumber
      <4> QED
        BY <2>3, <3>4, <4>1
    (* The same ones, of those that are kept.                              *)
    <3>7. Mantissa(c, e) = m
      <4>1. Mantissa(c, e) = c \div g
        BY <2>10 DEF Mantissa
      <4> HIDE DEF g
      <4> QED
        BY <3>1, <3>2, <4>1, QuotientOfProduct
    <3>8. Exponent(c) = e
      <4>1. CASE e = s
        <5>1. Mantissa(c, s) = m /\ ~(m >= Half)
          BY <2>2, <2>8, <3>7, <4>1
        <5> QED
          BY <3>5, <4>1, <5>1 DEF Exponent
      <4>2. CASE e = s + 1
        <5>1. Mantissa(c, s) = m * Byte
          <6>1. CASE s = 3
            <7>1. Mantissa(c, s) = c * Power[0] /\ e - 3 = 1
              BY <4>2, <6>1 DEF Mantissa
            <7>2. Mantissa(c, s) = c * 1 /\ c = m * Byte
              BY <2>8, <3>2, <7>1, PowerIs
            <7> QED
              BY <2>3, <7>2
          <6>2. CASE ~(s = 3)
            <7>1. s - 3 \in Nat /\ (s - 3) + 1 = e - 3 /\ ~(s <= 3)
              BY <2>4, <3>1, <4>2, <6>2
            <7> DEFINE h == Power[s - 3]
            <7>2. h \in Nat \ {0} /\ g = Byte * h
              <8>1. Power[(s - 3) + 1] = Byte * Power[s - 3]
                BY <7>1, PowerIs
              <8> QED
                BY <7>1, <8>1, PowerIsNumber
            <7>3. Mantissa(c, s) = c \div h
              BY <7>1 DEF Mantissa
            <7> HIDE DEF g, h
            <7>4. c = (m * Byte) * h /\ m * Byte \in Nat
              BY <2>8, <3>1, <3>2, <7>2
            <7> QED
              BY <7>2, <7>3, <7>4, QuotientOfProduct
          <6> QED
            BY <6>1, <6>2
        <5> QED
          BY <3>3, <3>5, <4>2, <5>1 DEF Exponent
      <4> QED
        BY <2>6, <4>1, <4>2
    <3>9. BigToCompact(c) = e * Digits + m
      <4>1. c \in Nat \ {0}
        BY <2>3, <3>6
      <4> QED
        BY <3>7, <3>8, <4>1, Encoded
    <3> QED
      BY <2>2, <3>9
  <2> QED
    BY <2>9, <2>10
<1> QED
  BY <1>1, <1>2

-----------------------------------------------------------------------------
(* The bits of a chain.                                                    *)

(* The bits required next are those of the limit, those of a header of the *)
(* chain, or a retarget of the last.                                       *)
LEMMA ExpectedIs ==
    ASSUME Shape(tipHeight, ring, archive, peak), ~PeriodStartLost, NEW time
    PROVE  \/ ExpectedBits(time) = PowLimitBits
           \/ \E i \in 1..Len(archive) : ExpectedBits(time) = archive[i].bits
           \/ /\ tipHeight >= 0
              /\ \E i \in 1..Len(archive) :
                    ExpectedBits(time) = Retarget(Last(archive), archive[i])
<1>1. /\ tipHeight \in Int /\ Len(archive) = tipHeight + 1
      /\ Len(ring) \in Nat /\ Len(ring) <= Len(archive)
  BY LongEnough
<1>2. ASSUME NEW h \in Int, InRing(h)
      PROVE  h + 1 \in 1..Len(archive) /\ RingEntry(h) = archive[h + 1]
  <2>1. tipHeight - h \in 0..(Len(ring) - 1)
    BY <1>2 DEF InRing
  <2> QED
    BY <1>1, <1>2, <2>1, EntryIsHeader
<1>3. CASE tipHeight < 0
  BY <1>3 DEF ExpectedBits
<1>4. CASE tipHeight >= 0
  <2>1. Last(ring) = Last(archive)
    BY <1>4, LastIsTip
  <2>2. \E i \in 1..Len(archive) : Last(ring).bits = archive[i].bits
    <3>1. Len(archive) \in 1..Len(archive) /\ Last(ring).bits = archive[Len(archive)].bits
      BY <1>1, <1>4, <2>1 DEF Last
    <3> QED
      BY <3>1
  <2>3. AtBoundary =>
          \E i \in 1..Len(archive) : RingEntry(tipHeight + 1 - Period) = archive[i]
    <3>1. tipHeight + 1 - Period \in Int
      BY <1>1, Constants
    <3> QED
      BY <1>2, <1>4, <3>1, StartInRing
  <2>4. LastRealBits = PowLimitBits
        \/ \E i \in 1..Len(archive) : LastRealBits = archive[i].bits
    <3> DEFINE real == {h \in (tipHeight - (tipHeight % Period))..tipHeight :
                           InRing(h) /\ RingEntry(h).bits # PowLimitBits}
               Greatest(S) == CHOOSE h \in S : \A g \in S : g <= h
               last == Greatest(real)
    <3>1. LastRealBits = IF real = {} THEN PowLimitBits ELSE RingEntry(last).bits
      BY DEF LastRealBits
    <3>2. CASE real # {}
      <4>1. ASSUME NEW h \in real
            PROVE  h \in 0..tipHeight /\ InRing(h)
        <5>1. h \in Int /\ InRing(h) /\ h <= tipHeight
          <6>1. Period \in Nat \ {0} /\ tipHeight \in Nat
            BY <1>1, <1>4, Constants
          <6>2. tipHeight % Period \in Int
            BY <6>1, Remainder
          <6> QED
            BY <6>1, <6>2
        <5>2. h + 1 \in 1..Len(archive)
          BY <1>2, <5>1
        <5> QED
          BY <1>1, <5>1, <5>2
      <4>2. real \subseteq 0..tipHeight /\ tipHeight \in Nat
        BY <1>1, <1>4, <4>1
      <4> HIDE DEF real
      <4>3. \E h \in real : \A g \in real : g <= h
        BY <3>2, <4>2, Highest
      <4>4. last \in real
        BY <4>3
      <4> HIDE DEF last
      <4>5. last \in Int /\ InRing(last)
        BY <1>1, <4>1, <4>2, <4>4
      <4>6. last + 1 \in 1..Len(archive) /\ RingEntry(last) = archive[last + 1]
        BY <1>2, <4>5
      <4> QED
        BY <3>1, <3>2, <4>6
    <3> QED
      BY <3>1, <3>2
  <2>5. ~(tipHeight < 0)
    BY <1>1, <1>4
  <2>6. ExpectedBits(time) \in {PowLimitBits, Last(ring).bits, LastRealBits}
        \/ /\ AtBoundary
           /\ ExpectedBits(time) = Retarget(Last(ring), RingEntry(tipHeight + 1 - Period))
    BY <2>5 DEF ExpectedBits
  <2> QED
    BY <1>4, <2>1, <2>2, <2>3, <2>4, <2>6
<1> QED
  BY <1>1, <1>3, <1>4

(* A retarget is the compact form of a target up to the limit, and of none *)
(* below one unless the last one was close to that.                        *)
LEMMA RetargetIs ==
    ASSUME NEW prev, NEW start, Allowed(prev.bits),
           prev.time \in Int, start.time \in Int
    PROVE  \E t \in 0..PowLimit :
              /\ Retarget(prev, start) = BigToCompact(t)
              /\ CompactToBig(prev.bits) >= 2 * Factor => t >= 1
<1> DEFINE timespan == Period * Spacing
           actual == prev.time - start.time
           clamped == IF actual < timespan \div Factor THEN timespan \div Factor
                      ELSE Least(actual, timespan * Factor)
           old == CompactToBig(prev.bits)
           t == Least((old * clamped) \div timespan, PowLimit)
<1>1. Retarget(prev, start) = BigToCompact(t)
  BY DEF Retarget
<1>2. old \in 1..PowLimit /\ PowLimit \in Nat \ {0} /\ Factor \in Nat \ {0}
  BY ConstantsAssumption DEF Allowed
<1>3. timespan \in Nat \ {0} /\ Factor <= timespan
  BY ConstantsAssumption
<1>4. actual \in Int
  OBVIOUS
<1> HIDE DEF timespan, actual, old
<1> DEFINE q == timespan \div Factor
<1>5. q \in Nat /\ q * Factor <= timespan /\ timespan < q * Factor + Factor
  BY <1>2, <1>3, Quotient
<1>6. q >= 1
  <2>1. 0 * Factor + Factor <= timespan
    BY <1>2, <1>3
  <2> HIDE DEF q
  <2> QED
    BY <1>2, <1>3, <1>5, <2>1
<1>7. clamped = IF actual < q THEN q ELSE Least(actual, timespan * Factor)
  OBVIOUS
<1>8. q <= timespan * Factor /\ timespan * Factor \in Nat
  BY <1>2, <1>3, Quotient
<1> HIDE DEF q, clamped
<1>9. clamped \in Nat /\ clamped >= q
  BY <1>4, <1>5, <1>7, <1>8 DEF Least
<1> DEFINE x == old * clamped
<1>10. x \in Nat
  BY <1>2, <1>9
<1>11. x \div timespan \in Nat
  BY <1>3, <1>10, Quotient
<1>12. ASSUME old >= 2 * Factor
       PROVE  x \div timespan >= 1
  <2>1. (2 * Factor) * q <= old * q /\ q * old <= clamped * old
    BY <1>2, <1>5, <1>6, <1>9, <1>12, ProductsOrdered
  <2>2. q * old = old * q /\ clamped * old = x
    BY <1>2, <1>5, <1>9
  <2>3. (2 * Factor) * q = q * Factor + q * Factor /\ Factor <= q * Factor
    BY <1>2, <1>5, <1>6
  <2>4. timespan <= x
    <3> HIDE DEF x
    <3>1. q * Factor \in Nat /\ old * q \in Nat /\ (2 * Factor) * q \in Nat
      BY <1>2, <1>5
    <3> QED
      BY <1>2, <1>3, <1>5, <1>10, <2>1, <2>2, <2>3, <3>1
  <2> HIDE DEF x
  <2> DEFINE y == x \div timespan
  <2>5. y \in Nat /\ x < y * timespan + timespan
    BY <1>3, <1>10, Quotient
  <2> HIDE DEF y
  <2>6. y # 0
    BY <1>3, <1>10, <2>4, <2>5
  <2> QED
    BY <2>5, <2>6 DEF y
<1>13. t = Least(x \div timespan, PowLimit)
  OBVIOUS
<1> HIDE DEF x, t
<1>14. t \in 0..PowLimit /\ (old >= 2 * Factor => t >= 1)
  BY <1>2, <1>11, <1>12, <1>13 DEF Least
<1> QED
  BY <1>1, <1>14 DEF old

(* Every header's bits are the compact form of a target.                   *)
Compact(bits) == \E t \in Nat : bits = BigToCompact(t)
Canonical(headers) == \A i \in 1..Len(headers) : Compact(headers[i].bits)

CInv ==
    /\ WInv
    /\ Canonical(archive)
    /\ \A state \in exported : Canonical(state.archive)

LEMMA ExpectedIsCompact ==
    ASSUME CInv, ~PeriodStartLost, NEW time
    PROVE  Compact(ExpectedBits(time))
<1>1. /\ Shape(tipHeight, ring, archive, peak) /\ Canonical(archive)
      /\ Worked(tipHeight, chainWork, archive, peak)
  BY DEF CInv, WInv, IInv
<1>2. PowLimit \in Nat
  BY ConstantsAssumption
<1>3. Compact(PowLimitBits)
  BY <1>2 DEF Compact, PowLimitBits
<1>4. ASSUME tipHeight >= 0, NEW i \in 1..Len(archive)
      PROVE  Compact(Retarget(Last(archive), archive[i]))
  <2>1. Len(archive) \in 1..Len(archive)
    BY <1>1, <1>4, LongEnough
  <2>2. \A j \in 1..Len(archive) :
           Allowed(archive[j].bits) /\ archive[j].time \in Int
    BY <1>1, ConstantsAssumption DEF Worked, Workable
  <2>3. /\ Allowed(Last(archive).bits) /\ Last(archive).time \in Int
        /\ archive[i].time \in Int
    BY <2>1, <2>2 DEF Last
  <2>4. \E t \in 0..PowLimit : Retarget(Last(archive), archive[i]) = BigToCompact(t)
    BY <2>3, RetargetIs
  <2> QED
    BY <1>2, <2>4 DEF Compact
<1> QED
  BY <1>1, <1>3, <1>4, ExpectedIs DEF Canonical

LEMMA InitCInv == Init => CInv
<1>1. Len(<< >>) = 0
  BY EmptyIsSeq
<1>2. Canonical(<< >>)
  BY <1>1 DEF Canonical
<1> QED
  BY <1>2, InitWInv DEF Init, CInv

LEMMA NextCInv == CInv /\ [Next]_vars => CInv'
<1> SUFFICES ASSUME CInv, [Next]_vars
             PROVE  CInv'
  OBVIOUS
<1>0. WInv' /\ IsSeq(archive) /\ Canonical(archive)
      /\ Shape(tipHeight, ring, archive, peak)
  BY NextWInv DEF CInv, WInv, IInv, Shape
<1>1. ASSUME NEW prev \in Hashes, NEW time \in 0..(MaxTime + 1), Connect(prev, time)
      PROVE  CInv'
  <2> DEFINE bits == ExpectedBits(time)
             entry == [hash |-> Hash(prev, time, bits), time |-> time, bits |-> bits]
  <2>1. archive' = Append(archive, entry) /\ exported' = exported /\ ~PeriodStartLost
    BY <1>1 DEF Connect
  <2>2. Compact(entry.bits)
    BY <2>1, ExpectedIsCompact
  <2> HIDE DEF entry
  <2>3. /\ Len(archive') = Len(archive) + 1 /\ Len(archive) \in Nat
        /\ \A i \in 1..Len(archive) : archive'[i] = archive[i]
        /\ archive'[Len(archive) + 1] = entry
    BY <1>0, <2>1, Appended, SeqLen
  <2>4. ASSUME NEW i \in 1..Len(archive')
        PROVE  Compact(archive'[i].bits)
    <3>1. CASE i \in 1..Len(archive)
      BY <1>0, <2>3, <3>1 DEF Canonical
    <3>2. CASE i = Len(archive) + 1
      BY <2>2, <2>3, <3>2
    <3> QED
      BY <2>3, <3>1, <3>2
  <2>5. Canonical(archive')
    BY <2>4 DEF Canonical
  <2> QED
    BY <1>0, <2>1, <2>5 DEF CInv
<1>2. ASSUME NEW height \in -1..MaxTip, Rollback(height)
      PROVE  CInv'
  <2> DEFINE n == Len(archive) - (tipHeight - height)
  <2>1. /\ archive' = SubSeq(archive, 1, n) /\ exported' = exported
        /\ height < tipHeight /\ tipHeight - height < Len(ring)
    BY <1>2 DEF Rollback
  <2>2. n \in 0..Len(archive)
    BY <1>0, <2>1, LongEnough, ConstantsAssumption
  <2> HIDE DEF n
  <2>3. /\ Len(archive') = n /\ \A i \in 1..n : archive'[i] = archive[i]
        /\ \A i \in 1..n : i \in 1..Len(archive)
    <3>1. Len(archive) \in Nat
      BY <1>0, SeqLen
    <3>2. Len(archive') = n /\ \A i \in 1..n : archive'[i] = archive[i]
      BY <1>0, <2>1, <2>2, Prefix
    <3> QED
      BY <2>2, <3>1, <3>2
  <2>4. Canonical(archive')
    BY <1>0, <2>3 DEF Canonical
  <2> QED
    BY <1>0, <2>1, <2>4 DEF CInv
<1>3. CASE Export
  BY <1>0, <1>3 DEF Export, CInv
<1>4. CASE Import
  BY <1>0, <1>4 DEF Import, CInv
<1>5. CASE New
  <2>1. Len(<< >>) = 0
    BY EmptyIsSeq
  <2>2. Canonical(<< >>)
    BY <2>1 DEF Canonical
  <2> QED
    BY <1>0, <1>5, <2>2 DEF New, CInv
<1>6. CASE UNCHANGED vars
  BY <1>0, <1>6 DEF vars, CInv
<1> QED
  BY <1>1, <1>2, <1>3, <1>4, <1>5, <1>6 DEF Next

LEMMA CompactInvariant == Spec => []CInv
  BY InitCInv, NextCInv, PTL DEF Spec

(* For every limit and every even base, the compact form of a target is    *)
(* the greatest that bits express up to it, and the bits of every header,  *)
(* retargeted, inherited or of the limit, are the only ones for what they  *)
(* say: the comparison with the limit's bits that ends the walk of         *)
(* lastRealBits() is a comparison of targets.                              *)
THEOREM CompactFormIsFloor == Spec => []CompactIsFloor
<1>1. FloorOfEach
  <2>1. ASSUME NEW n \in 0..PowLimit
        PROVE  /\ CompactToBig(BigToCompact(n)) <= n
               /\ \A m \in {CompactToBig(bits) : bits \in Bits} :
                     m <= n => m <= CompactToBig(BigToCompact(n))
    <3>1. n \in Nat /\ PowLimit \in Nat
      BY ConstantsAssumption
    <3>2. Bits \subseteq Nat
      <4>1. Length(PowLimit) \in Nat /\ Digits \in Nat
        BY <3>1, LengthIs, HalfIs
      <4> QED
        BY <4>1 DEF Bits
    <3>3. CASE n = 0
      <4>1. BigToCompact(0) = 0
        BY DEF BigToCompact
      <4>2. CompactToBig(0) = 0
        <5>1. 0 \in Nat /\ 0 \in 0..(Half - 1) /\ 0 * Digits + 0 = 0
          BY HalfIs
        <5>2. CompactToBig(0) = 0 \div Power[3 - 0]
          BY <5>1, Decoded DEF Value
        <5>3. Power[3 - 0] \in Nat \ {0}
          BY PowerIsNumber
        <5> QED
          BY <5>2, <5>3, Quotient
      <4> QED
        BY <3>3, <4>1, <4>2
    <3>4. CASE n # 0
      <4>1. n \in Nat \ {0}
        BY <3>1, <3>4
      <4> QED
        BY <3>2, <4>1, RoundTrip, NoneBetween
    <3> QED
      BY <3>3, <3>4
  <2> QED
    BY <2>1 DEF FloorOfEach
<1>2. ASSUME CInv, NEW entry \in Entries
      PROVE  BigToCompact(CompactToBig(entry.bits)) = entry.bits
  <2>1. PICK i \in 1..Len(archive) : entry = archive[i]
    BY DEF Entries
  <2>2. PICK t \in Nat : entry.bits = BigToCompact(t)
    BY <1>2, <2>1 DEF CInv, Canonical, Compact
  <2> QED
    BY <2>2, OneForm
<1>3. CInv => CompactIsFloor
  BY <1>1, <1>2 DEF CompactIsFloor
<1> QED
  BY <1>3, CompactInvariant, PTL

(* The target of the tip is not within a retarget or two of the least.     *)
Ample == tipHeight >= 0 => CompactToBig(Last(ring).bits) >= 2 * Factor

(* A target that is not zero has a compact form the network allows.        *)
LEMMA CompactAllowed ==
    ASSUME NEW t \in 1..PowLimit
    PROVE  Allowed(BigToCompact(t))
<1>1. PowLimit \in Nat /\ t \in Nat \ {0} /\ 1 \in Nat \ {0}
  BY ConstantsAssumption
<1> DEFINE one == BigToCompact(1)
           c == CompactToBig(BigToCompact(t))
<1>2. Length(1) = 1
  <2>1. Power[1 - 1] = 1 /\ Power[1] > 1
    BY PowerIs, PowerIsNumber
  <2>2. HasLength(1, 1)
    BY <2>1 DEF HasLength
  <2> QED
    BY <2>2, LengthIs
<1>3. Exponent(1) \in Nat /\ Exponent(1) <= 3
  BY <1>2 DEF Exponent
<1>4. CompactToBig(one) = 1
  BY <1>1, <1>3, RoundTrip
<1>5. one \in Nat
  <2> DEFINE e == Exponent(1)
             m == Mantissa(1, e)
  <2>1. e \in Nat /\ m \in 0..(Half - 1) /\ one = e * Digits + m
    BY <1>1, Encoded
  <2>2. Half \in Nat /\ Digits \in Nat
    BY HalfIs
  <2> HIDE DEF e, m
  <2> QED
    BY <2>1, <2>2
<1> HIDE DEF one
<1>6. CompactToBig(one) <= c
  BY <1>1, <1>4, <1>5, NoneBetween
<1>7. c \in Nat /\ c <= t
  BY <1>1, RoundTrip
<1> HIDE DEF c
<1>8. c \in 1..PowLimit
  BY <1>1, <1>4, <1>6, <1>7
<1> QED
  BY <1>8 DEF Allowed, c

(* No header's time can bring the chain to a stop: whatever the times of   *)
(* the period were, a retarget from a target of 2 * Factor or more leaves  *)
(* one that the network allows, and connectHeader() accepts bits again.    *)
THEOREM ChainCanGoOn == Spec => [](Ample => CanGoOn)
<1>1. ASSUME WInv, Ample, NEW time \in 0..MaxTime, ~PeriodStartLost
      PROVE  Allowed(ExpectedBits(time))
  <2>1. /\ Shape(tipHeight, ring, archive, peak)
        /\ Worked(tipHeight, chainWork, archive, peak)
    BY <1>1 DEF WInv, IInv
  <2>2. \A i \in 1..Len(archive) : Allowed(archive[i].bits) /\ archive[i].time \in Int
    BY <2>1, ConstantsAssumption DEF Worked, Workable
  <2>3. PowLimit \in 1..PowLimit /\ PowLimit \in Nat
    BY ConstantsAssumption
  <2>4. Allowed(PowLimitBits)
    BY <2>3, CompactAllowed DEF PowLimitBits
  <2>5. ASSUME tipHeight >= 0, NEW i \in 1..Len(archive)
        PROVE  Allowed(Retarget(Last(archive), archive[i]))
    <3>1. Len(archive) \in 1..Len(archive) /\ Last(ring) = Last(archive)
      BY <2>1, <2>5, LongEnough, LastIsTip
    <3>2. /\ Allowed(Last(archive).bits) /\ Last(archive).time \in Int
          /\ archive[i].time \in Int
      BY <2>2, <3>1 DEF Last
    <3>3. CompactToBig(Last(archive).bits) >= 2 * Factor
      BY <1>1, <2>5, <3>1 DEF Ample
    <3>4. PICK t \in 0..PowLimit :
             Retarget(Last(archive), archive[i]) = BigToCompact(t) /\ t >= 1
      BY <3>2, <3>3, RetargetIs
    <3>5. t \in 1..PowLimit
      BY <2>3, <3>4
    <3> QED
      BY <3>4, <3>5, CompactAllowed
  <2> QED
    BY <1>1, <2>1, <2>2, <2>4, <2>5, ExpectedIs
<1>2. WInv => (Ample => CanGoOn)
  BY <1>1 DEF CanGoOn
<1> QED
  BY <1>2, WorkInvariant, PTL
=============================================================================
