-------------------------- MODULE WalletStoreProofs --------------------------
(***************************************************************************)
(* Proofs about WalletStore, for both backends, every size of a header     *)
(* file and of a revalidation batch, and any number of headers, saves,     *)
(* rejected writes and crashes.                                            *)
(***************************************************************************)
EXTENDS WalletStore, SequenceTheorems, TLAPS

-----------------------------------------------------------------------------
(* The records of the files.                                               *)
Half(i) == <<(i - 1) \div 2, 1 + ((i - 1) % 2)>>

LEMMA Halves ==
    /\ \A a, j \in Nat : /\ (2 * a + j) \div 2 = a + (j \div 2)
                         /\ (2 * a + j) % 2 = j % 2
                         /\ j \div 2 \in Nat /\ j % 2 \in {0, 1}
                         /\ j = 2 * (j \div 2) + (j % 2)
BY SMTT(30)

LEMMA ASequence ==
    ASSUME NEW S, NEW n \in Nat, NEW f \in [1..n -> S]
    PROVE  f \in Seq(S) /\ Len(f) = n
<1>1. f \in Seq(S)
  BY SeqDef
<1>2. DOMAIN f = 1..n /\ DOMAIN f = 1..Len(f) /\ Len(f) \in Nat
  BY <1>1, LenProperties
<1> QED BY <1>1, <1>2, SMT

(* What is left of an append of which the first n units reached the disk.  *)
LEMMA CutAppend ==
    ASSUME NEW S, NEW s \in Seq(S), NEW f \in Seq(S), NEW n \in 0..Len(f)
    PROVE  /\ s \o Prefix(f, n) \in Seq(S)
           /\ Len(s \o Prefix(f, n)) = Len(s) + n
           /\ \A i \in 1..Len(s) : (s \o Prefix(f, n))[i] = s[i]
           /\ \A i \in 1..n : (s \o Prefix(f, n))[Len(s) + i] = f[i]
<1>1. Len(s) \in Nat /\ Len(f) \in Nat /\ n \in Nat
  BY LenProperties
<1>2. \A i \in 1..n : f[i] \in S
  BY <1>1, ElementOfSeq
<1>3. /\ Prefix(f, n) \in Seq(S)
      /\ Len(Prefix(f, n)) = IF 1 <= n THEN n - 1 + 1 ELSE 0
      /\ \A i \in 1..(n - 1 + 1) : Prefix(f, n)[i] = f[1 + i - 1]
  BY <1>1, <1>2, SubSeqProperties DEF Prefix
<1>4. /\ Len(Prefix(f, n)) = n
      /\ \A i \in 1..n : Prefix(f, n)[i] = f[i]
  BY <1>1, <1>3
<1> HIDE DEF Prefix
<1>5. PICK g \in Seq(S) : g = Prefix(f, n)
  BY <1>3
<1>6. /\ s \o g \in Seq(S) /\ Len(s \o g) = Len(s) + Len(g)
      /\ \A i \in 1..(Len(s) + Len(g)) :
            (s \o g)[i] = IF i <= Len(s) THEN s[i] ELSE g[i - Len(s)]
  BY ConcatProperties
<1>7. Len(g) = n /\ \A i \in 1..n : g[i] = f[i]
  BY <1>4, <1>5
<1>8. ASSUME NEW i \in 1..Len(s) PROVE (s \o g)[i] = s[i]
  <2>1. i \in 1..(Len(s) + Len(g)) /\ i <= Len(s)
    BY <1>1, <1>7
  <2> QED BY <1>6, <2>1
<1>9. ASSUME NEW i \in 1..n PROVE (s \o g)[Len(s) + i] = f[i]
  <2>1. /\ Len(s) + i \in 1..(Len(s) + Len(g)) /\ ~(Len(s) + i <= Len(s))
        /\ (Len(s) + i) - Len(s) = i
    BY <1>1, <1>7
  <2> QED BY <1>6, <1>7, <2>1
<1> QED BY <1>5, <1>6, <1>7, <1>8, <1>9

LEMMA CutHeaders ==
    \A s, f \in Seq(Hdr) : \A n \in 0..Len(f) :
        /\ s \o Prefix(f, n) \in Seq(Hdr)
        /\ Len(s \o Prefix(f, n)) = Len(s) + n
        /\ \A i \in 1..Len(s) : (s \o Prefix(f, n))[i] = s[i]
        /\ \A i \in 1..n : (s \o Prefix(f, n))[Len(s) + i] = f[i]
BY CutAppend

LEMMA BytesAre ==
    ASSUME NEW from \in Nat, NEW to \in Int, from <= to + 1, to <= MaxTip
    PROVE  /\ Bytes(from, to) \in Seq(Hdr)
           /\ Len(Bytes(from, to)) = 2 * (to - from + 1)
           /\ \A i \in 1..(2 * (to - from + 1)) :
                 /\ Bytes(from, to)[i] = <<from + ((i - 1) \div 2), 1 + ((i - 1) % 2)>>
                 /\ from + ((i - 1) \div 2) \in from..to
<1>1. PICK n : n = 2 * (to - from + 1)
  OBVIOUS
<1>2. n \in Nat /\ (IF to >= from THEN 2 * (to - from + 1) ELSE 0) = n
  BY <1>1
<1>3. \A i \in 1..n : /\ from + ((i - 1) \div 2) \in from..to
                      /\ 1 + ((i - 1) % 2) \in {1, 2}
  <2> SUFFICES ASSUME NEW i \in 1..n
               PROVE  /\ from + ((i - 1) \div 2) \in from..to
                      /\ 1 + ((i - 1) % 2) \in {1, 2}
    OBVIOUS
  <2>1. PICK j \in Nat : j = i - 1
    OBVIOUS
  <2>2. /\ j \div 2 \in Nat /\ j % 2 \in {0, 1}
        /\ j = 2 * (j \div 2) + (j % 2)
    BY Halves
  <2>3. j < 2 * (to - from + 1)
    BY <1>1, <2>1
  <2>4. from + (j \div 2) \in from..to
    BY <2>2, <2>3
  <2> QED BY <2>1, <2>2, <2>4
<1>4. MaxTip \in Nat
  BY ConstantsAssumption
<1>5. \A i \in 1..n : <<from + ((i - 1) \div 2), 1 + ((i - 1) % 2)>> \in Hdr
  <2>1. \A h \in from..to : h \in 0..MaxTip
    BY <1>4
  <2> QED BY <1>3, <2>1 DEF Hdr
<1>6. PICK f : f = [i \in 1..n |-> <<from + ((i - 1) \div 2), 1 + ((i - 1) % 2)>>]
  OBVIOUS
<1>7. f \in [1..n -> Hdr]
  BY <1>5, <1>6
<1>8. f = Bytes(from, to)
  BY <1>2, <1>6 DEF Bytes
<1>9. \A i \in 1..n : f[i] = <<from + ((i - 1) \div 2), 1 + ((i - 1) % 2)>>
  BY <1>6
<1> QED BY <1>1, <1>2, <1>3, <1>7, <1>8, <1>9, ASequence

LEMMA EntriesAre ==
    ASSUME NEW from \in Nat, NEW to \in Int, from <= to + 1, to <= MaxTip
    PROVE  /\ Entries(from, to) \in Seq(0..MaxTip)
           /\ Len(Entries(from, to)) = to - from + 1
           /\ \A i \in 1..(to - from + 1) : Entries(from, to)[i] = from + i - 1
<1>1. PICK n : n = to - from + 1
  OBVIOUS
<1>2. n \in Nat /\ (IF to >= from THEN to - from + 1 ELSE 0) = n /\ MaxTip \in Nat
  BY <1>1, ConstantsAssumption
<1>3. \A i \in 1..n : from + i - 1 \in 0..MaxTip
  BY <1>1, <1>2
<1>4. PICK f : f = [i \in 1..n |-> from + i - 1]
  OBVIOUS
<1>5. f \in [1..n -> 0..MaxTip] /\ \A i \in 1..n : f[i] = from + i - 1
  BY <1>3, <1>4
<1>6. f = Entries(from, to)
  BY <1>2, <1>4 DEF Entries
<1> QED BY <1>1, <1>2, <1>5, <1>6, ASequence

(* An append that goes on where the file ends keeps every half of a header *)
(* at its offset, wherever it is cut.                                      *)
LEMMA AppendInPlace ==
    ASSUME NEW s \in Seq(Hdr), NEW a \in Nat, Len(s) = 2 * a,
           \A i \in 1..Len(s) : s[i] = Half(i),
           NEW b \in Int, a <= b + 1, b <= MaxTip,
           NEW n \in 0..Len(Bytes(a, b)),
           NEW t, t = s \o Prefix(Bytes(a, b), n)
    PROVE  \A i \in 1..Len(t) : t[i] = Half(i)
<1>1. /\ Bytes(a, b) \in Seq(Hdr) /\ Len(Bytes(a, b)) = 2 * (b - a + 1)
      /\ \A i \in 1..(2 * (b - a + 1)) :
            Bytes(a, b)[i] = <<a + ((i - 1) \div 2), 1 + ((i - 1) % 2)>>
  BY BytesAre
<1>2. /\ Len(t) = Len(s) + n
      /\ \A i \in 1..Len(s) : t[i] = s[i]
      /\ \A i \in 1..n : t[Len(s) + i] = Bytes(a, b)[i]
  <2>1. PICK f \in Seq(Hdr) : f = Bytes(a, b)
    BY <1>1
  <2>2. /\ Len(s \o Prefix(f, n)) = Len(s) + n
        /\ \A i \in 1..Len(s) : (s \o Prefix(f, n))[i] = s[i]
        /\ \A i \in 1..n : (s \o Prefix(f, n))[Len(s) + i] = f[i]
    BY <2>1, CutHeaders
  <2> QED BY <2>1, <2>2
<1> SUFFICES ASSUME NEW i \in 1..Len(t) PROVE t[i] = Half(i)
  OBVIOUS
<1>3. n \in Nat /\ i \in 1..(2 * a + n)
  BY <1>1, <1>2
<1>4. CASE i <= 2 * a
  <2>1. i \in 1..Len(s)
    BY <1>3, <1>4
  <2> QED BY <1>2, <2>1
<1>5. CASE ~(i <= 2 * a)
  <2>1. PICK j \in Nat : i = 2 * a + (j + 1) /\ j + 1 \in 1..n
    <3>1. i - 2 * a - 1 \in Nat /\ i = 2 * a + ((i - 2 * a - 1) + 1)
          /\ (i - 2 * a - 1) + 1 \in 1..n
      BY <1>3, <1>5
    <3> QED BY <3>1
  <2>2. t[i] = Bytes(a, b)[j + 1] /\ j + 1 \in 1..(2 * (b - a + 1))
    <3>1. PICK m \in 1..n : m = j + 1
      BY <2>1
    <3>2. i = Len(s) + m
      BY <2>1, <3>1
    <3>3. t[i] = Bytes(a, b)[m]
      BY <1>2, <3>2
    <3>4. m \in 1..(2 * (b - a + 1))
      BY <1>1
    <3> QED BY <3>1, <3>3, <3>4
  <2>3. (j + 1) - 1 = j /\ i - 1 = 2 * a + j
    BY <2>1
  <2>4. t[i] = <<a + (j \div 2), 1 + (j % 2)>>
    BY <1>1, <2>2, <2>3
  <2>5. Half(i) = <<a + (j \div 2), 1 + (j % 2)>>
    BY <2>3, Halves DEF Half
  <2> QED BY <2>4, <2>5
<1> QED BY <1>4, <1>5

LEMMA FileEndBound ==
    ASSUME NEW h \in Nat, server \in 0..MaxTip, h <= server
    PROVE  FileEnd(h) \in h..server
<1>1. PerFile \in Nat /\ PerFile > 0
  BY ConstantsAssumption
<1>2. h % PerFile \in 0..(PerFile - 1)
  BY <1>1, SMTT(30)
<1>3. PICK m \in 0..(PerFile - 1) : m = h % PerFile
  BY <1>2
<1>4. FileEnd(h) = Least(h - m + PerFile - 1, server)
  BY <1>3 DEF FileEnd
<1>5. server \in Nat /\ h - m + PerFile - 1 \in Nat /\ h <= h - m + PerFile - 1
  BY <1>1, ConstantsAssumption
<1> QED BY <1>4, <1>5 DEF Least

-----------------------------------------------------------------------------
(* The types, the first half of TypeOK, and the bounds, the other half and *)
(* what an append has to write: nothing on disk lies beyond the block the  *)
(* server is at, whatever became of the files.                             *)
Types ==
    /\ backend \in Backends
    /\ server \in 0..MaxTip
    /\ disk \in Disks
    /\ engine \in Engines
    /\ saved \in Records
    /\ damage \in {"none", "torn", "gap"}
    /\ faults \in 0..MaxFaults

Bounds ==
    /\ disk.state \in -1..server /\ disk.wallet \in 0..MaxSaves
    /\ saved.good \in 0..MaxSaves /\ saved.next \in 0..MaxSaves
    /\ engine.tip \in -1..server /\ engine.target \in -1..server
    /\ At("append") => engine.read <= engine.tip

(* A filter header is one unit: no damage reaches this file.               *)
FiltersInv ==
    /\ Len(disk.filters) <= server + 1
    /\ \A i \in 1..Len(disk.filters) : disk.filters[i] = i - 1

LowHeaders == \A i \in 1..Len(disk.headers) : disk.headers[i][1] <= server

(* As long as the store is undamaged, headers.bin is whole, and the engine *)
(* agrees with it, except while an append or a revalidation is under way   *)
(* and after a rejected append.                                            *)
WholeHeaders ==
    /\ Len(disk.headers) = 2 * HeaderCount
    /\ \A i \in 1..Len(disk.headers) : disk.headers[i] = Half(i)

EngineAgrees ==
    /\ ~At("thrown")
    /\ At("revalidate") => engine.tip + 1 = Least(engine.read, HeaderCount)
    /\ At("append") => ~engine.rejected /\ engine.read = HeaderCount
    /\ engine.pc \in {"ready", "headers", "state", "filters", "save"}
          /\ ~engine.rejected => engine.tip + 1 = HeaderCount

HeadersInv == damage = "none" => WholeHeaders /\ EngineAgrees

(* Once a wallet engine has the store open, wallet.json holds what it read *)
(* or saved last, or a save that was cut short has emptied it.             *)
Emptied == backend = "node" /\ saved.emptied /\ disk.wallet = 0

WalletInv ==
    /\ disk.wallet \in {saved.good, saved.next} \/ Emptied
    /\ engine.kind = "wallet" => disk.wallet = saved.good \/ Emptied

IInv == Types /\ Bounds /\ FiltersInv /\ LowHeaders /\ HeadersInv /\ WalletInv

-----------------------------------------------------------------------------
(* What a step does to the files.                                          *)
LEMMA FreshHeaders ==
    ASSUME Types, Bounds, At("append")
    PROVE  /\ Fresh \in Seq(Hdr) /\ Len(Fresh) = 2 * (engine.tip - engine.read + 1)
           /\ Len(Fresh) \in Nat
           /\ \A i \in 1..Len(Fresh) : Fresh[i][1] <= engine.tip
<1>1. /\ engine.read \in Nat /\ engine.tip \in Int /\ engine.read <= engine.tip + 1
      /\ engine.tip <= MaxTip
  BY ConstantsAssumption DEF Types, Bounds, Engines
<1>2. PICK a \in Nat, b \in Int : a = engine.read /\ b = engine.tip
  BY <1>1
<1>3. /\ Bytes(a, b) \in Seq(Hdr) /\ Len(Bytes(a, b)) = 2 * (b - a + 1)
      /\ \A i \in 1..(2 * (b - a + 1)) :
            /\ Bytes(a, b)[i] = <<a + ((i - 1) \div 2), 1 + ((i - 1) % 2)>>
            /\ a + ((i - 1) \div 2) \in a..b
  BY <1>1, <1>2, BytesAre
<1>4. \A i \in 1..(2 * (b - a + 1)) : Bytes(a, b)[i][1] <= b
  BY <1>2, <1>3
<1> QED BY <1>1, <1>2, <1>3, <1>4 DEF Fresh

LEMMA FreshFilterHeaders ==
    ASSUME Types, Bounds, FiltersInv, FilterHeaderCount <= engine.target
    PROVE  /\ FreshFilters \in Seq(0..MaxTip) /\ Len(FreshFilters) \in Nat
           /\ FilterHeaderCount + Len(FreshFilters) <= server + 1
           /\ \A i \in 1..Len(FreshFilters) : FreshFilters[i] = FilterHeaderCount + i - 1
<1>1. /\ FilterHeaderCount \in Nat /\ FilterHeaderCount <= server
      /\ server \in 0..MaxTip /\ MaxTip \in Nat
  BY ConstantsAssumption, LenProperties DEF Types, Bounds, Disks, FilterHeaderCount
<1>2. PICK a \in Nat : a = FilterHeaderCount
  BY <1>1
<1>3. PICK b \in a..server : b = FileEnd(a)
  BY <1>1, <1>2, FileEndBound
<1>4. b \in Int /\ a <= b + 1 /\ b <= MaxTip /\ b <= server
  BY <1>1, <1>3
<1>5. /\ Entries(a, b) \in Seq(0..MaxTip) /\ Len(Entries(a, b)) = b - a + 1
      /\ \A i \in 1..(b - a + 1) : Entries(a, b)[i] = a + i - 1
  BY <1>4, EntriesAre
<1>6. FreshFilters = Entries(a, b)
  BY <1>2, <1>3 DEF FreshFilters
<1>7. Len(FreshFilters) = b - a + 1 /\ b - a + 1 \in Nat /\ a + (b - a + 1) <= server + 1
  BY <1>1, <1>3, <1>4, <1>5, <1>6
<1> QED BY <1>2, <1>5, <1>6, <1>7

LEMMA WrittenBound ==
    ASSUME NEW n \in Nat, NEW m \in Written(n) \cup {n}
    PROVE  m \in 0..n
BY DEF Written, WrittenOpfs, WrittenNode

HeadersStep == At("append") /\ \E n \in 0..Len(Fresh) : AppendHeaders(n)
StateStep == \E state \in -1..server : disk' = [disk EXCEPT !.state = state]
FiltersStep ==
    /\ FilterHeaderCount <= engine.target
    /\ \E n \in 0..Len(FreshFilters) : AppendFilters(n)
WalletStep == \E wallet \in 0..MaxSaves : disk' = [disk EXCEPT !.wallet = wallet]

LEMMA DiskStep ==
    ASSUME IInv, [Next]_vars
    PROVE  /\ backend' = backend /\ server' \in server..MaxTip
           /\ \/ disk' = disk
              \/ server' = server /\ (HeadersStep \/ StateStep \/ FiltersStep \/ WalletStep)
              \/ Clear
<1>0. Types /\ Bounds /\ FiltersInv /\ server \in server..MaxTip
  BY ConstantsAssumption DEF IInv, Types
<1>1. CASE \/ Revalidate \/ Revalidated \/ Close \/ SyncStart \/ SyncHeaders
           \/ HeadersSynced \/ Synced \/ SaveStart \/ UNCHANGED vars
  BY <1>0, <1>1 DEF Revalidate, Revalidated, Close, SyncStart, SyncHeaders,
                    HeadersSynced, Synced, SaveStart, vars
<1>2. CASE \E kind \in {"wallet", "scanner"} : Open(kind)
  BY <1>0, <1>2 DEF Open
<1>3. CASE ServerGrows
  BY <1>0, <1>3, ConstantsAssumption DEF ServerGrows, Types
<1>4. CASE HeadersAppended \/ HeadersRejected
  <2>1. At("append") /\ backend' = backend /\ server' = server
    BY <1>4 DEF HeadersAppended, HeadersRejected
  <2>2. \E n \in Written(Len(Fresh)) \cup {Len(Fresh)} : AppendHeaders(n)
    BY <1>4 DEF HeadersAppended, HeadersRejected
  <2>3. HeadersStep
    BY <1>0, <2>1, <2>2, FreshHeaders, WrittenBound DEF HeadersStep
  <2> QED BY <1>0, <2>1, <2>3
<1>5. CASE StateStored \/ StateRejected
  <2>1. /\ backend' = backend /\ server' = server
        /\ \E state \in Cut(disk.state, -1) \cup {engine.tip} :
              disk' = [disk EXCEPT !.state = state]
    BY <1>5 DEF StateStored, StateRejected
  <2>2. StateStep
    BY <1>0, <2>1 DEF StateStep, Cut, CutOpfs, CutNode, Bounds, Types
  <2> QED BY <1>0, <2>1, <2>2
<1>6. CASE FiltersAppended \/ FiltersRejected
  <2>1. backend' = backend /\ server' = server /\ FilterHeaderCount <= engine.target
    BY <1>6 DEF FiltersAppended, FiltersRejected
  <2>2. \E n \in Written(Len(FreshFilters)) \cup {Len(FreshFilters)} : AppendFilters(n)
    BY <1>6 DEF FiltersAppended, FiltersRejected
  <2>3. FiltersStep
    BY <1>0, <2>1, <2>2, FreshFilterHeaders, WrittenBound DEF FiltersStep
  <2> QED BY <1>0, <2>1, <2>3
<1>7. CASE WalletSaved \/ SaveRejected
  <2>1. /\ backend' = backend /\ server' = server
        /\ \E wallet \in Cut(disk.wallet, 0) \cup {saved.next} :
              disk' = [disk EXCEPT !.wallet = wallet]
    BY <1>7 DEF WalletSaved, SaveRejected, CutWallet
  <2>2. WalletStep
    BY <1>0, <2>1, ConstantsAssumption DEF WalletStep, Cut, CutOpfs, CutNode, Bounds
  <2> QED BY <1>0, <2>1, <2>2
<1>8. CASE Crash
  <2>1. backend' = backend /\ server' = server
    BY <1>8 DEF Crash
  <2>2. CASE UNCHANGED <<disk, saved, damage>>
    BY <1>0, <2>1, <2>2
  <2>3. CASE /\ At("append")
             /\ \E n \in Written(Len(Fresh)) \cup {Len(Fresh)} : AppendHeaders(n)
    <3>1. HeadersStep
      BY <1>0, <2>3, FreshHeaders, WrittenBound DEF HeadersStep
    <3> QED BY <1>0, <2>1, <3>1
  <2>4. CASE \E state \in Cut(disk.state, -1) \cup {engine.tip} :
                disk' = [disk EXCEPT !.state = state]
    <3>1. StateStep
      BY <1>0, <2>4 DEF StateStep, Cut, CutOpfs, CutNode, Bounds, Types
    <3> QED BY <1>0, <2>1, <3>1
  <2>5. CASE /\ FilterHeaderCount <= engine.target
             /\ \E n \in Written(Len(FreshFilters)) \cup {Len(FreshFilters)} :
                   AppendFilters(n)
    <3>1. FiltersStep
      BY <1>0, <2>5, FreshFilterHeaders, WrittenBound DEF FiltersStep
    <3> QED BY <1>0, <2>1, <3>1
  <2>6. CASE CutWallet \/ disk' = [disk EXCEPT !.wallet = saved.next]
    <3>1. WalletStep
      BY <1>0, <2>6, ConstantsAssumption
         DEF WalletStep, CutWallet, Cut, CutOpfs, CutNode, Bounds
    <3> QED BY <1>0, <2>1, <3>1
  <2> QED BY <1>8, <2>2, <2>3, <2>4, <2>5, <2>6 DEF Crash
<1>9. CASE Clear
  BY <1>0, <1>9 DEF Clear
<1> QED BY <1>1, <1>2, <1>3, <1>4, <1>5, <1>6, <1>7, <1>8, <1>9 DEF Next

(* The disk after each kind of step.                                       *)
LEMMA HeadersStepEffect ==
    ASSUME IInv, NEW n \in 0..Len(Fresh), At("append"), AppendHeaders(n)
    PROVE  /\ disk' \in Disks /\ disk'.filters = disk.filters
           /\ disk'.state = disk.state /\ disk'.wallet = disk.wallet
           /\ \A i \in 1..Len(disk'.headers) : disk'.headers[i][1] <= server
           /\ Len(disk'.headers) = Len(disk.headers) + n
           /\ \A i \in 1..Len(disk.headers) : disk'.headers[i] = disk.headers[i]
<1>0. disk \in Disks /\ disk.headers \in Seq(Hdr) /\ LowHeaders
  BY DEF IInv, Types, Disks
<1>1. /\ Fresh \in Seq(Hdr) /\ Len(Fresh) \in Nat
      /\ \A i \in 1..Len(Fresh) : Fresh[i][1] <= engine.tip
  BY FreshHeaders DEF IInv
<1>2. PICK t : t = disk.headers \o Prefix(Fresh, n)
  OBVIOUS
<1>3. /\ t \in Seq(Hdr) /\ Len(t) = Len(disk.headers) + n
      /\ \A i \in 1..Len(disk.headers) : t[i] = disk.headers[i]
      /\ \A i \in 1..n : t[Len(disk.headers) + i] = Fresh[i]
  BY <1>0, <1>1, <1>2, CutHeaders
<1>4. disk' = [disk EXCEPT !.headers = t]
  BY <1>2 DEF AppendHeaders
<1>5. /\ disk' \in Disks /\ disk'.headers = t /\ disk'.filters = disk.filters
      /\ disk'.state = disk.state /\ disk'.wallet = disk.wallet
  BY <1>0, <1>3, <1>4 DEF Disks
<1>6. \A i \in 1..Len(t) : t[i][1] <= server
  <2> SUFFICES ASSUME NEW i \in 1..Len(t) PROVE t[i][1] <= server
    OBVIOUS
  <2>1. Len(disk.headers) \in Nat /\ n \in Nat
    BY <1>0, <1>1, LenProperties
  <2>2. CASE i <= Len(disk.headers)
    <3>1. i \in 1..Len(disk.headers)
      BY <1>3, <2>1, <2>2
    <3> QED BY <1>0, <1>3, <3>1 DEF LowHeaders
  <2>3. CASE ~(i <= Len(disk.headers))
    <3>1. PICK j \in 1..n : i = Len(disk.headers) + j
      <4>1. i - Len(disk.headers) \in 1..n
            /\ i = Len(disk.headers) + (i - Len(disk.headers))
        BY <1>3, <2>1, <2>3
      <4> QED BY <4>1
    <3>2. t[i] = Fresh[j] /\ j \in 1..Len(Fresh)
      BY <1>1, <1>3, <3>1
    <3>3. Fresh[j] \in Hdr /\ Fresh[j][1] <= engine.tip
      BY <1>1, <3>2, ElementOfSeq
    <3>4. Fresh[j][1] \in Int
      BY <3>3, ConstantsAssumption DEF Hdr
    <3>5. engine.tip <= server /\ engine.tip \in Int /\ server \in Int
      BY ConstantsAssumption DEF IInv, Types, Bounds
    <3> QED BY <3>2, <3>3, <3>4, <3>5
  <2> QED BY <2>2, <2>3
<1> QED BY <1>3, <1>5, <1>6

LEMMA FiltersStepEffect ==
    ASSUME IInv, FiltersStep
    PROVE  /\ disk' \in Disks /\ disk'.headers = disk.headers
           /\ disk'.state = disk.state /\ disk'.wallet = disk.wallet
           /\ Len(disk'.filters) <= server + 1
           /\ \A i \in 1..Len(disk'.filters) : disk'.filters[i] = i - 1
<1>0. /\ disk \in Disks /\ disk.filters \in Seq(0..MaxTip) /\ FiltersInv
      /\ FilterHeaderCount <= engine.target /\ server \in Int
  BY ConstantsAssumption DEF IInv, Types, Disks, FiltersStep
<1>1. PICK n \in 0..Len(FreshFilters) : AppendFilters(n)
  BY DEF FiltersStep
<1>2. /\ FreshFilters \in Seq(0..MaxTip) /\ Len(FreshFilters) \in Nat
      /\ FilterHeaderCount + Len(FreshFilters) <= server + 1
      /\ \A i \in 1..Len(FreshFilters) : FreshFilters[i] = FilterHeaderCount + i - 1
  BY <1>0, FreshFilterHeaders DEF IInv
<1>3. PICK S : S = 0..MaxTip
  OBVIOUS
<1>4. PICK t : t = disk.filters \o Prefix(FreshFilters, n)
  OBVIOUS
<1>5. /\ disk.filters \in Seq(S) /\ FreshFilters \in Seq(S)
  BY <1>0, <1>2, <1>3
<1>6. /\ t \in Seq(S) /\ Len(t) = Len(disk.filters) + n
      /\ \A i \in 1..Len(disk.filters) : t[i] = disk.filters[i]
      /\ \A i \in 1..n : t[Len(disk.filters) + i] = FreshFilters[i]
  BY <1>4, <1>5, CutAppend
<1>7. disk' = [disk EXCEPT !.filters = t]
  BY <1>1, <1>4 DEF AppendFilters
<1>8. /\ disk' \in Disks /\ disk'.filters = t /\ disk'.headers = disk.headers
      /\ disk'.state = disk.state /\ disk'.wallet = disk.wallet
  BY <1>0, <1>3, <1>6, <1>7 DEF Disks
<1>9. Len(disk.filters) \in Nat /\ FilterHeaderCount = Len(disk.filters) /\ n \in Nat
  BY <1>2, <1>5, LenProperties DEF FilterHeaderCount
<1>10. Len(t) <= server + 1
  BY <1>0, <1>2, <1>6, <1>9
<1>11. ASSUME NEW i \in 1..Len(t) PROVE t[i] = i - 1
  <2>1. CASE i <= Len(disk.filters)
    <3>1. i \in 1..Len(disk.filters)
      BY <1>6, <1>9, <2>1
    <3> QED BY <1>0, <1>6, <3>1 DEF FiltersInv
  <2>2. CASE ~(i <= Len(disk.filters))
    <3>1. PICK j \in 1..n : i = Len(disk.filters) + j
      <4>1. i - Len(disk.filters) \in 1..n
            /\ i = Len(disk.filters) + (i - Len(disk.filters))
        BY <1>6, <1>9, <2>2
      <4> QED BY <4>1
    <3>2. t[i] = FreshFilters[j] /\ j \in 1..Len(FreshFilters)
      BY <1>2, <1>6, <3>1
    <3>3. t[i] = FilterHeaderCount + j - 1
      BY <1>2, <3>2
    <3> QED BY <1>9, <3>1, <3>3
  <2> QED BY <2>1, <2>2
<1> QED BY <1>8, <1>10, <1>11

LEMMA FilesKept ==
    ASSUME IInv, [Next]_vars
    PROVE  /\ disk' \in Disks
           /\ disk'.state \in -1..server' /\ disk'.wallet \in 0..MaxSaves
           /\ FiltersInv' /\ LowHeaders'
<1>0. /\ disk \in Disks /\ disk.headers \in Seq(Hdr) /\ disk.filters \in Seq(0..MaxTip)
      /\ disk.state \in -1..server /\ disk.wallet \in 0..MaxSaves
      /\ server \in Int /\ FiltersInv /\ LowHeaders /\ MaxTip \in Nat /\ MaxSaves \in Nat
  BY ConstantsAssumption DEF IInv, Types, Bounds, Disks
<1>1. server' \in Int /\ server <= server'
  BY <1>0, DiskStep
<1>2. CASE /\ disk'.headers = disk.headers /\ disk'.filters = disk.filters
           /\ disk' \in Disks /\ disk'.state \in -1..server /\ disk'.wallet \in 0..MaxSaves
  <2>1. disk'.state \in -1..server'
    BY <1>0, <1>1, <1>2
  <2>2. Len(disk.filters) \in Nat /\ Len(disk.filters) <= server'+ 1
    BY <1>0, <1>1, LenProperties DEF FiltersInv
  <2>3. FiltersInv'
    BY <1>0, <1>2, <2>2 DEF FiltersInv
  <2>4. LowHeaders'
    <3> SUFFICES ASSUME NEW i \in 1..Len(disk.headers)
                 PROVE  disk.headers[i][1] <= server'
      BY <1>2 DEF LowHeaders
    <3>1. disk.headers[i] \in Hdr /\ disk.headers[i][1] <= server
      BY <1>0, ElementOfSeq DEF LowHeaders
    <3>2. disk.headers[i][1] \in Int
      BY <1>0, <3>1 DEF Hdr
    <3> QED BY <1>0, <1>1, <3>1, <3>2
  <2> QED BY <1>2, <2>1, <2>3, <2>4
<1>3. CASE disk' = disk
  BY <1>0, <1>2, <1>3
<1>4. CASE StateStep \/ WalletStep
  <2>1. \/ \E state \in -1..server : disk' = [disk EXCEPT !.state = state]
        \/ \E wallet \in 0..MaxSaves : disk' = [disk EXCEPT !.wallet = wallet]
    BY <1>4 DEF StateStep, WalletStep
  <2>2. disk' \in Disks
    <3>1. \A state \in -1..server : [disk EXCEPT !.state = state] \in Disks
      BY <1>0 DEF Disks
    <3>2. \A wallet \in 0..MaxSaves : [disk EXCEPT !.wallet = wallet] \in Disks
      BY <1>0 DEF Disks
    <3> QED BY <2>1, <3>1, <3>2
  <2>3. disk'.headers = disk.headers /\ disk'.filters = disk.filters
    BY <1>0, <2>1 DEF Disks
  <2>4. disk'.state \in -1..server /\ disk'.wallet \in 0..MaxSaves
    BY <1>0, <2>1 DEF Disks
  <2> QED BY <1>2, <2>2, <2>3, <2>4
<1>5. CASE HeadersStep /\ server' = server
  BY <1>0, <1>5, HeadersStepEffect DEF HeadersStep, LowHeaders, FiltersInv
<1>6. CASE FiltersStep /\ server' = server
  BY <1>0, <1>6, FiltersStepEffect DEF LowHeaders, FiltersInv
<1>7. CASE Clear
  <2>1. PICK files \in 1..4 :
          disk' = [headers |-> << >>,
                   filters |-> IF files > 1 THEN << >> ELSE disk.filters,
                   state |-> IF files > 2 THEN -1 ELSE disk.state,
                   wallet |-> IF files > 3 THEN 0 ELSE disk.wallet]
    BY <1>7 DEF Clear
  <2>2. << >> \in Seq(Hdr) /\ << >> \in Seq(0..MaxTip) /\ Len(<< >>) = 0
    OBVIOUS
  <2>3. disk' \in Disks
    <3>1. PICK f \in Seq(0..MaxTip) : f = IF files > 1 THEN << >> ELSE disk.filters
      BY <1>0, <2>2
    <3>2. PICK state \in Int : state = IF files > 2 THEN -1 ELSE disk.state
      BY <1>0
    <3>3. PICK wallet \in Int : wallet = IF files > 3 THEN 0 ELSE disk.wallet
      BY <1>0
    <3>4. disk' = [headers |-> << >>, filters |-> f, state |-> state, wallet |-> wallet]
      BY <2>1, <3>1, <3>2, <3>3
    <3> QED BY <2>2, <3>4 DEF Disks
  <2>4. disk'.headers = << >> /\ (disk'.filters = << >> \/ disk'.filters = disk.filters)
    BY <2>1
  <2>5. disk'.state \in -1..server' /\ disk'.wallet \in 0..MaxSaves
    BY <1>0, <1>1, <2>1
  <2>6. Len(disk.filters) \in Nat /\ Len(disk.filters) <= server + 1
    BY <1>0, LenProperties DEF FiltersInv
  <2>7. server' = server /\ 0 <= server
    BY <1>0, <1>7 DEF Clear, IInv, Types
  <2> QED BY <1>0, <2>2, <2>3, <2>4, <2>5, <2>6, <2>7 DEF FiltersInv, LowHeaders
<1> QED BY <1>3, <1>4, <1>5, <1>6, <1>7, DiskStep

-----------------------------------------------------------------------------
(* The engine.                                                             *)
LEMMA HeaderCounts ==
    ASSUME Types
    PROVE  /\ Len(disk.headers) \in Nat /\ HeaderCount \in Nat
           /\ 2 * HeaderCount <= Len(disk.headers)
           /\ Len(disk.headers) <= 2 * HeaderCount + 1
<1>0. disk.headers \in Seq(Hdr)
  BY DEF Types, Disks
<1>1. PICK j \in Nat : j = Len(disk.headers)
  BY <1>0, LenProperties
<1>2. j \div 2 \in Nat /\ j % 2 \in {0, 1} /\ j = 2 * (j \div 2) + (j % 2)
  BY Halves
<1>3. PICK h \in Nat, r \in {0, 1} : h = j \div 2 /\ r = j % 2
  BY <1>2
<1>4. j = 2 * h + r
  BY <1>2, <1>3
<1>5. HeaderCount = h
  BY <1>1, <1>3 DEF HeaderCount
<1> QED BY <1>1, <1>4, <1>5

LEMMA Chunk ==
    ASSUME Types, NEW h \in Nat, NEW count \in Nat, h + count <= HeaderCount
    PROVE  /\ ReadHeaders(h, count) \in Seq(Hdr)
           /\ Len(ReadHeaders(h, count)) = 2 * count
           /\ \A i \in 1..(2 * count) : /\ 2 * h + i \in 1..Len(disk.headers)
                                        /\ ReadHeaders(h, count)[i] = disk.headers[2 * h + i]
<1>1. /\ disk.headers \in Seq(Hdr) /\ Len(disk.headers) \in Nat /\ HeaderCount \in Nat
      /\ 2 * HeaderCount <= Len(disk.headers)
  BY HeaderCounts DEF Types, Disks
<1>2. PICK m \in Nat, n \in Nat : m = 2 * h + 1 /\ n = 2 * (h + count)
  OBVIOUS
<1>3. n <= Len(disk.headers) /\ Least(2 * (h + count), Len(disk.headers)) = n
  BY <1>1, <1>2 DEF Least
<1>4. ReadHeaders(h, count) = SubSeq(disk.headers, m, n)
  BY <1>2, <1>3 DEF ReadHeaders
<1>5. \A i \in m..n : disk.headers[i] \in Hdr
  <2> SUFFICES ASSUME NEW i \in m..n PROVE disk.headers[i] \in Hdr
    OBVIOUS
  <2>1. i \in 1..Len(disk.headers)
    BY <1>1, <1>2, <1>3
  <2> QED BY <1>1, <2>1, ElementOfSeq
<1>6. /\ SubSeq(disk.headers, m, n) \in Seq(Hdr)
      /\ Len(SubSeq(disk.headers, m, n)) = IF m <= n THEN n - m + 1 ELSE 0
      /\ \A i \in 1..(n - m + 1) : SubSeq(disk.headers, m, n)[i] = disk.headers[m + i - 1]
  BY <1>5, SubSeqProperties
<1>7. (IF m <= n THEN n - m + 1 ELSE 0) = 2 * count
  BY <1>2
<1>8. ASSUME NEW i \in 1..(2 * count)
      PROVE  /\ 2 * h + i \in 1..Len(disk.headers)
             /\ i \in 1..(n - m + 1) /\ m + i - 1 = 2 * h + i
  BY <1>1, <1>2, <1>3
<1> QED BY <1>4, <1>6, <1>7, <1>8

LEMMA RevalidateTip ==
    ASSUME IInv, At("revalidate"), engine.read < HeaderCount,
           NEW count, count = Least(Batch, HeaderCount - engine.read)
    PROVE  /\ count \in Nat \ {0} /\ engine.read + count <= HeaderCount
           /\ ReadHeaders(engine.read, count) = Bytes(engine.tip + 1, engine.tip + count)
                 => engine.tip + count \in -1..server
<1>0. /\ Types /\ engine.read \in Nat /\ engine.tip \in Int /\ -1 <= engine.tip
      /\ server \in Nat /\ MaxTip \in Nat /\ server <= MaxTip /\ engine.tip <= server
      /\ HeaderCount \in Nat /\ Batch \in Nat \ {0}
  BY HeaderCounts, ConstantsAssumption DEF IInv, Types, Bounds, Engines
<1>1. count \in Nat \ {0} /\ engine.read + count <= HeaderCount
  BY <1>0 DEF Least
<1>2. ASSUME ReadHeaders(engine.read, count) = Bytes(engine.tip + 1, engine.tip + count)
      PROVE  engine.tip + count \in -1..server
  <2>1. PICK b \in Nat, n \in Nat \ {0} : b = engine.tip + 1 /\ n = 2 * count
    BY <1>0, <1>1
  <2>2. PICK c : c = ReadHeaders(engine.read, count)
    OBVIOUS
  <2>3. Len(c) = n /\ c \in Seq(Hdr) /\ c[n] = disk.headers[2 * engine.read + n]
        /\ 2 * engine.read + n \in 1..Len(disk.headers)
    <3>1. PICK h \in Nat : h = engine.read
      BY <1>0
    <3>2. h + count <= HeaderCount
      BY <1>1, <3>1
    <3>3. /\ ReadHeaders(h, count) \in Seq(Hdr)
          /\ Len(ReadHeaders(h, count)) = 2 * count
          /\ \A i \in 1..(2 * count) : /\ 2 * h + i \in 1..Len(disk.headers)
                                       /\ ReadHeaders(h, count)[i] = disk.headers[2 * h + i]
      BY <1>0, <1>1, <3>2, Chunk
    <3>4. n \in 1..(2 * count)
      BY <2>1
    <3> QED BY <2>1, <2>2, <3>1, <3>3, <3>4
  <2>4. c[n][1] <= server
    BY <2>3 DEF IInv, LowHeaders
  <2>5. c[n] = <<b + ((n - 1) \div 2), 1 + ((n - 1) % 2)>>
    <3>1. /\ (b - 1) + count >= b /\ 2 * (((b - 1) + count) - b + 1) = n
          /\ engine.tip + 1 = b /\ engine.tip + count = (b - 1) + count
      BY <1>0, <1>1, <2>1
    <3>2. c = Bytes(b, (b - 1) + count)
      BY <1>2, <2>2, <3>1
    <3>3. c = [i \in 1..n |-> <<b + ((i - 1) \div 2), 1 + ((i - 1) % 2)>>]
      BY <3>1, <3>2 DEF Bytes
    <3>4. \A i \in 1..n : c[i] = <<b + ((i - 1) \div 2), 1 + ((i - 1) % 2)>>
      BY <3>3
    <3>5. n \in 1..n
      BY <2>1
    <3> QED BY <3>4, <3>5
  <2>6. (n - 1) \div 2 = count - 1
    <3>1. PICK a \in Nat : count = a + 1
      <4>1. count - 1 \in Nat /\ count = (count - 1) + 1
        BY <1>1
      <4> QED BY <4>1
    <3>2. n - 1 = 2 * a + 1 /\ (2 * a + 1) \div 2 = a + (1 \div 2) /\ 1 \div 2 = 0
      BY <2>1, <3>1, Halves
    <3> QED BY <3>1, <3>2
  <2>7. c[n][1] = b + (count - 1)
    BY <2>5, <2>6
  <2> QED BY <1>0, <1>1, <2>1, <2>4, <2>7
<1> QED BY <1>1, <1>2

EngineOK ==
    /\ engine \in Engines /\ engine.tip \in -1..server /\ engine.target \in -1..server
    /\ At("append") => engine.read <= engine.tip

LEMMA ClosedEngine == Closed \in Engines
BY DEF Closed, Engines, Pcs

LEMMA EngineKept ==
    ASSUME IInv, [Next]_vars
    PROVE  EngineOK'
<1>0. /\ EngineOK /\ engine \in Engines /\ server \in Nat /\ disk.state \in -1..server
      /\ engine.tip \in Int /\ -1 <= engine.tip /\ engine.tip <= server
      /\ engine.target \in Int /\ -1 <= engine.target /\ engine.target <= server
      /\ server' \in Int /\ server <= server'
  BY DiskStep, ConstantsAssumption DEF IInv, Types, Bounds, EngineOK
<1>1. CASE engine' = engine
  BY <1>0, <1>1 DEF EngineOK, At
<1>2. CASE engine' = Closed
  BY <1>0, <1>2, ClosedEngine DEF EngineOK, At, Closed
<1>3. ASSUME NEW pc \in Pcs \ {"append"}, Goto(pc)
      PROVE  EngineOK'
  <2>1. /\ engine' \in Engines /\ engine'.pc = pc
        /\ engine'.tip = engine.tip /\ engine'.target = engine.target
    BY <1>0, <1>3 DEF Goto, Engines
  <2> QED BY <1>0, <2>1 DEF EngineOK, At
<1>4. CASE \E kind \in {"wallet", "scanner"} : Open(kind)
  <2>1. PICK kind \in {"wallet", "scanner"} :
          /\ server' = server
          /\ engine' = IF disk.state + 1 = HeaderCount
                       THEN [Closed EXCEPT !.kind = kind, !.pc = "ready", !.tip = disk.state]
                       ELSE [Closed EXCEPT !.kind = kind, !.pc = "revalidate"]
    BY <1>4 DEF Open
  <2>2. \/ engine' = [Closed EXCEPT !.kind = kind, !.pc = "ready", !.tip = disk.state]
        \/ engine' = [Closed EXCEPT !.kind = kind, !.pc = "revalidate"]
    BY <2>1
  <2>3. engine' \in Engines
    <3>1. CASE engine' = [Closed EXCEPT !.kind = kind, !.pc = "ready", !.tip = disk.state]
      <4>1. PICK tip \in Int : tip = disk.state
        BY <1>0
      <4>2. engine' = [Closed EXCEPT !.kind = kind, !.pc = "ready", !.tip = tip]
        BY <3>1, <4>1
      <4> QED BY <4>2, ClosedEngine DEF Engines, Pcs
    <3>2. CASE engine' = [Closed EXCEPT !.kind = kind, !.pc = "revalidate"]
      BY <3>2, ClosedEngine DEF Engines, Pcs
    <3> QED BY <2>2, <3>1, <3>2
  <2>4. engine'.tip \in {-1, disk.state} /\ engine'.target = -1 /\ engine'.pc # "append"
    BY <1>0, <2>2 DEF Closed
  <2> QED BY <1>0, <2>1, <2>3, <2>4 DEF EngineOK, At
<1>5. CASE Revalidate
  <2>1. PICK count : count = Least(Batch, HeaderCount - engine.read)
    OBVIOUS
  <2>2. /\ At("revalidate") /\ engine.read < HeaderCount /\ server' = server
        /\ engine' = IF ReadHeaders(engine.read, count)
                           = Bytes(engine.tip + 1, engine.tip + count)
                     THEN [engine EXCEPT !.read = @ + Batch, !.tip = @ + count]
                     ELSE [Closed EXCEPT !.pc = "thrown"]
    BY <1>5, <2>1 DEF Revalidate
  <2>3. CASE engine' = [Closed EXCEPT !.pc = "thrown"]
    <3>1. engine' \in Engines
      BY <2>3, ClosedEngine DEF Engines, Pcs
    <3>2. engine'.tip = -1 /\ engine'.target = -1 /\ engine'.pc = "thrown"
      BY <2>3 DEF Closed
    <3> QED BY <1>0, <2>2, <3>1, <3>2 DEF EngineOK, At
  <2>4. CASE /\ engine' = [engine EXCEPT !.read = @ + Batch, !.tip = @ + count]
             /\ ReadHeaders(engine.read, count)
                  = Bytes(engine.tip + 1, engine.tip + count)
    <3>1. count \in Nat /\ engine.tip + count \in -1..server
      BY <2>1, <2>2, <2>4, RevalidateTip
    <3>2. engine' \in Engines /\ engine'.tip = engine.tip + count
          /\ engine'.target = engine.target /\ engine'.pc = "revalidate"
      <4>1. PICK r \in Nat, tip \in Int :
              r = engine.read + Batch /\ tip = engine.tip + count
        BY <1>0, <3>1, ConstantsAssumption DEF Engines
      <4>2. engine' = [engine EXCEPT !.read = r, !.tip = tip]
        BY <2>4, <4>1
      <4>3. engine' \in Engines
        BY <1>0, <4>2 DEF Engines
      <4>4. engine'.tip = tip /\ engine'.target = engine.target /\ engine'.pc = engine.pc
        BY <1>0, <4>2 DEF Engines
      <4> QED BY <2>2, <4>1, <4>3, <4>4 DEF At
    <3> QED BY <1>0, <2>2, <3>1, <3>2 DEF EngineOK, At
  <2> QED BY <2>2, <2>3, <2>4
<1>6. CASE Revalidated \/ HeadersSynced \/ HeadersAppended \/ StateStored
           \/ StateRejected \/ FiltersRejected \/ Synced \/ SaveStart
           \/ WalletSaved \/ SaveRejected
  <2>1. Goto("ready") \/ Goto("state") \/ Goto("headers") \/ Goto("filters") \/ Goto("save")
    BY <1>6 DEF Revalidated, HeadersSynced, HeadersAppended, StateStored,
                StateRejected, FiltersRejected, Synced, SaveStart, WalletSaved, SaveRejected
  <2> QED BY <1>3, <2>1 DEF Pcs
<1>7. CASE SyncStart
  <2>1. engine' = [engine EXCEPT !.pc = "headers", !.target = server] /\ server' = server
    BY <1>7 DEF SyncStart
  <2>2. engine' \in Engines
    BY <1>0, <2>1 DEF Engines, Pcs
  <2>3. engine'.tip = engine.tip /\ engine'.target = server /\ engine'.pc = "headers"
    BY <1>0, <2>1 DEF Engines
  <2> QED BY <1>0, <2>1, <2>2, <2>3 DEF EngineOK, At
<1>8. CASE SyncHeaders
  <2>1. PICK h : h = engine.tip + 1
    OBVIOUS
  <2>2. h \in Nat /\ h <= server
    BY <1>0, <1>8, <2>1 DEF SyncHeaders
  <2>3. PICK e \in h..server : e = FileEnd(h)
    BY <2>2, FileEndBound DEF IInv, Types
  <2>4. engine' = [engine EXCEPT !.pc = "append", !.read = h, !.tip = e] /\ server' = server
    BY <1>8, <2>1, <2>3 DEF SyncHeaders
  <2>5. e \in -1..server /\ e \in Int /\ h <= e
    BY <1>0, <2>2, <2>3
  <2>6. engine' \in Engines /\ engine'.read = h /\ engine'.tip = e
        /\ engine'.target = engine.target
    BY <1>0, <2>2, <2>4, <2>5 DEF Engines, Pcs
  <2> QED BY <1>0, <2>4, <2>5, <2>6 DEF EngineOK, At
<1>9. CASE HeadersRejected
  <2>1. engine' = [engine EXCEPT !.pc = "ready", !.rejected = TRUE] /\ server' = server
    BY <1>9 DEF HeadersRejected
  <2>2. engine' \in Engines /\ engine'.pc = "ready" /\ engine'.tip = engine.tip
        /\ engine'.target = engine.target
    BY <1>0, <2>1 DEF Engines, Pcs
  <2> QED BY <1>0, <2>1, <2>2 DEF EngineOK, At
<1>10. CASE ServerGrows \/ FiltersAppended \/ Clear \/ UNCHANGED vars
  BY <1>1, <1>10 DEF ServerGrows, FiltersAppended, Clear, vars
<1>11. CASE Close \/ Crash
  BY <1>2, <1>11 DEF Close, Crash
<1> QED BY <1>4, <1>5, <1>6, <1>7, <1>8, <1>9, <1>10, <1>11 DEF Next

RecordsOK ==
    /\ saved \in Records /\ saved.good \in 0..MaxSaves /\ saved.next \in 0..MaxSaves
    /\ damage \in {"none", "torn", "gap"} /\ faults \in 0..MaxFaults

(* What a step does to the history variables.                              *)
LEMMA RecordsKept ==
    ASSUME IInv, [Next]_vars
    PROVE  RecordsOK'
<1>0. /\ RecordsOK /\ saved \in Records /\ saved.good \in Int /\ saved.next \in Int
      /\ MaxSaves \in Nat /\ MaxFaults \in Nat
      /\ disk.wallet \in 0..MaxSaves /\ faults \in 0..MaxFaults
  BY ConstantsAssumption DEF IInv, Types, Bounds, RecordsOK, Records
<1>1. faults' \in 0..MaxFaults
  <2>1. faults' = faults \/ Fault
    BY DEF Next, ServerGrows, Open, Revalidate, Revalidated, Close, SyncStart,
           SyncHeaders, HeadersSynced, HeadersAppended, HeadersRejected, StateStored,
           StateRejected, FiltersAppended, FiltersRejected, Synced, SaveStart,
           WalletSaved, SaveRejected, Crash, Clear, vars
  <2> QED BY <1>0, <2>1 DEF Fault
<1>2. damage' \in {"none", "torn", "gap"}
  BY <1>0 DEF RecordsOK, Next, ServerGrows, Open, Revalidate, Revalidated, Close,
           SyncStart,
           SyncHeaders, HeadersSynced, HeadersAppended, HeadersRejected, StateStored,
           StateRejected, FiltersAppended, FiltersRejected, Synced, SaveStart,
           WalletSaved, SaveRejected, Crash, Clear, vars
<1>3. \/ saved' = saved
      \/ saved' = [saved EXCEPT !.good = disk.wallet, !.next = disk.wallet,
                                !.emptied = FALSE]
      \/ saved.next < MaxSaves /\ saved' = [saved EXCEPT !.next = @ + 1]
      \/ saved' = [saved EXCEPT !.good = saved.next, !.emptied = FALSE]
      \/ \E wallet : saved' = [saved EXCEPT !.emptied = @ \/ wallet # disk.wallet]
      \/ saved' = [good |-> 0, next |-> 0, emptied |-> FALSE]
  <2>1. CASE \E kind \in {"wallet", "scanner"} : Open(kind)
    BY <2>1 DEF Open
  <2>2. CASE SaveStart \/ WalletSaved \/ SaveRejected \/ Crash
    BY <2>2 DEF SaveStart, WalletSaved, SaveRejected, Crash, CutWallet
  <2>3. CASE Clear
    BY <2>3 DEF Clear
  <2>4. CASE \/ ServerGrows \/ Revalidate \/ Revalidated \/ Close \/ SyncStart
             \/ SyncHeaders \/ HeadersSynced \/ HeadersAppended \/ HeadersRejected
             \/ StateStored \/ StateRejected \/ FiltersAppended \/ FiltersRejected
             \/ Synced \/ UNCHANGED vars
    BY <2>4 DEF ServerGrows, Revalidate, Revalidated, Close, SyncStart,
           SyncHeaders, HeadersSynced, HeadersAppended, HeadersRejected, StateStored,
           StateRejected, FiltersAppended, FiltersRejected, Synced, vars
  <2> QED BY <2>1, <2>2, <2>3, <2>4 DEF Next
<1>4. saved' \in Records /\ saved'.good \in 0..MaxSaves /\ saved'.next \in 0..MaxSaves
  <2>1. ASSUME NEW b \in BOOLEAN, NEW good \in 0..MaxSaves, NEW next \in 0..MaxSaves,
               saved' = [saved EXCEPT !.good = good, !.next = next, !.emptied = b]
        PROVE  saved' \in Records /\ saved'.good \in 0..MaxSaves
               /\ saved'.next \in 0..MaxSaves
    <3>1. good \in Int /\ next \in Int
      BY <1>0
    <3>2. saved' \in Records
      BY <1>0, <2>1, <3>1 DEF Records
    <3>3. saved'.good = good /\ saved'.next = next
      BY <1>0, <2>1 DEF Records
    <3> QED BY <3>2, <3>3
  <2>2. CASE saved' = saved
    BY <1>0, <2>2 DEF RecordsOK
  <2>3. CASE saved' = [saved EXCEPT !.good = disk.wallet, !.next = disk.wallet,
                                    !.emptied = FALSE]
    BY <1>0, <2>1, <2>3
  <2>4. CASE saved.next < MaxSaves /\ saved' = [saved EXCEPT !.next = @ + 1]
    <3>1. PICK next \in 0..MaxSaves : next = saved.next + 1
      BY <1>0, <2>4 DEF RecordsOK
    <3>2. saved' = [saved EXCEPT !.next = next]
      BY <2>4, <3>1
    <3> QED BY <1>0, <3>2 DEF RecordsOK, Records
  <2>5. CASE saved' = [saved EXCEPT !.good = saved.next, !.emptied = FALSE]
    BY <1>0, <2>5 DEF RecordsOK, Records
  <2>6. CASE \E wallet : saved' = [saved EXCEPT !.emptied = @ \/ wallet # disk.wallet]
    <3>1. PICK b \in BOOLEAN : saved' = [saved EXCEPT !.emptied = b]
      <4>1. PICK wallet : saved' = [saved EXCEPT !.emptied = @ \/ wallet # disk.wallet]
        BY <2>6
      <4>2. PICK b \in BOOLEAN : b = (saved.emptied \/ wallet # disk.wallet)
        OBVIOUS
      <4>3. saved' = [saved EXCEPT !.emptied = (saved.emptied \/ wallet # disk.wallet)]
        BY <4>1
      <4> QED BY <4>2, <4>3
    <3> QED BY <1>0, <3>1 DEF RecordsOK, Records
  <2>7. CASE saved' = [good |-> 0, next |-> 0, emptied |-> FALSE]
    BY <1>0, <2>7 DEF Records
  <2> QED BY <1>3, <2>2, <2>3, <2>4, <2>5, <2>6, <2>7
<1> QED BY <1>1, <1>2, <1>4 DEF RecordsOK

-----------------------------------------------------------------------------
(* The wallet file.                                                        *)
LEMMA WalletKeptStep ==
    ASSUME IInv, [Next]_vars
    PROVE  WalletInv'
<1>0. /\ WalletInv /\ disk \in Disks /\ engine \in Engines /\ saved \in Records
      /\ backend' = backend /\ backend \in Backends
  BY DiskStep DEF IInv, Types
<1>1. ASSUME disk'.wallet = disk.wallet, saved' = saved,
             engine'.kind \in {engine.kind, "none", "scanner"}
      PROVE  WalletInv'
  BY <1>0, <1>1 DEF WalletInv, Emptied
<1>2. CASE \E kind \in {"wallet", "scanner"} : Open(kind)
  <2>1. PICK kind \in {"wallet", "scanner"} : Open(kind)
    BY <1>2
  <2>2. disk' = disk /\ engine'.kind = kind
    BY <2>1 DEF Open, Closed
  <2>3. CASE kind = "scanner"
    BY <1>1, <2>1, <2>2, <2>3 DEF Open
  <2>4. CASE kind = "wallet"
    <3>1. saved'.good = disk.wallet
      BY <1>0, <2>1, <2>4 DEF Open, Records
    <3> QED BY <2>2, <3>1 DEF WalletInv
  <2> QED BY <2>3, <2>4
<1>3. CASE SaveStart
  <2>1. /\ disk' = disk /\ engine.kind = "wallet"
        /\ saved' = [saved EXCEPT !.next = @ + 1]
    BY <1>3 DEF SaveStart
  <2>2. saved'.good = saved.good /\ saved'.emptied = saved.emptied
    BY <1>0, <2>1 DEF Records
  <2> QED BY <1>0, <2>1, <2>2 DEF WalletInv, Emptied
<1>4. CASE WalletSaved
  <2>1. disk'.wallet = saved.next /\ saved'.good = saved.next
    BY <1>0, <1>4 DEF WalletSaved, Disks, Records
  <2> QED BY <2>1 DEF WalletInv
<1>5. ASSUME CutWallet, engine'.kind \in {engine.kind, "none"}
      PROVE  WalletInv'
  <2>1. PICK wallet \in Cut(disk.wallet, 0) :
          /\ disk' = [disk EXCEPT !.wallet = wallet]
          /\ saved' = [saved EXCEPT !.emptied = @ \/ wallet # disk.wallet]
    BY <1>5 DEF CutWallet
  <2>2. wallet = disk.wallet \/ (backend = "node" /\ wallet = 0)
    BY <1>0, <2>1, ConstantsAssumption DEF Cut, CutOpfs, CutNode
  <2>3. disk'.wallet = wallet /\ saved'.good = saved.good /\ saved'.next = saved.next
    BY <1>0, <2>1 DEF Disks, Records
  <2>4. saved.emptied => saved'.emptied
    <3>1. saved' = [saved EXCEPT !.emptied = (saved.emptied \/ wallet # disk.wallet)]
      BY <2>1
    <3>2. saved'.emptied = (saved.emptied \/ wallet # disk.wallet)
      BY <1>0, <3>1 DEF Records
    <3> QED BY <3>2
  <2>5. wallet # disk.wallet => saved'.emptied
    <3>1. saved' = [saved EXCEPT !.emptied = (saved.emptied \/ wallet # disk.wallet)]
      BY <2>1
    <3>2. saved'.emptied = (saved.emptied \/ wallet # disk.wallet)
      BY <1>0, <3>1 DEF Records
    <3> QED BY <3>2
  <2>6. CASE wallet = disk.wallet
    BY <1>0, <1>5, <2>3, <2>4, <2>6 DEF WalletInv, Emptied
  <2>7. CASE wallet # disk.wallet
    <3>1. Emptied'
      BY <1>0, <2>2, <2>3, <2>5, <2>7 DEF Emptied
    <3> QED BY <3>1 DEF WalletInv
  <2> QED BY <2>6, <2>7
<1>6. CASE SaveRejected
  <2>1. engine'.kind = engine.kind
    BY <1>0, <1>6 DEF SaveRejected, Goto, Engines
  <2> QED BY <1>5, <1>6, <2>1 DEF SaveRejected
<1>7. CASE Crash
  <2>1. engine'.kind = "none"
    BY <1>7 DEF Crash, Closed
  <2>2. CASE CutWallet
    BY <1>5, <2>1, <2>2
  <2>3. CASE disk' = [disk EXCEPT !.wallet = saved.next] /\ saved' = saved
    <3>1. disk'.wallet = saved.next
      BY <1>0, <2>3 DEF Disks
    <3> QED BY <2>1, <2>3, <3>1 DEF WalletInv
  <2>4. CASE disk'.wallet = disk.wallet /\ saved' = saved
    BY <1>1, <2>1, <2>4
  <2>5. CutWallet \/ (disk' = [disk EXCEPT !.wallet = saved.next] /\ saved' = saved)
        \/ (disk'.wallet = disk.wallet /\ saved' = saved)
    BY <1>0, <1>7 DEF Crash, AppendHeaders, AppendFilters, Disks
  <2> QED BY <2>2, <2>3, <2>4, <2>5
<1>8. CASE Clear
  <2>1. PICK files \in 1..4 :
          /\ disk' = [headers |-> << >>,
                      filters |-> IF files > 1 THEN << >> ELSE disk.filters,
                      state |-> IF files > 2 THEN -1 ELSE disk.state,
                      wallet |-> IF files > 3 THEN 0 ELSE disk.wallet]
          /\ saved' = IF files > 3
                      THEN [good |-> 0, next |-> 0, emptied |-> FALSE]
                      ELSE saved
    BY <1>8 DEF Clear
  <2>2. engine' = engine
    BY <1>8 DEF Clear
  <2>3. CASE files > 3
    <3>1. disk'.wallet = 0 /\ saved'.good = 0
      BY <2>1, <2>3
    <3> QED BY <3>1 DEF WalletInv
  <2>4. CASE ~(files > 3)
    <3>1. disk'.wallet = disk.wallet /\ saved' = saved
      BY <2>1, <2>4
    <3> QED BY <1>1, <2>2, <3>1
  <2> QED BY <2>3, <2>4
<1>9. CASE \/ ServerGrows \/ Revalidate \/ Revalidated \/ Close \/ SyncStart
           \/ SyncHeaders \/ HeadersSynced \/ HeadersAppended \/ HeadersRejected
           \/ StateStored \/ StateRejected \/ FiltersAppended \/ FiltersRejected
           \/ Synced \/ UNCHANGED vars
  <2>1. saved' = saved
    BY <1>9 DEF ServerGrows, Revalidate, Revalidated, Close, SyncStart,
           SyncHeaders, HeadersSynced, HeadersAppended, HeadersRejected, StateStored,
           StateRejected, FiltersAppended, FiltersRejected, Synced, vars
  <2>2. disk'.wallet = disk.wallet
    BY <1>0, <1>9 DEF ServerGrows, Revalidate, Revalidated, Close, SyncStart,
           SyncHeaders, HeadersSynced, HeadersAppended, HeadersRejected, StateStored,
           StateRejected, FiltersAppended, FiltersRejected, Synced, vars,
           AppendHeaders, AppendFilters, Disks
  <2>3. CASE Revalidate
    <3>1. \/ \E r, tip : engine' = [engine EXCEPT !.read = r, !.tip = tip]
          \/ engine' = [Closed EXCEPT !.pc = "thrown"]
      BY <2>3 DEF Revalidate
    <3> QED BY <1>0, <2>1, <2>2, <3>1, <1>1 DEF Engines, Closed
  <2>4. CASE Close
    <3>1. engine'.kind = "none"
      BY <2>4 DEF Close, Closed
    <3> QED BY <1>1, <2>1, <2>2, <3>1
  <2>5. CASE \/ ServerGrows \/ Revalidated \/ SyncStart \/ SyncHeaders \/ HeadersSynced
             \/ HeadersAppended \/ HeadersRejected \/ StateStored \/ StateRejected
             \/ FiltersAppended \/ FiltersRejected \/ Synced \/ UNCHANGED vars
    <3>1. \/ engine' = engine
          \/ \E pc : engine' = [engine EXCEPT !.pc = pc]
          \/ engine' = [engine EXCEPT !.pc = "headers", !.target = server]
          \/ \E r, tip : engine' = [engine EXCEPT !.pc = "append", !.read = r, !.tip = tip]
          \/ engine' = [engine EXCEPT !.pc = "ready", !.rejected = TRUE]
      BY <2>5 DEF ServerGrows, Revalidated, SyncStart,
           SyncHeaders, HeadersSynced, HeadersAppended, HeadersRejected, StateStored,
           StateRejected, FiltersAppended, FiltersRejected, Synced, vars, Goto
    <3>2. engine'.kind = engine.kind
      BY <1>0, <3>1 DEF Engines
    <3> QED BY <1>1, <2>1, <2>2, <3>2
  <2> QED BY <1>9, <2>3, <2>4, <2>5
<1> QED BY <1>2, <1>3, <1>4, <1>6, <1>7, <1>8, <1>9 DEF Next

-----------------------------------------------------------------------------
(* headers.bin and the engine.                                             *)

(* An append of whole headers where the file ends.                         *)
LEMMA WholeAppend ==
    ASSUME IInv, damage = "none", At("append"),
           NEW n \in 0..Len(Fresh), AppendHeaders(n), n % 2 = 0
    PROVE  /\ WholeHeaders'
           /\ n = Len(Fresh) => HeaderCount' = engine.tip + 1
<1>0. /\ Types /\ Bounds /\ WholeHeaders /\ engine.read = HeaderCount
      /\ disk.headers \in Seq(Hdr) /\ engine.tip \in Int /\ engine.tip <= MaxTip
      /\ engine.read <= engine.tip /\ MaxTip \in Nat
  BY ConstantsAssumption
     DEF IInv, HeadersInv, EngineAgrees, Types, Bounds, Disks, Engines
<1>1. PICK a \in Nat, b \in Int : a = HeaderCount /\ b = engine.tip
  BY <1>0, HeaderCounts
<1>2. /\ Len(disk.headers) = 2 * a /\ a <= b + 1 /\ b <= MaxTip /\ Fresh = Bytes(a, b)
      /\ \A i \in 1..Len(disk.headers) : disk.headers[i] = Half(i)
  BY <1>0, <1>1 DEF WholeHeaders, Fresh
<1>3. PICK t : t = disk.headers \o Prefix(Bytes(a, b), n)
  OBVIOUS
<1>4. n \in 0..Len(Bytes(a, b))
  BY <1>2
<1>5. \A i \in 1..Len(t) : t[i] = Half(i)
  <2>1. PICK s \in Seq(Hdr) : s = disk.headers
    BY <1>0
  <2>2. /\ Len(s) = 2 * a /\ t = s \o Prefix(Bytes(a, b), n)
        /\ \A i \in 1..Len(s) : s[i] = Half(i)
    BY <1>2, <1>3, <2>1
  <2> QED BY <1>2, <1>4, <2>2, AppendInPlace
<1>6. disk'.headers = t
  BY <1>0, <1>2, <1>3 DEF AppendHeaders, Types, Disks
<1>7. Len(t) = 2 * a + n /\ n \in Nat /\ Len(Fresh) = 2 * (b - a + 1)
  <2>1. Len(disk'.headers) = Len(disk.headers) + n
    BY HeadersStepEffect
  <2>2. Len(Fresh) = 2 * (engine.tip - engine.read + 1) /\ Len(Fresh) \in Nat
    BY <1>0, FreshHeaders
  <2>3. n \in Nat
    BY <2>2
  <2> QED BY <1>0, <1>1, <1>2, <1>6, <2>1, <2>2, <2>3
<1>8. PICK k \in Nat : n = 2 * k
  <2>1. n \div 2 \in Nat /\ n = 2 * (n \div 2) + (n % 2)
    BY <1>7, Halves
  <2> QED BY <2>1
<1>9. HeaderCount' = a + k
  <2>1. Len(t) = 2 * (a + k) + 0 /\ a + k \in Nat
    BY <1>7, <1>8
  <2>2. (2 * (a + k) + 0) \div 2 = (a + k) + (0 \div 2) /\ 0 \div 2 = 0
    BY <2>1, Halves
  <2>3. HeaderCount' = Len(t) \div 2
    BY <1>6 DEF HeaderCount
  <2> QED BY <2>1, <2>2, <2>3
<1>10. WholeHeaders'
  BY <1>5, <1>6, <1>7, <1>8, <1>9 DEF WholeHeaders
<1>11. ASSUME n = Len(Fresh) PROVE HeaderCount' = engine.tip + 1
  <2>1. 2 * k = 2 * (b - a + 1)
    BY <1>7, <1>8, <1>11
  <2>2. a + k = b + 1
    BY <1>1, <1>8, <2>1
  <2> QED BY <1>1, <1>9, <2>2
<1> QED BY <1>10, <1>11

LEMMA SameHeaders ==
    ASSUME disk'.headers = disk.headers
    PROVE  HeaderCount' = HeaderCount /\ WholeHeaders' = WholeHeaders
BY DEF HeaderCount, WholeHeaders

LEMMA Even ==
    ASSUME NEW k \in Nat
    PROVE  (2 * k) % 2 = 0
<1>1. 2 * k + 0 = 2 * k /\ (2 * k + 0) % 2 = 0 % 2 /\ 0 % 2 = 0
  BY Halves
<1> QED BY <1>1

(* What is read of a whole file is what append() expects.                  *)
LEMMA WholeCount ==
    ASSUME Types, WholeHeaders
    PROVE  HeaderCount - 1 <= MaxTip
<1>0. HeaderCount \in Nat /\ disk.headers \in Seq(Hdr) /\ MaxTip \in Nat
  BY HeaderCounts, ConstantsAssumption DEF Types, Disks
<1>1. CASE HeaderCount = 0
  BY <1>0, <1>1
<1>2. CASE HeaderCount # 0
  <2>1. PICK m \in Nat, i \in Nat : HeaderCount = m + 1 /\ i = 2 * m + 2
    <3>1. HeaderCount - 1 \in Nat /\ HeaderCount = (HeaderCount - 1) + 1
          /\ 2 * (HeaderCount - 1) + 2 \in Nat
      BY <1>0, <1>2
    <3> QED BY <3>1
  <2>2. i \in 1..Len(disk.headers)
    BY <1>0, <2>1 DEF WholeHeaders
  <2>3. disk.headers[i] \in Hdr /\ disk.headers[i] = Half(i)
    BY <1>0, <2>2, ElementOfSeq DEF WholeHeaders
  <2>4. i - 1 = 2 * m + 1 /\ (2 * m + 1) \div 2 = m + (1 \div 2) /\ 1 \div 2 = 0
    BY <2>1, Halves
  <2>5. Half(i)[1] = m
    BY <2>1, <2>4 DEF Half
  <2>6. m \in 0..MaxTip
    BY <2>3, <2>5 DEF Hdr
  <2> QED BY <2>1, <2>6
<1> QED BY <1>1, <1>2

LEMMA WholeChunk ==
    ASSUME Types, WholeHeaders, NEW h \in Nat, NEW count \in Nat,
           h + count <= HeaderCount
    PROVE  ReadHeaders(h, count) = Bytes(h, h + count - 1)
<1>1. PICK n \in Nat, to \in Int : n = 2 * count /\ to = h + count - 1
  OBVIOUS
<1>2. /\ ReadHeaders(h, count) \in Seq(Hdr) /\ Len(ReadHeaders(h, count)) = n
      /\ \A i \in 1..n : /\ 2 * h + i \in 1..Len(disk.headers)
                         /\ ReadHeaders(h, count)[i] = disk.headers[2 * h + i]
  BY <1>1, Chunk
<1>3. h <= to + 1 /\ to <= MaxTip /\ 2 * (to - h + 1) = n
  <2>1. HeaderCount \in Nat /\ MaxTip \in Nat /\ HeaderCount - 1 <= MaxTip
    BY HeaderCounts, WholeCount, ConstantsAssumption
  <2> QED BY <1>1, <2>1
<1>4. /\ Bytes(h, to) \in Seq(Hdr) /\ Len(Bytes(h, to)) = n
      /\ \A i \in 1..n :
            Bytes(h, to)[i] = <<h + ((i - 1) \div 2), 1 + ((i - 1) % 2)>>
  BY <1>3, BytesAre
<1>5. ASSUME NEW i \in 1..n PROVE ReadHeaders(h, count)[i] = Bytes(h, to)[i]
  <2>1. PICK j \in Nat : i = j + 1
    <3>1. i - 1 \in Nat /\ i = (i - 1) + 1
      OBVIOUS
    <3> QED BY <3>1
  <2>2. ReadHeaders(h, count)[i] = Half(2 * h + i)
    BY <1>2 DEF WholeHeaders
  <2>3. (2 * h + i) - 1 = 2 * h + j /\ i - 1 = j
    BY <2>1
  <2>4. Half(2 * h + i) = <<h + (j \div 2), 1 + (j % 2)>>
    BY <2>3, Halves DEF Half
  <2> QED BY <1>4, <2>2, <2>3, <2>4
<1>6. ReadHeaders(h, count) = Bytes(h, to)
  BY <1>2, <1>4, <1>5, SeqEqual
<1> QED BY <1>1, <1>6

LEMMA HeadersKeptStep ==
    ASSUME IInv, [Next]_vars
    PROVE  HeadersInv'
<1>0. /\ HeadersInv /\ Types /\ disk \in Disks /\ engine \in Engines
      /\ HeaderCount \in Nat /\ engine.tip \in Int /\ disk.state \in Int
      /\ engine.read \in Nat
  BY HeaderCounts DEF IInv, Types, Engines, Disks
(* A step of the engine that leaves headers.bin alone.                     *)
<1>1. ASSUME disk'.headers = disk.headers, damage' = damage,
             damage = "none" => EngineAgrees'
      PROVE  HeadersInv'
  BY <1>0, <1>1, SameHeaders DEF HeadersInv
<1>2. ASSUME disk'.headers = disk.headers, damage' = damage, engine' = Closed
      PROVE  HeadersInv'
  BY <1>1, <1>2 DEF EngineAgrees, Closed, At
<1>3. ASSUME disk'.headers = disk.headers, damage' = damage,
             NEW pc \in {"ready", "headers", "state", "filters", "save"},
             engine.pc \in {"ready", "headers", "state", "filters", "save"},
             engine'.pc = pc, engine'.tip = engine.tip, engine'.rejected = engine.rejected
      PROVE  HeadersInv'
  <2>1. damage = "none" => EngineAgrees'
    BY <1>0, <1>3, SameHeaders DEF HeadersInv, EngineAgrees, At
  <2> QED BY <1>1, <1>3, <2>1
<1>4. CASE \E kind \in {"wallet", "scanner"} : Open(kind)
  <2>1. disk' = disk /\ damage' = damage
    BY <1>4 DEF Open
  <2>2. CASE disk.state + 1 = HeaderCount
    <3>1. engine'.pc = "ready" /\ engine'.tip = disk.state
      BY <1>4, <2>2 DEF Open, Closed
    <3> QED BY <1>1, <2>1, <2>2, <3>1, SameHeaders DEF EngineAgrees, At
  <2>3. CASE disk.state + 1 # HeaderCount
    <3>1. engine'.pc = "revalidate" /\ engine'.tip = -1 /\ engine'.read = 0
      BY <1>4, <2>3 DEF Open, Closed
    <3>2. engine'.tip + 1 = Least(engine'.read, HeaderCount')
      BY <1>0, <2>1, <3>1, SameHeaders DEF Least
    <3> QED BY <1>1, <2>1, <3>1, <3>2 DEF EngineAgrees, At
  <2> QED BY <2>2, <2>3
<1>5. CASE Revalidate
  <2>1. disk' = disk /\ damage' = damage /\ At("revalidate") /\ engine.read < HeaderCount
    BY <1>5 DEF Revalidate
  <2>2. ASSUME damage = "none" PROVE EngineAgrees'
    <3>1. PICK count : count = Least(Batch, HeaderCount - engine.read)
      OBVIOUS
    <3>2. /\ WholeHeaders /\ engine.tip + 1 = engine.read
          /\ count \in Nat \ {0} /\ engine.read + count <= HeaderCount
      BY <1>0, <2>1, <2>2, <3>1, RevalidateTip DEF HeadersInv, EngineAgrees, Least
    <3>3. ReadHeaders(engine.read, count) = Bytes(engine.tip + 1, engine.tip + count)
      <4>1. PICK h \in Nat, to \in Int : h = engine.read /\ to = engine.tip + count
        BY <1>0, <3>2
      <4>2. to = h + count - 1 /\ engine.tip + 1 = h
        BY <1>0, <3>2, <4>1
      <4>3. ReadHeaders(h, count) = Bytes(h, h + count - 1)
        BY <1>0, <3>2, <4>1, WholeChunk
      <4> QED BY <4>1, <4>2, <4>3
    <3>9. engine' = [engine EXCEPT !.read = @ + Batch, !.tip = @ + count]
      BY <1>5, <3>1, <3>3 DEF Revalidate
    <3>10. /\ engine'.pc = "revalidate" /\ engine'.read = engine.read + Batch
           /\ engine'.tip = engine.tip + count
      BY <1>0, <2>1, <3>9 DEF Engines, At
    <3>11. engine'.tip + 1 = Least(engine'.read, HeaderCount)
      BY <1>0, <2>1, <3>1, <3>2, <3>10, ConstantsAssumption DEF Least
    <3> QED BY <2>1, <3>10, <3>11, SameHeaders DEF EngineAgrees, At
  <2> QED BY <1>1, <2>1, <2>2
<1>6. CASE Revalidated
  <2>1. /\ disk' = disk /\ damage' = damage /\ At("revalidate")
        /\ engine.read >= HeaderCount /\ engine' = [engine EXCEPT !.pc = "ready"]
    BY <1>6 DEF Revalidated, Goto
  <2>2. engine'.pc = "ready" /\ engine'.tip = engine.tip
    BY <1>0, <2>1 DEF Engines
  <2>3. damage = "none" => engine.tip + 1 = HeaderCount
    BY <1>0, <2>1 DEF HeadersInv, EngineAgrees, Least
  <2>4. damage = "none" => EngineAgrees'
    BY <2>1, <2>2, <2>3, SameHeaders DEF EngineAgrees, At
  <2> QED BY <1>1, <2>1, <2>4
<1>7. CASE SyncStart
  <2>1. /\ disk' = disk /\ damage' = damage /\ engine.pc = "ready"
        /\ engine' = [engine EXCEPT !.pc = "headers", !.target = server]
    BY <1>7 DEF SyncStart, At
  <2>2. engine'.pc = "headers" /\ engine'.tip = engine.tip
    BY <1>0, <2>1 DEF Engines
  <2>3. engine'.rejected = engine.rejected
    BY <1>0, <2>1 DEF Engines
  <2> QED BY <1>3, <2>1, <2>2, <2>3
<1>8. CASE \/ HeadersSynced \/ StateStored \/ StateRejected \/ FiltersRejected
           \/ Synced \/ SaveStart \/ WalletSaved \/ SaveRejected
  <2>1. damage' = damage /\ engine.pc \in {"ready", "headers", "state", "filters", "save"}
    BY <1>8 DEF HeadersSynced, StateStored, StateRejected, FiltersRejected, Synced,
                SaveStart, WalletSaved, SaveRejected, At
  <2>2. disk'.headers = disk.headers
    BY <1>0, <1>8 DEF HeadersSynced, StateStored, StateRejected, FiltersRejected, Synced,
                SaveStart, WalletSaved, SaveRejected, CutWallet, AppendFilters, Disks
  <2>3. \E pc \in {"ready", "headers", "state", "filters", "save"} : Goto(pc)
    BY <1>8 DEF HeadersSynced, StateStored, StateRejected, FiltersRejected, Synced,
                SaveStart, WalletSaved, SaveRejected
  <2>4. PICK pc \in {"ready", "headers", "state", "filters", "save"} : Goto(pc)
    BY <2>3
  <2>5. engine'.pc = pc /\ engine'.tip = engine.tip
    BY <1>0, <2>4 DEF Goto, Engines
  <2>6. engine'.rejected = engine.rejected
    BY <1>0, <2>4 DEF Goto, Engines
  <2> QED BY <1>3, <2>1, <2>2, <2>5, <2>6
<1>9. CASE FiltersAppended
  <2>1. engine' = engine /\ damage' = damage
    BY <1>9 DEF FiltersAppended
  <2>2. disk'.headers = disk.headers
    BY <1>0, <1>9 DEF FiltersAppended, AppendFilters, Disks
  <2>3. damage = "none" => EngineAgrees'
    BY <1>0, <2>1, <2>2, SameHeaders DEF HeadersInv, EngineAgrees, At
  <2> QED BY <1>1, <2>1, <2>2, <2>3
<1>10. CASE ServerGrows \/ UNCHANGED vars
  <2>1. engine' = engine /\ damage' = damage /\ disk' = disk
    BY <1>10 DEF ServerGrows, vars
  <2>2. damage = "none" => EngineAgrees'
    BY <1>0, <2>1, SameHeaders DEF HeadersInv, EngineAgrees, At
  <2> QED BY <1>1, <2>1, <2>2
<1>11. CASE Close
  BY <1>2, <1>11 DEF Close
<1>12. CASE SyncHeaders
  <2>1. PICK h, e : h = engine.tip + 1 /\ e = FileEnd(engine.tip + 1)
    OBVIOUS
  <2>2. /\ disk' = disk /\ At("headers")
        /\ damage' = IF engine.rejected /\ damage = "none" THEN "gap" ELSE damage
        /\ engine' = [engine EXCEPT !.pc = "append", !.read = h, !.tip = e]
    BY <1>12, <2>1 DEF SyncHeaders
  <2>3. engine'.pc = "append" /\ engine'.read = h
    BY <1>0, <2>2 DEF Engines
  <2>4. engine'.rejected = engine.rejected
    BY <1>0, <2>2 DEF Engines
  <2>5. CASE engine.rejected
    BY <2>2, <2>5 DEF HeadersInv
  <2>6. CASE ~engine.rejected
    <3>1. damage' = damage
      BY <2>2, <2>6
    <3>2. ~engine'.rejected
      BY <2>4, <2>6
    <3>3. damage = "none" => engine.tip + 1 = HeaderCount
      BY <1>0, <2>2, <2>6 DEF HeadersInv, EngineAgrees, At
    <3>4. damage = "none" => EngineAgrees'
      BY <2>1, <2>2, <2>3, <3>2, <3>3, SameHeaders DEF EngineAgrees, At
    <3> QED BY <1>1, <2>2, <3>1, <3>4
  <2> QED BY <2>5, <2>6
<1>13. CASE HeadersAppended
  <2>1. /\ At("append") /\ AppendHeaders(Len(Fresh)) /\ damage' = damage
        /\ engine' = [engine EXCEPT !.pc = "headers"]
    BY <1>13 DEF HeadersAppended, Goto
  <2>2. engine'.pc = "headers" /\ engine'.tip = engine.tip
    BY <1>0, <2>1 DEF Engines
  <2>3. ASSUME damage = "none" PROVE WholeHeaders' /\ EngineAgrees'
    <3>1. PICK n \in 0..Len(Fresh) : n = Len(Fresh)
      BY <2>1, FreshHeaders DEF IInv
    <3>2. n % 2 = 0
      <4>1. Types /\ Bounds
        BY DEF IInv
      <4>2. /\ engine.tip \in Int /\ engine.read <= engine.tip /\ engine.read \in Nat
            /\ Len(Fresh) = 2 * (engine.tip - engine.read + 1)
        BY <1>0, <2>1, <4>1, FreshHeaders DEF Bounds
      <4>3. PICK k \in Nat : k = engine.tip - engine.read + 1
        BY <4>2
      <4>4. n = 2 * k
        BY <3>1, <4>2, <4>3
      <4> QED BY <4>4, Even
    <3>3. WholeHeaders' /\ HeaderCount' = engine.tip + 1
      BY <2>1, <2>3, <3>1, <3>2, WholeAppend
    <3> QED BY <2>2, <3>3 DEF EngineAgrees, At
  <2> QED BY <2>1, <2>3 DEF HeadersInv
<1>14. ASSUME At("append"), NEW n \in 0..Len(Fresh), AppendHeaders(n),
              damage' = IF n % 2 = 1 /\ damage = "none" THEN "torn" ELSE damage
       PROVE  damage' = "none" => WholeHeaders'
  <2>1. Len(Fresh) \in Nat
    BY <1>14, FreshHeaders DEF IInv
  <2>2. n \in Nat
    BY <2>1
  <2>3. n % 2 \in {0, 1}
    BY <2>2, Halves
  <2>4. CASE n % 2 = 1
    <3>1. damage' # "none"
      BY <1>14, <2>4
    <3> QED BY <3>1
  <2>5. CASE n % 2 = 0
    <3>1. damage' = damage
      BY <1>14, <2>5
    <3>2. damage = "none" => WholeHeaders'
      BY <1>14, <2>5, WholeAppend
    <3> QED BY <3>1, <3>2
  <2> QED BY <2>3, <2>4, <2>5
<1>15. CASE HeadersRejected
  <2>1. /\ At("append")
        /\ \E n \in Written(Len(Fresh)) :
              /\ AppendHeaders(n)
              /\ damage' = IF n % 2 = 1 /\ damage = "none" THEN "torn" ELSE damage
        /\ engine' = [engine EXCEPT !.pc = "ready", !.rejected = TRUE]
    BY <1>15 DEF HeadersRejected
  <2>2. engine'.pc = "ready"
    BY <1>0, <2>1 DEF Engines
  <2>3. engine'.rejected
    BY <1>0, <2>1 DEF Engines
  <2>4. EngineAgrees'
    BY <2>2, <2>3 DEF EngineAgrees, At
  <2>5. PICK n \in 0..Len(Fresh) :
          /\ AppendHeaders(n)
          /\ damage' = IF n % 2 = 1 /\ damage = "none" THEN "torn" ELSE damage
    BY <2>1, FreshHeaders, WrittenBound DEF IInv
  <2>6. damage' = "none" => WholeHeaders'
    BY <1>14, <2>1, <2>5
  <2> QED BY <2>4, <2>6 DEF HeadersInv
<1>16. CASE Crash
  <2>1. engine' = Closed
    BY <1>16 DEF Crash
  <2>2. CASE disk'.headers = disk.headers /\ damage' = damage
    BY <1>2, <2>1, <2>2
  <2>3. CASE /\ At("append")
             /\ \E n \in Written(Len(Fresh)) \cup {Len(Fresh)} :
                   /\ AppendHeaders(n)
                   /\ damage' = IF n % 2 = 1 /\ damage = "none" THEN "torn" ELSE damage
    <3>1. PICK n \in 0..Len(Fresh) :
            /\ AppendHeaders(n)
            /\ damage' = IF n % 2 = 1 /\ damage = "none" THEN "torn" ELSE damage
      BY <2>3, FreshHeaders, WrittenBound DEF IInv
    <3>2. damage' = "none" => WholeHeaders'
      BY <1>14, <2>3, <3>1
    <3>3. EngineAgrees'
      BY <2>1 DEF EngineAgrees, At, Closed
    <3> QED BY <3>2, <3>3 DEF HeadersInv
  <2>4. \/ disk'.headers = disk.headers /\ damage' = damage
        \/ /\ At("append")
           /\ \E n \in Written(Len(Fresh)) \cup {Len(Fresh)} :
                 /\ AppendHeaders(n)
                 /\ damage' = IF n % 2 = 1 /\ damage = "none" THEN "torn" ELSE damage
    BY <1>0, <1>16 DEF Crash, CutWallet, AppendFilters, Disks
  <2> QED BY <2>2, <2>3, <2>4
<1>17. CASE Clear
  <2>1. disk'.headers = << >> /\ engine' = engine /\ At("closed")
    BY <1>17 DEF Clear
  <2>2. HeaderCount' = 0 /\ Len(disk'.headers) = 0
    <3>1. Len(disk'.headers) = 0
      BY <2>1
    <3>2. 0 \div 2 = 0
      BY SMT
    <3> QED BY <3>1, <3>2 DEF HeaderCount
  <2>3. WholeHeaders'
    BY <2>2 DEF WholeHeaders
  <2>4. EngineAgrees'
    BY <2>1 DEF EngineAgrees, At
  <2> QED BY <2>3, <2>4 DEF HeadersInv
<1> QED BY <1>4, <1>5, <1>6, <1>7, <1>8, <1>9, <1>10, <1>11, <1>12, <1>13, <1>15,
           <1>16, <1>17 DEF Next

-----------------------------------------------------------------------------
LEMMA InitIInv == Init => IInv
<1> SUFFICES ASSUME Init PROVE IInv
  OBVIOUS
<1>0. /\ MaxTip \in Nat /\ MaxSaves \in Nat /\ MaxFaults \in Nat
      /\ backend \in Backends /\ server \in 0..MaxTip
      /\ disk = [headers |-> << >>, filters |-> << >>, state |-> -1, wallet |-> 0]
      /\ engine = Closed /\ saved = [good |-> 0, next |-> 0, emptied |-> FALSE]
      /\ damage = "none" /\ faults = 0
  BY ConstantsAssumption DEF Init
<1>1. /\ Len(disk.headers) = 0 /\ Len(disk.filters) = 0 /\ HeaderCount = 0
      /\ disk.state = -1 /\ disk.wallet = 0 /\ disk \in Disks
  <2>1. << >> \in Seq(Hdr) /\ << >> \in Seq(0..MaxTip) /\ 0 \div 2 = 0
    BY SMT
  <2> QED BY <1>0, <2>1 DEF Disks, HeaderCount
<1>2. Types
  BY <1>0, <1>1, ClosedEngine DEF Types, Records
<1>3. Bounds
  BY <1>0, <1>1 DEF Bounds, Closed, At
<1>4. FiltersInv /\ LowHeaders
  BY <1>0, <1>1 DEF FiltersInv, LowHeaders
<1>5. HeadersInv
  BY <1>0, <1>1 DEF HeadersInv, WholeHeaders, EngineAgrees, Closed, At
<1>6. WalletInv
  BY <1>0, <1>1 DEF WalletInv, Closed
<1> QED BY <1>2, <1>3, <1>4, <1>5, <1>6 DEF IInv

LEMMA NextIInv == IInv /\ [Next]_vars => IInv'
<1> SUFFICES ASSUME IInv, [Next]_vars PROVE IInv'
  OBVIOUS
<1>1. backend' \in Backends /\ server' \in 0..MaxTip
  <2>1. backend \in Backends /\ server \in 0..MaxTip /\ MaxTip \in Nat
    BY ConstantsAssumption DEF IInv, Types
  <2> QED BY <2>1, DiskStep
<1>2. /\ disk' \in Disks /\ disk'.state \in -1..server' /\ disk'.wallet \in 0..MaxSaves
      /\ FiltersInv' /\ LowHeaders'
  BY FilesKept
<1>3. EngineOK'
  BY EngineKept
<1>4. RecordsOK'
  BY RecordsKept
<1>5. Types'
  BY <1>1, <1>2, <1>3, <1>4 DEF Types, EngineOK, RecordsOK
<1>6. Bounds'
  BY <1>2, <1>3, <1>4 DEF Bounds, EngineOK, RecordsOK
<1>7. HeadersInv'
  BY HeadersKeptStep
<1>8. WalletInv'
  BY WalletKeptStep
<1> QED BY <1>2, <1>5, <1>6, <1>7, <1>8 DEF IInv

LEMMA Invariance == Spec => []IInv
BY InitIInv, NextIInv, PTL DEF Spec

(* Every variable of a store stays in its domain; what it remembers of the *)
(* chain, in memory and on disk, never lies beyond the server's tip.       *)
THEOREM TypeCorrect == Spec => []TypeOK
<1>1. IInv => TypeOK
  BY DEF IInv, Types, Bounds, TypeOK
<1> QED BY <1>1, Invariance, PTL

(* Whatever sequence of opens, syncs, saves, rejected writes and crashes   *)
(* of either engine a store has been through, its headers and filter       *)
(* headers are whole and at their offsets, open() does not throw and the   *)
(* engine agrees with headers.bin, unless a header was torn or an engine   *)
(* synced again after a rejected append.                                   *)
THEOREM StoreIntact == Spec => []Intact
<1>1. ASSUME IInv, damage = "none" PROVE HeadersInPlace
  <2>1. Types /\ WholeHeaders /\ HeaderCount \in Nat
    BY <1>1, HeaderCounts DEF IInv, HeadersInv
  <2>2. PICK n \in Nat : n = HeaderCount
    BY <2>1
  <2>3. ReadHeaders(0, n) = Bytes(0, 0 + n - 1) /\ 0 + n - 1 = n - 1
    BY <2>1, <2>2, WholeChunk
  <2> QED BY <2>2, <2>3 DEF HeadersInPlace
<1>2. ASSUME IInv PROVE FiltersInPlace
  <2>1. /\ disk.filters \in Seq(0..MaxTip) /\ server \in 0..MaxTip /\ MaxTip \in Nat
        /\ FiltersInv /\ Len(disk.filters) \in Nat
    BY <1>2, ConstantsAssumption, LenProperties DEF IInv, Types, Disks
  <2>2. PICK to \in Int : to = Len(disk.filters) - 1
    <3>1. Len(disk.filters) - 1 \in Int
      BY <2>1
    <3> QED BY <3>1
  <2>3. /\ Entries(0, to) \in Seq(0..MaxTip) /\ Len(Entries(0, to)) = to - 0 + 1
        /\ \A i \in 1..(to - 0 + 1) : Entries(0, to)[i] = 0 + i - 1
    <3>1. 0 <= to + 1 /\ to <= MaxTip
      BY <2>1, <2>2 DEF FiltersInv
    <3> QED BY <3>1, EntriesAre
  <2>4. to - 0 + 1 = Len(disk.filters)
    BY <2>1, <2>2
  <2>5. \A i \in 1..Len(disk.filters) : disk.filters[i] = Entries(0, to)[i]
    BY <2>1, <2>3, <2>4 DEF FiltersInv
  <2>6. disk.filters = Entries(0, to)
    BY <2>1, <2>3, <2>4, <2>5, SeqEqual
  <2> QED BY <2>2, <2>6 DEF FiltersInPlace, FilterHeaderCount
<1>3. IInv => Intact
  BY <1>1, <1>2 DEF IInv, HeadersInv, EngineAgrees, At, Intact
<1> QED BY <1>3, Invariance, PTL

(* Whatever crashes or is rejected, wallet.json holds the wallet last      *)
(* saved or the one being saved, unless a Node save was cut short.         *)
THEOREM WalletIsKept == Spec => []WalletKept
<1>1. IInv => WalletKept
  BY DEF IInv, WalletInv, Emptied, WalletKept
<1> QED BY <1>1, Invariance, PTL
=============================================================================
