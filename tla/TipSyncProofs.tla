---------------------------- MODULE TipSyncProofs ----------------------------
(***************************************************************************)
(* Proofs about TipSync, for every tree of branches, every width of the    *)
(* server's files, every depth of the rollback, and any number of failed   *)
(* downloads, crashes and reorganisations.                                 *)
(***************************************************************************)
EXTENDS TipSync, SequenceTheorems, TLAPS

-----------------------------------------------------------------------------
Types ==
    /\ server \in [branch : Branches, tip : 0..MaxTip]
    /\ chain \in Chains /\ disk \in Disks /\ wallet \in Wallets
    /\ call \in Calls
    /\ faults \in 0..MaxFaults
    /\ reorg \in {"none", "open", "torn"}

(* A file of the server, when its branch and tip were b and tip.           *)
File(b, tip, boundary) ==
    [i \in 1..Most(Least(boundary + PerFile - 1, tip) - boundary + 1, 0)
        |-> Block(b, boundary + i - 1)]

(* What a call knows at its steps.                                         *)
Following == call.op = "follow"
CallInv ==
    /\ call.target <= server.tip
    /\ At("headers") => call.op = "sync"
    /\ call.pc \in {"tail", "tailfilters", "truncate", "truncatefilters"} => Following
    /\ At("store") /\ call.op # "sync" => Following /\ call.filterFile # {}
    /\ At("tailfilters") => call.filterFile # {}
    /\ call.pc \in {"truncate", "truncatefilters"} => Tip < call.target /\ reorg # "none"
    /\ call.pc \in {"state", "scan"} /\ Following => call.target <= Tip
    /\ \A f \in call.headerFile :
          /\ At("tail") /\ Tip < call.target
          /\ \E b \in Branches, tip \in 0..MaxTip :
                call.target <= tip /\ f = File(b, tip, FileStart(Tip + 1))

(* The chain in memory and headers.bin have the same length between the    *)
(* steps that change both.                                                 *)
LengthInv ==
    /\ At("store") => Len(chain) = Len(disk.headers) + Len(call.fresh)
    /\ At("truncate") => Len(chain) <= Len(disk.headers)
    /\ call.pc \notin {"store", "truncate", "closed"} => Len(chain) = Len(disk.headers)

(* And the same headers, unless the process died with a rollback open.     *)
Prefix(s, t) == Len(s) <= Len(t) /\ s = SubSeq(t, 1, Len(s))
ChainInv ==
    reorg # "torn" =>
        /\ ~At("closed")
        /\ Linked(chain) /\ Linked(disk.headers)
        /\ At("store") => chain = disk.headers \o call.fresh
        /\ At("truncate") => Prefix(chain, disk.headers)
        /\ call.pc \notin {"store", "truncate"} => chain = disk.headers
        /\ reorg = "none" => Prefix(disk.state, disk.headers)

(* followTip() has saved the chain state before it searches the new blocks. *)
StoredInv ==
    reorg # "torn" /\ Following /\ call.pc \in {"scan", "filters", "ranges"}
        => disk.state = disk.headers

(* A cursor that a rollback has pulled back in memory only, and that some  *)
(* block is above, so that followTip() will move and save it.              *)
SavedInv ==
    /\ reorg = "none" => wallet = disk.wallet
    /\ reorg = "open" /\ wallet # disk.wallet =>
          /\ wallet.cursor < server.tip
          /\ Following /\ call.pc \notin {"filters", "ranges"}
                => wallet.cursor < call.target
          /\ Following /\ call.pc \in {"filters", "ranges"} => wallet.cursor < Tip

SearchInv ==
    reorg # "torn" =>
        /\ wallet.cursor < Len(disk.filters)
        /\ ~At("truncatefilters") => wallet.cursor < Len(disk.headers)
        /\ Searched

IInv == Types /\ CallInv /\ LengthInv /\ ChainInv /\ StoredInv /\ SavedInv /\ SearchInv

-----------------------------------------------------------------------------
(* Blocks and chains.                                                      *)
LEMMA Bounds ==
    /\ MaxTip \in Nat /\ MaxFaults \in Nat /\ PerFile \in Nat /\ PerFile > 0
    /\ Depth \in Nat /\ Depth > 0
    /\ Trunk \in Branches /\ \A b \in Branches : Fork[b] \in Nat
BY ConstantsAssumption

LEMMA BlockIs ==
    ASSUME NEW b, NEW h
    PROVE  Block(b, h)[2] = h /\ (Block(b, h)[1] = b \/ Block(b, h)[1] = Trunk)
BY DEF Block

(* A block's parent is the block below it, on its branch or on the trunk.  *)
LEMMA Parent ==
    ASSUME NEW b \in Branches, NEW h \in Nat, h > 0
    PROVE  Block(Block(b, h)[1], h - 1) = Block(b, h - 1)
<1>1. PICK f \in Nat : f = Fork[b]
  BY Bounds
<1>2. \A g \in Int : Block(Trunk, g) = <<Trunk, g>>
  BY DEF Block
<1>3. CASE h <= f
  <2>1. Block(b, h) = <<Trunk, h>> /\ Block(b, h - 1) = <<Trunk, h - 1>>
    BY <1>1, <1>3 DEF Block
  <2> QED BY <1>2, <2>1
<1>4. CASE ~(h <= f)
  BY <1>1, <1>4 DEF Block
<1> QED BY <1>3, <1>4

LEMMA BlocksNamed ==
    ASSUME NEW b \in Branches, NEW h \in 0..MaxTip
    PROVE  Block(b, h) \in Blocks
BY DEF Blocks

LEMMA ChainsAre ==
    ASSUME NEW s
    PROVE  s \in Chains <=> s \in Seq(Blocks) /\ Len(s) <= MaxTip + 1
<1>1. ASSUME s \in Chains PROVE s \in Seq(Blocks) /\ Len(s) <= MaxTip + 1
  <2>1. PICK n \in 0..(MaxTip + 1) : s \in [1..n -> Blocks]
    BY <1>1 DEF Chains
  <2>2. n \in Nat
    BY <2>1, Bounds
  <2> QED BY <2>1, <2>2, Bounds
<1>2. ASSUME s \in Seq(Blocks), Len(s) <= MaxTip + 1 PROVE s \in Chains
  <2>1. PICK n \in Nat : n = Len(s) /\ s \in [1..n -> Blocks]
    BY <1>2, LenProperties
  <2>2. n \in 0..(MaxTip + 1)
    BY <1>2, <2>1, Bounds
  <2> QED BY <2>1, <2>2 DEF Chains
<1> QED BY <1>1, <1>2

LEMMA Cut ==
    ASSUME NEW s \in Seq(Blocks), NEW n \in 0..Len(s)
    PROVE  /\ SubSeq(s, 1, n) \in Seq(Blocks) /\ Len(SubSeq(s, 1, n)) = n
           /\ \A i \in 1..n : SubSeq(s, 1, n)[i] = s[i]
<1>1. Len(s) \in Nat /\ n \in Int /\ 1 \in Int /\ 0 <= n /\ n <= Len(s)
  BY LenProperties
<1>2. \A i \in 1..n : s[i] \in Blocks
  BY <1>1, LenProperties
<1>3. /\ SubSeq(s, 1, n) \in Seq(Blocks)
      /\ Len(SubSeq(s, 1, n)) = IF 1 <= n THEN n - 1 + 1 ELSE 0
      /\ \A i \in 1..(n - 1 + 1) : SubSeq(s, 1, n)[i] = s[1 + i - 1]
  BY <1>1, <1>2, SubSeqProperties
<1>4. Len(SubSeq(s, 1, n)) = n
  BY <1>1, <1>3
<1>5. \A i \in 1..n : SubSeq(s, 1, n)[i] = s[i]
  BY <1>1, <1>3
<1> QED BY <1>3, <1>4, <1>5

LEMMA Join ==
    ASSUME NEW s \in Seq(Blocks), NEW t \in Seq(Blocks)
    PROVE  /\ s \o t \in Seq(Blocks) /\ Len(s) \in Nat /\ Len(t) \in Nat
           /\ Len(s \o t) = Len(s) + Len(t)
           /\ \A i \in 1..Len(s) : (s \o t)[i] = s[i]
           /\ \A i \in 1..Len(t) : (s \o t)[Len(s) + i] = t[i]
<1>1. Len(s) \in Nat /\ Len(t) \in Nat
  BY LenProperties
<1>2. /\ s \o t \in Seq(Blocks) /\ Len(s \o t) = Len(s) + Len(t)
      /\ \A i \in 1..(Len(s) + Len(t)) :
            (s \o t)[i] = IF i <= Len(s) THEN s[i] ELSE t[i - Len(s)]
  BY ConcatProperties
<1>3. \A i \in 1..Len(s) : (s \o t)[i] = s[i]
  BY <1>1, <1>2
<1>4. ASSUME NEW i \in 1..Len(t) PROVE (s \o t)[Len(s) + i] = t[i]
  <2>1. PICK n \in Nat, j \in Nat : n = Len(s) /\ j = n + i /\ j \in 1..(Len(s) + Len(t))
    BY <1>1
  <2>2. ~(j <= n) /\ j - n = i
    BY <2>1
  <2> QED BY <1>2, <2>1, <2>2
<1> QED BY <1>1, <1>2, <1>3, <1>4

(* Linked, position by position.                                           *)
After(s, i) ==
    IF i = 1 THEN s[i][2] = 0
    ELSE s[i][2] > 0 /\ s[i - 1] = Block(s[i][1], s[i][2] - 1)

LEMMA LinkedIs ==
    ASSUME NEW s \in Seq(Blocks)
    PROVE  Linked(s) <=> \A i \in 1..Len(s) : After(s, i)
<1>1. ASSUME NEW i \in 1..Len(s)
      PROVE  Extends(s[i], SubSeq(s, 1, i - 1)) <=> After(s, i)
  <2>1. i \in Nat /\ i > 0 /\ i <= Len(s) /\ Len(s) \in Nat
    BY LenProperties
  <2>2. PICK m \in 0..Len(s) : m = i - 1
    BY <2>1
  <2>3. PICK p : p = SubSeq(s, 1, m)
    OBVIOUS
  <2>4. p \in Seq(Blocks) /\ Len(p) = m /\ \A j \in 1..m : p[j] = s[j]
    BY <2>3, Cut
  <2>5. CASE i = 1
    <3>1. p = << >>
      BY <2>2, <2>4, <2>5, EmptySeq
    <3> QED BY <2>2, <2>3, <2>5, <3>1 DEF Extends, After
  <2>6. CASE i # 1
    <3>1. m \in 1..m /\ p # << >>
      BY <2>1, <2>2, <2>4, <2>6, EmptySeq
    <3>2. p[Len(p)] = s[i - 1]
      BY <2>2, <2>4, <3>1
    <3> QED BY <2>2, <2>3, <2>6, <3>1, <3>2 DEF Extends, After
  <2> QED BY <2>5, <2>6
<1> QED BY <1>1 DEF Linked

LEMMA LinkedCut ==
    ASSUME NEW s \in Seq(Blocks), Linked(s), NEW n \in 0..Len(s)
    PROVE  Linked(SubSeq(s, 1, n))
<1>1. PICK p \in Seq(Blocks) :
        p = SubSeq(s, 1, n) /\ Len(p) = n /\ \A i \in 1..n : p[i] = s[i]
  BY Cut
<1>2. ASSUME NEW i \in 1..n PROVE After(p, i)
  <2>1. i \in 1..Len(s) /\ (i # 1 => i - 1 \in 1..n)
    BY LenProperties
  <2>2. After(s, i)
    BY <2>1, LinkedIs
  <2> QED BY <1>1, <2>1, <2>2 DEF After
<1> QED BY <1>1, <1>2, LinkedIs

(* New blocks of one branch that connect keep a chain linked.              *)
LEMMA LinkedJoin ==
    ASSUME NEW s \in Seq(Blocks), Linked(s), NEW t \in Seq(Blocks), t # << >>,
           Connects(t, s), NEW b \in Branches,
           \A i \in 1..Len(t) : t[i] = Block(b, Len(s) + i - 1)
    PROVE  Linked(s \o t)
<1>0. PICK n \in Nat, m \in Nat, c \in Seq(Blocks) : n = Len(s) /\ m = Len(t) /\ c = s \o t
  BY Join
<1>1. /\ n = Len(s) /\ m = Len(t) /\ c = s \o t /\ Len(c) = n + m
      /\ \A i \in 1..n : c[i] = s[i]
      /\ \A i \in 1..m : c[n + i] = t[i]
  BY <1>0, Join
<1>2. m > 0
  BY <1>1, EmptySeq
<1>3. ASSUME NEW i \in 1..(n + m) PROVE After(c, i)
  <2>1. CASE i <= n
    <3>1. i \in 1..n /\ (i # 1 => i - 1 \in 1..n)
      BY <2>1
    <3>2. After(s, i)
      BY <1>1, <3>1, LinkedIs
    <3> QED BY <1>1, <3>1, <3>2 DEF After
  <2>2. CASE i = n + 1
    <3>1. c[i] = t[1]
      BY <1>1, <1>2, <2>2
    <3>2. Extends(t[1], s)
      BY DEF Connects
    <3>3. CASE n = 0
      <4>1. s = << >>
        BY <1>1, <3>3, EmptySeq
      <4> QED BY <2>2, <3>1, <3>2, <3>3, <4>1 DEF Extends, After
    <3>4. CASE n # 0
      <4>1. s # << >> /\ n \in 1..n
        BY <1>1, <3>4, EmptySeq
      <4>2. i # 1 /\ i - 1 = n /\ c[i - 1] = s[n]
        BY <1>1, <2>2, <4>1
      <4> QED BY <1>1, <3>1, <3>2, <4>1, <4>2 DEF Extends, After
    <3> QED BY <3>3, <3>4
  <2>3. CASE i > n + 1
    <3>1. PICK k \in 1..m : i = n + k /\ k - 1 \in 1..m
      BY <2>3
    <3>2. c[i] = t[k] /\ i - 1 = n + (k - 1)
      BY <1>1, <3>1
    <3>3. c[i - 1] = t[k - 1]
      BY <1>1, <3>1, <3>2
    <3>4. PICK h \in Nat : h = n + k - 1 /\ h > 0
      BY <3>1
    <3>5. t[k] = Block(b, h)
      BY <1>1, <3>1, <3>4
    <3>6. t[k - 1] = Block(b, h - 1)
      <4>1. t[k - 1] = Block(b, n + (k - 1) - 1)
        BY <1>1, <3>1
      <4>2. n + (k - 1) - 1 = h - 1
        BY <3>1, <3>4
      <4> QED BY <4>1, <4>2
    <3>7. t[k][2] = h /\ Block(t[k][1], h - 1) = Block(b, h - 1)
      BY <3>4, <3>5, BlockIs, Parent
    <3> QED BY <2>3, <3>2, <3>3, <3>4, <3>6, <3>7 DEF After
  <2> QED BY <1>1, <2>1, <2>2, <2>3
<1> QED BY <1>1, <1>3, LinkedIs

-----------------------------------------------------------------------------
(* The server's files.                                                     *)
LEMMA FileStarts ==
    ASSUME NEW n \in Nat
    PROVE  FileStart(n) \in Nat /\ FileStart(n) <= n /\ n < FileStart(n) + PerFile
<1>1. ASSUME NEW p \in Nat \ {0}, NEW h \in Nat
      PROVE  h % p \in 0..(p - 1) /\ h \div p \in Nat /\ h = p * (h \div p) + (h % p)
  BY SMTT(30)
<1>2. PICK p \in Nat \ {0} : p = PerFile
  BY Bounds
<1>3. PICK m \in 0..(p - 1), q \in Nat : m = n % p /\ n = p * q + m
  BY <1>1
<1>4. PICK k \in Nat : k = p * q
  BY <1>2, SMT
<1>5. n - m = k /\ k <= n /\ n < k + p
  BY <1>2, <1>3, <1>4
<1> QED BY <1>2, <1>3, <1>4, <1>5 DEF FileStart

LEMMA Files ==
    ASSUME NEW b \in Branches, NEW tip \in 0..MaxTip, NEW n \in Nat
    PROVE  /\ File(b, tip, n) \in Seq(Blocks)
           /\ Len(File(b, tip, n)) = Most(Least(n + PerFile - 1, tip) - n + 1, 0)
           /\ \A i \in 1..Len(File(b, tip, n)) : File(b, tip, n)[i] = Block(b, n + i - 1)
<1>1. PICK m \in Nat :
        /\ m = Most(Least(n + PerFile - 1, tip) - n + 1, 0)
        /\ m = 0 \/ n + m <= tip + 1
  <2>1. PICK e \in Int : e = Least(n + PerFile - 1, tip) /\ e <= tip
    BY Bounds DEF Least
  <2>2. Most(e - n + 1, 0) \in Nat
    BY <2>1 DEF Most
  <2>3. Most(e - n + 1, 0) = 0 \/ n + Most(e - n + 1, 0) <= tip + 1
    BY <2>1 DEF Most
  <2> QED BY <2>1, <2>2, <2>3
<1>2. File(b, tip, n) = [i \in 1..m |-> Block(b, n + i - 1)]
  <2>1. 1..Most(Least(n + PerFile - 1, tip) - n + 1, 0) = 1..m
    BY <1>1
  <2>2. \A S, T : S = T => [i \in S |-> Block(b, n + i - 1)] = [i \in T |-> Block(b, n + i - 1)]
    OBVIOUS
  <2> QED BY <2>1, <2>2 DEF File
<1>3. \A i \in 1..m : Block(b, n + i - 1) \in Blocks
  <2>1. \A i \in 1..m : n + i - 1 \in 0..MaxTip
    BY <1>1, Bounds
  <2> QED BY <2>1, BlocksNamed
<1>4. PICK f : f = [i \in 1..m |-> Block(b, n + i - 1)]
  OBVIOUS
<1>5. f \in [1..m -> Blocks]
  BY <1>3, <1>4
<1>6. f \in Seq(Blocks) /\ Len(f) = m
  BY <1>1, <1>5
<1>7. \A i \in 1..m : f[i] = Block(b, n + i - 1)
  BY <1>4
<1> QED BY <1>1, <1>2, <1>4, <1>6, <1>7

LEMMA ServerFiles ==
    ASSUME NEW n
    PROVE  ServerFile(n) = File(server.branch, server.tip, n)
BY DEF ServerFile, ServerChain, File

LEMMA Subarrays ==
    ASSUME NEW s \in Seq(Blocks), NEW k \in Int
    PROVE  /\ Subarray(s, k) \in Seq(Blocks)
           /\ k >= 0 =>
                 /\ Len(Subarray(s, k)) = Most(Len(s) - k, 0)
                 /\ \A i \in 1..Len(Subarray(s, k)) :
                       Subarray(s, k)[i] = s[k + i] /\ k + i \in 1..Len(s)
<1>1. PICK n \in Nat : n = Len(s)
  BY LenProperties
<1>2. PICK m \in Nat :
        m = 1 + (IF k >= 0 THEN k ELSE Most(n + k, 0)) /\ m >= 1 /\ (k >= 0 => m = k + 1)
  BY <1>1 DEF Most
<1>3. PICK p : p = SubSeq(s, m, n) /\ p = Subarray(s, k)
  BY <1>1, <1>2 DEF Subarray
<1>4. \A i \in m..n : s[i] \in Blocks
  BY <1>1, <1>2, LenProperties
<1>5. /\ p \in Seq(Blocks) /\ Len(p) = IF m <= n THEN n - m + 1 ELSE 0
      /\ \A i \in 1..(n - m + 1) : p[i] = s[m + i - 1]
  <2>1. m \in Int /\ n \in Int
    BY <1>1, <1>2
  <2>2. /\ SubSeq(s, m, n) \in Seq(Blocks)
        /\ Len(SubSeq(s, m, n)) = IF m <= n THEN n - m + 1 ELSE 0
        /\ \A i \in 1..(n - m + 1) : SubSeq(s, m, n)[i] = s[m + i - 1]
    BY <1>4, <2>1, SubSeqProperties
  <2> QED BY <1>3, <2>2
<1>6. ASSUME k >= 0
      PROVE  /\ Len(p) = Most(n - k, 0)
             /\ \A i \in 1..Len(p) : p[i] = s[k + i] /\ k + i \in 1..n
  <2>1. m = k + 1 /\ Len(p) = Most(n - k, 0)
    BY <1>2, <1>5, <1>6 DEF Most
  <2>2. ASSUME NEW i \in 1..Len(p) PROVE p[i] = s[k + i] /\ k + i \in 1..n
    <3>1. i \in 1..(n - m + 1) /\ m + i - 1 = k + i /\ k + i \in 1..n
      BY <1>2, <1>5, <1>6, <2>1
    <3> QED BY <1>5, <3>1
  <2> QED BY <2>1, <2>2
<1> QED BY <1>1, <1>3, <1>5, <1>6

(* What a file has beyond the first n blocks of a chain: the next blocks   *)
(* of the server's branch, if it has any.                                  *)
LEMMA Beyond ==
    ASSUME NEW b \in Branches, NEW tip \in 0..MaxTip, NEW n \in Nat,
           NEW s, s = Subarray(File(b, tip, FileStart(n)), n - FileStart(n))
    PROVE  /\ s \in Seq(Blocks)
           /\ \A i \in 1..Len(s) : s[i] = Block(b, n + i - 1)
           /\ s # << >> => n + Len(s) <= MaxTip + 1
           /\ n <= tip => s # << >>
<1>1. PICK start \in Nat : start = FileStart(n) /\ start <= n /\ n < start + PerFile
  BY FileStarts
<1>2. PICK f \in Seq(Blocks) : f = File(b, tip, start)
  BY Files
<1>3. PICK m \in Nat :
        m = Len(f) /\ m = Most(Least(start + PerFile - 1, tip) - start + 1, 0)
  BY <1>2, Files, LenProperties
<1>4. \A i \in 1..m : f[i] = Block(b, start + i - 1)
  BY <1>2, <1>3, Files
<1>5. PICK k \in Nat : k = n - start
  BY <1>1
<1>6. s = Subarray(f, k)
  BY <1>1, <1>2, <1>5
<1>7. /\ s \in Seq(Blocks) /\ Len(s) = Most(m - k, 0)
      /\ \A i \in 1..Len(s) : s[i] = f[k + i] /\ k + i \in 1..m
  <2>1. k \in Int /\ k >= 0
    BY <1>5
  <2>2. /\ Subarray(f, k) \in Seq(Blocks) /\ Len(Subarray(f, k)) = Most(Len(f) - k, 0)
        /\ \A i \in 1..Len(Subarray(f, k)) :
              Subarray(f, k)[i] = f[k + i] /\ k + i \in 1..Len(f)
    BY <2>1, Subarrays
  <2> QED BY <1>3, <1>6, <2>2
<1>8. PICK l \in Nat : l = Len(s) /\ l = Most(m - k, 0)
  BY <1>7, LenProperties
<1>9. ASSUME NEW i \in 1..l PROVE s[i] = Block(b, n + i - 1)
  <2>1. s[i] = f[k + i] /\ k + i \in 1..m
    BY <1>7, <1>8
  <2>2. f[k + i] = Block(b, start + (k + i) - 1)
    BY <1>4, <2>1
  <2>3. start + (k + i) - 1 = n + i - 1
    BY <1>5
  <2> QED BY <2>1, <2>2, <2>3
<1>10. l # 0 => n + l <= MaxTip + 1
  <2>1. PICK e \in Int : /\ e = Least(start + PerFile - 1, tip) /\ e <= tip
                         /\ m = Most(e - start + 1, 0)
    BY <1>3, Bounds DEF Least
  <2>2. m = 0 \/ m <= MaxTip - start + 1
    BY <2>1, Bounds DEF Most
  <2>3. l = 0 \/ l = m - k
    BY <1>8 DEF Most
  <2> QED BY <1>5, <2>2, <2>3, Bounds
<1>11. n <= tip => l # 0
  <2>1. PICK e \in Int : /\ e = Least(start + PerFile - 1, tip)
                         /\ e = start + PerFile - 1 \/ e = tip
                         /\ m = Most(e - start + 1, 0)
    BY <1>3, Bounds DEF Least
  <2>2. m >= e - start + 1
    BY <2>1 DEF Most
  <2>3. l >= m - k
    BY <1>8 DEF Most
  <2>4. n <= tip => n <= e
    <3>1. PICK p \in Nat : p = PerFile
      BY Bounds
    <3>2. n <= start + p - 1
      BY <1>1, <3>1
    <3>3. e = start + p - 1 \/ e = tip
      BY <2>1, <3>1
    <3> QED BY <3>2, <3>3
  <2> QED BY <1>5, <2>2, <2>3, <2>4
<1> QED BY <1>7, <1>8, <1>9, <1>10, <1>11, EmptySeq

-----------------------------------------------------------------------------
(* What the types say.                                                     *)
LEMMA Typed ==
    ASSUME Types
    PROVE  /\ chain \in Seq(Blocks) /\ Len(chain) \in Nat /\ Len(chain) <= MaxTip + 1
           /\ Tip \in Int /\ Tip = Len(chain) - 1 /\ Tip <= MaxTip
           /\ disk.headers \in Seq(Blocks) /\ Len(disk.headers) \in Nat
           /\ Len(disk.headers) <= MaxTip + 1
           /\ disk.filters \in Seq(Blocks) /\ Len(disk.filters) \in Nat
           /\ disk.state \in Seq(Blocks) /\ Len(disk.state) \in Nat
           /\ wallet.cursor \in Int /\ wallet.cursor >= -1 /\ wallet.cursor <= MaxTip
           /\ wallet.found \subseteq Blocks
           /\ server.branch \in Branches /\ server.tip \in 0..MaxTip
           /\ server.tip \in Nat /\ server.tip <= MaxTip
           /\ call.target \in Int /\ call.fresh \in Seq(Blocks)
<1>1. /\ chain \in Seq(Blocks) /\ Len(chain) <= MaxTip + 1
      /\ disk.headers \in Seq(Blocks) /\ Len(disk.headers) <= MaxTip + 1
      /\ disk.state \in Seq(Blocks) /\ disk.filters \in Seq(Blocks)
  BY ChainsAre DEF Types, Disks
<1>2. /\ Len(chain) \in Nat /\ Len(disk.headers) \in Nat /\ Len(disk.state) \in Nat
      /\ Len(disk.filters) \in Nat
  BY <1>1, LenProperties
<1>3. Tip \in Int /\ Tip = Len(chain) - 1 /\ Tip <= MaxTip
  BY <1>1, <1>2, Bounds DEF Tip
<1>4. /\ wallet.cursor \in -1..MaxTip /\ wallet.found \subseteq Blocks
      /\ server.branch \in Branches /\ server.tip \in 0..MaxTip
      /\ call.target \in -1..MaxTip /\ call.fresh \in Seq(Blocks)
  BY DEF Types, Wallets, Calls
<1> QED BY <1>1, <1>2, <1>3, <1>4, Bounds

LEMMA IdleIs ==
    /\ Idle \in Calls
    /\ Idle.pc = "idle" /\ Idle.op = "none" /\ Idle.target = -1 /\ Idle.headerFile = {}
<1>1. -1 \in -1..MaxTip /\ 0 \in Nat /\ << >> \in Seq(Blocks)
  BY Bounds, EmptySeq
<1> QED BY <1>1 DEF Idle, Calls, Pcs

LEMMA Goes ==
    ASSUME Types, NEW pc \in Pcs, call' = [call EXCEPT !.pc = pc]
    PROVE  /\ call' \in Calls /\ call'.pc = pc /\ call'.op = call.op
           /\ call'.target = call.target /\ call'.headerFile = call.headerFile
           /\ call'.filterFile = call.filterFile /\ call'.fresh = call.fresh
BY DEF Types, Calls

-----------------------------------------------------------------------------
(* Steps that move the call only.                                          *)
Still == server' = server /\ chain' = chain /\ disk' = disk /\ wallet' = wallet
Calm(pc) == pc \notin {"store", "truncate", "truncatefilters", "closed"}

LEMMA QuietStep ==
    ASSUME IInv, Still, faults' \in 0..MaxFaults, reorg' = reorg, call' \in Calls,
           Calm(call.pc), Calm(call'.pc), CallInv', StoredInv', SavedInv'
    PROVE  IInv'
<1>0. Types /\ LengthInv /\ ChainInv /\ SearchInv
  BY DEF IInv
<1>1. Types'
  BY <1>0 DEF Types, Still
<1>2. LengthInv'
  BY <1>0 DEF LengthInv, At, Calm, Still
<1>3. ChainInv'
  BY <1>0 DEF ChainInv, At, Calm, Still
<1>4. SearchInv'
  <2>1. Searched' = Searched
    BY DEF Searched, Still
  <2> QED BY <1>0, <2>1 DEF SearchInv, At, Calm, Still
<1> QED BY <1>1, <1>2, <1>3, <1>4 DEF IInv

LEMMA ThrowStep ==
    ASSUME IInv, Still, faults' \in 0..MaxFaults, Throw, Calm(call.pc)
    PROVE  IInv'
<1>0. call' = Idle /\ reorg' = reorg /\ Types /\ SavedInv
  BY DEF Throw, IInv
<1>1. /\ call' \in Calls /\ call'.pc = "idle" /\ call'.op = "none" /\ call'.target = -1
      /\ call'.headerFile = {}
  BY <1>0, IdleIs
<1>2. CallInv'
  BY <1>0, <1>1, Typed DEF CallInv, At, Following, Still
<1>3. StoredInv'
  BY <1>1 DEF StoredInv, Following
<1>4. SavedInv'
  BY <1>0, <1>1 DEF SavedInv, Following, Still
<1> QED BY <1>0, <1>1, <1>2, <1>3, <1>4, QuietStep DEF Calm

LEMMA ReturnStep ==
    ASSUME IInv, Still, faults' \in 0..MaxFaults, Return,
           \/ At("filters") /\ call.op = "sync"
           \/ call.pc \in {"scan", "ranges"} /\ wallet.cursor >= Tip
    PROVE  IInv'
<1>1. CASE ~(Following /\ reorg = "open")
  BY <1>1, ThrowStep DEF Return, Throw, Following, Calm, At
<1>2. CASE Following /\ reorg = "open"
  <2>0. /\ call' = Idle /\ reorg' = "none" /\ call.pc \in {"scan", "ranges"}
        /\ wallet.cursor >= Tip
    BY <1>2 DEF Return, Following
  <2>1. /\ Types /\ CallInv /\ LengthInv /\ ChainInv /\ StoredInv /\ SavedInv /\ SearchInv
    BY DEF IInv
  <2>2. /\ call' \in Calls /\ call'.pc = "idle" /\ call'.op = "none"
        /\ call'.target = -1 /\ call'.headerFile = {}
    BY <2>0, IdleIs
  <2>3. wallet = disk.wallet
    <3>1. SUFFICES ASSUME wallet # disk.wallet PROVE FALSE
      OBVIOUS
    <3>2. CASE call.pc = "scan"
      <4>1. wallet.cursor < call.target /\ call.target <= Tip
        BY <1>2, <2>1, <3>1, <3>2 DEF SavedInv, CallInv, Following
      <4> QED BY <2>0, <2>1, <4>1, Typed
    <3>3. CASE call.pc = "ranges"
      <4>1. wallet.cursor < Tip
        BY <1>2, <2>1, <3>1, <3>3 DEF SavedInv, Following
      <4> QED BY <2>0, <2>1, <4>1, Typed
    <3> QED BY <2>0, <3>2, <3>3
  <2>4. disk.state = disk.headers
    BY <1>2, <2>0, <2>1 DEF StoredInv
  <2>5. Prefix(disk.state, disk.headers)
    <3>1. PICK s \in Seq(Blocks) : s = disk.headers /\ s = disk.state
      BY <2>1, <2>4, Typed
    <3>2. Len(s) \in Nat /\ SubSeq(s, 1, Len(s)) = s
      BY LenProperties, SubSeqFull
    <3> QED BY <3>1, <3>2 DEF Prefix
  <2>6. Types'
    BY <2>0, <2>1, <2>2 DEF Types, Still
  <2>7. CallInv' /\ StoredInv'
    BY <2>1, <2>2, Typed DEF CallInv, StoredInv, At, Following, Still
  <2>8. SavedInv'
    BY <2>0, <2>3 DEF SavedInv, Still
  <2>9. LengthInv'
    BY <2>0, <2>1, <2>2 DEF LengthInv, At, Still
  <2>10. ChainInv'
    BY <1>2, <2>0, <2>1, <2>2, <2>5 DEF ChainInv, At, Still
  <2>11. SearchInv'
    <3>1. Searched' = Searched
      BY DEF Searched, Still
    <3> QED BY <1>2, <2>0, <2>1, <2>2, <3>1 DEF SearchInv, At, Still
  <2> QED BY <2>6, <2>7, <2>8, <2>9, <2>10, <2>11 DEF IInv
<1> QED BY <1>1, <1>2

(* A sync goes on to the next of its steps, a scan to its filter files.    *)
LEMMA GotoStep ==
    ASSUME IInv, Still, faults' = faults, NEW pc \in Pcs, Goto(pc),
           \/ At("headers") /\ pc = "state"
           \/ At("filters") /\ pc = "ranges"
    PROVE  IInv'
<1>0. /\ Types /\ CallInv /\ StoredInv /\ SavedInv /\ reorg' = reorg
      /\ call' = [call EXCEPT !.pc = pc] /\ faults' \in 0..MaxFaults
  BY DEF Goto, IInv, Types
<1>1. /\ call' \in Calls /\ call'.pc = pc /\ call'.op = call.op
      /\ call'.target = call.target /\ call'.headerFile = call.headerFile
      /\ call'.filterFile = call.filterFile
  BY <1>0, Goes
<1>2. call.headerFile = {}
  BY <1>0 DEF CallInv, At
<1>3. CallInv'
  BY <1>0, <1>1, <1>2 DEF CallInv, At, Following, Still
<1>4. StoredInv'
  BY <1>0, <1>1 DEF StoredInv, CallInv, At, Following, Still
<1>5. SavedInv'
  BY <1>0, <1>1 DEF SavedInv, CallInv, At, Following, Still, Tip
<1> QED BY <1>0, <1>1, <1>3, <1>4, <1>5, QuietStep DEF Calm, At

LEMMA SyncStartKeeps == ASSUME IInv, SyncStart PROVE IInv'
<1>0. /\ Types /\ SavedInv /\ Still /\ faults' \in 0..MaxFaults /\ reorg' = reorg
      /\ At("idle") /\ call' = [Idle EXCEPT !.pc = "headers", !.op = "sync",
                                            !.target = server.tip]
  BY DEF SyncStart, Still, IInv, Types
<1>1. PICK n \in -1..MaxTip : n = server.tip
  BY <1>0, Typed, Bounds
<1>2. call' = [pc |-> "headers", op |-> "sync", target |-> n, old |-> -1,
               retried |-> FALSE, headerFile |-> {}, filterFile |-> {},
               boundary |-> 0, fresh |-> << >>]
  BY <1>0, <1>1 DEF Idle
<1>3. call' \in Calls
  <2>1. -1 \in -1..MaxTip /\ << >> \in Seq(Blocks)
    BY Bounds, EmptySeq
  <2> QED BY <1>2, <2>1 DEF Calls, Pcs
<1>4. CallInv'
  <2>1. call'.target = n /\ n <= server'.tip
    BY <1>0, <1>1, <1>2, Typed DEF Still
  <2>2. call'.pc = "headers" /\ call'.op = "sync" /\ call'.headerFile = {}
    BY <1>2
  <2> QED BY <2>1, <2>2 DEF CallInv, At, Following
<1>5. StoredInv' /\ SavedInv'
  BY <1>0, <1>2 DEF StoredInv, SavedInv, Following, Still
<1>6. Calm(call.pc) /\ Calm(call'.pc)
  BY <1>0, <1>2 DEF Calm, At
<1> QED BY <1>0, <1>3, <1>4, <1>5, <1>6, QuietStep

LEMMA ScanStartKeeps == ASSUME IInv, ScanStart PROVE IInv'
<1>0. /\ Types /\ SavedInv /\ Still /\ faults' \in 0..MaxFaults /\ reorg' = reorg
      /\ At("idle") /\ call' = [Idle EXCEPT !.pc = "scan", !.op = "scan"]
  BY DEF ScanStart, Still, IInv, Types
<1>2. call' = [pc |-> "scan", op |-> "scan", target |-> -1, old |-> -1,
               retried |-> FALSE, headerFile |-> {}, filterFile |-> {},
               boundary |-> 0, fresh |-> << >>]
  BY <1>0 DEF Idle
<1>3. call' \in Calls
  <2>1. -1 \in -1..MaxTip /\ << >> \in Seq(Blocks)
    BY Bounds, EmptySeq
  <2> QED BY <1>2, <2>1 DEF Calls, Pcs
<1>4. CallInv'
  <2>1. call'.target = -1 /\ -1 <= server'.tip
    <3>1. server' = server /\ 0 <= server.tip /\ server.tip \in Int
      BY <1>0, Typed DEF Still
    <3>2. -1 <= server'.tip
      BY <3>1
    <3>3. call'.target = -1
      BY <1>2
    <3> QED BY <3>2, <3>3
  <2>2. call'.pc = "scan" /\ call'.op = "scan" /\ call'.headerFile = {}
    BY <1>2
  <2> QED BY <2>1, <2>2 DEF CallInv, At, Following
<1>5. StoredInv' /\ SavedInv'
  BY <1>0, <1>2 DEF StoredInv, SavedInv, Following, Still
<1>6. Calm(call.pc) /\ Calm(call'.pc)
  BY <1>0, <1>2 DEF Calm, At
<1> QED BY <1>0, <1>3, <1>4, <1>5, <1>6, QuietStep

LEMMA FollowStartKeeps == ASSUME IInv, FollowStart PROVE IInv'
<1>0. /\ Types /\ SavedInv /\ Still /\ faults' \in 0..MaxFaults /\ reorg' = reorg
      /\ At("idle") /\ call' = [Idle EXCEPT !.pc = "tail", !.op = "follow",
                                  !.target = server.tip, !.old = Tip]
  BY DEF FollowStart, Still, IInv, Types
<1>1. PICK n \in -1..MaxTip, m \in -1..MaxTip : n = server.tip /\ m = Tip
  BY <1>0, Typed, Bounds
<1>2. call' = [pc |-> "tail", op |-> "follow", target |-> n, old |-> m,
               retried |-> FALSE, headerFile |-> {}, filterFile |-> {},
               boundary |-> 0, fresh |-> << >>]
  BY <1>0, <1>1 DEF Idle
<1>3. call' \in Calls
  <2>1. << >> \in Seq(Blocks)
    BY EmptySeq
  <2> QED BY <1>2, <2>1 DEF Calls, Pcs
<1>4. CallInv'
  <2>1. call'.target = n /\ n <= server'.tip
    BY <1>0, <1>1, <1>2, Typed DEF Still
  <2>2. call'.pc = "tail" /\ call'.op = "follow" /\ call'.headerFile = {}
    BY <1>2
  <2> QED BY <2>1, <2>2 DEF CallInv, At, Following
<1>5. StoredInv' /\ SavedInv'
  BY <1>0, <1>1, <1>2 DEF StoredInv, SavedInv, Following, Still
<1>6. Calm(call.pc) /\ Calm(call'.pc)
  BY <1>0, <1>2 DEF Calm, At
<1> QED BY <1>0, <1>3, <1>4, <1>5, <1>6, QuietStep

LEMMA ScanStatusKeeps == ASSUME IInv, ScanStatus PROVE IInv'
<1>0. /\ Types /\ CallInv /\ StoredInv /\ SavedInv /\ Still /\ faults' \in 0..MaxFaults
      /\ At("scan")
  BY DEF ScanStatus, Still, IInv, Types
<1>1. CASE wallet.cursor >= Tip
  BY <1>0, <1>1, ReturnStep DEF ScanStatus, At
<1>2. CASE ~(wallet.cursor >= Tip)
  <2>1. reorg' = reorg /\ call' = [call EXCEPT !.pc = "filters", !.target = server.tip]
    BY <1>2 DEF ScanStatus
  <2>2. PICK n \in -1..MaxTip : n = server.tip
    BY <1>0, Typed, Bounds
  <2>3. call' = [call EXCEPT !.pc = "filters", !.target = n]
    BY <2>1, <2>2
  <2>4. /\ call' \in Calls /\ call'.pc = "filters" /\ call'.op = call.op
        /\ call'.target = n /\ call'.headerFile = call.headerFile
    BY <1>0, <2>3 DEF Types, Calls, Pcs
  <2>5. CallInv'
    BY <1>0, <2>2, <2>4, Typed DEF CallInv, At, Following, Still
  <2>6. StoredInv'
    BY <1>0, <2>1, <2>4 DEF StoredInv, At, Following, Still
  <2>7. wallet.cursor < Tip
    BY <1>0, <1>2, Typed
  <2>8. SavedInv'
    BY <1>0, <2>1, <2>4, <2>7 DEF SavedInv, Following, Still, Tip
  <2> QED BY <1>0, <2>1, <2>4, <2>5, <2>6, <2>8, QuietStep DEF Calm, At
<1> QED BY <1>1, <1>2

LEMMA ServerMovesKeeps == ASSUME IInv, ServerMoves PROVE IInv'
<1>0. /\ Types /\ CallInv /\ LengthInv /\ ChainInv /\ StoredInv /\ SavedInv /\ SearchInv
      /\ chain' = chain /\ wallet' = wallet /\ disk' = disk /\ call' = call
      /\ faults' = faults /\ reorg' = reorg
  BY DEF ServerMoves, IInv
<1>1. PICK tip \in (server.tip + 1)..MaxTip, b \in Branches :
        server' = [branch |-> b, tip |-> tip]
  BY DEF ServerMoves
<1>2. tip \in 0..MaxTip /\ server.tip < tip /\ server'.tip = tip
  BY <1>0, <1>1, Typed, Bounds
<1>3. Types'
  BY <1>0, <1>1, <1>2 DEF Types
<1>4. CallInv'
  <2>1. call'.target <= server'.tip
    BY <1>0, <1>2, Typed DEF CallInv
  <2> QED BY <1>0, <2>1 DEF CallInv, At, Following, Tip
<1>5. SavedInv'
  <2>1. wallet.cursor < server.tip => wallet.cursor < server'.tip
    BY <1>0, <1>2, Typed
  <2> QED BY <1>0, <2>1 DEF SavedInv, Following, Tip
<1>6. LengthInv' /\ ChainInv' /\ StoredInv' /\ SearchInv'
  BY <1>0 DEF LengthInv, ChainInv, StoredInv, SearchInv, Searched, At, Following
<1> QED BY <1>3, <1>4, <1>5, <1>6 DEF IInv

-----------------------------------------------------------------------------
(* New headers are appended to the chain in memory.                        *)
LEMMA AppendStep ==
    ASSUME IInv, NEW fresh \in Seq(Blocks), fresh # << >>, Connects(fresh, chain),
           NEW b \in Branches,
           \A i \in 1..Len(fresh) : fresh[i] = Block(b, Len(chain) + i - 1),
           Len(chain) + Len(fresh) <= MaxTip + 1, chain' = chain \o fresh,
           server' = server, wallet' = wallet, disk' = disk, faults' = faults,
           reorg' = reorg, call' \in Calls, call'.pc = "store", call'.op = call.op,
           call'.target = call.target, call'.fresh = fresh, call'.headerFile = {},
           At("headers") \/ (At("tail") /\ call'.filterFile # {})
    PROVE  IInv'
<1>0. Types /\ CallInv /\ LengthInv /\ ChainInv /\ SavedInv /\ SearchInv
  BY DEF IInv
<1>1. PICK s \in Seq(Blocks) : s = chain /\ s \o fresh \in Seq(Blocks)
  BY <1>0, Typed, Join
<1>2. Len(s \o fresh) = Len(s) + Len(fresh)
  BY Join
<1>3. chain' \in Chains /\ Len(chain') = Len(chain) + Len(fresh)
  BY <1>1, <1>2, ChainsAre
<1>4. Types'
  BY <1>0, <1>3 DEF Types
<1>5. CallInv'
  BY <1>0 DEF CallInv, At, Following
<1>6. LengthInv'
  BY <1>0, <1>3 DEF LengthInv, At
<1>7. ChainInv'
  <2>1. SUFFICES ASSUME reorg # "torn" PROVE ChainInv'
    BY DEF ChainInv
  <2>2. Linked(chain) /\ chain = disk.headers
    BY <1>0, <2>1 DEF ChainInv, At
  <2>3. Linked(chain')
    BY <1>1, <2>2, LinkedJoin
  <2> QED BY <1>0, <2>1, <2>2, <2>3 DEF ChainInv, At
<1>8. StoredInv'
  BY DEF StoredInv
<1>9. SavedInv'
  BY <1>0 DEF SavedInv, CallInv, At, Following
<1>10. SearchInv'
  BY <1>0 DEF SearchInv, Searched, At
<1> QED BY <1>4, <1>5, <1>6, <1>7, <1>8, <1>9, <1>10 DEF IInv

(* What a server's file has beyond the chain.                              *)
LEMMA NewHeaders ==
    ASSUME Types, NEW b \in Branches, NEW tip \in 0..MaxTip, NEW s,
           s = Subarray(File(b, tip, FileStart(Tip + 1)), Tip + 1 - FileStart(Tip + 1))
    PROVE  /\ s \in Seq(Blocks)
           /\ \A i \in 1..Len(s) : s[i] = Block(b, Len(chain) + i - 1)
           /\ s # << >> => Len(chain) + Len(s) <= MaxTip + 1
           /\ Tip < tip => s # << >>
<1>1. PICK n \in Nat : n = Tip + 1 /\ n = Len(chain) /\ (Tip < tip => n <= tip)
  BY Typed
<1>2. s = Subarray(File(b, tip, FileStart(n)), n - FileStart(n))
  <2>1. FileStart(Tip + 1) = FileStart(n)
    BY <1>1
  <2>2. PICK start \in Nat : start = FileStart(n)
    BY FileStarts
  <2>3. Tip + 1 - start = n - start
    BY <1>1, <2>2, Typed
  <2>4. s = Subarray(File(b, tip, start), Tip + 1 - start)
    BY <2>1, <2>2
  <2> QED BY <2>2, <2>3, <2>4
<1>3. /\ s \in Seq(Blocks)
      /\ \A i \in 1..Len(s) : s[i] = Block(b, n + i - 1)
      /\ s # << >> => n + Len(s) <= MaxTip + 1
      /\ n <= tip => s # << >>
  BY <1>2, Beyond
<1> QED BY <1>1, <1>3

LEMMA SyncHeadersKeeps == ASSUME IInv, SyncHeaders PROVE IInv'
<1>0. /\ Types /\ CallInv /\ At("headers") /\ server' = server /\ wallet' = wallet
      /\ disk' = disk /\ faults' = faults /\ faults' \in 0..MaxFaults
  BY DEF SyncHeaders, IInv, Types
<1> DEFINE fresh == Subarray(ServerFile(FileStart(Tip + 1)), Tip + 1 - FileStart(Tip + 1))
<1>1. CASE fresh = << >> /\ Goto("state") /\ chain' = chain
  BY <1>0, <1>1, GotoStep DEF Still, Pcs
<1>2. CASE fresh # << >> /\ ~Connects(fresh, chain) /\ Throw /\ chain' = chain
  BY <1>0, <1>2, ThrowStep DEF Still, Calm, At
<1>3. CASE /\ fresh # << >> /\ Connects(fresh, chain)
           /\ chain' = chain \o fresh
           /\ call' = [call EXCEPT !.pc = "store", !.fresh = fresh]
           /\ reorg' = reorg
  <2>1. fresh = Subarray(File(server.branch, server.tip, FileStart(Tip + 1)),
                         Tip + 1 - FileStart(Tip + 1))
    BY DEF ServerFile, ServerChain, File
  <2>2. server.branch \in Branches /\ server.tip \in 0..MaxTip
    BY <1>0, Typed
  <2> HIDE DEF fresh
  <2>3. PICK f \in Seq(Blocks), b \in Branches :
          /\ f = fresh /\ \A i \in 1..Len(f) : f[i] = Block(b, Len(chain) + i - 1)
          /\ Len(chain) + Len(f) <= MaxTip + 1
    BY <1>0, <1>3, <2>1, <2>2, NewHeaders
  <2>4. call' = [call EXCEPT !.pc = "store", !.fresh = f]
    BY <1>3, <2>3
  <2>5. /\ call' \in Calls /\ call'.pc = "store" /\ call'.op = call.op
        /\ call'.target = call.target /\ call'.headerFile = call.headerFile
        /\ call'.fresh = f
    BY <1>0, <2>4 DEF Types, Calls, Pcs
  <2>6. call.headerFile = {}
    BY <1>0 DEF CallInv, At
  <2>7. f # << >> /\ Connects(f, chain) /\ chain' = chain \o f
    BY <1>3, <2>3
  <2> QED BY <1>0, <1>3, <2>3, <2>5, <2>6, <2>7, AppendStep
<1> QED BY <1>1, <1>2, <1>3 DEF SyncHeaders

LEMMA SyncHeadersDoneKeeps == ASSUME IInv, SyncHeadersDone PROVE IInv'
BY GotoStep DEF SyncHeadersDone, Still, Pcs

(* A stored file keeps what it has when more is appended to it.            *)
LEMMA PrefixJoin ==
    ASSUME NEW s \in Seq(Blocks), NEW t \in Seq(Blocks), NEW u \in Seq(Blocks),
           Prefix(s, t)
    PROVE  Prefix(s, t \o u)
<1>1. PICK n \in Nat, m \in Nat, k \in Nat, c \in Seq(Blocks) :
        n = Len(s) /\ m = Len(t) /\ k = Len(u) /\ c = t \o u
  BY Join
<1>2. Len(c) = m + k /\ \A i \in 1..m : c[i] = t[i]
  BY <1>1, Join
<1>3. n <= m /\ s = SubSeq(t, 1, n)
  BY <1>1 DEF Prefix
<1>4. n \in 0..Len(t) /\ n \in 0..Len(c)
  BY <1>1, <1>2, <1>3
<1>5. PICK d \in Seq(Blocks) : /\ d = SubSeq(c, 1, n) /\ Len(d) = n
                               /\ \A i \in 1..n : d[i] = c[i]
  BY <1>4, Cut
<1>6. \A i \in 1..n : s[i] = t[i]
  BY <1>3, <1>4, Cut
<1>7. \A i \in 1..n : d[i] = s[i]
  BY <1>1, <1>2, <1>3, <1>5, <1>6
<1>8. d = s
  BY <1>1, <1>5, <1>7, SeqEqual
<1> QED BY <1>1, <1>2, <1>3, <1>5, <1>8 DEF Prefix

LEMMA PrefixSelf == ASSUME NEW s \in Seq(Blocks) PROVE Prefix(s, s)
<1>1. Len(s) \in Nat /\ SubSeq(s, 1, Len(s)) = s
  BY LenProperties, SubSeqFull
<1> QED BY <1>1 DEF Prefix

(* New headers are appended to headers.bin.                                *)
LEMMA StoreHeadersKeeps == ASSUME IInv, StoreHeaders PROVE IInv'
<1>0. PICK next \in {"headers", "tailfilters"} :
      /\ Types /\ CallInv /\ LengthInv /\ ChainInv /\ SavedInv /\ SearchInv
      /\ At("store") /\ server' = server /\ chain' = chain /\ wallet' = wallet
      /\ faults' = faults /\ reorg' = reorg
      /\ disk' = [disk EXCEPT !.headers = @ \o call.fresh]
      /\ call' = [call EXCEPT !.pc = next, !.fresh = << >>]
      /\ next = "headers" <=> call.op = "sync"
  BY DEF StoreHeaders, IInv
<1>1. /\ call' \in Calls /\ call'.pc = next /\ call'.op = call.op
      /\ call'.target = call.target /\ call'.headerFile = call.headerFile
      /\ call'.filterFile = call.filterFile
  <2>1. << >> \in Seq(Blocks) /\ next \in Pcs
    BY EmptySeq DEF Pcs
  <2> QED BY <1>0, <2>1 DEF Types, Calls
<1>2. PICK h \in Seq(Blocks), f \in Seq(Blocks), g \in Seq(Blocks) :
        h = disk.headers /\ f = call.fresh /\ g = h \o f
  BY <1>0, Typed, Join
<1>3. /\ Len(h) \in Nat /\ Len(g) = Len(h) + Len(f)
      /\ \A i \in 1..Len(h) : g[i] = h[i]
  <2>1. /\ Len(h) \in Nat /\ Len(h \o f) = Len(h) + Len(f)
        /\ \A i \in 1..Len(h) : (h \o f)[i] = h[i]
    BY Join
  <2> QED BY <1>2, <2>1
<1>4. Len(chain) = Len(g) /\ g \in Chains
  BY <1>0, <1>2, <1>3, Typed, ChainsAre DEF LengthInv
<1>5. /\ disk' \in Disks /\ disk'.headers = g /\ disk'.filters = disk.filters
      /\ disk'.state = disk.state /\ disk'.wallet = disk.wallet
  BY <1>0, <1>2, <1>4 DEF Types, Disks
<1>6. Types'
  BY <1>0, <1>1, <1>5 DEF Types
<1>7. CallInv'
  BY <1>0, <1>1 DEF CallInv, At, Following
<1>8. LengthInv'
  BY <1>0, <1>1, <1>4, <1>5 DEF LengthInv, At
<1>9. ChainInv'
  <2>1. SUFFICES ASSUME reorg # "torn" PROVE ChainInv'
    BY <1>0 DEF ChainInv
  <2>2. /\ Linked(chain) /\ chain = g
        /\ reorg = "none" => Prefix(disk.state, h)
    BY <1>0, <1>2, <2>1 DEF ChainInv
  <2>3. reorg = "none" => Prefix(disk.state, g)
    BY <1>0, <1>2, <2>2, Typed, PrefixJoin
  <2> QED BY <1>0, <1>1, <1>5, <2>1, <2>2, <2>3 DEF ChainInv, At
<1>10. StoredInv'
  BY <1>1 DEF StoredInv
<1>11. SavedInv'
  BY <1>0, <1>1, <1>5 DEF SavedInv, At, Following
<1>12. SearchInv'
  <2>1. SUFFICES ASSUME reorg # "torn" PROVE SearchInv'
    BY <1>0 DEF SearchInv
  <2>2. wallet.cursor < Len(disk.filters) /\ wallet.cursor < Len(h) /\ Searched
    BY <1>0, <1>2, <2>1 DEF SearchInv, At
  <2>3. wallet.cursor < Len(g)
    <3>1. Len(f) \in Nat
      BY LenProperties
    <3> QED BY <1>0, <1>3, <2>2, <3>1, Typed
  <2>4. Searched'
    <3>1. ASSUME NEW k \in 0..wallet.cursor
          PROVE  k < Len(h) /\ g[k + 1] = h[k + 1]
      <4>1. PICK c \in Int, n \in Nat : c = wallet.cursor /\ n = Len(h) /\ c < n
        BY <1>0, <1>3, <2>2, Typed
      <4>2. k \in 0..c
        BY <4>1
      <4>3. k \in Nat /\ k < Len(h) /\ k + 1 \in 1..Len(h)
        BY <4>1, <4>2
      <4> QED BY <1>3, <4>3
    <3> QED BY <1>0, <1>2, <1>5, <2>2, <3>1 DEF Searched
  <2> QED BY <1>0, <1>5, <2>2, <2>3, <2>4 DEF SearchInv
<1> QED BY <1>6, <1>7, <1>8, <1>9, <1>10, <1>11, <1>12 DEF IInv

(* The chain state is written.                                             *)
LEMMA StoreStateKeeps == ASSUME IInv, StoreState PROVE IInv'
<1>0. PICK next \in {"filters", "scan"} :
      /\ Types /\ CallInv /\ LengthInv /\ ChainInv /\ SavedInv /\ SearchInv
      /\ At("state") /\ server' = server /\ chain' = chain /\ wallet' = wallet
      /\ faults' = faults /\ reorg' = reorg
      /\ disk' = [disk EXCEPT !.state = chain]
      /\ call' = [call EXCEPT !.pc = next]
      /\ next = "filters" <=> call.op = "sync"
  BY DEF StoreState, Goto, IInv
<1>1. /\ call' \in Calls /\ call'.pc = next /\ call'.op = call.op
      /\ call'.target = call.target /\ call'.headerFile = call.headerFile
      /\ call'.filterFile = call.filterFile
  <2>1. next \in Pcs
    BY DEF Pcs
  <2> QED BY <1>0, <2>1, Goes
<1>2. /\ disk' \in Disks /\ disk'.headers = disk.headers /\ disk'.filters = disk.filters
      /\ disk'.state = chain /\ disk'.wallet = disk.wallet
  BY <1>0 DEF Types, Disks
<1>3. Types'
  BY <1>0, <1>1, <1>2 DEF Types
<1>4. CallInv'
  BY <1>0, <1>1 DEF CallInv, At, Following, Tip
<1>5. LengthInv'
  BY <1>0, <1>1, <1>2 DEF LengthInv, At
<1>6. reorg # "torn" => chain = disk.headers /\ Prefix(chain, disk.headers)
  <2>1. reorg # "torn" => chain = disk.headers
    BY <1>0 DEF ChainInv, At
  <2>2. Prefix(chain, chain)
    BY <1>0, Typed, PrefixSelf
  <2> QED BY <2>1, <2>2
<1>7. ChainInv'
  BY <1>0, <1>1, <1>2, <1>6 DEF ChainInv, At
<1>8. StoredInv'
  BY <1>0, <1>2, <1>6 DEF StoredInv
<1>9. SavedInv'
  BY <1>0, <1>1, <1>2 DEF SavedInv, At, Following
<1>10. SearchInv'
  <2>1. Searched' = Searched
    BY <1>0, <1>2 DEF Searched
  <2> QED BY <1>0, <1>1, <1>2, <2>1 DEF SearchInv, At
<1> QED BY <1>3, <1>4, <1>5, <1>7, <1>8, <1>9, <1>10 DEF IInv

(* Filter headers are appended to their file.                              *)
LEMMA FilterStep ==
    ASSUME IInv, NEW fresh \in Seq(Blocks),
           disk' = [disk EXCEPT !.filters = @ \o fresh],
           server' = server, chain' = chain, wallet' = wallet, faults' = faults,
           reorg' = reorg, call' \in Calls, Calm(call.pc), Calm(call'.pc), CallInv',
           StoredInv', SavedInv'
    PROVE  IInv'
<1>0. Types /\ LengthInv /\ ChainInv /\ SearchInv
  BY DEF IInv
<1>1. PICK f \in Seq(Blocks), g \in Seq(Blocks) : f = disk.filters /\ g = f \o fresh
  BY <1>0, Typed, Join
<1>2. /\ Len(f) \in Nat /\ Len(fresh) \in Nat /\ Len(g) = Len(f) + Len(fresh)
      /\ \A i \in 1..Len(f) : g[i] = f[i]
  <2>1. /\ Len(f) \in Nat /\ Len(fresh) \in Nat
        /\ Len(f \o fresh) = Len(f) + Len(fresh)
        /\ \A i \in 1..Len(f) : (f \o fresh)[i] = f[i]
    BY Join
  <2> QED BY <1>1, <2>1
<1>3. /\ disk' \in Disks /\ disk'.headers = disk.headers /\ disk'.filters = g
      /\ disk'.state = disk.state /\ disk'.wallet = disk.wallet
  BY <1>0, <1>1 DEF Types, Disks
<1>4. Types'
  BY <1>0, <1>3 DEF Types
<1>5. LengthInv'
  BY <1>0, <1>3 DEF LengthInv, At, Calm
<1>6. ChainInv'
  BY <1>0, <1>3 DEF ChainInv, At, Calm
<1>7. SearchInv'
  <2>1. SUFFICES ASSUME reorg # "torn" PROVE SearchInv'
    BY DEF SearchInv
  <2>2. /\ wallet.cursor < Len(f) /\ wallet.cursor < Len(disk.headers) /\ Searched
    BY <1>0, <1>1, <2>1 DEF SearchInv, At, Calm
  <2>3. wallet.cursor < Len(g)
    BY <1>0, <1>2, <2>2, Typed
  <2>4. Searched'
    <3>1. ASSUME NEW k \in 0..wallet.cursor
          PROVE  k < Len(f) /\ g[k + 1] = f[k + 1]
      <4>1. PICK c \in Int, n \in Nat : c = wallet.cursor /\ n = Len(f) /\ c < n
        BY <1>0, <1>2, <2>2, Typed
      <4>2. k \in 0..c
        BY <4>1
      <4>3. k \in Nat /\ k < Len(f) /\ k + 1 \in 1..Len(f)
        BY <4>1, <4>2
      <4> QED BY <1>2, <4>3
    <3> QED BY <1>1, <1>3, <2>2, <3>1 DEF Searched
  <2> QED BY <1>3, <2>2, <2>3, <2>4 DEF SearchInv
<1> QED BY <1>4, <1>5, <1>6, <1>7 DEF IInv

LEMMA SyncFiltersKeeps == ASSUME IInv, SyncFilters PROVE IInv'
<1> DEFINE have == Len(disk.filters)
           fresh == Subarray(ServerFile(FileStart(have)), have - FileStart(have))
<1>0. /\ Types /\ CallInv /\ StoredInv /\ SavedInv /\ At("filters") /\ server' = server
      /\ chain' = chain /\ wallet' = wallet /\ faults' = faults
      /\ faults' \in 0..MaxFaults
  BY DEF SyncFilters, IInv, Types
<1>1. CASE disk' = disk /\ IF call.op = "sync" THEN Return ELSE Goto("ranges")
  <2>1. CASE call.op = "sync"
    BY <1>0, <1>1, <2>1, ReturnStep DEF Still
  <2>2. CASE call.op # "sync"
    BY <1>0, <1>1, <2>2, GotoStep DEF Still, Pcs
  <2> QED BY <2>1, <2>2
<1>2. CASE /\ disk' = [disk EXCEPT !.filters = @ \o fresh]
           /\ call' = call /\ reorg' = reorg
  <2>1. fresh \in Seq(Blocks)
    <3>1. PICK n \in Nat, start \in Nat : n = have /\ start = FileStart(n)
      BY <1>0, Typed, FileStarts
    <3>2. ServerFile(start) \in Seq(Blocks)
      BY <1>0, Typed, ServerFiles, Files
    <3>3. Subarray(ServerFile(start), n - start) \in Seq(Blocks)
      BY <3>1, <3>2, Subarrays
    <3> QED BY <3>1, <3>3
  <2>2. CallInv'
    BY <1>0, <1>2 DEF CallInv, At, Following, Tip
  <2>3. StoredInv'
    BY <1>0, <1>2 DEF StoredInv, Following, Types, Disks
  <2>4. SavedInv'
    BY <1>0, <1>2 DEF SavedInv, Following, Tip, Types, Disks
  <2>5. call \in Calls /\ Calm(call.pc)
    BY <1>0 DEF Types, Calm, At
  <2> HIDE DEF fresh
  <2> QED BY <1>0, <1>2, <2>1, <2>2, <2>3, <2>4, <2>5, FilterStep
<1> QED BY <1>1, <1>2 DEF SyncFilters

LEMMA SyncFiltersDoneKeeps == ASSUME IInv, SyncFiltersDone PROVE IInv'
<1>0. /\ At("filters") /\ Still /\ faults' = faults /\ faults' \in 0..MaxFaults
      /\ IF call.op = "sync" THEN Return ELSE Goto("ranges")
  BY DEF SyncFiltersDone, Still, IInv, Types
<1>1. CASE call.op = "sync"
  BY <1>0, <1>1, ReturnStep
<1>2. CASE call.op # "sync"
  BY <1>0, <1>2, GotoStep DEF Pcs
<1> QED BY <1>1, <1>2

(* The blocks of one filter file are searched, and the wallet is saved.    *)
LEMMA ScanRangeKeeps == ASSUME IInv, ScanRange PROVE IInv'
<1> DEFINE from == FileStart(wallet.cursor + 1)
           to == Least(from + PerFile - 1, Tip)
           new == {g \in (wallet.cursor + 1)..to :
                     disk.headers[g + 1] = disk.filters[g + 1]}
           seen == {disk.headers[h + 1] : h \in new}
<1>0. /\ Types /\ CallInv /\ LengthInv /\ ChainInv /\ StoredInv /\ SavedInv /\ SearchInv
      /\ At("ranges") /\ wallet.cursor < Tip /\ server' = server /\ chain' = chain
      /\ faults' = faults /\ faults' \in 0..MaxFaults
  BY DEF ScanRange, IInv, Types
<1>1. CASE Throw /\ wallet' = wallet /\ disk' = disk
  BY <1>0, <1>1, ThrowStep DEF Still, Calm, At
<1>2. CASE /\ Committed(from, to)
           /\ wallet' = [cursor |-> to, found |-> wallet.found \cup seen]
           /\ disk' = [disk EXCEPT !.wallet = wallet']
           /\ call' = call /\ reorg' = reorg
  <2>1. PICK c \in Int, n \in Int, m \in Nat :
          /\ c = wallet.cursor /\ n = to /\ m = Len(disk.headers)
          /\ -1 <= c /\ c < n /\ n <= Tip /\ n <= MaxTip
    <3>1. PICK c \in Int, k \in Int, m \in Nat, w \in Nat :
            /\ c = wallet.cursor /\ k = Tip /\ m = Len(disk.headers)
            /\ w = c + 1 /\ c < k /\ k <= MaxTip
      BY <1>0, Typed
    <3>2. PICK start \in Nat, p \in Nat : /\ start = FileStart(w) /\ p = PerFile
                                          /\ w < start + p
      BY FileStarts, Bounds
    <3>3. start = from
      BY <3>1, <3>2
    <3>4. PICK n \in Int : n = Least(start + p - 1, k)
      BY <3>1, <3>2 DEF Least
    <3>5. c < n /\ n <= k
      BY <3>1, <3>2, <3>4 DEF Least
    <3>6. n = to
      BY <3>1, <3>2, <3>3, <3>4
    <3> QED BY <3>1, <3>5, <3>6, Bounds
  <2>2. n < m /\ n < Len(disk.filters)
    BY <1>2, <2>1 DEF Committed
  <2>3. disk.headers \in Seq(Blocks) /\ m = Len(disk.headers)
    BY <1>0, <2>1, Typed
  <2>4. new = {g \in (c + 1)..n : disk.headers[g + 1] = disk.filters[g + 1]}
    BY <2>1
  <2> HIDE DEF from, to, new
  <2>5. seen \subseteq Blocks
    <3>1. SUFFICES ASSUME NEW h \in new PROVE disk.headers[h + 1] \in Blocks
      OBVIOUS
    <3>2. h + 1 \in 1..m
      BY <2>1, <2>2, <2>4
    <3> QED BY <2>3, <3>2, LenProperties
  <2>6. PICK w : w = [cursor |-> n, found |-> wallet.found \cup seen]
    OBVIOUS
  <2>7. wallet' = w /\ w.cursor = n /\ w.found = wallet.found \cup seen /\ w \in Wallets
    <3>1. n \in -1..MaxTip /\ wallet.found \cup seen \in SUBSET Blocks
      BY <1>0, <2>1, <2>5, Typed
    <3> HIDE DEF seen
    <3> QED BY <1>2, <2>1, <2>6, <3>1 DEF Wallets
  <2>8. /\ disk' \in Disks /\ disk'.headers = disk.headers
        /\ disk'.filters = disk.filters /\ disk'.state = disk.state
        /\ disk'.wallet = w
    BY <1>0, <1>2, <2>7 DEF Types, Disks
  <2>9. Types'
    BY <1>0, <1>2, <2>7, <2>8 DEF Types
  <2>10. CallInv'
    BY <1>0, <1>2 DEF CallInv, At, Following, Tip
  <2>11. LengthInv' /\ ChainInv' /\ StoredInv'
    BY <1>0, <1>2, <2>8 DEF LengthInv, ChainInv, StoredInv, At, Following
  <2>12. SavedInv'
    BY <2>7, <2>8 DEF SavedInv
  <2>13. SearchInv'
    <3>1. SUFFICES ASSUME reorg # "torn" PROVE SearchInv'
      BY <1>2 DEF SearchInv
    <3>2. Searched
      BY <1>0, <3>1 DEF SearchInv
    <3>3. ASSUME NEW h \in 0..n, h < Len(disk.headers), h < Len(disk.filters),
                 disk.headers[h + 1] = disk.filters[h + 1]
          PROVE  disk.headers[h + 1] \in w.found
      <4>1. CASE h <= c
        <5>1. h \in 0..wallet.cursor
          BY <2>1, <4>1
        <5> QED BY <2>7, <3>2, <3>3, <5>1 DEF Searched
      <4>2. CASE ~(h <= c)
        <5>1. h \in (c + 1)..n
          BY <2>1, <4>2
        <5>2. h \in new
          BY <2>4, <3>3, <5>1
        <5> QED BY <2>7, <5>2
      <4> QED BY <4>1, <4>2
    <3>4. Searched'
      BY <2>7, <2>8, <3>3 DEF Searched
    <3> QED BY <2>1, <2>2, <2>7, <2>8, <3>4 DEF SearchInv
  <2> QED BY <2>9, <2>10, <2>11, <2>12, <2>13 DEF IInv
<1> QED BY <1>1, <1>2 DEF ScanRange

LEMMA ScanDoneKeeps == ASSUME IInv, ScanDone PROVE IInv'
<1>1. Still /\ faults' \in 0..MaxFaults /\ Return /\ At("ranges") /\ wallet.cursor >= Tip
  BY DEF ScanDone, Still, IInv, Types
<1> QED BY <1>1, ReturnStep DEF At

(* followTip() downloads the next header and filter-header file.           *)
LEMMA TailHeadersKeeps == ASSUME IInv, TailHeaders PROVE IInv'
<1> DEFINE file == ServerFile(FileStart(Tip + 1))
<1>0. /\ Types /\ CallInv /\ StoredInv /\ SavedInv /\ Still /\ At("tail")
      /\ Tip < call.target /\ faults' \in 0..MaxFaults /\ reorg' = reorg
      /\ call' = [call EXCEPT !.headerFile = {file}]
  BY DEF TailHeaders, Still, IInv, Types
<1>1. PICK f : f = file
  OBVIOUS
<1>2. f = File(server.branch, server.tip, FileStart(Tip + 1))
  BY <1>1 DEF ServerFile, ServerChain, File
<1>3. f \in Seq(Blocks)
  <2>1. PICK n \in Nat : n = Tip + 1
    BY <1>0, Typed
  <2>2. PICK start \in Nat : start = FileStart(n) /\ FileStart(Tip + 1) = start
    BY <2>1, FileStarts
  <2> QED BY <1>0, <1>2, <2>2, Typed, Files
<1> HIDE DEF file
<1>4. /\ call' \in Calls /\ call'.pc = call.pc /\ call'.op = call.op
      /\ call'.target = call.target /\ call'.headerFile = {f}
      /\ call'.filterFile = call.filterFile
  BY <1>0, <1>1, <1>3 DEF Types, Calls
<1>5. CallInv'
  <2>1. /\ server.branch \in Branches /\ server.tip \in 0..MaxTip
        /\ call.target <= server.tip
    BY <1>0, Typed DEF CallInv
  <2>2. Tip' = Tip /\ server' = server
    BY <1>0 DEF Still, Tip
  <2> QED BY <1>0, <1>2, <1>4, <2>1, <2>2 DEF CallInv, At, Following
<1>6. StoredInv' /\ SavedInv'
  BY <1>0, <1>4 DEF StoredInv, SavedInv, Following, At, Still
<1> QED BY <1>0, <1>4, <1>5, <1>6, QuietStep DEF Calm, At

LEMMA TailFiltersKeeps == ASSUME IInv, TailFilters PROVE IInv'
<1> DEFINE file == ServerFile(FileStart(Tip + 1))
<1>0. /\ Types /\ CallInv /\ StoredInv /\ SavedInv /\ Still /\ At("tail")
      /\ faults' \in 0..MaxFaults /\ reorg' = reorg
      /\ call' = [call EXCEPT !.filterFile = {file}]
  BY DEF TailFilters, Still, IInv, Types
<1>1. PICK f \in Seq(Blocks) : f = file
  <2>1. PICK n \in Nat : n = Tip + 1
    BY <1>0, Typed
  <2>2. PICK start \in Nat : start = FileStart(n) /\ FileStart(Tip + 1) = start
    BY <2>1, FileStarts
  <2>3. ServerFile(start) \in Seq(Blocks)
    BY <1>0, Typed, ServerFiles, Files
  <2> QED BY <2>2, <2>3
<1> HIDE DEF file
<1>4. /\ call' \in Calls /\ call'.pc = call.pc /\ call'.op = call.op
      /\ call'.target = call.target /\ call'.headerFile = call.headerFile
  BY <1>0, <1>1 DEF Types, Calls
<1>5. CallInv'
  <2>1. Tip' = Tip /\ server' = server
    BY <1>0 DEF Still, Tip
  <2> QED BY <1>0, <1>4, <2>1 DEF CallInv, At, Following
<1>6. StoredInv' /\ SavedInv'
  BY <1>0, <1>4 DEF StoredInv, SavedInv, Following, At, Still
<1> QED BY <1>0, <1>4, <1>5, <1>6, QuietStep DEF Calm, At

(* What is in the header file of a call, and not yet in the chain.         *)
LEMMA FreshIs ==
    ASSUME Types, CallInv, Both
    PROVE  /\ At("tail") /\ Tip < call.target /\ Fresh \in Seq(Blocks) /\ Fresh # << >>
           /\ Len(chain) + Len(Fresh) <= MaxTip + 1
           /\ \E b \in Branches :
                \A i \in 1..Len(Fresh) : Fresh[i] = Block(b, Len(chain) + i - 1)
<1>1. PICK f : f = (CHOOSE g \in call.headerFile : TRUE)
  OBVIOUS
<1>2. f \in call.headerFile
  BY <1>1 DEF Both
<1>3. At("tail") /\ Tip < call.target
  BY <1>2 DEF CallInv
<1>4. PICK b \in Branches, tip \in 0..MaxTip :
        call.target <= tip /\ f = File(b, tip, FileStart(Tip + 1))
  BY <1>2 DEF CallInv
<1>5. Tip < tip
  BY <1>3, <1>4, Typed, Bounds
<1>6. PICK s : s = Fresh
  OBVIOUS
<1>7. s = Subarray(File(b, tip, FileStart(Tip + 1)), Tip + 1 - FileStart(Tip + 1))
  BY <1>1, <1>4, <1>6 DEF Fresh
<1>8. /\ s \in Seq(Blocks) /\ s # << >> /\ Len(chain) + Len(s) <= MaxTip + 1
      /\ \A i \in 1..Len(s) : s[i] = Block(b, Len(chain) + i - 1)
  BY <1>5, <1>7, NewHeaders
<1> QED BY <1>3, <1>6, <1>8

LEMMA TailAppendKeeps == ASSUME IInv, TailAppend PROVE IInv'
<1>0. /\ Types /\ CallInv /\ At("tail") /\ Both /\ server' = server /\ wallet' = wallet
      /\ disk' = disk /\ faults' = faults /\ reorg' = reorg
      /\ Connects(Fresh, chain) /\ chain' = chain \o Fresh
      /\ call' = [call EXCEPT !.pc = "store", !.headerFile = {},
                              !.fresh = Fresh, !.boundary = FileStart(Tip + 1)]
  BY DEF TailAppend, IInv
<1>1. PICK f \in Seq(Blocks), b \in Branches :
        /\ f = Fresh /\ f # << >> /\ Len(chain) + Len(f) <= MaxTip + 1
        /\ \A i \in 1..Len(f) : f[i] = Block(b, Len(chain) + i - 1)
  BY <1>0, FreshIs
<1>2. PICK start \in Nat : start = FileStart(Tip + 1)
  <2>1. PICK n \in Nat : n = Tip + 1
    BY <1>0, Typed
  <2>2. FileStart(n) \in Nat
    BY FileStarts
  <2> QED BY <2>1, <2>2
<1>3. call' = [call EXCEPT !.pc = "store", !.headerFile = {}, !.fresh = f,
                           !.boundary = start]
  BY <1>0, <1>1, <1>2
<1>4. /\ call' \in Calls /\ call'.pc = "store" /\ call'.op = call.op
      /\ call'.target = call.target /\ call'.headerFile = {}
      /\ call'.filterFile = call.filterFile /\ call'.fresh = f
  BY <1>0, <1>3 DEF Types, Calls, Pcs
<1>5. call'.filterFile # {}
  BY <1>0, <1>4 DEF Both
<1> QED BY <1>0, <1>1, <1>4, <1>5, AppendStep

LEMMA StoreTailFiltersKeeps == ASSUME IInv, StoreTailFilters PROVE IInv'
<1> DEFINE file == CHOOSE f \in call.filterFile : TRUE
           fresh == Subarray(file, Len(disk.filters) - call.boundary)
<1>0. /\ Types /\ CallInv /\ SavedInv /\ At("tailfilters") /\ server' = server
      /\ chain' = chain /\ wallet' = wallet /\ faults' = faults /\ reorg' = reorg
      /\ disk' = [disk EXCEPT !.filters = @ \o fresh]
      /\ call' = [call EXCEPT !.pc = "tail", !.filterFile = {}, !.boundary = 0]
  BY DEF StoreTailFilters, IInv
<1>1. PICK s \in Seq(Blocks) : s = fresh
  <2>1. call.filterFile # {} /\ call.filterFile \in SUBSET Seq(Blocks)
    BY <1>0 DEF CallInv, Types, Calls
  <2>2. file \in Seq(Blocks)
    BY <2>1
  <2>3. PICK g \in Seq(Blocks), k \in Int : g = file /\ k = Len(disk.filters) - call.boundary
    <3>1. PICK n \in Nat, m \in Nat : n = Len(disk.filters) /\ m = call.boundary
      BY <1>0, Typed DEF Types, Calls
    <3>2. n - m \in Int
      OBVIOUS
    <3> QED BY <2>2, <3>1, <3>2
  <2>4. Subarray(g, k) \in Seq(Blocks)
    BY Subarrays
  <2> QED BY <2>3, <2>4
<1> HIDE DEF fresh
<1>2. /\ call' \in Calls /\ call'.pc = "tail" /\ call'.op = call.op
      /\ call'.target = call.target /\ call'.headerFile = call.headerFile
  <2>1. 0 \in Nat /\ {} \in SUBSET Seq(Blocks)
    OBVIOUS
  <2> QED BY <1>0, <2>1 DEF Types, Calls, Pcs
<1>3. CallInv'
  BY <1>0, <1>2 DEF CallInv, At, Following
<1>4. StoredInv'
  BY <1>2 DEF StoredInv
<1>5. SavedInv'
  BY <1>0, <1>2 DEF SavedInv, At, Following, Types, Disks
<1> QED BY <1>0, <1>1, <1>2, <1>3, <1>4, <1>5, FilterStep DEF Calm, At

LEMMA TailDoneKeeps == ASSUME IInv, TailDone PROVE IInv'
<1>0. /\ Types /\ CallInv /\ SavedInv /\ Still /\ At("tail") /\ reorg' = reorg
      /\ faults' \in 0..MaxFaults
      /\ Tip >= call.target \/ (Both /\ Fresh = << >>)
      /\ call' = [call EXCEPT !.pc = "state", !.headerFile = {}, !.filterFile = {}]
  BY DEF TailDone, Still, IInv, Types
<1>1. call.target <= Tip
  BY <1>0, FreshIs, Typed
<1>2. /\ call' \in Calls /\ call'.pc = "state" /\ call'.op = call.op
      /\ call'.target = call.target /\ call'.headerFile = {}
  BY <1>0 DEF Types, Calls, Pcs
<1>3. CallInv'
  BY <1>0, <1>1, <1>2 DEF CallInv, At, Following, Still, Tip
<1>4. StoredInv'
  BY <1>2 DEF StoredInv
<1>5. SavedInv'
  BY <1>0, <1>2 DEF SavedInv, At, Following, Still
<1> QED BY <1>0, <1>2, <1>3, <1>4, <1>5, QuietStep DEF Calm, At

-----------------------------------------------------------------------------
(* The rollback of a reorganisation.                                       *)
LEMMA RollBackKeeps ==
    ASSUME IInv, At("tail"), Tip < call.target, RollBack, server' = server,
           wallet' = wallet, disk' = disk, faults' \in 0..MaxFaults
    PROVE  IInv'
<1> DEFINE back == Most(0, call.old - Depth)
<1>0. Types /\ CallInv /\ LengthInv /\ ChainInv /\ SavedInv /\ SearchInv
  BY DEF IInv
<1>1. CASE Throw /\ chain' = chain
  BY <1>1, ThrowStep DEF Still, Calm, At
<1>2. CASE /\ ~(back >= Tip) /\ chain' = SubSeq(chain, 1, back + 1)
           /\ call' = [call EXCEPT !.pc = "truncate", !.retried = TRUE,
                                   !.headerFile = {}, !.filterFile = {}]
           /\ reorg' = IF reorg = "none" THEN "open" ELSE reorg
  <2>1. PICK k \in Nat, m \in Nat :
          /\ m = Len(chain) /\ k = back + 1 /\ k < m /\ k - 1 < call.target
    <3>1. PICK o \in Int, d \in Nat, m \in Nat, e \in Int :
            /\ o = call.old /\ d = Depth /\ m = Len(chain) /\ e = call.target
            /\ Tip = m - 1 /\ m - 1 < e
      <4>1. call.old \in Int
        BY <1>0 DEF Types, Calls
      <4> QED BY <1>0, <4>1, Typed, Bounds
    <3>2. PICK b \in Nat : b = Most(0, o - d)
      BY <3>1 DEF Most
    <3>3. b < m - 1 /\ b = back
      BY <1>2, <3>1, <3>2
    <3> HIDE DEF back
    <3>4. PICK k \in Nat : k = b + 1 /\ k < m /\ k - 1 < e
      BY <3>1, <3>2, <3>3
    <3>5. k = back + 1 /\ m = Len(chain) /\ k - 1 < call.target
      BY <3>1, <3>3, <3>4
    <3> QED BY <3>4, <3>5
  <2> HIDE DEF back
  <2>2. PICK c \in Seq(Blocks), s \in Seq(Blocks) :
          /\ s = chain /\ c = SubSeq(s, 1, k) /\ Len(c) = k /\ c \in Chains
          /\ Linked(s) => Linked(c)
    <3>1. PICK s \in Seq(Blocks) : s = chain /\ k \in 0..Len(s) /\ Len(s) <= MaxTip + 1
      BY <1>0, <2>1, Typed
    <3>2. SubSeq(s, 1, k) \in Seq(Blocks) /\ Len(SubSeq(s, 1, k)) = k
      BY <3>1, Cut
    <3>3. SubSeq(s, 1, k) \in Chains
      <4>1. Len(SubSeq(s, 1, k)) <= MaxTip + 1
        BY <3>1, <3>2, Bounds, LenProperties
      <4> QED BY <3>2, <4>1, ChainsAre
    <3>4. Linked(s) => Linked(SubSeq(s, 1, k))
      BY <3>1, LinkedCut
    <3> QED BY <3>1, <3>2, <3>3, <3>4
  <2>3. chain' = c
    BY <1>2, <2>1, <2>2
  <2>4. /\ call' \in Calls /\ call'.pc = "truncate" /\ call'.op = call.op
        /\ call'.target = call.target /\ call'.headerFile = {}
    <3>1. {} \in SUBSET Seq(Blocks) /\ TRUE \in BOOLEAN
      OBVIOUS
    <3> QED BY <1>0, <1>2, <3>1 DEF Types, Calls, Pcs
  <2>5. reorg' \in {"none", "open", "torn"} /\ reorg' # "none"
    BY <1>0, <1>2 DEF Types
  <2>6. Types'
    BY <1>0, <2>2, <2>3, <2>4, <2>5 DEF Types
  <2>7. CallInv'
    <3>1. Tip' < call'.target
      BY <2>1, <2>2, <2>3, <2>4 DEF Tip
    <3> QED BY <1>0, <2>4, <2>5, <3>1 DEF CallInv, At, Following
  <2>8. LengthInv'
    <3>1. Len(chain) = Len(disk.headers)
      BY <1>0 DEF LengthInv, At
    <3> QED BY <2>1, <2>2, <2>3, <2>4, <3>1 DEF LengthInv, At
  <2>9. ChainInv'
    <3>1. SUFFICES ASSUME reorg' # "torn" PROVE ChainInv'
      BY DEF ChainInv
    <3>2. /\ Linked(chain) /\ Linked(disk.headers) /\ chain = disk.headers
      BY <1>0, <1>2, <3>1 DEF ChainInv, At
    <3>3. Prefix(c, disk.headers)
      BY <2>1, <2>2, <3>2 DEF Prefix
    <3> QED BY <2>2, <2>3, <2>4, <2>5, <3>2, <3>3 DEF ChainInv, At
  <2>10. StoredInv'
    BY <2>4 DEF StoredInv
  <2>11. SavedInv'
    <3>1. reorg' = "open" => reorg = "none" \/ reorg = "open"
      BY <1>2
    <3> QED BY <1>0, <2>4, <2>5, <3>1 DEF SavedInv, At, Following
  <2>12. SearchInv'
    <3>1. Searched' = Searched /\ (reorg' # "torn" => reorg # "torn")
      BY <1>2 DEF Searched
    <3> QED BY <1>0, <2>4, <3>1 DEF SearchInv, At
  <2> QED BY <2>6, <2>7, <2>8, <2>9, <2>10, <2>11, <2>12 DEF IInv
<1> QED BY <1>1, <1>2 DEF RollBack

LEMMA TailMismatchKeeps == ASSUME IInv, TailMismatch PROVE IInv'
<1>1. /\ Types /\ CallInv /\ At("tail") /\ Both /\ RollBack /\ server' = server
      /\ wallet' = wallet /\ disk' = disk /\ faults' \in 0..MaxFaults
  BY DEF TailMismatch, IInv, Types
<1> QED BY <1>1, FreshIs, RollBackKeeps

LEMMA FetchFailedKeeps == ASSUME IInv, FetchFailed PROVE IInv'
<1>1. /\ Types /\ server' = server /\ wallet' = wallet /\ disk' = disk
      /\ faults < MaxFaults /\ faults' = faults + 1
  BY DEF FetchFailed, IInv
<1>2. faults' \in 0..MaxFaults
  BY <1>1, Bounds DEF Types
<1>3. CASE /\ call.pc \in {"headers", "filters", "scan", "ranges"}
           /\ Throw /\ chain' = chain
  BY <1>1, <1>2, <1>3, ThrowStep DEF Still, Calm
<1>4. CASE At("tail") /\ Tip < call.target /\ RollBack
  BY <1>1, <1>2, <1>4, RollBackKeeps
<1> QED BY <1>3, <1>4 DEF FetchFailed, At

(* headers.bin is cut to what the chain in memory was rolled back to.      *)
LEMMA TruncateHeadersKeeps == ASSUME IInv, TruncateHeaders PROVE IInv'
<1>0. /\ Types /\ CallInv /\ LengthInv /\ ChainInv /\ SavedInv /\ SearchInv
      /\ At("truncate") /\ server' = server /\ chain' = chain /\ wallet' = wallet
      /\ faults' = faults /\ reorg' = reorg
      /\ disk' = [disk EXCEPT !.headers = SubSeq(@, 1, Len(chain))]
      /\ call' = [call EXCEPT !.pc = "truncatefilters"]
  BY DEF TruncateHeaders, Goto, IInv
<1>1. /\ call' \in Calls /\ call'.pc = "truncatefilters" /\ call'.op = call.op
      /\ call'.target = call.target /\ call'.headerFile = call.headerFile
  BY <1>0, Goes DEF Pcs
<1>2. PICK h \in Seq(Blocks), n \in Nat, m \in Nat :
        h = disk.headers /\ n = Len(chain) /\ m = Len(h) /\ n <= m /\ n <= MaxTip + 1
  BY <1>0, Typed DEF LengthInv
<1>3. PICK g : g = SubSeq(h, 1, n)
  OBVIOUS
<1>4. g \in Seq(Blocks) /\ Len(g) = n /\ \A i \in 1..n : g[i] = h[i]
  <2>1. n \in 0..Len(h)
    BY <1>2
  <2> QED BY <1>3, <2>1, Cut
<1>5. g \in Chains
  BY <1>2, <1>4, ChainsAre
<1>6. /\ disk' \in Disks /\ disk'.headers = g /\ disk'.filters = disk.filters
      /\ disk'.state = disk.state /\ disk'.wallet = disk.wallet
  BY <1>0, <1>2, <1>3, <1>5 DEF Types, Disks
<1>7. Types'
  BY <1>0, <1>1, <1>6 DEF Types
<1>8. CallInv'
  BY <1>0, <1>1 DEF CallInv, At, Following, Tip
<1>9. LengthInv'
  BY <1>1, <1>0, <1>2, <1>4, <1>6 DEF LengthInv, At
<1>10. ChainInv'
  <2>1. SUFFICES ASSUME reorg # "torn" PROVE ChainInv'
    BY <1>0 DEF ChainInv
  <2>2. Linked(chain) /\ Prefix(chain, disk.headers)
    BY <1>0, <2>1 DEF ChainInv
  <2>3. chain = g
    BY <1>2, <1>3, <2>2 DEF Prefix
  <2>4. reorg # "none"
    BY <1>0 DEF CallInv, At
  <2> QED BY <1>0, <1>1, <1>6, <2>2, <2>3, <2>4 DEF ChainInv, At
<1>11. StoredInv'
  BY <1>1 DEF StoredInv
<1>12. SavedInv'
  BY <1>0, <1>1, <1>6 DEF SavedInv, At, Following
<1>13. SearchInv'
  <2>1. SUFFICES ASSUME reorg # "torn" PROVE SearchInv'
    BY <1>0 DEF SearchInv
  <2>2. wallet.cursor < Len(disk.filters) /\ Searched
    BY <1>0, <2>1 DEF SearchInv
  <2>3. Searched'
    <3>1. ASSUME NEW k \in 0..wallet.cursor, k < n PROVE k < m /\ g[k + 1] = h[k + 1]
      <4>1. k \in Nat
        BY <1>0, Typed
      <4>2. k < m /\ k + 1 \in 1..n
        BY <1>2, <3>1, <4>1
      <4> QED BY <1>4, <4>2
    <3>2. ASSUME NEW k \in 0..wallet.cursor, k < Len(g), k < Len(disk.filters),
                 g[k + 1] = disk.filters[k + 1]
          PROVE  g[k + 1] \in wallet.found
      <4>1. k < Len(disk.headers) /\ g[k + 1] = disk.headers[k + 1]
        BY <1>2, <1>4, <3>1, <3>2
      <4> QED BY <2>2, <3>2, <4>1 DEF Searched
    <3> QED BY <1>0, <1>6, <3>2 DEF Searched
  <2> QED BY <1>0, <1>1, <1>6, <2>2, <2>3 DEF SearchInv, At
<1> QED BY <1>7, <1>8, <1>9, <1>10, <1>11, <1>12, <1>13 DEF IInv

(* The filter headers follow, and the cursor is pulled back in memory.     *)
LEMMA TruncateFiltersKeeps == ASSUME IInv, TruncateFilters PROVE IInv'
<1>0. /\ Types /\ CallInv /\ LengthInv /\ ChainInv /\ SavedInv /\ SearchInv
      /\ At("truncatefilters") /\ server' = server /\ chain' = chain
      /\ faults' = faults /\ reorg' = reorg
      /\ disk' = [disk EXCEPT !.filters = SubSeq(@, 1, Least(Len(@), Len(chain)))]
      /\ wallet' = [wallet EXCEPT !.cursor = Least(@, Tip)]
      /\ call' = [call EXCEPT !.pc = "tail"]
  BY DEF TruncateFilters, Goto, IInv
<1>1. /\ call' \in Calls /\ call'.pc = "tail" /\ call'.op = call.op
      /\ call'.target = call.target /\ call'.headerFile = call.headerFile
  BY <1>0, Goes DEF Pcs
<1>2. PICK f \in Seq(Blocks), m \in Nat, n \in Nat, k \in Nat :
        /\ f = disk.filters /\ m = Len(f) /\ k = Len(chain)
        /\ n = Least(m, k) /\ n <= m /\ n <= k /\ (n = m \/ n = k)
  <2>1. PICK f \in Seq(Blocks), m \in Nat, k \in Nat :
          f = disk.filters /\ m = Len(f) /\ k = Len(chain)
    BY <1>0, Typed
  <2>2. PICK n \in Nat :
          n = Least(m, k) /\ n <= m /\ n <= k /\ (n = m \/ n = k)
    BY DEF Least
  <2> QED BY <2>1, <2>2
<1>3. PICK g : g = SubSeq(f, 1, n)
  OBVIOUS
<1>4. g \in Seq(Blocks) /\ Len(g) = n /\ \A i \in 1..n : g[i] = f[i]
  <2>1. n \in 0..Len(f)
    BY <1>2
  <2> QED BY <1>3, <2>1, Cut
<1>5. PICK c \in Int, d \in Int :
        /\ c = wallet.cursor /\ d = Least(c, Tip) /\ d <= c /\ d <= Tip
        /\ d \in -1..MaxTip /\ d < k /\ Tip = k - 1
  <2>1. PICK c \in Int, e \in Int :
          c = wallet.cursor /\ e = Tip /\ e = k - 1 /\ -1 <= c /\ c <= MaxTip
    BY <1>0, <1>2, Typed
  <2>2. PICK d \in Int : d = Least(c, e) /\ d <= c /\ d <= e /\ (d = c \/ d = e)
    BY <2>1 DEF Least
  <2>3. d \in -1..MaxTip /\ d < k
    BY <1>2, <2>1, <2>2, Bounds
  <2> QED BY <2>1, <2>2, <2>3
<1>6. /\ disk' \in Disks /\ disk'.headers = disk.headers /\ disk'.filters = g
      /\ disk'.state = disk.state /\ disk'.wallet = disk.wallet
  BY <1>0, <1>2, <1>3, <1>4 DEF Types, Disks
<1>7. wallet' \in Wallets /\ wallet'.cursor = d /\ wallet'.found = wallet.found
  BY <1>0, <1>5 DEF Types, Wallets
<1>8. Types'
  BY <1>0, <1>1, <1>6, <1>7 DEF Types
<1>9. CallInv'
  BY <1>0, <1>1 DEF CallInv, At, Following
<1>10. LengthInv'
  BY <1>0, <1>1, <1>6 DEF LengthInv, At
<1>11. ChainInv'
  BY <1>0, <1>1, <1>6 DEF ChainInv, At
<1>12. StoredInv'
  BY <1>1 DEF StoredInv
<1>13. SavedInv'
  <2>1. reorg # "none" /\ Tip < call.target /\ call.target <= server.tip
    BY <1>0 DEF CallInv, At
  <2>2. d < call.target /\ d < server.tip
    BY <1>0, <1>5, <2>1, Typed
  <2> QED BY <1>0, <1>1, <1>7, <2>1, <2>2 DEF SavedInv, Following
<1>14. SearchInv'
  <2>1. SUFFICES ASSUME reorg # "torn" PROVE SearchInv'
    BY <1>0 DEF SearchInv
  <2>2. /\ c < m /\ Searched /\ k = Len(disk.headers)
    BY <1>0, <1>2, <1>5, <2>1 DEF SearchInv, LengthInv, At
  <2>3. d < n
    BY <1>2, <1>5, <2>2
  <2>4. ASSUME NEW h \in 0..d, h < Len(disk.headers), h < Len(g),
               disk.headers[h + 1] = g[h + 1]
        PROVE  disk.headers[h + 1] \in wallet.found
    <3>1. h \in 0..wallet.cursor /\ h + 1 \in 1..n /\ h < Len(disk.filters)
      BY <1>2, <1>5, <2>3
    <3>2. g[h + 1] = disk.filters[h + 1]
      BY <1>2, <1>4, <3>1
    <3> QED BY <2>2, <2>4, <3>1, <3>2 DEF Searched
  <2>5. Searched'
    BY <1>6, <1>7, <2>4 DEF Searched
  <2> QED BY <1>4, <1>5, <1>6, <1>7, <2>2, <2>3, <2>5 DEF SearchInv
<1> QED BY <1>8, <1>9, <1>10, <1>11, <1>12, <1>13, <1>14 DEF IInv

-----------------------------------------------------------------------------
(* The process dies, and open() resumes.                                   *)
LEMMA ResumedIs ==
    ASSUME IInv
    PROVE  /\ Resumed \in Chains /\ Len(Resumed) = Len(disk.headers)
           /\ reorg = "none" => Resumed = disk.headers /\ Linked(Resumed)
<1>0. Types /\ ChainInv
  BY DEF IInv
<1>1. disk.state \in Chains /\ disk.headers \in Chains
  BY <1>0 DEF Types, Disks
<1>2. ASSUME reorg = "none", Len(disk.state) = Len(disk.headers)
      PROVE  disk.state = disk.headers
  <2>1. PICK h \in Seq(Blocks) : h = disk.headers
    BY <1>0, Typed
  <2>2. disk.state = SubSeq(h, 1, Len(h))
    BY <1>0, <1>2, <2>1 DEF ChainInv, Prefix
  <2>3. SubSeq(h, 1, Len(h)) = h
    BY SubSeqFull
  <2> QED BY <2>1, <2>2, <2>3
<1>3. reorg = "none" => Linked(disk.headers)
  BY <1>0 DEF ChainInv
<1> QED BY <1>1, <1>2, <1>3 DEF Resumed

LEMMA CrashSteps ==
    ASSUME IInv, Crash, call' \in Calls, call'.op = "none", call'.target = -1,
           call'.headerFile = {}, chain' \in Chains,
           \/ call'.pc = "idle" /\ chain' = Resumed
           \/ call'.pc = "closed" /\ reorg # "none"
    PROVE  IInv'
<1>0. /\ Types /\ CallInv /\ LengthInv /\ ChainInv /\ SavedInv /\ SearchInv
      /\ server' = server /\ disk' = disk /\ wallet' = disk.wallet
      /\ faults < MaxFaults /\ faults' = faults + 1
      /\ reorg' = IF reorg = "open" THEN "torn" ELSE reorg
  BY DEF Crash, IInv
<1>1. reorg' \in {"none", "torn"} /\ (reorg' = "none" <=> reorg = "none")
  BY <1>0 DEF Types
<1>2. Types'
  <2>1. faults' \in 0..MaxFaults
    BY <1>0, Bounds DEF Types
  <2> QED BY <1>0, <1>1, <2>1 DEF Types, Disks
<1>3. CallInv'
  BY <1>0, Typed DEF CallInv, At, Following
<1>4. LengthInv'
  BY <1>0, ResumedIs DEF LengthInv, At
<1>5. ChainInv'
  BY <1>0, <1>1, ResumedIs DEF ChainInv, At
<1>6. StoredInv'
  BY DEF StoredInv, Following
<1>7. SavedInv'
  BY <1>0, <1>1 DEF SavedInv
<1>8. SearchInv'
  <2>1. SUFFICES ASSUME reorg = "none" PROVE SearchInv'
    BY <1>1 DEF SearchInv
  <2>2. wallet' = wallet /\ ~At("truncatefilters")
    BY <1>0, <2>1 DEF SavedInv, CallInv, At
  <2>3. Searched' = Searched
    BY <1>0, <2>2 DEF Searched
  <2> QED BY <1>0, <2>1, <2>2, <2>3 DEF SearchInv
<1> QED BY <1>2, <1>3, <1>4, <1>5, <1>6, <1>7, <1>8 DEF IInv

LEMMA ReopenKeeps == ASSUME IInv, Reopen PROVE IInv'
<1>1. Crash /\ chain' = Resumed /\ call' = Idle
  BY DEF Reopen
<1> QED BY <1>1, IdleIs, ResumedIs, CrashSteps

LEMMA ReopenFailedKeeps == ASSUME IInv, ReopenFailed PROVE IInv'
<1>1. /\ Crash /\ ~Linked(Resumed) /\ chain' = << >>
      /\ call' = [Idle EXCEPT !.pc = "closed"]
  BY DEF ReopenFailed
<1>2. reorg # "none"
  BY <1>1, ResumedIs
<1>3. << >> \in Chains
  <2>1. << >> \in Seq(Blocks) /\ Len(<< >>) <= MaxTip + 1
    BY Bounds, EmptySeq
  <2> QED BY <2>1, ChainsAre
<1>4. /\ call' \in Calls /\ call'.pc = "closed" /\ call'.op = "none"
      /\ call'.target = -1 /\ call'.headerFile = {}
  <2>1. "closed" \in Pcs
    BY DEF Pcs
  <2> QED BY <1>1, <2>1, IdleIs DEF Calls
<1> QED BY <1>1, <1>2, <1>3, <1>4, CrashSteps

-----------------------------------------------------------------------------
LEMMA InitIInv == ASSUME Init PROVE IInv
<1>1. PICK tip \in 0..MaxTip : server = [branch |-> Trunk, tip |-> tip]
  BY DEF Init
<1>2. /\ chain = << >> /\ disk = FreshStore /\ wallet = FreshStore.wallet
      /\ call = Idle /\ faults = 0 /\ reorg = "none"
  BY DEF Init
<1>3. /\ << >> \in Seq(Blocks) /\ Len(<< >>) = 0 /\ << >> \in Chains
      /\ Linked(<< >>) /\ Prefix(<< >>, << >>)
  <2>1. PICK e \in Seq(Blocks) : e = << >> /\ Len(e) = 0
    <3>1. << >> \in Seq(Blocks)
      BY EmptySeq
    <3>2. Len(<< >>) = 0
      OBVIOUS
    <3> QED BY <3>1, <3>2
  <2>2. e \in Chains
    <3>1. Len(e) <= MaxTip + 1
      BY <2>1, Bounds
    <3> QED BY <3>1, ChainsAre
  <2>3. Linked(e)
    <3>1. 1..Len(e) = {}
      BY <2>1
    <3> QED BY <3>1 DEF Linked
  <2>4. Prefix(e, e)
    BY PrefixSelf
  <2> QED BY <2>1, <2>2, <2>3, <2>4
<1>4. /\ disk.headers = << >> /\ disk.filters = << >> /\ disk.state = << >>
      /\ wallet = [cursor |-> -1, found |-> {}] /\ disk.wallet = wallet
      /\ disk = [headers |-> << >>, filters |-> << >>, state |-> << >>,
                 wallet |-> wallet]
  BY <1>2 DEF FreshStore
<1>5. wallet \in Wallets
  <2>1. -1 \in -1..MaxTip /\ {} \in SUBSET Blocks
    BY Bounds
  <2> QED BY <1>4, <2>1 DEF Wallets
<1>6. Types
  <2>1. server \in [branch : Branches, tip : 0..MaxTip] /\ faults \in 0..MaxFaults
    BY <1>1, <1>2, Bounds
  <2>2. disk \in Disks
    BY <1>3, <1>4, <1>5 DEF Disks
  <2> QED BY <1>2, <1>3, <1>5, <2>1, <2>2, IdleIs DEF Types
<1>7. CallInv
  <2>1. call.target = -1 /\ call.target <= server.tip
    BY <1>2, <1>6, IdleIs, Typed
  <2> QED BY <1>2, <2>1, IdleIs DEF CallInv, At, Following
<1>8. LengthInv /\ ChainInv /\ StoredInv /\ SavedInv
  BY <1>2, <1>3, <1>4, IdleIs DEF LengthInv, ChainInv, StoredInv, SavedInv, At, Following
<1>9. SearchInv
  <2>1. wallet.cursor = -1 /\ 0..wallet.cursor = {}
    BY <1>4
  <2> QED BY <1>3, <1>4, <2>1 DEF SearchInv, Searched
<1> QED BY <1>6, <1>7, <1>8, <1>9 DEF IInv

LEMMA StutterKeeps == ASSUME IInv, UNCHANGED vars PROVE IInv'
BY DEF IInv, Types, CallInv, LengthInv, ChainInv, StoredInv, SavedInv, SearchInv,
       Searched, Following, At, Tip, vars

LEMMA NextIInv == ASSUME IInv, [Next]_vars PROVE IInv'
<1>1. CASE Sync
  BY <1>1, SyncStartKeeps, SyncHeadersKeeps, SyncHeadersDoneKeeps, StoreHeadersKeeps,
     StoreStateKeeps, SyncFiltersKeeps, SyncFiltersDoneKeeps DEF Sync
<1>2. CASE Scan
  BY <1>2, ScanStartKeeps, ScanStatusKeeps, ScanRangeKeeps, ScanDoneKeeps DEF Scan
<1>3. CASE Follow
  BY <1>3, FollowStartKeeps, TailHeadersKeeps, TailFiltersKeeps, TailAppendKeeps,
     StoreTailFiltersKeeps, TailDoneKeeps, TailMismatchKeeps, TruncateHeadersKeeps,
     TruncateFiltersKeeps DEF Follow
<1>4. CASE FetchFailed \/ Reopen \/ ReopenFailed \/ ServerMoves
  BY <1>4, FetchFailedKeeps, ReopenKeeps, ReopenFailedKeeps, ServerMovesKeeps
<1>5. CASE UNCHANGED vars
  BY <1>5, StutterKeeps
<1> QED BY <1>1, <1>2, <1>3, <1>4, <1>5 DEF Next

LEMMA Invariance == Spec => []IInv
<1>1. Init => IInv
  BY InitIInv
<1>2. IInv /\ [Next]_vars => IInv'
  BY NextIInv
<1> QED BY <1>1, <1>2, PTL DEF Spec

-----------------------------------------------------------------------------
(* Every header is at the place of its height; what a call has appended to *)
(* the chain and not yet to headers.bin comes next there.                  *)
PlacedFrom(s, n) == \A i \in 1..Len(s) : s[i][2] = n + i - 1

PlaceInv ==
    /\ Placed(chain) /\ Placed(disk.headers) /\ Placed(disk.state)
    /\ At("store") => PlacedFrom(call.fresh, Len(disk.headers))

LEMMA PlacedJoin ==
    ASSUME NEW s \in Seq(Blocks), NEW t \in Seq(Blocks), Placed(s),
           PlacedFrom(t, Len(s))
    PROVE  Placed(s \o t)
<1>0. PICK c : c = s \o t
  OBVIOUS
<1>1. PICK n \in Nat, m \in Nat : n = Len(s) /\ m = Len(t) /\ c = s \o t
  BY <1>0, Join
<1>2. /\ Len(c) = n + m /\ \A i \in 1..n : c[i] = s[i]
      /\ \A i \in 1..m : c[n + i] = t[i]
  BY <1>1, Join
<1>3. ASSUME NEW i \in 1..(n + m) PROVE c[i][2] = i - 1
  <2>1. CASE i <= n
    BY <1>1, <1>2, <2>1 DEF Placed
  <2>2. CASE i > n
    <3>1. PICK k \in 1..m : i = n + k
      BY <2>2
    <3>2. t[k][2] = n + k - 1
      BY <1>1, <3>1 DEF PlacedFrom
    <3> QED BY <1>2, <3>1, <3>2
  <2> QED BY <2>1, <2>2
<1> QED BY <1>1, <1>2, <1>3 DEF Placed

LEMMA PlacedCut ==
    ASSUME NEW s \in Seq(Blocks), Placed(s), NEW n \in 0..Len(s)
    PROVE  Placed(SubSeq(s, 1, n))
<1>1. PICK p : p = SubSeq(s, 1, n) /\ Len(p) = n /\ \A i \in 1..n : p[i] = s[i]
  BY Cut
<1>2. \A i \in 1..n : i \in 1..Len(s)
  BY LenProperties
<1> QED BY <1>1, <1>2 DEF Placed

LEMMA BranchPlaced ==
    ASSUME NEW b \in Branches, NEW n \in Nat, NEW t \in Seq(Blocks),
           \A i \in 1..Len(t) : t[i] = Block(b, n + i - 1)
    PROVE  PlacedFrom(t, n)
BY BlockIs DEF PlacedFrom

(* Steps that change no header.                                            *)
LEMMA PlaceKept ==
    ASSUME PlaceInv, chain' = chain, disk'.headers = disk.headers,
           disk'.state = disk.state, call'.pc # "store" \/ call' = call
    PROVE  PlaceInv'
BY DEF PlaceInv, At

LEMMA AppendPlaced ==
    ASSUME IInv, PlaceInv, NEW f \in Seq(Blocks), NEW b \in Branches,
           \A i \in 1..Len(f) : f[i] = Block(b, Len(chain) + i - 1),
           call.pc \notin {"store", "truncate", "closed"},
           chain' = chain \o f, disk' = disk, call'.fresh = f
    PROVE  PlaceInv'
<1>1. Types /\ Len(chain) = Len(disk.headers)
  BY DEF IInv, LengthInv
<1>2. PlacedFrom(f, Len(chain))
  BY <1>1, Typed, BranchPlaced
<1>3. Placed(chain \o f)
  BY <1>1, <1>2, Typed, PlacedJoin DEF PlaceInv
<1> QED BY <1>1, <1>2, <1>3 DEF PlaceInv

LEMMA SyncPlaced == ASSUME IInv, PlaceInv, Sync PROVE PlaceInv'
<1>0. Types /\ LengthInv
  BY DEF IInv
<1>1. CASE SyncHeaders
  <2> DEFINE fresh == Subarray(ServerFile(FileStart(Tip + 1)),
                               Tip + 1 - FileStart(Tip + 1))
  <2>1. CASE (Throw \/ Goto("state")) /\ chain' = chain
    <3>1. disk' = disk /\ call'.pc # "store"
      BY <1>0, <1>1, <2>1, IdleIs DEF SyncHeaders, Throw, Goto, Types, Calls
    <3> QED BY <2>1, <3>1, PlaceKept
  <2>2. CASE chain' = chain \o fresh /\ call' = [call EXCEPT !.pc = "store", !.fresh = fresh]
    <3>1. server.branch \in Branches /\ server.tip \in 0..MaxTip
      BY <1>0, Typed
    <3>2. fresh = Subarray(File(server.branch, server.tip, FileStart(Tip + 1)),
                           Tip + 1 - FileStart(Tip + 1))
      BY ServerFiles
    <3> HIDE DEF fresh
    <3>3. PICK f \in Seq(Blocks) :
            /\ f = fresh
            /\ \A i \in 1..Len(f) : f[i] = Block(server.branch, Len(chain) + i - 1)
      BY <1>0, <3>1, <3>2, NewHeaders
    <3>4. call'.fresh = f /\ disk' = disk /\ call.pc = "headers"
      BY <1>0, <1>1, <2>2, <3>3 DEF SyncHeaders, At, Types, Calls
    <3> QED BY <2>2, <3>1, <3>3, <3>4, AppendPlaced
  <2> QED BY <1>1, <2>1, <2>2 DEF SyncHeaders
<1>2. CASE StoreHeaders
  <2>1. /\ At("store") /\ chain' = chain
        /\ disk'.headers = disk.headers \o call.fresh /\ disk'.state = disk.state
        /\ call'.pc # "store"
    BY <1>0, <1>2 DEF StoreHeaders, Types, Disks, Calls
  <2>2. Placed(disk.headers \o call.fresh)
    BY <1>0, <2>1, Typed, PlacedJoin DEF PlaceInv
  <2> QED BY <2>1, <2>2 DEF PlaceInv, At
<1>3. CASE StoreState
  <2>1. /\ chain' = chain /\ disk'.headers = disk.headers /\ disk'.state = chain
        /\ call'.pc # "store"
    BY <1>0, <1>3 DEF StoreState, Goto, Types, Disks, Calls
  <2> QED BY <2>1 DEF PlaceInv, At
<1>4. CASE SyncFilters
  <2>1. /\ chain' = chain /\ disk'.headers = disk.headers /\ disk'.state = disk.state
        /\ call'.pc # "store"
    BY <1>0, <1>4, IdleIs
       DEF SyncFilters, Return, Goto, At, Types, Disks, Calls
  <2> QED BY <2>1, PlaceKept
<1>5. CASE SyncStart \/ SyncHeadersDone \/ SyncFiltersDone
  <2>1. /\ chain' = chain /\ disk' = disk /\ call'.pc # "store"
    BY <1>0, <1>5, IdleIs
       DEF SyncStart, SyncHeadersDone, SyncFiltersDone, Return, Goto, Idle, Types, Calls
  <2> QED BY <2>1, PlaceKept
<1> QED BY <1>1, <1>2, <1>3, <1>4, <1>5 DEF Sync

LEMMA ScanPlaced == ASSUME IInv, PlaceInv, Scan PROVE PlaceInv'
<1>0. Types
  BY DEF IInv
<1>1. CASE ScanStart \/ ScanStatus \/ ScanDone
  <2>1. /\ chain' = chain /\ disk' = disk /\ call'.pc # "store"
    BY <1>0, <1>1, IdleIs
       DEF ScanStart, ScanStatus, ScanDone, Return, Idle, Types, Calls
  <2> QED BY <2>1, PlaceKept
<1>2. CASE ScanRange
  <2>1. /\ chain' = chain /\ disk'.headers = disk.headers /\ disk'.state = disk.state
        /\ call'.pc # "store"
    BY <1>0, <1>2, IdleIs DEF ScanRange, Throw, At, Types, Disks, Calls
  <2> QED BY <2>1, PlaceKept
<1> QED BY <1>1, <1>2 DEF Scan

LEMMA RollBackPlaced == ASSUME IInv, PlaceInv, RollBack, disk' = disk PROVE PlaceInv'
<1>0. Types
  BY DEF IInv
<1> DEFINE back == Most(0, call.old - Depth)
<1>1. CASE Throw /\ chain' = chain
  BY <1>1, IdleIs, PlaceKept DEF Throw
<1>2. CASE /\ ~(back >= Tip) /\ chain' = SubSeq(chain, 1, back + 1)
           /\ call' = [call EXCEPT !.pc = "truncate", !.retried = TRUE,
                                   !.headerFile = {}, !.filterFile = {}]
  <2>1. PICK b \in Nat : b = back
    <3>1. call.old \in Int /\ Depth \in Nat
      BY <1>0, Bounds DEF Types, Calls
    <3> QED BY <3>1 DEF Most
  <2>2. call'.pc # "store"
    BY <1>0, <1>2 DEF Types, Calls
  <2> HIDE DEF back
  <2>3. chain \in Seq(Blocks) /\ b + 1 \in 0..Len(chain)
    BY <1>0, <1>2, <2>1, Typed
  <2>4. Placed(SubSeq(chain, 1, b + 1))
    BY <2>3, PlacedCut DEF PlaceInv
  <2> QED BY <1>2, <2>1, <2>2, <2>4 DEF PlaceInv, At
<1> QED BY <1>1, <1>2 DEF RollBack

LEMMA FollowPlaced == ASSUME IInv, PlaceInv, Follow PROVE PlaceInv'
<1>0. Types /\ CallInv /\ LengthInv
  BY DEF IInv
<1>1. CASE FollowStart \/ TailHeaders \/ TailFilters \/ TailDone
  <2>1. /\ chain' = chain /\ disk' = disk /\ call'.pc # "store"
    BY <1>0, <1>1
       DEF FollowStart, TailHeaders, TailFilters, TailDone, At, Idle, Types, Calls
  <2> QED BY <2>1, PlaceKept
<1>2. CASE TailAppend
  <2>1. PICK f \in Seq(Blocks), b \in Branches :
          f = Fresh /\ \A i \in 1..Len(f) : f[i] = Block(b, Len(chain) + i - 1)
    BY <1>0, <1>2, FreshIs DEF TailAppend
  <2>2. /\ call.pc = "tail" /\ chain' = chain \o f /\ disk' = disk
        /\ call'.fresh = f
    BY <1>0, <1>2, <2>1 DEF TailAppend, At, Types, Calls
  <2> QED BY <2>1, <2>2, AppendPlaced
<1>3. CASE StoreTailFilters \/ TruncateFilters
  <2>1. /\ chain' = chain /\ disk'.headers = disk.headers /\ disk'.state = disk.state
        /\ call'.pc # "store"
    BY <1>0, <1>3 DEF StoreTailFilters, TruncateFilters, Goto, Types, Disks, Calls
  <2> QED BY <2>1, PlaceKept
<1>4. CASE TailMismatch
  BY <1>4, RollBackPlaced DEF TailMismatch
<1>5. CASE TruncateHeaders
  <2>1. /\ At("truncate") /\ chain' = chain /\ disk'.state = disk.state
        /\ disk'.headers = SubSeq(disk.headers, 1, Len(chain))
        /\ call'.pc # "store"
    BY <1>0, <1>5 DEF TruncateHeaders, Goto, Types, Disks, Calls
  <2>2. Len(chain) \in 0..Len(disk.headers)
    BY <1>0, <2>1, Typed DEF LengthInv
  <2>3. Placed(SubSeq(disk.headers, 1, Len(chain)))
    BY <1>0, <2>2, Typed, PlacedCut DEF PlaceInv
  <2> QED BY <2>1, <2>3 DEF PlaceInv, At
<1> QED BY <1>1, <1>2, <1>3, <1>4, <1>5 DEF Follow

LEMMA PlaceNext == ASSUME IInv, PlaceInv, [Next]_vars PROVE PlaceInv'
<1>1. CASE FetchFailed
  <2>1. disk' = disk /\ ((Throw /\ chain' = chain) \/ RollBack)
    BY <1>1 DEF FetchFailed
  <2>2. CASE Throw /\ chain' = chain
    BY <2>1, <2>2, IdleIs, PlaceKept DEF Throw
  <2> QED BY <2>1, <2>2, RollBackPlaced
<1>2. CASE Reopen \/ ReopenFailed
  <2>1. disk' = disk /\ call'.pc # "store" /\ (chain' = Resumed \/ chain' = << >>)
    BY <1>2, IdleIs DEF Reopen, ReopenFailed, Crash, Idle
  <2>2. Placed(Resumed) /\ Placed(<< >>)
    BY EmptySeq DEF PlaceInv, Resumed, Placed
  <2> QED BY <2>1, <2>2 DEF PlaceInv, At
<1>3. CASE ServerMoves \/ UNCHANGED vars
  BY <1>3, PlaceKept DEF ServerMoves, vars
<1> QED BY <1>1, <1>2, <1>3, SyncPlaced, ScanPlaced, FollowPlaced DEF Next

LEMMA PlaceInvariance == Spec => []PlaceInv
<1>1. Init => PlaceInv
  <2>1. SUFFICES ASSUME Init PROVE PlaceInv
    OBVIOUS
  <2>2. chain = << >> /\ disk = FreshStore /\ call = Idle
    BY <2>1 DEF Init
  <2>3. Placed(<< >>)
    BY EmptySeq DEF Placed
  <2> QED BY <2>2, <2>3, IdleIs DEF PlaceInv, FreshStore, At
<1>2. IInv /\ PlaceInv /\ [Next]_vars => PlaceInv'
  BY PlaceNext
<1> QED BY <1>1, <1>2, Invariance, PTL DEF Spec

(* Every variable stays in its domain, however the server's chain moves,   *)
(* downloads fail and the process dies; and the chain in memory,           *)
(* headers.bin and the stored chain state hold each header at the place of *)
(* its height, so that none is stored twice or skipped.                    *)
THEOREM TypeCorrect == Spec => []TypeOK
<1>1. IInv /\ PlaceInv => TypeOK
  BY DEF IInv, PlaceInv, Types, TypeOK
<1> QED BY <1>1, Invariance, PlaceInvariance, PTL

(* headers.bin is one unbroken chain from genesis after every step of      *)
(* syncHeaders() and followTip(), between their awaits too, so that open() *)
(* can revalidate it; unless the process died with a rollback open, one    *)
(* that no followTip() has returned since (watchwallet.ts:283-297).        *)
THEOREM HeadersStayLinked == Spec => []HeadersLinked
<1>1. IInv => HeadersLinked
  BY DEF IInv, ChainInv, HeadersLinked
<1> QED BY <1>1, Invariance, PTL

(* When no call runs, the chain the wallet validates new headers against   *)
(* is the one in headers.bin: a call that threw between two stores, or a   *)
(* reopened wallet, leaves no gap and no duplicate behind; unless the      *)
(* process died with a rollback open.                                      *)
THEOREM ChainMatchesFile == Spec => []ChainAgrees
<1>1. IInv => ChainAgrees
  BY DEF IInv, ChainInv, ChainAgrees, At
<1> QED BY <1>1, Invariance, PTL

(* When no call runs, the cursor lies on the chain and every block up to   *)
(* it has been searched, those of a branch that replaced another included: *)
(* a rollback pulls the cursor back before a block takes a searched        *)
(* block's place (watchwallet.ts:795-804).                                 *)
THEOREM CursorStaysOnChain == Spec => []CursorOnChain
<1>1. IInv => CursorOnChain
  <2>1. SUFFICES ASSUME IInv, reorg # "torn", At("idle")
                 PROVE  wallet.cursor <= Tip /\ Searched
    BY DEF CursorOnChain
  <2>2. /\ Types /\ Len(chain) = Len(disk.headers) /\ Searched
        /\ wallet.cursor < Len(disk.headers)
    BY <2>1 DEF IInv, LengthInv, SearchInv, At
  <2> QED BY <2>2, Typed
<1> QED BY <1>1, Invariance, PTL

-----------------------------------------------------------------------------
(* What followTip() takes back.  Between the rollback and the second       *)
(* truncation the chain has just the blocks no rollback of the call takes. *)
Cutting == call.pc \in {"truncate", "truncatefilters"}
Rolled == Cutting => Len(chain) = Most(0, call.old - Depth) + 1

LEMMA KeepsSelf ==
    ASSUME NEW s \in Seq(Blocks), NEW n \in 0..Len(s)
    PROVE  Keeps(s, n, s)
<1>1. Len(s) \in Nat
  BY LenProperties
<1> QED BY <1>1 DEF Keeps

LEMMA KeepsJoin ==
    ASSUME NEW s \in Seq(Blocks), NEW t \in Seq(Blocks), NEW n \in 0..Len(s)
    PROVE  Keeps(s, n, s \o t)
<1>1. PICK p \in Seq(Blocks) : p = SubSeq(s, 1, n) /\ Len(p) = n
  BY Cut
<1>2. Len(s) \in Nat /\ n \in Nat /\ n <= Len(s)
  BY LenProperties
<1>3. Prefix(p, s)
  BY <1>1, <1>2 DEF Prefix
<1>4. Prefix(p, s \o t)
  BY <1>3, PrefixJoin
<1> QED BY <1>1, <1>4 DEF Prefix, Keeps

LEMMA KeepsCut ==
    ASSUME NEW s \in Seq(Blocks), NEW n \in 0..Len(s)
    PROVE  Keeps(s, n, SubSeq(s, 1, n))
<1>1. PICK p \in Seq(Blocks) : p = SubSeq(s, 1, n) /\ Len(p) = n
  BY Cut
<1>2. Len(p) \in Nat /\ SubSeq(p, 1, Len(p)) = p
  BY LenProperties, SubSeqFull
<1> QED BY <1>1, <1>2 DEF Keeps

LEMMA FinalIs ==
    ASSUME Types, NEW s \in Seq(Blocks)
    PROVE  /\ Final(s) \in 0..Len(s)
           /\ Following /\ Rolled /\ Cutting => Final(s) = Least(Len(s), Len(chain))
<1>1. PICK m \in Nat, o \in Int, d \in Nat, k \in Nat :
        m = Len(s) /\ o = call.old /\ d = Depth /\ k = Len(chain)
  <2>1. call.old \in Int /\ Len(s) \in Nat
    BY Bounds, LenProperties DEF Types, Calls
  <2> QED BY <2>1, Bounds, Typed
<1>2. PICK n \in Nat : n = Most(0, o - d) + 1
  <2>1. Most(0, o - d) \in Nat
    BY DEF Most
  <2> QED BY <2>1
<1>3. Least(m, n) \in 0..m /\ m \in 0..m
  BY DEF Least
<1>4. Final(s) = IF call.op = "follow" THEN Least(m, n) ELSE m
  BY <1>1, <1>2 DEF Final
<1>5. Following /\ Rolled /\ Cutting => Final(s) = Least(m, n) /\ k = n
  BY <1>1, <1>2, <1>4 DEF Following, Rolled
<1> QED BY <1>1, <1>3, <1>4, <1>5

LEMMA RolledNext == ASSUME IInv, Rolled, [Next]_vars PROVE Rolled'
<1>0. Types
  BY DEF IInv
<1>1. CASE ~Cutting'
  BY <1>1 DEF Rolled
<1>2. CASE call' = call /\ chain' = chain
  BY <1>2 DEF Rolled, Cutting
<1>3. CASE TruncateHeaders
  <2>1. /\ chain' = chain /\ Cutting /\ call' = [call EXCEPT !.pc = "truncatefilters"]
    BY <1>3 DEF TruncateHeaders, Goto, At, Cutting
  <2>2. call'.old = call.old
    BY <1>0, <2>1 DEF Types, Calls
  <2> QED BY <2>1, <2>2 DEF Rolled
<1>4. CASE RollBack
  <2> DEFINE back == Most(0, call.old - Depth)
  <2>1. CASE Throw
    BY <1>1, <2>1, IdleIs DEF Throw, Cutting
  <2>2. CASE /\ ~(back >= Tip) /\ chain' = SubSeq(chain, 1, back + 1)
             /\ call' = [call EXCEPT !.pc = "truncate", !.retried = TRUE,
                                     !.headerFile = {}, !.filterFile = {}]
    <3>1. PICK b \in Nat : b = back
      <4>1. call.old \in Int /\ Depth \in Nat
        BY <1>0, Bounds DEF Types, Calls
      <4> QED BY <4>1 DEF Most
    <3>2. call'.old = call.old
      BY <1>0, <2>2 DEF Types, Calls
    <3> HIDE DEF back
    <3>3. chain \in Seq(Blocks) /\ b + 1 \in 0..Len(chain)
      BY <1>0, <2>2, <3>1, Typed
    <3>4. Len(SubSeq(chain, 1, b + 1)) = b + 1
      BY <3>3, Cut
    <3> QED BY <2>2, <3>1, <3>2, <3>4 DEF Rolled, back
  <2> QED BY <1>4, <2>1, <2>2 DEF RollBack
<1>5. CASE Sync
  <2>1. CASE SyncFilters \/ SyncFiltersDone
    BY <1>0, <1>1, <1>2, <2>1, IdleIs
       DEF SyncFilters, SyncFiltersDone, Return, Goto, Cutting, Types, Calls
  <2>2. CASE SyncStart \/ SyncHeaders
    BY <1>0, <1>1, <2>2, IdleIs
       DEF SyncStart, SyncHeaders, Throw, Goto, Cutting, Idle, Types, Calls
  <2>3. CASE SyncHeadersDone \/ StoreHeaders \/ StoreState
    BY <1>0, <1>1, <2>3
       DEF SyncHeadersDone, StoreHeaders, StoreState, Goto, Cutting, Types, Calls
  <2> QED BY <1>5, <2>1, <2>2, <2>3 DEF Sync
<1>6. CASE Scan
  <2>1. CASE ScanStart \/ ScanStatus
    BY <1>0, <1>1, <2>1, IdleIs
       DEF ScanStart, ScanStatus, Return, Cutting, Idle, Types, Calls
  <2>2. CASE ScanRange \/ ScanDone
    BY <1>1, <1>2, <2>2, IdleIs DEF ScanRange, ScanDone, Return, Throw, Cutting
  <2> QED BY <1>6, <2>1, <2>2 DEF Scan
<1>7. CASE Follow
  <2>1. CASE FollowStart
    BY <1>1, <2>1 DEF FollowStart, Cutting, Idle
  <2>2. CASE TailHeaders \/ TailFilters
    BY <1>0, <1>1, <2>2 DEF TailHeaders, TailFilters, At, Cutting, Types, Calls
  <2>3. CASE TailAppend \/ StoreTailFilters \/ TailDone \/ TruncateFilters
    BY <1>0, <1>1, <2>3
       DEF TailAppend, StoreTailFilters, TailDone, TruncateFilters, Goto, Cutting,
           Types, Calls
  <2>4. CASE TailMismatch
    BY <1>4, <2>4 DEF TailMismatch
  <2> QED BY <1>3, <1>7, <2>1, <2>2, <2>3, <2>4 DEF Follow
<1>8. CASE FetchFailed
  BY <1>1, <1>4, <1>8, IdleIs DEF FetchFailed, Throw, Cutting
<1>9. CASE Reopen \/ ReopenFailed
  BY <1>1, <1>9, IdleIs DEF Reopen, ReopenFailed, Cutting, Idle
<1>10. CASE ServerMoves \/ UNCHANGED vars
  BY <1>2, <1>10 DEF ServerMoves, vars
<1> QED BY <1>3, <1>5, <1>6, <1>7, <1>8, <1>9, <1>10 DEF Next

(* What a step does to headers.bin and to the filter headers.              *)
SameHeaders == disk'.headers = disk.headers
MoreHeaders == \E t \in Seq(Blocks) : disk'.headers = disk.headers \o t
SameFilters == disk'.filters = disk.filters
MoreFilters == \E t \in Seq(Blocks) : disk'.filters = disk.filters \o t

LEMMA FileSteps ==
    ASSUME IInv, [Next]_vars
    PROVE  /\ SameHeaders \/ MoreHeaders \/ TruncateHeaders
           /\ SameFilters \/ MoreFilters \/ TruncateFilters
<1>0. Types /\ CallInv
  BY DEF IInv
<1>1. CASE disk' = disk
  BY <1>1 DEF SameHeaders, SameFilters
<1>2. CASE StoreHeaders
  <2>1. disk' = [disk EXCEPT !.headers = @ \o call.fresh]
    BY <1>2 DEF StoreHeaders
  <2>2. SameFilters /\ MoreHeaders
    BY <1>0, <2>1, Typed DEF Types, Disks, SameFilters, MoreHeaders
  <2> QED BY <2>2
<1>3. CASE StoreState \/ ScanRange
  BY <1>0, <1>3
     DEF StoreState, ScanRange, Types, Disks, SameHeaders, SameFilters
<1>4. CASE SyncFilters
  <2> DEFINE have == Len(disk.filters)
             fresh == Subarray(ServerFile(FileStart(have)), have - FileStart(have))
  <2>1. CASE disk' = [disk EXCEPT !.filters = @ \o fresh]
    <3>1. PICK n \in Nat, start \in Nat : n = have /\ start = FileStart(n)
      BY <1>0, Typed, FileStarts
    <3>2. ServerFile(start) \in Seq(Blocks)
      BY <1>0, Typed, <3>1, ServerFiles, Files
    <3>3. fresh \in Seq(Blocks)
      <4>1. Subarray(ServerFile(start), n - start) \in Seq(Blocks)
        BY <3>1, <3>2, Subarrays
      <4> QED BY <3>1, <4>1
    <3> HIDE DEF fresh
    <3>4. SameHeaders /\ MoreFilters
      BY <1>0, <2>1, <3>3 DEF Types, Disks, SameHeaders, MoreFilters
    <3> QED BY <3>4
  <2> QED BY <1>1, <1>4, <2>1 DEF SyncFilters
<1>5. CASE StoreTailFilters
  <2> DEFINE file == CHOOSE f \in call.filterFile : TRUE
             fresh == Subarray(file, Len(disk.filters) - call.boundary)
  <2>1. fresh \in Seq(Blocks)
    <3>1. call.filterFile # {} /\ call.filterFile \in SUBSET Seq(Blocks)
      BY <1>0, <1>5 DEF StoreTailFilters, CallInv, Types, Calls
    <3>2. file \in Seq(Blocks)
      BY <3>1
    <3>3. PICK k \in Int : k = Len(disk.filters) - call.boundary
      <4>1. Len(disk.filters) \in Nat /\ call.boundary \in Nat
        BY <1>0, Typed DEF Types, Calls
      <4> QED BY <4>1
    <3> QED BY <3>2, <3>3, Subarrays
  <2>2. disk' = [disk EXCEPT !.filters = @ \o fresh]
    BY <1>5 DEF StoreTailFilters
  <2> HIDE DEF fresh
  <2>3. SameHeaders /\ MoreFilters
    BY <1>0, <2>1, <2>2 DEF Types, Disks, SameHeaders, MoreFilters
  <2> QED BY <2>3
<1>6. CASE TruncateHeaders
  <2>1. SameFilters
    BY <1>0, <1>6 DEF TruncateHeaders, Types, Disks, SameFilters
  <2> QED BY <1>6, <2>1
<1>7. CASE TruncateFilters
  <2>1. SameHeaders
    BY <1>0, <1>7 DEF TruncateFilters, Types, Disks, SameHeaders
  <2> QED BY <1>7, <2>1
<1>8. CASE Sync
  BY <1>1, <1>2, <1>3, <1>4, <1>8
     DEF Sync, SyncStart, SyncHeaders, SyncHeadersDone, SyncFiltersDone
<1>9. CASE Scan
  BY <1>1, <1>3, <1>9 DEF Scan, ScanStart, ScanStatus, ScanDone
<1>10. CASE Follow
  BY <1>1, <1>5, <1>6, <1>7, <1>10
     DEF Follow, FollowStart, TailHeaders, TailFilters, TailAppend, TailDone, TailMismatch
<1>11. CASE FetchFailed \/ Reopen \/ ReopenFailed \/ ServerMoves \/ UNCHANGED vars
  BY <1>1, <1>11 DEF FetchFailed, Reopen, ReopenFailed, Crash, ServerMoves, vars
<1> QED BY <1>8, <1>9, <1>10, <1>11 DEF Next

LEMMA HeadersKept ==
    ASSUME IInv, Rolled, [Next]_vars
    PROVE  Keeps(disk.headers, Final(disk.headers), disk.headers')
<1>1. /\ Types /\ CallInv /\ LengthInv
      /\ SameHeaders \/ MoreHeaders \/ TruncateHeaders
  BY FileSteps DEF IInv
<1>2. PICK h \in Seq(Blocks) : h = disk.headers
  BY <1>1, Typed
<1>3. PICK n \in 0..Len(h) : n = Final(h)
  BY <1>1, FinalIs
<1>4. CASE SameHeaders
  BY <1>2, <1>3, <1>4, KeepsSelf DEF SameHeaders
<1>5. CASE MoreHeaders
  BY <1>2, <1>3, <1>5, KeepsJoin DEF MoreHeaders
<1>6. CASE TruncateHeaders
  <2>1. /\ At("truncate") /\ disk'.headers = SubSeq(h, 1, Len(chain))
        /\ Len(chain) <= Len(h)
    BY <1>1, <1>2, <1>6 DEF TruncateHeaders, Types, Disks, LengthInv
  <2>2. Following /\ Cutting /\ Len(chain) \in Nat /\ Len(h) \in Nat
    BY <1>1, <2>1, Typed, LenProperties DEF CallInv, At, Cutting
  <2>3. n = Least(Len(h), Len(chain))
    BY <1>1, <1>3, <2>2, FinalIs
  <2>4. n = Len(chain)
    BY <2>1, <2>2, <2>3 DEF Least
  <2> QED BY <1>2, <1>3, <2>1, <2>4, KeepsCut
<1> QED BY <1>1, <1>4, <1>5, <1>6

LEMMA FiltersKept ==
    ASSUME IInv, Rolled, [Next]_vars
    PROVE  Keeps(disk.filters, Final(disk.filters), disk.filters')
<1>1. /\ Types /\ CallInv
      /\ SameFilters \/ MoreFilters \/ TruncateFilters
  BY FileSteps DEF IInv
<1>2. PICK f \in Seq(Blocks) : f = disk.filters
  BY <1>1, Typed
<1>3. PICK n \in 0..Len(f) : n = Final(f)
  BY <1>1, FinalIs
<1>4. CASE SameFilters
  BY <1>2, <1>3, <1>4, KeepsSelf DEF SameFilters
<1>5. CASE MoreFilters
  BY <1>2, <1>3, <1>5, KeepsJoin DEF MoreFilters
<1>6. CASE TruncateFilters
  <2>1. /\ At("truncatefilters")
        /\ disk'.filters = SubSeq(f, 1, Least(Len(f), Len(chain)))
    BY <1>1, <1>2, <1>6 DEF TruncateFilters, Types, Disks
  <2>2. Following /\ Cutting
    BY <1>1, <2>1 DEF CallInv, At, Cutting
  <2>3. n = Least(Len(f), Len(chain))
    BY <1>1, <1>3, <2>2, FinalIs
  <2> QED BY <1>2, <1>3, <2>1, <2>3, KeepsCut
<1> QED BY <1>1, <1>4, <1>5, <1>6

(* headers.bin and the filter headers keep their blocks for good: no step  *)
(* of any call takes one back but a rollback of followTip(), and a call    *)
(* none but those of the last Depth blocks the chain had when it began,    *)
(* however the server, the downloads and crashes behave                    *)
(* (watchwallet.ts:790-802).                                               *)
THEOREM OnlyTheTailIsTakenBack == Spec => FinalBlocks
<1>1. Init => Rolled
  BY IdleIs DEF Init, Rolled, Cutting
<1>2. IInv /\ Rolled /\ [Next]_vars => Rolled'
  BY RolledNext
<1>3. IInv /\ Rolled /\ [Next]_vars =>
        [/\ Keeps(disk.headers, Final(disk.headers), disk.headers')
         /\ Keeps(disk.filters, Final(disk.filters), disk.filters')]_vars
  BY HeadersKept, FiltersKept
<1> QED BY <1>1, <1>2, <1>3, Invariance, PTL DEF Spec, FinalBlocks
==============================================================================
