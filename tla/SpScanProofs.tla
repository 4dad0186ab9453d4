----------------------------- MODULE SpScanProofs -----------------------------
(***************************************************************************)
(* Proofs about SpScan, for every window, every width of a filter file and *)
(* of the sliding window, any set of outputs, and any number of failed     *)
(* downloads, stale files and dead workers.                                *)
(***************************************************************************)
EXTENDS SpScan, FunctionTheorems, FiniteSetTheorems, SequenceTheorems, TLAPS

-----------------------------------------------------------------------------
Types ==
    /\ at \in [Outputs -> Heights] /\ copy \in [Starts -> Copies]
    /\ call \in Calls
    /\ lane \in [Starts -> Lanes]
    /\ faults \in 0..MaxFaults

(* Where the lanes can be, in each phase of the call.                      *)
Unstarted == call.phase \in {"idle", "refused", "create"}

LaneInv(r) ==
    /\ Unstarted => In(r, "todo")
    /\ In(r, "todo") => lane[r] = Waiting
    /\ ~In(r, "todo") => r \in Ranges /\ r < call.next
    /\ In(r, "done") => lane[r].blocks = 0
    /\ r \in Ranges /\ call.phase = "resolved" => In(r, "done")

PhaseInv ==
    /\ Unstarted => call.results = << >> /\ call.done = 0
    /\ \A r \in Starts : LaneInv(r)

WidthInv == Cardinality(Taken) <= Units

Cause == faults > 0 \/ \E r \in Ranges : copy[r] \in {"wrong", "short"}
CauseInv ==
    call.phase = "rejected" \/ (\E r \in Starts : lane[r].stage \in {"dead", "lost"})
        => Cause

(* What a range has to find, and what its lane still has before it.        *)
Held(r) == {o \in Outputs : r <= at[o] /\ at[o] < r + Count(r) /\ call.from <= at[o]}
Ahead(r) ==
    IF lane[r].stage \in {"todo", "fetch", "scan"} THEN Held(r)
    ELSE {o \in Held(r) : at[o] \in lane[r].todo} \cup lane[r].outs

RangeInv(r) ==
    /\ lane[r].todo \subseteq Matches(r)
    /\ lane[r].outs \subseteq Held(r)
    /\ lane[r].outs # {} => In(r, "unspent")
    /\ \A o \in lane[r].outs : at[o] \notin lane[r].todo
    /\ In(r, "done") => lane[r].todo = {}
    /\ lane[r].stage \notin {"dead", "lost"} =>
          Held(r) \ Range(call.results) = Ahead(r)

FoundInv ==
    /\ IsInjective(call.results) /\ Range(call.results) \subseteq Wanted
    /\ \A r \in Ranges : RangeInv(r)

SortedInv ==
    call.phase = "resolved" =>
        \A i, j \in DOMAIN call.results :
            i < j => InOrder(call.results[i], call.results[j])

(* The blocks of the ranges that are done.                                 *)
DoneBlocks == {b \in Ranges \X (1..PerFile) : In(b[1], "done") /\ b[2] <= Relevant(b[1])}
DoneInv == call.from <= call.tip + 1 => call.done = Cardinality(DoneBlocks)

IInv == Types /\ PhaseInv /\ WidthInv /\ CauseInv /\ FoundInv /\ SortedInv /\ DoneInv
-----------------------------------------------------------------------------
(* Files and windows.                                                      *)
LEMMA DivMod ==
    ASSUME NEW p \in Nat \ {0}, NEW h \in Nat
    PROVE  /\ h % p \in 0..(p - 1) /\ h \div p \in Nat
           /\ h = p * (h \div p) + (h % p)
BY SMTT(30)

LEMMA Multiple ==
    ASSUME NEW p \in Nat \ {0}, NEW q \in Nat
    PROVE  p * q \in Nat /\ (p * q) % p = 0
<1>1. p * q \in Nat
  BY SMT
<1>2. PICK m \in 0..(p - 1), d \in Nat : (p * q) % p = m /\ p * q = p * d + m
  BY <1>1, DivMod
<1>3. m = p * (q - d)
  BY <1>2, SMTT(30)
<1>4. CASE q - d > 0
  <2>1. p * (q - d) >= p
    BY <1>4, SMTT(30)
  <2> QED BY <1>2, <1>3, <2>1
<1>5. CASE q - d < 0
  <2>1. p * (q - d) <= -p
    BY <1>5, SMTT(30)
  <2> QED BY <1>2, <1>3, <2>1
<1>6. CASE q - d = 0
  BY <1>2, <1>3, <1>6, SMTT(30)
<1> QED BY <1>1, <1>4, <1>5, <1>6

LEMMA MultiplesApart ==
    ASSUME NEW p \in Nat \ {0}, NEW a \in Nat, NEW b \in Nat, p * a < p * b
    PROVE  p * a + p <= p * b
<1>1. a < b
  BY SMTT(30)
<1>2. p * (b - a) >= p
  BY <1>1, SMTT(30)
<1> QED BY <1>2, SMTT(30)

LEMMA FileStarts ==
    ASSUME NEW h \in Nat
    PROVE  /\ FileStart(h) \in Nat /\ FileStart(h) <= h /\ h < FileStart(h) + PerFile
           /\ \E q \in Nat : FileStart(h) = PerFile * q
           /\ FileStart(h) % PerFile = 0
<1>1. PICK m \in 0..(PerFile - 1), q \in Nat : h % PerFile = m /\ h = PerFile * q + m
  BY DivMod, ConstantsAssumption
<1>2. PerFile * q \in Nat /\ (PerFile * q) % PerFile = 0
  BY Multiple, ConstantsAssumption
<1>3. PICK s \in Nat : s = PerFile * q
  BY <1>2
<1>4. FileStart(h) = s
  BY <1>1, <1>3, ConstantsAssumption DEF FileStart
<1>5. s <= h /\ h < s + PerFile
  BY <1>1, <1>3, ConstantsAssumption
<1> QED BY <1>2, <1>3, <1>4, <1>5

LEMMA FileStartOrder ==
    ASSUME NEW a \in Nat, NEW h \in Nat, a <= h
    PROVE  FileStart(a) <= FileStart(h)
<1>1. PICK s \in Nat, k \in Nat : s = FileStart(a) /\ s <= a /\ s = PerFile * k
  BY FileStarts
<1>2. PICK t \in Nat, l \in Nat :
        t = FileStart(h) /\ h < t + PerFile /\ t = PerFile * l
  BY FileStarts
<1>3. t < s => t + PerFile <= s
  BY <1>1, <1>2, MultiplesApart, ConstantsAssumption
<1>4. ~(t < s)
  BY <1>1, <1>2, <1>3, ConstantsAssumption
<1> QED BY <1>1, <1>2, <1>4

LEMMA StartsApart ==
    ASSUME NEW r \in Starts, NEW q \in Starts, r < q
    PROVE  r + PerFile <= q
<1>1. /\ r \in Nat /\ q \in Nat /\ r % PerFile = 0 /\ q % PerFile = 0
      /\ PerFile \in Nat \ {0}
  BY ConstantsAssumption DEF Starts, Heights
<1>2. ASSUME NEW s \in Nat, s % PerFile = 0
      PROVE  \E k \in Nat : s = PerFile * k
  <2>1. PICK k : k = s \div PerFile
    OBVIOUS
  <2>2. PICK z : z = s % PerFile
    OBVIOUS
  <2>3. k \in Nat /\ s = PerFile * k + z
    BY <1>1, <2>1, <2>2, DivMod
  <2>4. PerFile * k \in Nat
    BY <1>1, <2>3, Multiple
  <2> QED BY <1>2, <2>2, <2>3, <2>4
<1>3. PICK k \in Nat : r = PerFile * k
  BY <1>1, <1>2
<1>4. PICK l \in Nat : q = PerFile * l
  BY <1>1, <1>2
<1> QED BY <1>1, <1>3, <1>4, MultiplesApart

LEMMA Window ==
    ASSUME Types
    PROVE  /\ call.from \in Nat /\ call.tip \in Nat /\ call.tip <= MaxTip
           /\ PerFile \in Nat /\ PerFile > 0 /\ MaxTip \in Nat
           /\ \A r \in Starts : r \in Nat /\ r <= MaxTip
           /\ \A o \in Outputs : at[o] \in Nat /\ at[o] <= MaxTip
BY ConstantsAssumption DEF Types, Calls, Starts, Heights

LEMMA Counts ==
    ASSUME Types, NEW r \in Ranges
    PROVE  /\ r \in Starts /\ r \in Nat /\ FileStart(call.from) <= r /\ r <= call.tip
           /\ Count(r) \in 1..PerFile /\ r + Count(r) <= call.tip + 1
           /\ Count(r) = PerFile \/ r + Count(r) = call.tip + 1
BY Window DEF Ranges, Count, Least

LEMMA RelevantBlocks ==
    ASSUME Types, NEW r \in Ranges
    PROVE  /\ Skipped(r) \in 0..(PerFile - 1)
           /\ Relevant(r) \in Int /\ Relevant(r) <= PerFile
           /\ call.from <= call.tip + 1 => Relevant(r) \in 0..PerFile
<1>1. PICK s \in Nat : s = FileStart(call.from) /\ call.from < s + PerFile /\ s <= r
  BY Window, FileStarts, Counts
<1>2. Skipped(r) \in 0..(PerFile - 1)
  BY <1>1, Window, Counts DEF Skipped, Most
<1>3. PICK k \in Int, n \in 1..PerFile : k = Skipped(r) /\ n = Count(r)
  BY <1>2, Counts
<1>4. call.from <= call.tip + 1 => n - k >= 0
  BY <1>1, <1>3, Window, Counts DEF Skipped, Most
<1> QED BY <1>2, <1>3, <1>4, Window DEF Relevant

-----------------------------------------------------------------------------
(* The outputs of the window are dealt out to its ranges.                  *)
LEMMA HeldApart ==
    ASSUME Types, NEW r \in Ranges, NEW q \in Ranges, r # q
    PROVE  Held(r) \cap Held(q) = {}
<1>1. SUFFICES ASSUME NEW o \in Outputs, o \in Held(r), o \in Held(q) PROVE FALSE
  BY DEF Held
<1>2. /\ at[o] \in Nat /\ r <= at[o] /\ at[o] < r + PerFile
      /\ q <= at[o] /\ at[o] < q + PerFile
  BY <1>1, Window, Counts DEF Held
<1>3. r < q \/ q < r
  BY Counts
<1>4. r + PerFile <= q \/ q + PerFile <= r
  BY <1>3, StartsApart, Counts
<1> QED BY <1>2, <1>4, Window, Counts

LEMMA HeldWanted ==
    ASSUME Types
    PROVE  /\ \A r \in Ranges : Held(r) \subseteq Wanted
           /\ \A o \in Wanted : \E r \in Ranges : o \in Held(r)
<1>1. ASSUME NEW r \in Ranges, NEW o \in Held(r) PROVE o \in Wanted
  BY <1>1, Window, Counts DEF Held, Wanted
<1>2. ASSUME NEW o \in Wanted PROVE \E r \in Ranges : o \in Held(r)
  <2>1. PICK h \in Nat : h = at[o] /\ call.from <= h /\ h <= call.tip /\ o \in Outputs
    BY Window DEF Wanted
  <2>2. PICK r \in Nat : /\ r = FileStart(h) /\ r <= h /\ h < r + PerFile
                        /\ r % PerFile = 0
    BY FileStarts
  <2>3. FileStart(call.from) <= r
    BY <2>1, <2>2, Window, FileStartOrder
  <2>4. r \in Starts /\ r <= call.tip
    BY <2>1, <2>2, Window DEF Starts, Heights
  <2>5. r \in Ranges
    BY <2>3, <2>4 DEF Ranges
  <2>6. h < r + Count(r)
    BY <2>1, <2>2, <2>5, Window, Counts
  <2> QED BY <2>1, <2>2, <2>5, <2>6 DEF Held
<1> QED BY <1>1, <1>2

-----------------------------------------------------------------------------
(* What a step of a lane does to the lane, seven ways to go on.            *)
Goes(r, l) == lane' = [lane EXCEPT ![r] = l]

Fetches(r, l) ==
    /\ lane[r].stage \in {"fetch", "scan"} /\ l.stage \in {"fetch", "scan"}
    /\ l.todo = lane[r].todo /\ l.outs = lane[r].outs
    /\ call' = call

Matched(r, l) ==
    /\ In(r, "scan") /\ l.stage \in {"blocks", "identify"}
    /\ l.todo = Matches(r) /\ l.outs = lane[r].outs
    /\ call' = call

Reads(r, l) ==
    /\ In(r, "blocks") /\ l.stage = "identify"
    /\ l.todo = lane[r].todo /\ l.outs = lane[r].outs
    /\ call' = call

Identifies(r, l) ==
    /\ In(r, "identify") /\ l.stage \in {"identify", "unspent"}
    /\ \E h \in lane[r].todo :
          l.todo = lane[r].todo \ {h} /\ l.outs = {o \in Outputs : at[o] = h}
    /\ l.outs # {} => l.stage = "unspent"
    /\ call' = call

Finds(r, l) ==
    /\ In(r, "unspent") /\ l.stage \in {"identify", "unspent"}
    /\ l.todo = lane[r].todo
    /\ \E o \in lane[r].outs :
          /\ l.outs = lane[r].outs \ {o}
          /\ call' = [call EXCEPT !.results = Append(@, o)]
    /\ l.outs # {} => l.stage = "unspent"

Finishes(r, l) ==
    /\ In(r, "identify") /\ lane[r].todo = {}
    /\ l.stage = "done" /\ l.todo = {} /\ l.outs = {} /\ l.blocks = 0
    /\ call' = [call EXCEPT !.done = @ + Relevant(r)]

Stops(r, l) ==
    /\ l.stage \in {"dead", "lost"} /\ l.todo = {} /\ l.outs = {}
    /\ Cause'
    /\ call' = call

LaneEffect(r, l) ==
    \/ Fetches(r, l) \/ Matched(r, l) \/ Reads(r, l) \/ Identifies(r, l)
    \/ Finds(r, l) \/ Finishes(r, l) \/ Stops(r, l)

LEMMA MatchesInHeights ==
    ASSUME Types, NEW r \in Ranges
    PROVE  Matches(r) \subseteq Heights
BY Window, Counts DEF Matches, Heights

(* Nobody's worker and nobody's scanner is gone before scan() has rejected. *)
LEMMA GoneForCause ==
    ASSUME IInv, NEW r \in Starts, ~In(r, "todo"), ~In(r, "done"), ~Alive
    PROVE  Cause
<1>1. LaneInv(r) /\ call.phase \in Phases /\ CauseInv
  BY DEF IInv, PhaseInv, Types, Calls
<1>2. call.phase = "rejected"
  BY <1>1 DEF LaneInv, Unstarted, Phases, Alive
<1> QED BY <1>1, <1>2 DEF CauseInv

LEMMA StopsEffect ==
    ASSUME IInv, NEW r \in Starts, ~In(r, "todo"), call' = call, copy' = copy, Cause',
           NEW stage \in {"dead", "lost"}, LaneStops(r, stage)
    PROVE  \E l \in Lanes : Goes(r, l) /\ Stops(r, l)
<1>1. PICK l : l = [Waiting EXCEPT !.stage = stage, !.blocks = lane[r].blocks]
  OBVIOUS
<1>2. /\ l.stage = stage /\ l.fresh = FALSE /\ l.try = 1
      /\ l.blocks = lane[r].blocks /\ l.todo = {} /\ l.outs = {}
  BY <1>1 DEF Waiting
<1>3. lane[r].blocks \in 0..PerFile
  BY DEF IInv, Types, Lanes
<1>4. l \in Lanes
  <2>1. 1 \in 1..Attempts
    BY ConstantsAssumption
  <2>2. l = [stage |-> stage, fresh |-> FALSE, try |-> 1, blocks |-> lane[r].blocks,
             todo |-> {}, outs |-> {}]
    BY <1>1 DEF Waiting
  <2> QED BY <1>3, <2>1, <2>2 DEF Lanes, Stages
<1>5. Goes(r, l)
  BY <1>1 DEF LaneStops, Goes
<1> QED BY <1>2, <1>4, <1>5 DEF Stops

LEMMA LaneStepEffect ==
    ASSUME IInv, NEW r \in Starts, OnBlocks(r) \/ LaneStep(r)
    PROVE  /\ r \in Ranges /\ ~In(r, "todo") /\ ~In(r, "done")
           /\ at' = at /\ copy' = copy /\ faults' \in 0..MaxFaults /\ faults <= faults'
           /\ \E l \in Lanes : Goes(r, l) /\ LaneEffect(r, l)
<1>0. /\ Types /\ lane \in [Starts -> Lanes] /\ lane[r] \in Lanes /\ LaneInv(r)
      /\ faults \in 0..MaxFaults /\ MaxFaults \in Nat
  BY ConstantsAssumption DEF IInv, Types, PhaseInv, FoundInv
<1>1. /\ at' = at /\ copy' = copy /\ ~In(r, "todo") /\ ~In(r, "done")
      /\ faults' = faults \/ Fault
  BY DEF LaneStep, OnBlocks, Fetched, FetchRetried, FetchFailed, Scanned, Mismatch,
         ScanFailed, ScanOnFreed, BlocksFetched, BlocksFailed, Identify,
         IdentifyOnFreed, Found, RangeDone, In
<1>2. faults' \in 0..MaxFaults /\ faults <= faults'
  BY <1>0, <1>1 DEF Fault
<1>3. r \in Ranges
  BY <1>0, <1>1 DEF LaneInv
<1>4. PICK stage \in Stages, try \in 1..Attempts, blocks \in 0..PerFile,
           todo \in SUBSET Heights, outs \in SUBSET Outputs :
        /\ lane[r].stage = stage /\ lane[r].try = try /\ lane[r].blocks = blocks
        /\ lane[r].todo = todo /\ lane[r].outs = outs
  BY <1>0 DEF Lanes
<1>5. Count(r) \in 0..PerFile /\ Count(r) - 1 \in Int /\ Matches(r) \subseteq Heights
  BY <1>0, <1>3, Counts, Window, MatchesInHeights
<1>6. SUFFICES \E l \in Lanes : Goes(r, l) /\ LaneEffect(r, l)
  BY <1>1, <1>2, <1>3
<1>7. ASSUME call' = call, NEW s \in {"dead", "lost"}, LaneStops(r, s), Cause'
      PROVE  \E l \in Lanes : Goes(r, l) /\ LaneEffect(r, l)
  BY <1>1, <1>7, StopsEffect DEF LaneEffect
<1>8. ASSUME call' = call, Fault PROVE Cause'
  <2>1. faults' > 0
    BY <1>0, <1>8 DEF Fault
  <2> QED BY <2>1 DEF Cause
<1>9. ASSUME call' = call, copy[r] \in {"wrong", "short"} PROVE Cause'
  BY <1>1, <1>3, <1>9 DEF Cause, Ranges
<1>10. ASSUME call' = call, faults' = faults, ~Alive PROVE Cause'
  <2>1. Cause
    BY <1>1, <1>10, GoneForCause
  <2> QED BY <1>1, <1>10, <2>1 DEF Cause, Ranges
<1>11. CASE Fetched(r)
  <2>1. PICK l : l = [lane[r] EXCEPT !.stage = "scan", !.try = 1]
    OBVIOUS
  <2>2. Goes(r, l) /\ call' = call /\ lane[r].stage = "fetch"
    BY <1>11, <2>1 DEF Fetched, Goes, In
  <2>3. 1 \in 1..Attempts
    BY ConstantsAssumption
  <2>4. l \in Lanes
    BY <1>0, <2>1, <2>3 DEF Lanes, Stages
  <2>5. l.stage = "scan" /\ l.todo = lane[r].todo /\ l.outs = lane[r].outs
    BY <1>0, <2>1 DEF Lanes
  <2> QED BY <2>2, <2>4, <2>5 DEF LaneEffect, Fetches
<1>12. CASE FetchRetried(r)
  <2>1. PICK n \in 1..Attempts : n = try + 1
    <3>1. try < Attempts
      BY <1>4, <1>12 DEF FetchRetried
    <3> QED BY <3>1, ConstantsAssumption
  <2>2. PICK l : l = [lane[r] EXCEPT !.try = n]
    OBVIOUS
  <2>3. Goes(r, l) /\ call' = call /\ lane[r].stage = "fetch"
    BY <1>4, <1>12, <2>1, <2>2 DEF FetchRetried, Goes, In
  <2>4. l \in Lanes
    BY <1>0, <2>2 DEF Lanes
  <2>5. l.stage = "fetch" /\ l.todo = lane[r].todo /\ l.outs = lane[r].outs
    BY <1>0, <2>2, <2>3 DEF Lanes
  <2> QED BY <2>3, <2>4, <2>5 DEF LaneEffect, Fetches
<1>13. CASE FetchFailed(r) \/ BlocksFailed(r)
  BY <1>7, <1>8, <1>13 DEF FetchFailed, BlocksFailed
<1>14. CASE OnBlocks(r)
  <2>1. PICK n \in 1..(Count(r) - 1) : lane' = [lane EXCEPT ![r].blocks = n]
    BY <1>14 DEF OnBlocks
  <2>2. n \in 0..PerFile
    <3>1. PICK c \in 0..PerFile : c = Count(r)
      BY <1>5
    <3>2. n \in 1..(c - 1) /\ PerFile \in Nat
      BY <1>4, <2>1, <3>1, ConstantsAssumption
    <3> QED BY <3>2
  <2>3. PICK l : l = [lane[r] EXCEPT !.blocks = n]
    OBVIOUS
  <2>4. Goes(r, l) /\ call' = call /\ lane[r].stage = "scan"
    BY <1>14, <2>1, <2>3 DEF OnBlocks, Goes, In
  <2>5. l \in Lanes
    BY <1>0, <2>2, <2>3 DEF Lanes
  <2>6. l.stage = "scan" /\ l.todo = lane[r].todo /\ l.outs = lane[r].outs
    BY <1>0, <2>3, <2>4 DEF Lanes
  <2> QED BY <2>4, <2>5, <2>6 DEF LaneEffect, Fetches
<1>15. CASE Scanned(r)
  <2>1. PICK s \in {"identify", "blocks"} :
          s = IF Matches(r) = {} THEN "identify" ELSE "blocks"
    OBVIOUS
  <2>2. PICK l : l = [lane[r] EXCEPT !.blocks = Count(r), !.todo = Matches(r), !.stage = s]
    OBVIOUS
  <2>3. Goes(r, l) /\ call' = call /\ In(r, "scan")
    BY <1>15, <2>1, <2>2 DEF Scanned, Goes
  <2>4. l \in Lanes
    BY <1>0, <1>5, <2>1, <2>2 DEF Lanes, Stages
  <2>5. l.stage = s /\ l.todo = Matches(r) /\ l.outs = lane[r].outs
    BY <1>0, <2>2 DEF Lanes
  <2> QED BY <2>1, <2>3, <2>4, <2>5 DEF LaneEffect, Matched
<1>16. CASE Mismatch(r)
  <2>1. call' = call /\ In(r, "scan") /\ copy[r] \in {"old", "wrong"} /\ ~Committed(r)
    BY <1>16 DEF Mismatch
  <2>2. CASE lane[r].fresh
    <3>1. copy[r] = "wrong"
      BY <2>1, <2>2 DEF Committed
    <3>2. LaneStops(r, "dead")
      BY <1>16, <2>2 DEF Mismatch
    <3> QED BY <1>7, <1>9, <2>1, <3>1, <3>2
  <2>3. CASE ~lane[r].fresh
    <3>1. PICK l : l = [lane[r] EXCEPT !.stage = "fetch", !.fresh = TRUE]
      OBVIOUS
    <3>2. Goes(r, l)
      BY <1>16, <2>3, <3>1 DEF Mismatch, Goes
    <3>3. l \in Lanes
      BY <1>0, <3>1 DEF Lanes, Stages
    <3>4. l.stage = "fetch" /\ l.todo = lane[r].todo /\ l.outs = lane[r].outs
      BY <1>0, <3>1 DEF Lanes
    <3> QED BY <2>1, <3>2, <3>3, <3>4 DEF LaneEffect, Fetches, In
  <2> QED BY <2>2, <2>3
<1>17. CASE ScanFailed(r)
  BY <1>7, <1>8, <1>9, <1>17 DEF ScanFailed
<1>18. CASE ScanOnFreed(r)
  <2>1. PICK s \in {"dead", "lost"} : s = IF call.pooled THEN "lost" ELSE "dead"
    OBVIOUS
  <2>2. LaneStops(r, s) /\ call' = call /\ faults' = faults /\ ~Alive
    BY <1>18, <2>1 DEF ScanOnFreed
  <2> QED BY <1>7, <1>10, <2>2
<1>19. CASE IdentifyOnFreed(r)
  BY <1>7, <1>10, <1>19 DEF IdentifyOnFreed
<1>20. CASE BlocksFetched(r)
  <2>1. PICK l : l = [lane[r] EXCEPT !.stage = "identify"]
    OBVIOUS
  <2>2. Goes(r, l) /\ call' = call /\ In(r, "blocks")
    BY <1>20, <2>1 DEF BlocksFetched, Goes
  <2>3. l \in Lanes
    BY <1>0, <2>1 DEF Lanes, Stages
  <2>4. l.stage = "identify" /\ l.todo = lane[r].todo /\ l.outs = lane[r].outs
    BY <1>0, <2>1 DEF Lanes
  <2> QED BY <2>2, <2>3, <2>4 DEF LaneEffect, Reads
<1>21. CASE Identify(r)
  <2>1. PICK h \in todo :
          LET found == {o \in Outputs : at[o] = h}
          IN lane' = [lane EXCEPT ![r].todo = @ \ {h}, ![r].outs = found,
                        ![r].stage = IF found = {} THEN @ ELSE "unspent"]
    BY <1>4, <1>21 DEF Identify
  <2>2. PICK found, s : /\ found = {o \in Outputs : at[o] = h}
                        /\ s = IF found = {} THEN lane[r].stage ELSE "unspent"
    OBVIOUS
  <2>3. call' = call /\ lane[r].stage = "identify"
    BY <1>21 DEF Identify, In
  <2>4. PICK l : l = [lane[r] EXCEPT !.todo = lane[r].todo \ {h}, !.outs = found, !.stage = s]
    OBVIOUS
  <2>5. Goes(r, l)
    BY <2>1, <2>2, <2>4 DEF Goes
  <2>6. s \in {"identify", "unspent"} /\ found \subseteq Outputs
        /\ (found # {} => s = "unspent")
    BY <2>2, <2>3
  <2>7. l \in Lanes
    BY <1>0, <1>4, <2>4, <2>6 DEF Lanes, Stages
  <2>8. l.stage = s /\ l.todo = lane[r].todo \ {h} /\ l.outs = found
    BY <1>0, <2>4 DEF Lanes
  <2>9. Identifies(r, l)
    BY <1>4, <2>2, <2>3, <2>6, <2>8 DEF Identifies, In
  <2> QED BY <2>5, <2>7, <2>9 DEF LaneEffect
<1>22. CASE Found(r)
  <2>1. PICK o \in outs :
          /\ call' = [call EXCEPT !.results = Append(@, o)]
          /\ lane' = [lane EXCEPT ![r].outs = @ \ {o},
                        ![r].stage = IF lane[r].outs = {o} THEN "identify" ELSE @]
    BY <1>4, <1>22 DEF Found
  <2>2. PICK s : s = IF lane[r].outs = {o} THEN "identify" ELSE lane[r].stage
    OBVIOUS
  <2>3. PICK l : l = [lane[r] EXCEPT !.outs = lane[r].outs \ {o}, !.stage = s]
    OBVIOUS
  <2>4. Goes(r, l) /\ In(r, "unspent")
    BY <1>22, <2>1, <2>2, <2>3 DEF Goes, Found
  <2>5. s \in {"identify", "unspent"} /\ (lane[r].outs \ {o} # {} => s = "unspent")
    BY <2>2, <2>4 DEF In
  <2>6. l \in Lanes
    BY <1>0, <1>4, <2>3, <2>5 DEF Lanes, Stages
  <2>7. l.stage = s /\ l.todo = lane[r].todo /\ l.outs = lane[r].outs \ {o}
    BY <1>0, <2>3 DEF Lanes
  <2>8. Finds(r, l)
    BY <1>4, <2>1, <2>4, <2>5, <2>7 DEF Finds
  <2> QED BY <2>4, <2>6, <2>8 DEF LaneEffect
<1>23. CASE RangeDone(r)
  <2>1. PICK l : l = [Waiting EXCEPT !.stage = "done"]
    OBVIOUS
  <2>2. Goes(r, l) /\ In(r, "identify") /\ lane[r].todo = {}
        /\ call' = [call EXCEPT !.done = @ + Relevant(r)]
    BY <1>23, <2>1 DEF RangeDone, Goes
  <2>3. l = [stage |-> "done", fresh |-> FALSE, try |-> 1, blocks |-> 0,
             todo |-> {}, outs |-> {}]
    BY <2>1 DEF Waiting
  <2>4. 1 \in 1..Attempts /\ 0 \in 0..PerFile
    BY ConstantsAssumption
  <2>5. l \in Lanes
    BY <2>3, <2>4 DEF Lanes, Stages
  <2>6. l.stage = "done" /\ l.todo = {} /\ l.outs = {} /\ l.blocks = 0
    BY <2>3
  <2> QED BY <2>2, <2>5, <2>6 DEF LaneEffect, Finishes
<1> QED BY <1>11, <1>12, <1>13, <1>14, <1>15, <1>16, <1>17, <1>18, <1>19, <1>20,
           <1>21, <1>22, <1>23 DEF LaneStep

-----------------------------------------------------------------------------
(* results.sort(): an output's rank is the number of outputs before it.    *)
LEMMA OrderTotal ==
    ASSUME at \in [Outputs -> Heights]
    PROVE  /\ \A o, p \in Outputs : o # p => InOrder(o, p) \/ InOrder(p, o)
           /\ \A o, p \in Outputs : InOrder(o, p) => ~InOrder(p, o) /\ o # p
           /\ \A o, p, q \in Outputs : InOrder(o, p) /\ InOrder(p, q) => InOrder(o, q)
<1>1. \A o \in Outputs : o \in Nat /\ at[o] \in Nat
  BY ConstantsAssumption DEF Heights
<1> QED BY <1>1 DEF InOrder

LEMMA Ranks ==
    ASSUME at \in [Outputs -> Heights], NEW s \in Seq(Outputs), IsInjective(s)
    PROVE  \E p \in Bijection(DOMAIN s, DOMAIN s) :
              \A i, j \in DOMAIN s : i < j => ~InOrder(s[p[j]], s[p[i]])
<1>1. PICK n \in Nat : n = Len(s)
  BY LenProperties
<1>2. PICK D : D = 1..n
  OBVIOUS
<1>3. /\ DOMAIN s = D /\ IsFiniteSet(D) /\ Cardinality(D) = n
      /\ \A i \in D : i \in Nat /\ s[i] \in Outputs
      /\ \A i, j \in D : s[i] = s[j] => i = j
  <2>1. DOMAIN s = 1..n /\ \A i \in 1..n : s[i] \in Outputs
    BY <1>1, LenProperties, ElementOfSeq
  <2>2. IsFiniteSet(1..n) /\ Cardinality(1..n) = IF 1 > n THEN 0 ELSE n - 1 + 1
    BY FS_Interval
  <2>3. (IF 1 > n THEN 0 ELSE n - 1 + 1) = n
    OBVIOUS
  <2> QED BY <1>2, <2>1, <2>2, <2>3 DEF IsInjective
<1> DEFINE Before(i) == {j \in D : InOrder(s[j], s[i])}
           rank == [i \in D |-> Cardinality(Before(i)) + 1]
<1>4. ASSUME NEW i \in D
      PROVE  /\ IsFiniteSet(Before(i)) /\ Cardinality(Before(i)) \in Nat
             /\ Cardinality(Before(i)) + 1 \in D
  <2>1. IsFiniteSet(D \ {i}) /\ Cardinality(D \ {i}) = n - 1
    BY <1>3, FS_RemoveElement
  <2>2. Before(i) \in SUBSET (D \ {i})
    <3>1. i \notin Before(i)
      BY <1>3, OrderTotal
    <3> QED BY <3>1
  <2>3. IsFiniteSet(Before(i)) /\ Cardinality(Before(i)) <= n - 1
    BY <2>1, <2>2, FS_Subset
  <2>4. Cardinality(Before(i)) \in Nat
    BY <2>3, FS_CardinalityType
  <2> QED BY <1>2, <2>3, <2>4
<1>5. ASSUME NEW i \in D, NEW j \in D, InOrder(s[i], s[j])
      PROVE  rank[i] < rank[j]
  <2>1. i \notin Before(i) /\ Before(i) \cup {i} \in SUBSET Before(j)
    <3>1. i \notin Before(i) /\ i \in Before(j)
      BY <1>3, <1>5, OrderTotal
    <3>2. ASSUME NEW k \in Before(i) PROVE k \in Before(j)
      BY <1>3, <1>5, OrderTotal
    <3> QED BY <3>1, <3>2
  <2>2. Cardinality(Before(i) \cup {i}) = Cardinality(Before(i)) + 1
    BY <1>4, <2>1, FS_AddElement
  <2>3. Cardinality(Before(i) \cup {i}) <= Cardinality(Before(j))
    BY <1>4, <2>1, FS_Subset
  <2>4. PICK a \in Nat, b \in Nat :
          a = Cardinality(Before(i)) /\ b = Cardinality(Before(j))
    BY <1>4
  <2>5. rank[i] = a + 1 /\ rank[j] = b + 1
    BY <2>4
  <2> HIDE DEF Before, rank
  <2>6. a + 1 <= b
    BY <2>2, <2>3, <2>4
  <2> QED BY <2>5, <2>6
<1>6. rank \in [D -> D]
  BY <1>4
<1>7. \A i, j \in D : rank[i] = rank[j] => i = j
  <2>1. SUFFICES ASSUME NEW i \in D, NEW j \in D, i # j PROVE rank[i] # rank[j]
    OBVIOUS
  <2>2. InOrder(s[i], s[j]) \/ InOrder(s[j], s[i])
    BY <1>3, <2>1, OrderTotal
  <2>3. rank[i] \in Nat /\ rank[j] \in Nat
    BY <1>3, <1>6
  <2>4. rank[i] < rank[j] \/ rank[j] < rank[i]
    BY <1>5, <2>2
  <2> HIDE DEF rank
  <2> QED BY <2>3, <2>4
<1>8. PICK f : f = rank
  OBVIOUS
<1> HIDE DEF rank
<1>9. f \in Injection(D, D) /\ f \in Surjection(D, D) /\ f \in Bijection(D, D)
  <2>1. f \in Injection(D, D)
    BY <1>6, <1>7, <1>8, Fun_IsInj
  <2>2. f \in Surjection(D, D)
    BY <1>3, <2>1, FS_Injection
  <2> QED BY <2>1, <2>2 DEF Bijection
<1>10. PICK p : p = Inverse(f, D, D)
  OBVIOUS
<1>11. p \in Bijection(D, D) /\ p \in [D -> D] /\ \A k \in D : f[p[k]] = k
  <2>1. p \in Bijection(D, D)
    BY <1>9, <1>10, Fun_BijInverse
  <2>2. Range(f) = D /\ f \in [D -> D]
    BY <1>9, Fun_SurjectionProperties
  <2>3. \A k \in D : f[p[k]] = k
    BY <1>10, <2>2, Fun_InverseProperties
  <2> QED BY <2>1, <2>3 DEF Bijection, Injection
<1>12. ASSUME NEW i \in D, NEW j \in D, i < j
       PROVE  ~InOrder(s[p[j]], s[p[i]])
  <2>1. p[i] \in D /\ p[j] \in D /\ f[p[i]] = i /\ f[p[j]] = j /\ i \in Nat /\ j \in Nat
    BY <1>3, <1>11
  <2>2. SUFFICES ASSUME InOrder(s[p[j]], s[p[i]]) PROVE FALSE
    OBVIOUS
  <2>3. f[p[j]] < f[p[i]]
    BY <1>5, <1>8, <2>1, <2>2
  <2> QED BY <1>12, <2>1, <2>3
<1> QED BY <1>3, <1>11, <1>12

LEMMA SortedResults ==
    ASSUME at \in [Outputs -> Heights], NEW s \in Seq(Outputs), IsInjective(s)
    PROVE  /\ Sorted(s) \in Seq(Outputs)
           /\ IsInjective(Sorted(s)) /\ Range(Sorted(s)) = Range(s)
           /\ \A i, j \in DOMAIN Sorted(s) : i < j => InOrder(Sorted(s)[i], Sorted(s)[j])
<1>1. PICK n, D : n \in Nat /\ n = Len(s) /\ D = 1..n
  BY LenProperties
<1>2. /\ DOMAIN s = D /\ \A i \in D : s[i] \in Outputs
      /\ \A i, j \in D : s[i] = s[j] => i = j
  BY <1>1, LenProperties, ElementOfSeq DEF IsInjective
<1>3. PICK p : p = CHOOSE c \in Bijection(DOMAIN s, DOMAIN s) :
                      \A i, j \in DOMAIN s : i < j => ~InOrder(s[c[j]], s[c[i]])
  OBVIOUS
<1>4. /\ p \in Bijection(D, D)
      /\ \A i, j \in D : i < j => ~InOrder(s[p[j]], s[p[i]])
  BY <1>2, <1>3, Ranks
<1>5. /\ p \in [D -> D] /\ \A a, b \in D : p[a] = p[b] => a = b
      /\ \A d \in D : \E c \in D : p[c] = d
  BY <1>4, Fun_BijectionProperties
<1>6. PICK t : t = [i \in D |-> s[p[i]]]
  OBVIOUS
<1>7. t = Sorted(s)
  BY <1>2, <1>3, <1>6 DEF Sorted
<1>8. t \in [D -> Outputs]
  BY <1>2, <1>5, <1>6
<1>9. t \in Seq(Outputs)
  BY <1>1, <1>8, SeqDef
<1>10. DOMAIN t = D /\ IsInjective(t)
  BY <1>2, <1>5, <1>6 DEF IsInjective
<1>11. Range(t) = Range(s)
  <2>1. ASSUME NEW i \in D PROVE t[i] \in Range(s)
    BY <1>2, <1>5, <1>6 DEF Range
  <2>2. ASSUME NEW i \in D PROVE s[i] \in Range(t)
    <3>1. PICK c \in D : p[c] = i
      BY <1>5
    <3>2. t[c] = s[i]
      BY <1>6, <3>1
    <3> QED BY <1>10, <3>2 DEF Range
  <2> QED BY <1>2, <1>10, <2>1, <2>2 DEF Range
<1>12. ASSUME NEW i \in D, NEW j \in D, i < j PROVE InOrder(t[i], t[j])
  <2>1. p[i] \in D /\ p[j] \in D /\ p[i] # p[j]
    <3>1. i # j
      BY <1>1, <1>12
    <3> QED BY <1>5, <3>1
  <2>2. s[p[i]] \in Outputs /\ s[p[j]] \in Outputs /\ s[p[i]] # s[p[j]]
    BY <1>2, <2>1
  <2>3. InOrder(s[p[i]], s[p[j]])
    BY <1>4, <1>12, <2>2, OrderTotal
  <2> QED BY <1>6, <2>3
<1> QED BY <1>7, <1>9, <1>10, <1>11, <1>12

-----------------------------------------------------------------------------
(* What the steps do to the call.                                          *)
LEMMA SameWindow ==
    ASSUME at' = at, call'.from = call.from, call'.tip = call.tip
    PROVE  /\ Ranges' = Ranges /\ Wanted' = Wanted
           /\ \A r : /\ Count(r)' = Count(r) /\ Matches(r)' = Matches(r)
                    /\ Held(r)' = Held(r)
                    /\ Skipped(r)' = Skipped(r) /\ Relevant(r)' = Relevant(r)
<1>1. Ranges' = Ranges /\ Wanted' = Wanted
  BY DEF Ranges, Wanted
<1>2. \A r : Count(r)' = Count(r) /\ Skipped(r)' = Skipped(r)
  BY DEF Count, Skipped
<1>3. \A r : Relevant(r)' = Relevant(r) /\ Held(r)' = Held(r)
  BY <1>2 DEF Relevant, Held
<1>4. \A r : Matches(r)' = Matches(r)
  BY <1>2 DEF Matches
<1> QED BY <1>1, <1>2, <1>3, <1>4

LEMMA LaneCall ==
    ASSUME IInv, NEW r \in Ranges, NEW l \in Lanes, LaneEffect(r, l)
    PROVE  /\ call' \in Calls
           /\ call'.phase = call.phase /\ call'.from = call.from /\ call'.tip = call.tip
           /\ call'.next = call.next
           /\ call'.results = call.results \/ Finds(r, l)
           /\ call'.done = call.done \/ Finishes(r, l)
<1>0. Types /\ call \in Calls /\ lane[r].outs \subseteq Outputs
  BY Counts DEF IInv, Types, Lanes
<1>1. CASE call' = call
  BY <1>0, <1>1
<1>2. CASE Finds(r, l)
  <2>1. PICK o \in Outputs : call' = [call EXCEPT !.results = Append(@, o)]
    BY <1>0, <1>2 DEF Finds
  <2>2. PICK s \in Seq(Outputs) : s = Append(call.results, o)
    <3>1. call.results \in Seq(Outputs)
      BY <1>0 DEF Calls
    <3> QED BY <3>1, AppendProperties
  <2>3. call' = [call EXCEPT !.results = s]
    BY <2>1, <2>2
  <2>4. call' \in Calls
    BY <1>0, <2>3 DEF Calls
  <2>5. /\ call'.phase = call.phase /\ call'.from = call.from /\ call'.tip = call.tip
        /\ call'.next = call.next /\ call'.done = call.done
    BY <1>0, <2>3 DEF Calls
  <2> QED BY <1>2, <2>4, <2>5
<1>3. CASE Finishes(r, l)
  <2>1. PICK d \in Int : d = call.done + Relevant(r)
    BY <1>0, RelevantBlocks DEF Calls
  <2>2. call' = [call EXCEPT !.done = d]
    BY <1>3, <2>1 DEF Finishes
  <2>3. call' \in Calls
    BY <1>0, <2>2 DEF Calls
  <2>4. /\ call'.phase = call.phase /\ call'.from = call.from /\ call'.tip = call.tip
        /\ call'.next = call.next /\ call'.results = call.results
    BY <1>0, <2>2 DEF Calls
  <2> QED BY <1>3, <2>3, <2>4
<1> QED BY <1>1, <1>2, <1>3
        DEF LaneEffect, Fetches, Matched, Reads, Identifies, Stops

LEMMA TakeEffect ==
    ASSUME IInv, NEW r \in Starts, TakeRange(r)
    PROVE  /\ at' = at /\ copy' = copy /\ faults' = faults
           /\ r \in Ranges /\ lane[r] = Waiting /\ r < call'.next
           /\ call' \in Calls
           /\ call'.phase = call.phase /\ call'.from = call.from /\ call'.tip = call.tip
           /\ call'.results = call.results /\ call'.done = call.done
           /\ call.phase \in {"run", "rejected"} /\ call.next < call'.next
           /\ \E l \in Lanes : /\ Goes(r, l) /\ l.stage = "fetch" /\ l.blocks = 0
                               /\ l.todo = {} /\ l.outs = {}
<1>0. /\ Types /\ call \in Calls /\ LaneInv(r) /\ call.next \in Nat
      /\ PerFile \in Nat /\ PerFile > 0 /\ lane \in [Starts -> Lanes]
  BY Window DEF IInv, Types, PhaseInv, Calls
<1>1. /\ at' = at /\ copy' = copy /\ faults' = faults /\ r = call.next /\ r \in Ranges
      /\ call' = [call EXCEPT !.next = @ + PerFile]
      /\ call.phase \in {"run", "rejected"}
  BY DEF TakeRange
<1>2. lane[r] = Waiting
  <2>1. ~(r < call.next)
    BY <1>0, <1>1
  <2> QED BY <1>0, <2>1 DEF LaneInv
<1>3. PICK n \in Nat : n = call.next + PerFile /\ call.next < n
  <2>1. call.next + PerFile \in Nat /\ call.next < call.next + PerFile
    BY <1>0
  <2> QED BY <2>1
<1>4. call' = [call EXCEPT !.next = n]
  BY <1>1, <1>3
<1>5. call' \in Calls
  BY <1>0, <1>4 DEF Calls
<1>6. /\ call'.phase = call.phase /\ call'.from = call.from /\ call'.tip = call.tip
      /\ call'.results = call.results /\ call'.done = call.done /\ call'.next = n
  BY <1>0, <1>4 DEF Calls
<1>7. PICK l : l = [Waiting EXCEPT !.stage = "fetch"]
  OBVIOUS
<1>8. l = [stage |-> "fetch", fresh |-> FALSE, try |-> 1, blocks |-> 0,
           todo |-> {}, outs |-> {}]
  BY <1>7 DEF Waiting
<1>9. l \in Lanes
  <2>1. 1 \in 1..Attempts /\ 0 \in 0..PerFile
    BY ConstantsAssumption
  <2> QED BY <1>8, <2>1 DEF Lanes, Stages
<1>10. Goes(r, l)
  <2>1. lane' = [lane EXCEPT ![r].stage = "fetch"]
    BY DEF TakeRange
  <2>2. lane' = [lane EXCEPT ![r] = [lane[r] EXCEPT !.stage = "fetch"]]
    BY <2>1
  <2> QED BY <1>2, <1>7, <2>2 DEF Goes
<1>11. /\ l.stage = "fetch" /\ l.blocks = 0 /\ l.todo = {} /\ l.outs = {}
  BY <1>8
<1> QED BY <1>1, <1>2, <1>3, <1>5, <1>6, <1>9, <1>10, <1>11

(* A step that leaves the lanes alone.                                     *)
LEMMA CallStep ==
    ASSUME IInv, Start \/ Refused \/ PoolCreated \/ Resolve \/ Reject
    PROVE  /\ at' = at /\ copy' = copy /\ lane' = lane /\ faults' = faults
           /\ call' \in Calls
           /\ call'.done = call.done
           /\ \/ /\ call.phase = "idle" /\ call'.phase \in {"create", "refused"}
                 /\ call'.results = call.results
              \/ /\ call.phase = "create" /\ call'.phase = "run"
                 /\ call'.results = call.results
                 /\ call'.from = call.from /\ call'.tip = call.tip
              \/ /\ Resolve /\ call.phase = "run" /\ call'.phase = "resolved"
                 /\ call'.results = Sorted(call.results)
                 /\ call'.from = call.from /\ call'.tip = call.tip
                 /\ call'.next = call.next
              \/ /\ Reject /\ call.phase = "run" /\ call'.phase = "rejected"
                 /\ call'.results = call.results
                 /\ call'.from = call.from /\ call'.tip = call.tip
                 /\ call'.next = call.next
<1>0. Types /\ call \in Calls /\ call.results \in Seq(Outputs) /\ IsInjective(call.results)
  BY DEF IInv, Types, FoundInv, Calls
<1>1. CASE Start
  <2>1. PICK w \in Windows :
          call' = [call EXCEPT !.phase = "create", !.from = w[1], !.tip = w[2]]
    BY <1>1 DEF Start
  <2>2. PICK from \in Nat, tip \in 0..MaxTip : from = w[1] /\ tip = w[2]
    BY ConstantsAssumption
  <2>3. call' = [call EXCEPT !.phase = "create", !.from = from, !.tip = tip]
    BY <2>1, <2>2
  <2>4. call' \in Calls
    BY <1>0, <2>3 DEF Calls, Phases
  <2>5. call'.phase = "create" /\ call'.results = call.results /\ call'.done = call.done
    BY <1>0, <2>3 DEF Calls
  <2> QED BY <1>1, <2>4, <2>5 DEF Start
<1>2. CASE Refused
  <2>1. call' = [call EXCEPT !.phase = "refused"] /\ call.phase = "idle"
    BY <1>2 DEF Refused
  <2>2. call' \in Calls
    BY <1>0, <2>1 DEF Calls, Phases
  <2>3. call'.phase = "refused" /\ call'.results = call.results /\ call'.done = call.done
    BY <1>0, <2>1 DEF Calls
  <2> QED BY <1>2, <2>1, <2>2, <2>3 DEF Refused
<1>3. CASE PoolCreated
  <2>1. PICK pooled \in BOOLEAN :
          call' = [call EXCEPT !.phase = "run", !.pooled = pooled,
                               !.next = FileStart(call.from)]
    BY <1>3 DEF PoolCreated
  <2>2. PICK n \in Nat : n = FileStart(call.from)
    BY <1>0, Window, FileStarts
  <2>3. call' = [call EXCEPT !.phase = "run", !.pooled = pooled, !.next = n]
    BY <2>1, <2>2
  <2>4. call' \in Calls
    BY <1>0, <2>3 DEF Calls, Phases
  <2>5. /\ call'.phase = "run" /\ call'.results = call.results /\ call'.done = call.done
        /\ call'.from = call.from /\ call'.tip = call.tip
    BY <1>0, <2>3 DEF Calls
  <2> QED BY <1>3, <2>4, <2>5 DEF PoolCreated
<1>4. CASE Resolve
  <2>1. PICK s \in Seq(Outputs) : s = Sorted(call.results)
    BY <1>0, SortedResults DEF Types
  <2>2. call' = [call EXCEPT !.phase = "resolved", !.results = s]
    BY <1>4, <2>1 DEF Resolve
  <2>3. call' \in Calls
    BY <1>0, <2>2 DEF Calls, Phases
  <2>4. /\ call'.phase = "resolved" /\ call'.results = s /\ call'.done = call.done
        /\ call'.from = call.from /\ call'.tip = call.tip /\ call'.next = call.next
    BY <1>0, <2>2 DEF Calls
  <2>5. at' = at /\ copy' = copy /\ lane' = lane /\ faults' = faults /\ call.phase = "run"
    BY <1>4 DEF Resolve
  <2> QED BY <1>4, <2>1, <2>3, <2>4, <2>5
<1>5. CASE Reject
  <2>1. call' = [call EXCEPT !.phase = "rejected"]
    BY <1>5 DEF Reject
  <2>2. call' \in Calls
    BY <1>0, <2>1 DEF Calls, Phases
  <2>3. /\ call'.phase = "rejected" /\ call'.results = call.results /\ call'.done = call.done
        /\ call'.from = call.from /\ call'.tip = call.tip /\ call'.next = call.next
    BY <1>0, <2>1 DEF Calls
  <2>4. at' = at /\ copy' = copy /\ lane' = lane /\ faults' = faults /\ call.phase = "run"
    BY <1>5 DEF Reject
  <2> QED BY <1>5, <2>2, <2>3, <2>4
<1> QED BY <1>1, <1>2, <1>3, <1>4, <1>5

-----------------------------------------------------------------------------
LEMMA TypesKept ==
    ASSUME IInv, [Next]_vars
    PROVE  Types'
<1>0. Types /\ lane \in [Starts -> Lanes]
  BY DEF IInv, Types
<1>1. CASE Start \/ Refused \/ PoolCreated \/ Resolve \/ Reject
  BY <1>0, <1>1, CallStep DEF Types
<1>2. ASSUME NEW r \in Starts, NEW l \in Lanes, Goes(r, l)
      PROVE  lane' \in [Starts -> Lanes]
  BY <1>0, <1>2 DEF Goes
<1>3. CASE \E r \in Starts : TakeRange(r)
  BY <1>0, <1>2, <1>3, TakeEffect DEF Types
<1>4. CASE \E r \in Starts : OnBlocks(r) \/ LaneStep(r)
  <2>1. PICK r \in Starts : OnBlocks(r) \/ LaneStep(r)
    BY <1>4
  <2>2. PICK l \in Lanes : Goes(r, l) /\ LaneEffect(r, l)
    BY <2>1, LaneStepEffect
  <2>3. /\ r \in Ranges /\ at' = at /\ copy' = copy /\ faults' \in 0..MaxFaults
    BY <2>1, LaneStepEffect
  <2>4. call' \in Calls
    BY <2>2, <2>3, LaneCall
  <2> QED BY <1>0, <1>2, <2>2, <2>3, <2>4 DEF Types
<1>5. CASE UNCHANGED vars
  BY <1>0, <1>5 DEF Types, vars
<1> QED BY <1>1, <1>3, <1>4, <1>5 DEF Next

LEMMA PhaseKept ==
    ASSUME IInv, [Next]_vars
    PROVE  PhaseInv'
<1>0. /\ Types /\ PhaseInv /\ lane \in [Starts -> Lanes] /\ call \in Calls
      /\ call.next \in Nat
  BY DEF IInv, Types, Calls
<1>1. CASE Start \/ Refused \/ PoolCreated
  <2>1. lane' = lane /\ call'.results = call.results /\ call'.done = call.done
        /\ Unstarted /\ call'.phase \in {"create", "refused", "run"}
    <3>1. call.phase \in {"idle", "create"}
      BY <1>1 DEF Start, Refused, PoolCreated
    <3>2. ~Resolve /\ ~Reject
      BY <3>1 DEF Resolve, Reject
    <3> QED BY <1>1, <3>1, <3>2, CallStep DEF Unstarted
  <2>2. \A r \in Starts : In(r, "todo") /\ lane[r] = Waiting
    BY <1>0, <2>1 DEF PhaseInv, LaneInv
  <2>3. \A r \in Starts : LaneInv(r)'
    BY <2>1, <2>2 DEF LaneInv, In
  <2> QED BY <1>0, <2>1, <2>3 DEF PhaseInv, Unstarted
<1>2. CASE Resolve
  <2>1. /\ at' = at /\ lane' = lane /\ call.phase = "run" /\ call'.phase = "resolved"
        /\ call'.from = call.from /\ call'.tip = call.tip /\ call'.next = call.next
    <3>1. call.phase = "run" /\ ~Reject
      BY <1>2 DEF Resolve, Reject, In
    <3> QED BY <1>2, <3>1, CallStep
  <2>2. Ranges' = Ranges
    BY <2>1, SameWindow
  <2>3. \A r \in Ranges : In(r, "done")
    BY <1>2 DEF Resolve
  <2>4. \A r \in Starts : LaneInv(r)'
    BY <1>0, <2>1, <2>2, <2>3 DEF PhaseInv, LaneInv, In, Unstarted
  <2> QED BY <2>1, <2>4 DEF PhaseInv, Unstarted
<1>3. CASE Reject
  <2>1. /\ at' = at /\ lane' = lane /\ call.phase = "run" /\ call'.phase = "rejected"
        /\ call'.from = call.from /\ call'.tip = call.tip /\ call'.next = call.next
    <3>1. call.phase = "run" /\ call'.phase # "resolved"
      <4>1. call' = [call EXCEPT !.phase = "rejected"] /\ call.phase = "run"
        BY <1>3 DEF Reject
      <4> QED BY <1>0, <4>1 DEF Calls
    <3> QED BY <1>3, <3>1, CallStep
  <2>2. Ranges' = Ranges
    BY <2>1, SameWindow
  <2>3. \A r \in Starts : LaneInv(r)'
    BY <1>0, <2>1, <2>2 DEF PhaseInv, LaneInv, In, Unstarted
  <2> QED BY <2>1, <2>3 DEF PhaseInv, Unstarted
<1>4. CASE \E r \in Starts : TakeRange(r)
  <2>1. PICK r \in Starts : TakeRange(r)
    BY <1>4
  <2>2. PICK l \in Lanes : Goes(r, l) /\ l.stage = "fetch" /\ l.blocks = 0
    BY <2>1, TakeEffect
  <2>3. /\ call.phase \in {"run", "rejected"} /\ call'.phase = call.phase
        /\ r \in Ranges /\ r < call'.next /\ call.next < call'.next /\ Ranges' = Ranges
        /\ call'.next \in Nat
    BY <2>1, TakeEffect, SameWindow DEF Calls
  <2>4. ASSUME NEW q \in Starts PROVE LaneInv(q)'
    <3>1. CASE q = r
      BY <1>0, <2>2, <2>3, <3>1 DEF LaneInv, In, Goes, Unstarted
    <3>2. CASE q # r
      <4>1. lane'[q] = lane[q] /\ LaneInv(q) /\ q \in Nat
        BY <1>0, <2>2, <3>2, Window DEF Goes, PhaseInv
      <4>2. q < call.next => q < call'.next
        BY <1>0, <2>3, <4>1
      <4> QED BY <2>3, <4>1, <4>2 DEF LaneInv, In, Unstarted
    <3> QED BY <3>1, <3>2
  <2> QED BY <2>3, <2>4 DEF PhaseInv, Unstarted
<1>5. CASE \E r \in Starts : OnBlocks(r) \/ LaneStep(r)
  <2>1. PICK r \in Starts : OnBlocks(r) \/ LaneStep(r)
    BY <1>5
  <2>2. PICK l \in Lanes : Goes(r, l) /\ LaneEffect(r, l)
    BY <2>1, LaneStepEffect
  <2>3. /\ r \in Ranges /\ ~In(r, "todo") /\ ~In(r, "done") /\ at' = at
    BY <2>1, LaneStepEffect
  <2>4. /\ call'.phase = call.phase /\ call'.next = call.next
        /\ call'.from = call.from /\ call'.tip = call.tip
    BY <2>2, <2>3, LaneCall
  <2>5. Ranges' = Ranges
    BY <2>3, <2>4, SameWindow
  <2>6. ~Unstarted /\ call.phase # "resolved" /\ r < call.next
    BY <1>0, <2>3 DEF PhaseInv, LaneInv
  <2>7. l.stage # "todo" /\ (l.stage = "done" => l.blocks = 0)
    BY <2>2 DEF LaneEffect, Fetches, Matched, Reads, Identifies, Finds, Finishes, Stops
  <2>8. ASSUME NEW q \in Starts PROVE LaneInv(q)'
    <3>1. CASE q = r
      BY <1>0, <2>2, <2>3, <2>4, <2>5, <2>6, <2>7, <3>1 DEF LaneInv, In, Goes, Unstarted
    <3>2. CASE q # r
      <4>1. lane'[q] = lane[q] /\ LaneInv(q)
        BY <1>0, <2>2, <3>2 DEF Goes, PhaseInv
      <4> QED BY <2>4, <2>5, <4>1 DEF LaneInv, In, Unstarted
    <3> QED BY <3>1, <3>2
  <2> QED BY <2>4, <2>6, <2>8 DEF PhaseInv, Unstarted
<1>6. CASE UNCHANGED vars
  <2>1. call' = call /\ lane' = lane /\ Ranges' = Ranges
    BY <1>6 DEF vars, Ranges
  <2> QED BY <1>0, <2>1 DEF PhaseInv, LaneInv, In, Unstarted
<1> QED BY <1>1, <1>2, <1>3, <1>4, <1>5, <1>6 DEF Next

LEMMA TakenFinite ==
    /\ IsFiniteSet(Taken) /\ Cardinality(Taken) \in Nat
    /\ Units \in Nat
<1>1. IsFiniteSet(0..MaxTip) /\ Units \in Nat
  BY FS_Interval, ConstantsAssumption
<1>2. Taken \in SUBSET (0..MaxTip)
  BY DEF Taken, Starts, Heights
<1>3. IsFiniteSet(Taken)
  BY <1>1, <1>2, FS_Subset
<1> QED BY <1>1, <1>3, FS_CardinalityType

LEMMA WidthKept ==
    ASSUME IInv, [Next]_vars
    PROVE  WidthInv'
<1>0. /\ WidthInv /\ lane \in [Starts -> Lanes] /\ IsFiniteSet(Taken)
      /\ Cardinality(Taken) \in Nat /\ Units \in Nat
  BY TakenFinite DEF IInv, Types
<1>1. CASE Start \/ Refused \/ PoolCreated \/ Resolve \/ Reject \/ UNCHANGED vars
  <2>1. lane' = lane
    BY <1>1, CallStep DEF vars
  <2> QED BY <1>0, <2>1 DEF WidthInv, Taken
<1>2. CASE \E r \in Starts : TakeRange(r)
  <2>1. PICK r \in Starts : TakeRange(r)
    BY <1>2
  <2>2. PICK l \in Lanes : Goes(r, l) /\ l.stage = "fetch"
    BY <2>1, TakeEffect
  <2>3. Taken' = Taken \cup {r}
    BY <1>0, <2>2 DEF Taken, Goes
  <2>4. Cardinality(Taken) < Units
    BY <2>1 DEF TakeRange
  <2>5. Cardinality(Taken \cup {r}) =
          IF r \in Taken THEN Cardinality(Taken) ELSE Cardinality(Taken) + 1
    BY <1>0, FS_AddElement
  <2>6. Cardinality(Taken \cup {r}) <= Units
    BY <1>0, <2>4, <2>5
  <2> QED BY <2>3, <2>6 DEF WidthInv
<1>3. CASE \E r \in Starts : OnBlocks(r) \/ LaneStep(r)
  <2>1. PICK r \in Starts : OnBlocks(r) \/ LaneStep(r)
    BY <1>3
  <2>2. PICK l \in Lanes : Goes(r, l)
    BY <2>1, LaneStepEffect
  <2>3. r \in Taken
    BY <2>1, LaneStepEffect DEF Taken, In
  <2>4. Taken' \subseteq Taken
    BY <1>0, <2>2, <2>3 DEF Taken, Goes
  <2>5. PICK T : T = Taken'
    OBVIOUS
  <2>6. Cardinality(T) <= Cardinality(Taken) /\ IsFiniteSet(T)
    BY <1>0, <2>4, <2>5, FS_Subset
  <2>7. Cardinality(T) \in Nat
    BY <2>6, FS_CardinalityType
  <2>8. Cardinality(T) <= Units
    BY <1>0, <2>6, <2>7 DEF WidthInv
  <2> QED BY <2>5, <2>8 DEF WidthInv
<1> QED BY <1>1, <1>2, <1>3 DEF Next

LEMMA CauseKept ==
    ASSUME IInv, [Next]_vars
    PROVE  CauseInv'
<1>0. /\ CauseInv /\ Types /\ PhaseInv /\ lane \in [Starts -> Lanes]
      /\ faults \in Int
  BY ConstantsAssumption DEF IInv, Types
<1>1. CASE Start \/ Refused \/ PoolCreated
  <2>1. lane' = lane /\ Unstarted /\ call'.phase # "rejected"
    <3>1. call.phase \in {"idle", "create"}
      BY <1>1 DEF Start, Refused, PoolCreated
    <3>2. ~Resolve /\ ~Reject
      BY <3>1 DEF Resolve, Reject
    <3> QED BY <1>1, <3>1, <3>2, CallStep DEF Unstarted
  <2>2. \A r \in Starts : lane[r].stage = "todo"
    BY <1>0, <2>1 DEF PhaseInv, LaneInv, In
  <2> QED BY <2>1, <2>2 DEF CauseInv
<1>2. ASSUME at' = at, copy' = copy, call'.from = call.from, call'.tip = call.tip,
             faults <= faults', faults' \in Int, Cause
      PROVE  Cause'
  <2>1. Ranges' = Ranges
    BY <1>2, SameWindow
  <2>2. faults > 0 => faults' > 0
    BY <1>0, <1>2
  <2> QED BY <1>2, <2>1, <2>2 DEF Cause
<1>3. CASE Resolve
  <2>1. /\ at' = at /\ copy' = copy /\ lane' = lane /\ faults' = faults
        /\ call'.phase = "resolved" /\ call'.from = call.from /\ call'.tip = call.tip
    <3>1. call.phase = "run" /\ ~Reject
      BY <1>3 DEF Resolve, Reject, In
    <3> QED BY <1>3, <3>1, CallStep
  <2> QED BY <1>0, <1>2, <2>1 DEF CauseInv
<1>4. CASE Reject
  <2>1. /\ at' = at /\ copy' = copy /\ lane' = lane /\ faults' = faults
        /\ call'.from = call.from /\ call'.tip = call.tip
    <3>1. call.phase = "run"
      BY <1>4 DEF Reject
    <3> QED BY <1>4, <3>1, CallStep
  <2>2. Cause
    <3>1. PICK r \in Ranges : In(r, "dead")
      BY <1>4 DEF Reject
    <3> QED BY <1>0, <3>1 DEF CauseInv, In, Ranges
  <2>3. Cause'
    BY <1>0, <1>2, <2>1, <2>2
  <2> QED BY <2>3 DEF CauseInv
<1>5. CASE \E r \in Starts : TakeRange(r)
  <2>1. PICK r \in Starts : TakeRange(r)
    BY <1>5
  <2>2. PICK l \in Lanes : Goes(r, l) /\ l.stage = "fetch"
    BY <2>1, TakeEffect
  <2>3. /\ at' = at /\ copy' = copy /\ faults' = faults /\ call'.phase = call.phase
        /\ call'.from = call.from /\ call'.tip = call.tip
    BY <2>1, TakeEffect
  <2>4. \A q \in Starts : lane'[q].stage \in {"dead", "lost"} => lane'[q] = lane[q]
    BY <1>0, <2>2 DEF Goes
  <2> QED BY <1>0, <1>2, <2>3, <2>4 DEF CauseInv
<1>6. CASE \E r \in Starts : OnBlocks(r) \/ LaneStep(r)
  <2>1. PICK r \in Starts : OnBlocks(r) \/ LaneStep(r)
    BY <1>6
  <2>2. PICK l \in Lanes : Goes(r, l) /\ LaneEffect(r, l)
    BY <2>1, LaneStepEffect
  <2>3. /\ r \in Ranges /\ at' = at /\ copy' = copy
        /\ faults' \in Int /\ faults <= faults'
    BY <2>1, LaneStepEffect, ConstantsAssumption
  <2>4. /\ call'.phase = call.phase
        /\ call'.from = call.from /\ call'.tip = call.tip
    BY <2>2, <2>3, LaneCall
  <2>5. CASE Stops(r, l)
    BY <2>5 DEF Stops, CauseInv
  <2>6. CASE l.stage \notin {"dead", "lost"}
    <3>1. \A q \in Starts : lane'[q].stage \in {"dead", "lost"} => lane'[q] = lane[q]
      BY <1>0, <2>2, <2>6 DEF Goes
    <3> QED BY <1>0, <1>2, <2>3, <2>4, <3>1 DEF CauseInv
  <2> QED BY <2>2, <2>5, <2>6
          DEF LaneEffect, Fetches, Matched, Reads, Identifies, Finds, Finishes
<1>7. CASE UNCHANGED vars
  BY <1>0, <1>2, <1>7 DEF CauseInv, vars
<1> QED BY <1>1, <1>3, <1>4, <1>5, <1>6, <1>7 DEF Next

-----------------------------------------------------------------------------
(* The outputs found.                                                      *)
LEMMA OneMore ==
    ASSUME NEW s \in Seq(Outputs), NEW o \in Outputs, o \notin Range(s), IsInjective(s)
    PROVE  IsInjective(Append(s, o)) /\ Range(Append(s, o)) = Range(s) \cup {o}
<1>1. PICK n, t : n \in Nat /\ n = Len(s) /\ t = Append(s, o)
  BY LenProperties
<1>2. DOMAIN s = 1..n /\ DOMAIN t = 1..(n + 1)
  <2>1. t \in Seq(Outputs) /\ Len(t) = n + 1
    BY <1>1, AppendProperties
  <2> QED BY <1>1, <2>1, LenProperties
<1>3. t[n + 1] = o /\ \A i \in 1..n : t[i] = s[i]
  BY <1>1, AppendProperties
<1>4. \A i \in 1..(n + 1) : i \in 1..n \/ i = n + 1
  BY <1>1
<1>5. \A i \in 1..n : s[i] \in Range(s) /\ i \in 1..(n + 1)
  BY <1>1, <1>2 DEF Range
<1>6. n + 1 \in 1..(n + 1)
  BY <1>1
<1>7. IsInjective(t)
  BY <1>2, <1>3, <1>4, <1>5 DEF IsInjective
<1>8. ASSUME NEW x \in Range(t) PROVE x \in Range(s) \cup {o}
  <2>1. PICK i \in 1..(n + 1) : x = t[i]
    BY <1>2 DEF Range
  <2> QED BY <1>3, <1>4, <1>5, <2>1
<1>9. ASSUME NEW x \in Range(s) \cup {o} PROVE x \in Range(t)
  <2>1. CASE x = o
    BY <1>2, <1>3, <1>6, <2>1 DEF Range
  <2>2. CASE x \in Range(s)
    <3>1. PICK i \in 1..n : x = s[i]
      BY <1>2, <2>2 DEF Range
    <3> QED BY <1>2, <1>3, <1>5, <3>1 DEF Range
  <2> QED BY <2>1, <2>2
<1> QED BY <1>1, <1>7, <1>8, <1>9

(* A range whose lane does not move, while nothing of it is found.         *)
LEMMA RangeFrame ==
    ASSUME at' = at, call'.from = call.from, call'.tip = call.tip,
           NEW q, lane'[q] = lane[q], RangeInv(q),
           Held(q) \ Range(call'.results) = Held(q) \ Range(call.results)
    PROVE  RangeInv(q)'
<1>1. Held(q)' = Held(q) /\ Matches(q)' = Matches(q)
  BY SameWindow
<1>2. Ahead(q)' = Ahead(q)
  BY <1>1 DEF Ahead
<1> QED BY <1>1, <1>2 DEF RangeInv, In

(* A lane that goes on without finding.                                    *)
LEMMA RangeStep ==
    ASSUME IInv, NEW r \in Ranges, NEW l \in Lanes, at' = at,
           ~In(r, "todo"), ~In(r, "done"), Goes(r, l), LaneEffect(r, l), ~Finds(r, l)
    PROVE  RangeInv(r)'
<1>0. /\ Types /\ RangeInv(r) /\ lane \in [Starts -> Lanes] /\ r \in Starts
      /\ lane'[r] = l
  BY Counts DEF IInv, Types, FoundInv, Goes
<1>1. /\ call'.results = call.results
      /\ Held(r)' = Held(r) /\ Matches(r)' = Matches(r)
  BY LaneCall, SameWindow
<1>2. /\ l.todo \subseteq Matches(r) /\ l.outs \subseteq Held(r)
      /\ l.outs # {} => l.stage = "unspent"
      /\ \A o \in l.outs : at[o] \notin l.todo
      /\ l.stage = "done" => l.todo = {}
      /\ l.stage \notin {"dead", "lost"} =>
            Held(r) \ Range(call.results)
              = IF l.stage \in {"todo", "fetch", "scan"} THEN Held(r)
                ELSE {o \in Held(r) : at[o] \in l.todo} \cup l.outs
      => RangeInv(r)'
  BY <1>0, <1>1 DEF RangeInv, Ahead, In
<1>3. CASE Fetches(r, l)
  BY <1>0, <1>2, <1>3 DEF Fetches, RangeInv, Ahead, In
<1>4. CASE Matched(r, l)
  <2>1. lane[r].outs = {}
    BY <1>0, <1>4 DEF Matched, RangeInv, In
  <2>2. Held(r) \ Range(call.results) = Held(r)
    BY <1>0, <1>4 DEF Matched, RangeInv, Ahead, In
  <2>3. \A o \in Held(r) : at[o] \in Matches(r)
    <3>1. \A o \in Outputs : at[o] \in Nat
      BY <1>0, Window
    <3> QED BY <1>0, <3>1, Counts DEF Held, Matches
  <2> QED BY <1>2, <1>4, <2>1, <2>2, <2>3 DEF Matched
<1>5. CASE Reads(r, l)
  <2>1. lane[r].outs = {}
    BY <1>0, <1>5 DEF Reads, RangeInv, In
  <2> QED BY <1>0, <1>2, <1>5, <2>1 DEF Reads, RangeInv, Ahead, In
<1>6. CASE Identifies(r, l)
  <2>1. PICK h \in lane[r].todo :
          l.todo = lane[r].todo \ {h} /\ l.outs = {o \in Outputs : at[o] = h}
    BY <1>6 DEF Identifies
  <2>2. lane[r].outs = {}
    BY <1>0, <1>6 DEF Identifies, RangeInv, In
  <2>3. h \in r..(r + Count(r) - 1) /\ h >= call.from
    BY <1>0, <2>1 DEF RangeInv, Matches
  <2>4. r <= h /\ h < r + Count(r) /\ call.from <= h
    BY <1>0, <2>3, Counts, Window
  <2>5. l.outs \subseteq Held(r)
    BY <2>1, <2>4 DEF Held
  <2>6. Held(r) \ Range(call.results) = {o \in Held(r) : at[o] \in lane[r].todo}
    BY <1>0, <1>6, <2>2 DEF Identifies, RangeInv, Ahead, In
  <2>7. {o \in Held(r) : at[o] \in lane[r].todo}
          = {o \in Held(r) : at[o] \in l.todo} \cup l.outs
    BY <2>1, <2>5 DEF Held
  <2> QED BY <1>0, <1>2, <1>6, <2>1, <2>5, <2>6, <2>7 DEF Identifies, RangeInv
<1>7. CASE Finishes(r, l)
  <2>1. lane[r].outs = {}
    BY <1>0, <1>7 DEF Finishes, RangeInv, In
  <2>2. Held(r) \ Range(call.results) = {}
    BY <1>0, <1>7, <2>1 DEF Finishes, RangeInv, Ahead, In
  <2> QED BY <1>2, <1>7, <2>2 DEF Finishes
<1>8. CASE Stops(r, l)
  BY <1>2, <1>8 DEF Stops
<1> QED BY <1>3, <1>4, <1>5, <1>6, <1>7, <1>8 DEF LaneEffect

LEMMA FindsKept ==
    ASSUME IInv, NEW r \in Ranges, NEW l \in Lanes, at' = at,
           Goes(r, l), Finds(r, l)
    PROVE  FoundInv'
<1>0. /\ Types /\ FoundInv /\ RangeInv(r) /\ lane \in [Starts -> Lanes] /\ r \in Starts
      /\ lane'[r] = l /\ call.results \in Seq(Outputs)
      /\ call'.from = call.from /\ call'.tip = call.tip
  BY Counts, LaneCall DEF IInv, Types, FoundInv, Goes, Calls, LaneEffect
<1>1. PICK o \in lane[r].outs :
        l.outs = lane[r].outs \ {o} /\ call' = [call EXCEPT !.results = Append(@, o)]
  BY DEF Finds
<1>2. o \in Held(r) /\ o \in Outputs
  BY <1>0 DEF RangeInv, Held
<1>3. o \notin Range(call.results) /\ at[o] \notin lane[r].todo
  BY <1>0 DEF Finds, RangeInv, Ahead, In
<1>4. call'.results = Append(call.results, o)
  BY <1>0, <1>1 DEF Types, Calls
<1>5. /\ IsInjective(call'.results)
      /\ Range(call'.results) = Range(call.results) \cup {o}
  BY <1>0, <1>2, <1>3, <1>4, OneMore DEF FoundInv
<1>6. Ranges' = Ranges /\ Wanted' = Wanted /\ Held(r)' = Held(r) /\ Matches(r)' = Matches(r)
  BY <1>0, SameWindow
<1>7. Range(call'.results) \subseteq Wanted
  BY <1>0, <1>2, <1>5, HeldWanted DEF FoundInv
<1>8. RangeInv(r)'
  <2>1. Held(r) \ Range(call.results)
          = {p \in Held(r) : at[p] \in lane[r].todo} \cup lane[r].outs
    BY <1>0 DEF Finds, RangeInv, Ahead, In
  <2>2. Held(r) \ Range(call'.results)
          = {p \in Held(r) : at[p] \in l.todo} \cup l.outs
    BY <1>1, <1>3, <1>5, <2>1 DEF Finds
  <2>3. Ahead(r)' = {p \in Held(r) : at[p] \in l.todo} \cup l.outs
    BY <1>0, <1>6 DEF Finds, Ahead
  <2>4. /\ l.todo \subseteq Matches(r) /\ l.outs \subseteq Held(r)
        /\ l.outs # {} => l.stage = "unspent"
        /\ \A p \in l.outs : at[p] \notin l.todo
        /\ l.stage # "done"
    BY <1>0, <1>1 DEF Finds, RangeInv
  <2> QED BY <1>0, <1>6, <2>2, <2>3, <2>4 DEF RangeInv, In
<1>9. ASSUME NEW q \in Ranges, q # r PROVE RangeInv(q)'
  <2>1. o \notin Held(q)
    BY <1>0, <1>2, <1>9, HeldApart
  <2>2. Held(q) \ Range(call'.results) = Held(q) \ Range(call.results)
    BY <1>5, <2>1
  <2>3. lane'[q] = lane[q] /\ RangeInv(q)
    BY <1>0, <1>9, Counts DEF Goes, FoundInv
  <2> QED BY <1>0, <2>2, <2>3, RangeFrame
<1> QED BY <1>5, <1>6, <1>7, <1>8, <1>9 DEF FoundInv

LEMMA NothingFound ==
    /\ IsInjective(<< >>) /\ Range(<< >>) = {}
BY DEF IsInjective, Range

LEMMA FoundKept ==
    ASSUME IInv, [Next]_vars
    PROVE  FoundInv'
<1>0. /\ Types /\ FoundInv /\ PhaseInv /\ lane \in [Starts -> Lanes]
      /\ call.results \in Seq(Outputs)
  BY DEF IInv, Types, Calls
<1>1. CASE Start \/ Refused \/ PoolCreated
  <2>1. lane' = lane /\ call'.results = << >> /\ Unstarted
    <3>1. call.phase \in {"idle", "create"}
      BY <1>1 DEF Start, Refused, PoolCreated
    <3>2. ~Resolve /\ ~Reject
      BY <3>1 DEF Resolve, Reject
    <3> QED BY <1>0, <1>1, <3>1, <3>2, CallStep DEF Unstarted, PhaseInv
  <2>2. \A r \in Starts : lane[r] = Waiting
    BY <1>0, <2>1 DEF PhaseInv, LaneInv
  <2>3. ASSUME NEW r \in Ranges' PROVE RangeInv(r)'
    <3>1. r \in Starts
      BY DEF Ranges
    <3>2. /\ lane'[r].stage = "todo" /\ lane'[r].todo = {} /\ lane'[r].outs = {}
      BY <2>1, <2>2, <3>1 DEF Waiting
    <3>3. Ahead(r)' = Held(r)'
      BY <3>2 DEF Ahead
    <3> QED BY <2>1, <3>2, <3>3, NothingFound DEF RangeInv, In
  <2> QED BY <2>1, <2>3, NothingFound DEF FoundInv
<1>2. CASE Resolve \/ Reject \/ UNCHANGED vars
  <2>1. /\ at' = at /\ lane' = lane
        /\ call'.from = call.from /\ call'.tip = call.tip
        /\ call'.results = call.results \/ call'.results = Sorted(call.results)
    <3>1. CASE UNCHANGED vars
      BY <3>1 DEF vars
    <3>2. CASE Resolve \/ Reject
      <4>1. call.phase = "run"
        BY <3>2 DEF Resolve, Reject
      <4> QED BY <3>2, <4>1, CallStep
    <3> QED BY <1>2, <3>1, <3>2
  <2>2. IsInjective(call'.results) /\ Range(call'.results) = Range(call.results)
    BY <1>0, <2>1, SortedResults DEF FoundInv, Types
  <2>3. Ranges' = Ranges /\ Wanted' = Wanted
    BY <2>1, SameWindow
  <2>4. ASSUME NEW q \in Ranges PROVE RangeInv(q)'
    <3>1. RangeInv(q) /\ lane'[q] = lane[q]
      BY <1>0, <2>1 DEF FoundInv
    <3>2. Held(q) \ Range(call'.results) = Held(q) \ Range(call.results)
      BY <2>2
    <3> QED BY <2>1, <3>1, <3>2, RangeFrame
  <2> QED BY <1>0, <2>2, <2>3, <2>4 DEF FoundInv
<1>3. CASE \E r \in Starts : TakeRange(r)
  <2>1. PICK r \in Starts : TakeRange(r)
    BY <1>3
  <2>2. PICK l \in Lanes : Goes(r, l) /\ l.stage = "fetch" /\ l.todo = {} /\ l.outs = {}
    BY <2>1, TakeEffect
  <2>3. /\ at' = at /\ call'.from = call.from /\ call'.tip = call.tip
        /\ call'.results = call.results /\ r \in Ranges /\ lane[r] = Waiting
    BY <2>1, TakeEffect
  <2>4. /\ Ranges' = Ranges /\ Wanted' = Wanted
        /\ Held(r)' = Held(r) /\ Matches(r)' = Matches(r)
    BY <2>3, SameWindow
  <2>5. RangeInv(r)'
    <3>1. lane'[r] = l
      BY <1>0, <2>2 DEF Goes
    <3>2. Held(r) \ Range(call.results) = Held(r)
      BY <1>0, <2>3 DEF FoundInv, RangeInv, Ahead, Waiting
    <3>3. Ahead(r)' = Held(r)
      BY <2>2, <2>4, <3>1 DEF Ahead
    <3> QED BY <2>2, <2>3, <2>4, <3>1, <3>2, <3>3 DEF RangeInv, In
  <2>6. ASSUME NEW q \in Ranges, q # r PROVE RangeInv(q)'
    <3>1. lane'[q] = lane[q] /\ RangeInv(q)
      BY <1>0, <2>2, <2>6, Counts DEF Goes, FoundInv
    <3> QED BY <2>3, <3>1, RangeFrame
  <2> QED BY <1>0, <2>3, <2>4, <2>5, <2>6 DEF FoundInv
<1>4. CASE \E r \in Starts : OnBlocks(r) \/ LaneStep(r)
  <2>1. PICK r \in Starts : OnBlocks(r) \/ LaneStep(r)
    BY <1>4
  <2>2. PICK l \in Lanes : Goes(r, l) /\ LaneEffect(r, l)
    BY <2>1, LaneStepEffect
  <2>3. r \in Ranges /\ at' = at /\ ~In(r, "todo") /\ ~In(r, "done")
    BY <2>1, LaneStepEffect
  <2>4. CASE Finds(r, l)
    BY <2>2, <2>3, <2>4, FindsKept
  <2>5. CASE ~Finds(r, l)
    <3>1. /\ call'.results = call.results
          /\ call'.from = call.from /\ call'.tip = call.tip
      BY <2>2, <2>3, <2>5, LaneCall
    <3>2. Ranges' = Ranges /\ Wanted' = Wanted
      BY <2>3, <3>1, SameWindow
    <3>3. RangeInv(r)'
      BY <2>2, <2>3, <2>5, RangeStep
    <3>4. ASSUME NEW q \in Ranges, q # r PROVE RangeInv(q)'
      <4>1. lane'[q] = lane[q] /\ RangeInv(q)
        BY <1>0, <2>2, <3>4, Counts DEF Goes, FoundInv
      <4> QED BY <2>3, <3>1, <4>1, RangeFrame
    <3> QED BY <1>0, <3>1, <3>2, <3>3, <3>4 DEF FoundInv
  <2> QED BY <2>4, <2>5
<1> QED BY <1>1, <1>2, <1>3, <1>4 DEF Next

LEMMA SortedKept ==
    ASSUME IInv, [Next]_vars
    PROVE  SortedInv'
<1>0. /\ Types /\ SortedInv /\ PhaseInv /\ FoundInv /\ call.results \in Seq(Outputs)
  BY DEF IInv, Types, Calls
<1>1. CASE Start \/ Refused \/ PoolCreated \/ Reject
  <2>1. call'.phase # "resolved" \/ Resolve
    BY <1>1, CallStep
  <2>2. ~Resolve
    BY <1>1 DEF Start, Refused, PoolCreated, Reject, Resolve, In
  <2> QED BY <2>1, <2>2 DEF SortedInv
<1>2. CASE Resolve
  <2>1. at' = at /\ call'.results = Sorted(call.results)
    <3>1. call.phase = "run" /\ ~Reject
      BY <1>2 DEF Resolve, Reject, In
    <3> QED BY <1>2, <3>1, CallStep
  <2>2. \A i, j \in DOMAIN call'.results :
            i < j => InOrder(call'.results[i], call'.results[j])
    BY <1>0, <2>1, SortedResults DEF FoundInv, Types
  <2> QED BY <2>1, <2>2 DEF SortedInv, InOrder
<1>3. CASE \E r \in Starts : TakeRange(r)
  <2>1. call.phase \in {"run", "rejected"} /\ call'.phase = call.phase
    BY <1>3, TakeEffect
  <2> QED BY <2>1 DEF SortedInv
<1>4. CASE \E r \in Starts : OnBlocks(r) \/ LaneStep(r)
  <2>1. PICK r \in Starts : OnBlocks(r) \/ LaneStep(r)
    BY <1>4
  <2>2. PICK l \in Lanes : Goes(r, l) /\ LaneEffect(r, l)
    BY <2>1, LaneStepEffect
  <2>3. r \in Ranges /\ ~In(r, "done")
    BY <2>1, LaneStepEffect
  <2>4. call'.phase = call.phase
    BY <2>2, <2>3, LaneCall
  <2>5. call.phase # "resolved"
    BY <1>0, <2>3 DEF PhaseInv, LaneInv
  <2> QED BY <2>4, <2>5 DEF SortedInv
<1>5. CASE UNCHANGED vars
  BY <1>0, <1>5 DEF SortedInv, vars, InOrder
<1> QED BY <1>1, <1>2, <1>3, <1>4, <1>5 DEF Next

-----------------------------------------------------------------------------
(* The blocks that count: those of the window, by range and place in it.   *)
AllBlocks == {b \in Ranges \X (1..PerFile) : b[2] <= Relevant(b[1])}

LEMMA BlocksFinite ==
    ASSUME Types
    PROVE  IsFiniteSet(Ranges \X (1..PerFile))
<1>1. IsFiniteSet(1..PerFile) /\ IsFiniteSet(0..MaxTip)
  BY Window, FS_Interval
<1>2. Ranges \in SUBSET (0..MaxTip)
  BY DEF Ranges, Starts, Heights
<1>3. IsFiniteSet(Ranges)
  BY <1>1, <1>2, FS_Subset
<1> QED BY <1>1, <1>3, FS_Product

LEMMA RangeBlocks ==
    ASSUME Types, NEW r \in Ranges, call.from <= call.tip + 1
    PROVE  /\ IsFiniteSet({r} \X (1..Relevant(r)))
           /\ Cardinality({r} \X (1..Relevant(r))) = Relevant(r)
<1>1. PICK n \in Nat : n = Relevant(r)
  BY RelevantBlocks
<1>2. IsFiniteSet({r}) /\ Cardinality({r}) = 1
  BY FS_Singleton
<1>3. IsFiniteSet(1..n) /\ Cardinality(1..n) = n
  BY FS_Interval
<1>4. /\ IsFiniteSet({r} \X (1..n))
      /\ Cardinality({r} \X (1..n)) = 1 * n
  BY <1>2, <1>3, FS_Product
<1> QED BY <1>1, <1>4

(* A block of the window is one block of one range.                        *)
LEMMA BlocksCounted ==
    ASSUME Types, call.from <= call.tip + 1
    PROVE  IsFiniteSet(AllBlocks) /\ Cardinality(AllBlocks) = Total
<1> DEFINE Place(b) == b[1] + Skipped(b[1]) + b[2] - 1
           Window_ == call.from..call.tip
           f == [b \in AllBlocks |-> Place(b)]
<1>1. ASSUME NEW b \in AllBlocks
      PROVE  /\ b[1] \in Ranges /\ b[1] \in Nat /\ b[2] \in Nat /\ b = <<b[1], b[2]>>
             /\ Place(b) \in Int
             /\ call.from <= Place(b) /\ Place(b) <= call.tip
             /\ b[1] <= Place(b) /\ Place(b) < b[1] + PerFile
  <2>1. PICK r \in Ranges, k \in 1..PerFile : b = <<r, k>> /\ k <= Relevant(r)
    BY <1>1 DEF AllBlocks
  <2>2. PICK s \in Nat, n \in 1..PerFile : s = Skipped(r) /\ n = Count(r) /\ k <= n - s
    BY <2>1, RelevantBlocks, Counts DEF Relevant
  <2>3. r \in Nat /\ r + n <= call.tip + 1
    BY <2>2, Counts
  <2>4. call.from <= r + s
    BY <2>2, <2>3, Window DEF Skipped, Most
  <2>5. /\ r + s + k - 1 \in Int /\ call.from <= r + s + k - 1
        /\ r + s + k - 1 <= call.tip /\ r <= r + s + k - 1
        /\ r + s + k - 1 < r + PerFile
    BY <2>2, <2>3, <2>4, Window
  <2> QED BY <2>1, <2>2, <2>3, <2>5
<1>2. f \in [AllBlocks -> Window_]
  <2>1. \A b \in AllBlocks : Place(b) \in Window_
    BY <1>1, Window
  <2> QED BY <2>1
<1>3. ASSUME NEW b \in AllBlocks, NEW c \in AllBlocks, f[b] = f[c] PROVE b = c
  <2>1. PICK r \in Nat, q \in Nat, k \in Nat, l \in Nat, s \in Nat, t \in Nat, p \in Int :
          /\ r \in Ranges /\ q \in Ranges /\ b = <<r, k>> /\ c = <<q, l>>
          /\ s = Skipped(r) /\ t = Skipped(q)
          /\ p = r + s + k - 1 /\ p = q + t + l - 1
          /\ r <= p /\ p < r + PerFile /\ q <= p /\ p < q + PerFile
    BY <1>1, <1>3, RelevantBlocks
  <2>2. r = q
    <3>1. r \in Starts /\ q \in Starts
      BY <2>1, Counts
    <3>2. r < q => r + PerFile <= q
      BY <3>1, StartsApart
    <3>3. q < r => q + PerFile <= r
      BY <3>1, StartsApart
    <3> QED BY <2>1, <3>2, <3>3, Window
  <2>3. k = l
    BY <2>1, <2>2
  <2> QED BY <2>1, <2>2, <2>3
<1>4. ASSUME NEW h \in Window_ PROVE \E b \in AllBlocks : f[b] = h
  <2>1. h \in Nat /\ call.from <= h /\ h <= call.tip
    BY <1>4, Window
  <2>2. PICK r \in Nat : /\ r = FileStart(h) /\ r <= h /\ h < r + PerFile
                        /\ r % PerFile = 0
    BY <2>1, FileStarts
  <2>3. FileStart(call.from) <= r
    BY <2>1, <2>2, Window, FileStartOrder
  <2>4. r \in Starts /\ r <= call.tip
    BY <2>1, <2>2, Window DEF Starts, Heights
  <2>5. r \in Ranges
    BY <2>3, <2>4 DEF Ranges
  <2>6. PICK s \in Nat, n \in 1..PerFile :
          /\ s = Skipped(r) /\ n = Count(r) /\ n - s = Relevant(r)
          /\ n = PerFile \/ r + n = call.tip + 1
    BY <2>5, RelevantBlocks, Counts DEF Relevant
  <2>7. r + s <= h /\ h < r + n
    <3>1. r + s <= h
      <4>1. PICK from \in Nat : from = call.from /\ from <= h
        BY <2>1, Window
      <4>2. r <= h
        BY <2>2
      <4>3. s = from - r \/ s = r - r
        BY <2>6, <4>1 DEF Skipped, Most
      <4> QED BY <2>1, <4>1, <4>2, <4>3
    <3>2. h < r + n
      BY <2>1, <2>2, <2>6, Window
    <3> QED BY <3>1, <3>2
  <2>8. PICK k \in 1..PerFile : k = h - r - s + 1
    BY <2>1, <2>2, <2>6, <2>7, Window
  <2>9. k <= Relevant(r) /\ r + s + k - 1 = h
    BY <2>1, <2>2, <2>6, <2>7, <2>8
  <2>10. PICK b : b = <<r, k>>
    OBVIOUS
  <2>11. b \in AllBlocks
    BY <2>5, <2>8, <2>9, <2>10 DEF AllBlocks
  <2>12. Place(b) = h
    <3>1. b[1] = r /\ b[2] = k
      BY <2>10
    <3> QED BY <2>6, <2>9, <3>1
  <2> QED BY <2>11, <2>12
<1>5. AllBlocks \in SUBSET (Ranges \X (1..PerFile))
  BY DEF AllBlocks
<1>6. IsFiniteSet(AllBlocks)
  BY <1>5, BlocksFinite, FS_Subset
<1>7. ExistsBijection(AllBlocks, Window_)
  <2>1. f \in Bijection(AllBlocks, Window_)
    <3> HIDE DEF Place, Window_, f
    <3> QED BY <1>2, <1>3, <1>4, Fun_IsBij
  <2> QED BY <2>1 DEF ExistsBijection
<1>8. Cardinality(AllBlocks) = Cardinality(Window_)
  BY <1>6, <1>7, FS_Bijection
<1>9. Cardinality(Window_) = IF call.from > call.tip THEN 0 ELSE call.tip - call.from + 1
  <2>1. call.from \in Int /\ call.tip \in Int
    BY Window
  <2> QED BY <2>1, FS_Interval
<1>10. Cardinality(Window_) = Total
  BY <1>9, Window DEF Total
<1> QED BY <1>6, <1>8, <1>10

LEMMA DoneFinite ==
    ASSUME Types
    PROVE  IsFiniteSet(DoneBlocks) /\ DoneBlocks \subseteq AllBlocks
<1>1. DoneBlocks \in SUBSET (Ranges \X (1..PerFile)) /\ DoneBlocks \subseteq AllBlocks
  BY DEF DoneBlocks, AllBlocks
<1> QED BY <1>1, BlocksFinite, FS_Subset

(* A step that finishes no range.                                          *)
LEMMA DoneFrame ==
    ASSUME DoneInv, at' = at, call'.from = call.from, call'.tip = call.tip,
           call'.done = call.done,
           \A q \in Ranges : lane'[q].stage = "done" <=> lane[q].stage = "done"
    PROVE  DoneInv'
<1>1. Ranges' = Ranges /\ \A r : Relevant(r)' = Relevant(r)
  BY SameWindow
<1>2. DoneBlocks' = DoneBlocks
  BY <1>1 DEF DoneBlocks, In
<1> QED BY <1>2 DEF DoneInv

LEMMA DoneKept ==
    ASSUME IInv, [Next]_vars
    PROVE  DoneInv'
<1>0. /\ Types /\ DoneInv /\ PhaseInv /\ lane \in [Starts -> Lanes]
      /\ call.done \in Int /\ Ranges \subseteq Starts
  BY DEF IInv, Types, Calls, Ranges
<1>1. CASE Start \/ Refused \/ PoolCreated
  <2>1. lane' = lane /\ call'.done = 0 /\ Unstarted
    <3>1. call.phase \in {"idle", "create"}
      BY <1>1 DEF Start, Refused, PoolCreated
    <3> QED BY <1>0, <1>1, <3>1, CallStep DEF Unstarted, PhaseInv
  <2>2. \A r \in Starts : lane'[r].stage = "todo"
    BY <1>0, <2>1 DEF PhaseInv, LaneInv, In
  <2>3. DoneBlocks' = {}
    BY <2>2 DEF DoneBlocks, In, Ranges
  <2> QED BY <2>1, <2>3, FS_EmptySet DEF DoneInv
<1>2. CASE Resolve \/ Reject
  <2>1. call.phase = "run"
    BY <1>2 DEF Resolve, Reject
  <2>2. /\ at' = at /\ lane' = lane /\ call'.done = call.done
        /\ call'.from = call.from /\ call'.tip = call.tip
    BY <1>2, <2>1, CallStep
  <2> QED BY <1>0, <2>2, DoneFrame
<1>3. CASE \E r \in Starts : TakeRange(r)
  <2>1. PICK r \in Starts : TakeRange(r)
    BY <1>3
  <2>2. PICK l \in Lanes : Goes(r, l) /\ l.stage = "fetch"
    BY <2>1, TakeEffect
  <2>3. /\ at' = at /\ call'.from = call.from /\ call'.tip = call.tip
        /\ call'.done = call.done /\ lane[r] = Waiting
    BY <2>1, TakeEffect
  <2>4. \A q \in Starts : lane'[q].stage = "done" <=> lane[q].stage = "done"
    BY <1>0, <2>2, <2>3 DEF Goes, Waiting
  <2> QED BY <1>0, <2>3, <2>4, DoneFrame
<1>4. CASE \E r \in Starts : OnBlocks(r) \/ LaneStep(r)
  <2>1. PICK r \in Starts : OnBlocks(r) \/ LaneStep(r)
    BY <1>4
  <2>2. PICK l \in Lanes : Goes(r, l) /\ LaneEffect(r, l)
    BY <2>1, LaneStepEffect
  <2>3. r \in Ranges /\ at' = at /\ lane[r].stage # "done"
    BY <2>1, LaneStepEffect DEF In
  <2>4. /\ call'.from = call.from /\ call'.tip = call.tip
        /\ call'.done = call.done \/ Finishes(r, l)
    BY <2>2, <2>3, LaneCall
  <2>5. CASE Finishes(r, l)
    <3>1. SUFFICES ASSUME call.from <= call.tip + 1
                   PROVE  call'.done = Cardinality(DoneBlocks')
      BY <2>4 DEF DoneInv
    <3>2. PICK n \in Nat : n = Relevant(r) /\ n <= PerFile
      BY <1>0, <2>3, <3>1, RelevantBlocks, Window
    <3>3. Ranges' = Ranges /\ \A q : Relevant(q)' = Relevant(q)
      BY <2>3, <2>4, SameWindow
    <3>4. \A q \in Starts : lane'[q].stage = "done" <=> q = r \/ lane[q].stage = "done"
      BY <1>0, <2>2, <2>5 DEF Goes, Finishes
    <3>5. PICK B : B = {r} \X (1..n)
      OBVIOUS
    <3>6. DoneBlocks' = DoneBlocks \cup B
      <4>1. DoneBlocks' = {b \in Ranges \X (1..PerFile) :
                             (b[1] = r \/ In(b[1], "done")) /\ b[2] <= Relevant(b[1])}
        BY <1>0, <3>3, <3>4 DEF DoneBlocks, In
      <4>2. \A b \in Ranges \X (1..PerFile) :
               b \in B <=> b[1] = r /\ b[2] <= Relevant(b[1])
        BY <3>2, <3>5, Window, <1>0
      <4>3. B \subseteq Ranges \X (1..PerFile)
        BY <1>0, <2>3, <3>2, <3>5, Window
      <4> QED BY <4>1, <4>2, <4>3 DEF DoneBlocks
    <3>7. DoneBlocks \cap B = {}
      BY <2>3, <3>5 DEF DoneBlocks, In
    <3>8. IsFiniteSet(B) /\ Cardinality(B) = n
      BY <1>0, <2>3, <3>1, <3>2, <3>5, RangeBlocks
    <3>9. IsFiniteSet(DoneBlocks) /\ Cardinality(DoneBlocks) = call.done
      BY <1>0, <3>1, DoneFinite DEF DoneInv
    <3>10. Cardinality(DoneBlocks') = call.done + n - 0
      BY <3>6, <3>7, <3>8, <3>9, FS_Union, FS_EmptySet
    <3>11. call'.done = call.done + n
      <4>1. call \in Calls
        BY <1>0 DEF Types
      <4> QED BY <2>5, <3>2, <4>1 DEF Finishes, Calls
    <3> QED BY <1>0, <3>10, <3>11
  <2>6. CASE ~Finishes(r, l)
    <3>1. l.stage # "done"
      BY <2>2, <2>6 DEF LaneEffect, Fetches, Matched, Reads, Identifies, Finds, Stops
    <3>2. \A q \in Starts : lane'[q].stage = "done" <=> lane[q].stage = "done"
      BY <1>0, <2>2, <2>3, <3>1 DEF Goes
    <3> QED BY <1>0, <2>3, <2>4, <2>6, <3>2, DoneFrame
  <2> QED BY <2>5, <2>6
<1>5. CASE UNCHANGED vars
  BY <1>0, <1>5, DoneFrame DEF vars
<1> QED BY <1>1, <1>2, <1>3, <1>4, <1>5 DEF Next

-----------------------------------------------------------------------------
LEMMA WaitingIsLane == Waiting \in Lanes
<1>1. 1 \in 1..Attempts /\ 0 \in 0..PerFile
  BY ConstantsAssumption
<1> QED BY <1>1 DEF Waiting, Lanes, Stages

LEMMA InitIInv == Init => IInv
<1> SUFFICES ASSUME Init PROVE IInv
  OBVIOUS
<1>1. /\ call = [phase |-> "idle", from |-> 0, tip |-> 0, pooled |-> FALSE,
                 next |-> 0, done |-> 0, results |-> << >>]
      /\ lane = [r \in Starts |-> Waiting] /\ faults = 0
  BY DEF Init
<1>2. Types
  <2>1. call \in Calls
    <3>1. 0 \in 0..MaxTip /\ 0 \in Nat /\ 0 \in Int
      BY ConstantsAssumption
    <3>2. << >> \in Seq(Outputs)
      BY EmptySeq
    <3> QED BY <1>1, <3>1, <3>2 DEF Calls, Phases
  <2>2. lane \in [Starts -> Lanes]
    BY <1>1, WaitingIsLane
  <2>3. faults \in 0..MaxFaults
    BY <1>1, ConstantsAssumption
  <2> QED BY <2>1, <2>2, <2>3 DEF Init, Types
<1>3. /\ call.phase = "idle" /\ call.from = 0 /\ call.tip = 0
      /\ call.results = << >> /\ call.done = 0
  BY <1>1
<1>4. \A r \in Starts : /\ lane[r] = Waiting /\ lane[r].stage = "todo"
                        /\ lane[r].todo = {} /\ lane[r].outs = {} /\ lane[r].blocks = 0
  BY <1>1 DEF Waiting
<1>5. PhaseInv
  <2>1. \A r \in Starts : LaneInv(r)
    BY <1>3, <1>4 DEF LaneInv, In
  <2> QED BY <1>3, <2>1 DEF PhaseInv
<1>6. WidthInv
  <2>1. Taken = {}
    BY <1>4 DEF Taken
  <2> QED BY <2>1, FS_EmptySet, ConstantsAssumption DEF WidthInv
<1>7. CauseInv
  BY <1>3, <1>4 DEF CauseInv
<1>8. FoundInv
  <2>1. ASSUME NEW r \in Ranges PROVE RangeInv(r)
    <3>1. r \in Starts
      BY DEF Ranges
    <3>2. Ahead(r) = Held(r)
      BY <1>4, <3>1 DEF Ahead
    <3> QED BY <1>3, <1>4, <3>1, <3>2, NothingFound DEF RangeInv, In
  <2> QED BY <1>3, <2>1, NothingFound DEF FoundInv
<1>9. SortedInv
  BY <1>3 DEF SortedInv
<1>10. DoneInv
  <2>1. DoneBlocks = {}
    BY <1>4 DEF DoneBlocks, In, Ranges
  <2> QED BY <1>3, <2>1, FS_EmptySet DEF DoneInv
<1> QED BY <1>2, <1>5, <1>6, <1>7, <1>8, <1>9, <1>10 DEF IInv

LEMMA NextIInv == IInv /\ [Next]_vars => IInv'
BY TypesKept, PhaseKept, WidthKept, CauseKept, FoundKept, SortedKept, DoneKept DEF IInv

LEMMA Invariance == Spec => []IInv
BY InitIInv, NextIInv, PTL DEF Spec

(* Every variable stays in its domain, and the sliding window never runs   *)
(* more lanes than it has units, a failed lane keeping its own for good    *)
(* (mapPool() as scan() uses it).                                          *)
THEOREM TypeCorrect == Spec => []TypeOK
<1>1. IInv => TypeOK
  BY DEF IInv, Types, WidthInv, TypeOK
<1> QED BY <1>1, Invariance, PTL

(* However lanes interleave, stop, fetch again or go on after scan() has   *)
(* rejected, an output of the window is found at most once and nothing     *)
(* else is; a scan that resolves has found them all and returns them by    *)
(* chain position (spscanner.ts:451-489).                                  *)
THEOREM ScanFindsAll == Spec => []Complete
<1>1. IInv => Complete
  <2> SUFFICES ASSUME IInv PROVE Complete
    OBVIOUS
  <2>1. Types /\ PhaseInv /\ FoundInv /\ SortedInv
    BY DEF IInv
  <2>2. ASSUME call.phase = "resolved", NEW o \in Wanted PROVE o \in Range(call.results)
    <3>1. PICK r \in Ranges : o \in Held(r)
      BY <2>1, HeldWanted
    <3>2. In(r, "done")
      BY <2>1, <2>2 DEF PhaseInv, LaneInv, Ranges
    <3>3. Held(r) \ Range(call.results) = {}
      BY <2>1, <3>2 DEF FoundInv, RangeInv, Ahead, In
    <3> QED BY <3>1, <3>3
  <2> QED BY <2>1, <2>2 DEF Complete, FoundInv, SortedInv
<1> QED BY <1>1, Invariance, PTL

(* The blocks a range under way has reported are blocks of the window, and *)
(* none of a range that is done.                                           *)
LEMMA ReportedApart ==
    ASSUME Types, PhaseInv
    PROVE  /\ IsFiniteSet(Reported) /\ Reported \subseteq AllBlocks
           /\ Reported \cap DoneBlocks = {}
<1>1. Reported \in SUBSET (Ranges \X (1..PerFile))
  BY DEF Reported
<1>2. ASSUME NEW b \in Reported
      PROVE  b[2] <= Relevant(b[1]) /\ ~In(b[1], "done")
  <2>1. PICK r \in Ranges, k \in 1..PerFile : b = <<r, k>> /\ k <= Partial(r)
    BY <1>2 DEF Reported
  <2>2. PICK m \in Int, s \in Nat, n \in Nat :
          m = Relevant(r) /\ s = Skipped(r) /\ n = lane[r].blocks
    <3>1. lane[r].blocks \in Nat
      BY Counts, Window DEF Types, Lanes
    <3> QED BY <3>1, RelevantBlocks
  <2>3. n # 0 /\ k <= m
    BY <2>1, <2>2 DEF Partial, Least, Most
  <2>4. ~In(r, "done")
    BY <2>2, <2>3, Counts DEF PhaseInv, LaneInv
  <2> QED BY <2>1, <2>2, <2>3, <2>4
<1>3. Reported \subseteq AllBlocks
  BY <1>1, <1>2 DEF AllBlocks
<1>4. Reported \cap DoneBlocks = {}
  BY <1>2 DEF DoneBlocks
<1> QED BY <1>1, <1>3, <1>4, BlocksFinite, FS_Subset

(* The progress that scan() reports is the number of blocks of the window  *)
(* that are done or under way, each counted once: it stays within the      *)
(* total and has reached it when scan() resolves (spscanner.ts:398-410,    *)
(* 480-483).                                                               *)
THEOREM ProgressIsExact == Spec => []ProgressExact
<1>1. IInv => ProgressExact
  <2> SUFFICES ASSUME IInv, call.from <= call.tip + 1
               PROVE  /\ 0 <= Progress /\ Progress <= Total
                      /\ call.phase = "resolved" => Progress = Total
    BY DEF ProgressExact
  <2>1. Types /\ PhaseInv /\ call.done = Cardinality(DoneBlocks)
    BY DEF IInv, DoneInv
  <2>2. /\ IsFiniteSet(DoneBlocks) /\ IsFiniteSet(Reported) /\ IsFiniteSet(AllBlocks)
        /\ DoneBlocks \cup Reported \in SUBSET AllBlocks
        /\ DoneBlocks \cap Reported = {}
    BY <2>1, DoneFinite, ReportedApart, BlocksCounted
  <2>3. PICK d \in Nat, p \in Nat, n \in Nat :
          d = Cardinality(DoneBlocks) /\ p = Cardinality(Reported)
          /\ n = Cardinality(AllBlocks)
    BY <2>2, FS_CardinalityType
  <2>4. n = Total /\ Progress = d + p
    BY <2>1, <2>3, BlocksCounted DEF Progress
  <2>5. Cardinality(DoneBlocks \cup Reported) = d + p
    <3>1. Cardinality(DoneBlocks \cup Reported)
            = Cardinality(DoneBlocks) + Cardinality(Reported)
                - Cardinality(DoneBlocks \cap Reported)
      BY <2>2, FS_Union
    <3>2. Cardinality(DoneBlocks \cap Reported) = 0
      BY <2>2, FS_EmptySet
    <3> QED BY <2>3, <3>1, <3>2
  <2>6. d + p <= n
    BY <2>2, <2>3, <2>5, FS_Subset
  <2>7. ASSUME call.phase = "resolved" PROVE DoneBlocks \cup Reported = AllBlocks
    <3>1. \A r \in Ranges : In(r, "done")
      BY <2>1, <2>7 DEF PhaseInv, LaneInv, Ranges
    <3>2. DoneBlocks = AllBlocks
      BY <3>1 DEF DoneBlocks, AllBlocks
    <3> QED BY <2>2, <3>2
  <2>8. 0 <= Progress /\ Progress <= Total
    BY <2>3, <2>4, <2>6
  <2>9. call.phase = "resolved" => Progress = Total
    BY <2>3, <2>4, <2>5, <2>7
  <2> QED BY <2>8, <2>9
<1> QED BY <1>1, Invariance, PTL

(* A scan rejects only for a fault that no retry heals: a download that    *)
(* failed, a worker that died, or a file the server has wrong or short; a  *)
(* stale copy alone never does it (spscanner.ts:610-617, blockdn.ts:68-103). *)
THEOREM RejectsForCause == Spec => []RejectedForCause
<1>1. IInv => RejectedForCause
  BY DEF IInv, CauseInv, Cause, RejectedForCause
<1> QED BY <1>1, Invariance, PTL
===============================================================================
