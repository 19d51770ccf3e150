-------------------------- MODULE PlaintextProofs --------------------------
(***************************************************************************)
(* The scanner of verify-no-plaintext.js, for rows of every length: what   *)
(* longestPrintableRun returns is the length of the longest printable run, *)
(* so no fragment of PRINTABLE_RUN_LIMIT bytes is passed over, and exit    *)
(* code 0 means what it says for an outbox of any size.                    *)
(***************************************************************************)
EXTENDS Plaintext, FiniteSetTheorems, TLAPS

\* `current' is the length of the run that ends at the last byte read: those
\* units are printable and the one before them, if any, is not.
Ending ==
    /\ current \in 0..at
    /\ IsRun(at - current + 1, at)
    /\ current < at => Text[at - current] # "ascii"

Longest ==
    /\ \A i, j \in 1..at : i <= j /\ IsRun(i, j) => j - i + 1 <= best
    /\ best > 0 => \E i, j \in 1..at : IsRun(i, j) /\ j - i + 1 = best

Scan == at \in Nat /\ best \in Nat /\ current <= best /\ Ending /\ Longest

ScanInv == phase = "scan" => Scan

\* One byte of the loop (lines 55-62) keeps the invariant.
LEMMA ScanStep == Scan /\ ScanUnit => Scan'
<1> SUFFICES ASSUME Scan, ScanUnit PROVE Scan'
  OBVIOUS
<1>1. /\ at \in Nat /\ best \in Nat /\ current \in 0..at /\ current <= best
      /\ at' = at + 1 /\ at' \in Nat
      /\ current' = Counted(Text[at'])
      /\ best' = IF current' > best THEN current' ELSE best
  BY DEF Scan, Ending, ScanUnit
<1>2. \A i, j : IsRun(i, j)' <=> IsRun(i, j)
  BY DEF ScanUnit, IsRun, Text
<1>3. current' = (IF Text[at'] = "ascii" THEN current + 1 ELSE 0)
  BY <1>1 DEF Counted
<1>4. best' \in Nat /\ current' <= best' /\ best <= best'
  BY <1>1, <1>3
<1>5. Ending'
  <2>1. Text' = Text
    BY DEF ScanUnit, Text
  <2>2. CASE Text[at'] = "ascii"
    <3>1. current' = current + 1 /\ at' - current' = at - current
      BY <1>1, <1>3, <2>2
    <3>2. IsRun(at' - current' + 1, at')
      <4> SUFFICES ASSUME NEW k \in (at - current + 1)..(at + 1)
                   PROVE  Text[k] = "ascii"
        BY <1>1, <3>1 DEF IsRun
      <4>1. CASE k = at + 1
        BY <1>1, <2>2, <4>1
      <4>2. CASE k # at + 1
        <5>1. k \in (at - current + 1)..at
          BY <1>1, <4>2
        <5> QED
          BY <5>1 DEF Scan, Ending, IsRun
      <4> QED
        BY <4>1, <4>2
    <3>3. current' < at' => Text[at' - current'] # "ascii"
      BY <1>1, <3>1 DEF Scan, Ending
    <3> QED
      BY <1>1, <1>2, <2>1, <3>1, <3>2, <3>3 DEF Ending
  <2>3. CASE Text[at'] # "ascii"
    <3>1. current' = 0 /\ at' - current' = at'
      BY <1>1, <1>3, <2>3
    <3>2. IsRun(at' + 1, at')
      BY <1>1 DEF IsRun
    <3>3. IsRun(at' - current' + 1, at')
      BY <1>1, <3>1, <3>2
    <3> QED
      BY <1>1, <1>2, <2>1, <2>3, <3>1, <3>3 DEF Ending
  <2> QED
    BY <2>2, <2>3
<1>6. \A i, j \in 1..at' : i <= j /\ IsRun(i, j) => j - i + 1 <= best'
  <2> SUFFICES ASSUME NEW i \in 1..at', NEW j \in 1..at', i <= j, IsRun(i, j)
               PROVE  j - i + 1 <= best'
    OBVIOUS
  <2>1. CASE j <= at
    <3>1. i \in 1..at /\ j \in 1..at
      BY <1>1, <2>1
    <3>2. j - i + 1 <= best
      BY <3>1 DEF Scan, Longest
    <3> QED
      BY <1>1, <1>4, <3>1, <3>2
  <2>2. CASE j = at'
    <3>1. IsRun(i, at')
      BY <2>2
    <3>2. Text' = Text
      BY DEF ScanUnit, Text
    <3>3. current' \in Nat
      BY <1>1, <1>3
    <3>4. at' - i + 1 <= current'
      <4>1. CASE current' = at'
        BY <4>1, <1>1
      <4>2. CASE current' # at'
        <5>1. current' \in 0..at' /\ current' < at' /\ Text[at' - current'] # "ascii"
          BY <1>1, <1>5, <3>2, <4>2 DEF Ending
        <5>2. ~(at' - current' \in i..at')
          BY <3>1, <5>1 DEF IsRun
        <5> QED
          BY <1>1, <5>1, <5>2
      <4> QED
        BY <4>1, <4>2
    <3> QED
      BY <1>1, <1>4, <2>2, <3>3, <3>4
  <2> QED
    BY <1>1, <2>1, <2>2
<1>7. best' > 0 => \E i, j \in 1..at' : IsRun(i, j) /\ j - i + 1 = best'
  <2>1. CASE best' = best
    <3> SUFFICES ASSUME best > 0
                 PROVE  \E i, j \in 1..at' : IsRun(i, j) /\ j - i + 1 = best
      BY <2>1
    <3>1. PICK i \in 1..at, j \in 1..at : IsRun(i, j) /\ j - i + 1 = best
      BY DEF Scan, Longest
    <3>2. i \in 1..at' /\ j \in 1..at'
      BY <1>1
    <3> QED
      BY <3>1, <3>2
  <2>2. CASE best' = current' /\ current' > best
    <3>1. current' = current + 1 /\ current' \in 1..at'
      BY <1>1, <1>3, <2>2
    <3>2. IsRun(at' - current' + 1, at')
      BY <1>2, <1>5 DEF Ending
    <3>3. at' - current' + 1 \in 1..at' /\ at' \in 1..at'
      BY <1>1, <3>1
    <3>4. at' - (at' - current' + 1) + 1 = best'
      BY <1>1, <2>2, <3>1
    <3> QED
      BY <3>2, <3>3, <3>4
  <2> QED
    BY <1>1, <2>1, <2>2
<1>8. Longest'
  BY <1>2, <1>6, <1>7 DEF Longest
<1> QED
  BY <1>1, <1>4, <1>5, <1>8 DEF Scan

\* A row is scanned from its first byte, with both counters at zero.
LEMMA ScanStarts == TakeRow /\ phase' = "scan" => Scan'
<1> SUFFICES ASSUME TakeRow PROVE Scan'
  OBVIOUS
<1>1. at' = 0 /\ current' = 0 /\ best' = 0
  BY DEF TakeRow
<1> QED
  BY <1>1 DEF Scan, Ending, Longest, IsRun

LEMMA ScanInvKept == ScanInv /\ [PlaintextNext]_plainVars => ScanInv'
<1> SUFFICES ASSUME ScanInv, [PlaintextNext]_plainVars, phase' = "scan"
             PROVE  Scan'
  BY DEF ScanInv
<1>1. CASE TakeRow
  BY <1>1, ScanStarts
<1>2. CASE ScanUnit
  <2>1. phase = "scan"
    BY <1>2 DEF ScanUnit
  <2> QED
    BY <1>2, <2>1, ScanStep DEF ScanInv
<1>3. CASE Judge
  BY <1>3 DEF Judge
<1>4. CASE CloseOutbox
  BY <1>4 DEF CloseOutbox
<1>5. CASE CheckNonceReuse
  BY <1>5 DEF CheckNonceReuse
<1>6. CASE UNCHANGED plainVars
  BY <1>6 DEF plainVars, ScanInv, Scan, Ending, Longest, IsRun, Text
<1> QED
  BY <1>1, <1>2, <1>3, <1>4, <1>5, <1>6 DEF PlaintextNext

\* RunFound, for every outbox: at each byte of the loop `best' is the length of
\* the longest printable run read so far (lines 52-64).
THEOREM LongestRunFound == PlaintextSpec => []RunFound
<1>1. PlaintextInit => ScanInv
  BY DEF PlaintextInit, ScanInv
<1>2. ScanInv => RunFound
  BY DEF ScanInv, Scan, Longest, RunFound
<1> QED
  BY <1>1, <1>2, ScanInvKept, PTL DEF PlaintextSpec

-----------------------------------------------------------------------------
\* What is known of the rows that are done with, and of the one at hand.
Judged ==
    /\ failed = 0 => \A i \in DOMAIN rows : i < row => Sealed(rows[i])
    /\ phase = "scan" /\ failed = 0 => rows[row].nonceFits
    /\ phase = "done" /\ failed = 0 =>
          \A i, j \in DOMAIN rows : rows[i].nonce = rows[j].nonce => i = j

\* `flagged' and the report's counter agree as long as checkOutbox runs.
Counters ==
    /\ flagged \in Nat /\ failed \in Nat
    /\ phase # "done" => (flagged = 0 => failed = 0)
    /\ ok => flagged = 0
    /\ phase \in {"row", "scan"} => ~ok

Place ==
    /\ rows \in Seq(OutboxRow)
    /\ row \in 1..(Len(rows) + 1)
    /\ phase \in {"row", "scan", "nonces", "done"}
    /\ phase = "scan" => row <= Len(rows) /\ Text # <<>>
    /\ phase \in {"nonces", "done"} => row = Len(rows) + 1

ExitInv == Place /\ Counters /\ Judged /\ ScanInv

LEMMA TextIsSeq == ASSUME Place, row <= Len(rows) PROVE rows[row] \in OutboxRow /\ Text \in Seq(Unit)
<1>1. row \in 1..Len(rows)
  BY DEF Place
<1>2. rows[row] \in OutboxRow
  BY <1>1 DEF Place
<1> QED
  BY <1>2 DEF OutboxRow, Text

\* An empty ciphertext is shorter than the MAC and is never scanned.
LEMMA EmptyIsShort == Text = <<>> => Size < MacBytes
<1> SUFFICES ASSUME Text = <<>> PROVE Size < MacBytes
  OBVIOUS
<1>1. \A units : {i \in DOMAIN Text : Text[i] \in units} = {}
  OBVIOUS
<1>2. Count({"letter"}) = 0 /\ Count({"symbol"}) = 0
  BY <1>1, FS_EmptySet, Zenon DEF Count
<1>3. Len(Text) = 0
  OBVIOUS
<1> QED
  BY <1>2, <1>3, LimitAssumption DEF Size

\* A row that holds a fragment of plaintext is suspicious, once it is read.
LEMMA FragmentsAreCaught ==
    ASSUME Scan, Text \in Seq(Unit), at = Len(Text), Fragment(Text)
    PROVE  Suspicious
<1>1. PICK i \in 1..Len(Text) : /\ i + RunLimit - 1 <= Len(Text)
                                /\ \A k \in i..(i + RunLimit - 1) : Text[k] = "ascii"
  BY DEF Fragment
<1>2. RunLimit \in Nat \ {0} /\ Len(Text) \in Nat /\ best \in Nat
  BY LimitAssumption DEF Scan
<1>3. i + RunLimit - 1 \in 1..at /\ i \in 1..at /\ i <= i + RunLimit - 1
  BY <1>1, <1>2
<1>4. IsRun(i, i + RunLimit - 1)
  BY <1>1 DEF IsRun
<1>5. (i + RunLimit - 1) - i + 1 <= best
  BY <1>3, <1>4 DEF Scan, Longest
<1>6. best >= RunLimit
  BY <1>2, <1>3, <1>5
<1> QED
  BY <1>6 DEF Suspicious

\* A row that reads as a text in Korean or English is suspicious.
LEMMA TextsAreCaught ==
    ASSUME Text \in Seq(Unit), Text # <<>>, KoreanOrEnglish(Text)
    PROVE  Suspicious
<1>1. {i \in DOMAIN Text : Text[i] \in {"stray"}} = {}
  BY DEF KoreanOrEnglish
<1>2. Valid
  BY <1>1, FS_EmptySet, Zenon DEF Valid, Count
<1>3. Len(Text) > 0
  OBVIOUS
<1>4. 10 * Count({"ascii", "letter"}) >= 7 * Len(Text)
  BY Zenon DEF KoreanOrEnglish, Count
<1> QED
  BY <1>2, <1>3, <1>4 DEF Suspicious, Readable

LEMMA IndexCount == \A n \in Nat : IsFiniteSet(1..n) /\ Cardinality(1..n) = n
<1> SUFFICES ASSUME NEW n \in Nat PROVE IsFiniteSet(1..n) /\ Cardinality(1..n) = n
  OBVIOUS
<1>1. IsFiniteSet(1..n) /\ Cardinality(1..n) = IF 1 > n THEN 0 ELSE n - 1 + 1
  BY FS_Interval
<1> QED
  BY <1>1

\* COUNT(*) = COUNT(DISTINCT nonce) only if no two rows share a nonce.
LEMMA DistinctCount ==
    ASSUME NEW s \in Seq(OutboxRow),
           Cardinality({s[i].nonce : i \in DOMAIN s}) = Len(s)
    PROVE  \A i, j \in DOMAIN s : s[i].nonce = s[j].nonce => i = j
<1> DEFINE N == {s[i].nonce : i \in DOMAIN s}
           f == [i \in DOMAIN s |-> s[i].nonce]
<1>1. DOMAIN s = 1..Len(s) /\ Len(s) \in Nat
  OBVIOUS
<1>2. IsFiniteSet(DOMAIN s) /\ Cardinality(DOMAIN s) = Len(s)
  BY <1>1, IndexCount
<1>3. f \in Surjection(DOMAIN s, N)
  BY DEF Surjection
<1>4. f \in Injection(DOMAIN s, N)
  BY <1>2, <1>3, FS_SurjSameCardinalityImpliesInj
<1> QED
  BY <1>4 DEF Injection, IsInjective

LEMMA ExitInit == PlaintextInit => ExitInv
<1> SUFFICES ASSUME PlaintextInit PROVE ExitInv
  OBVIOUS
<1>1. rows \in Seq(OutboxRow) /\ Len(rows) \in Nat
  BY BatchAssumption DEF PlaintextInit
<1>2. Place
  BY <1>1 DEF Place, PlaintextInit
<1>3. Counters
  BY DEF Counters, PlaintextInit
<1>4. Judged
  BY <1>1 DEF Judged, PlaintextInit
<1> QED
  BY <1>2, <1>3, <1>4 DEF ExitInv, ScanInv, PlaintextInit

LEMMA TakeRowKeeps == ExitInv /\ TakeRow => Place' /\ Counters' /\ Judged'
<1> SUFFICES ASSUME ExitInv, TakeRow PROVE Place' /\ Counters' /\ Judged'
  OBVIOUS
<1> DEFINE short == Size < MacBytes
<1>1. /\ Place /\ Counters /\ Judged /\ phase = "row" /\ row <= Len(rows)
      /\ rows' = rows /\ ok' = ok
      /\ row' = (IF short THEN row + 1 ELSE row)
      /\ phase' = (IF short THEN "row" ELSE "scan")
      /\ flagged' = flagged + Flags
      /\ failed' = failed + IF short \/ ~rows[row].nonceFits THEN 1 ELSE 0
      /\ row \in Nat /\ Len(rows) \in Nat /\ failed \in Nat /\ flagged \in Nat
  BY DEF ExitInv, TakeRow, Place, Counters
<1>2. /\ flagged' = (IF short \/ ~rows[row].nonceFits THEN flagged + 1 ELSE flagged)
      /\ failed' = (IF short \/ ~rows[row].nonceFits THEN failed + 1 ELSE failed)
  BY <1>1 DEF Flags
<1>3. Place'
  <2>1. CASE short
    BY <1>1, <2>1 DEF Place
  <2>2. CASE ~short
    <3>1. Text # <<>> /\ Text' = Text
      BY <1>1, <2>2, EmptyIsShort DEF Text
    <3> QED
      BY <1>1, <2>2, <3>1 DEF Place
  <2> QED
    BY <2>1, <2>2
<1>4. ~ok
  BY <1>1 DEF Counters
<1>5. Counters'
  BY <1>1, <1>2, <1>4 DEF Counters
<1>6. Judged'
  <2>1. CASE short
    BY <1>1, <1>2, <2>1 DEF Judged
  <2>2. CASE ~short
    BY <1>1, <1>2, <2>2 DEF Judged
  <2> QED
    BY <2>1, <2>2
<1> QED
  BY <1>3, <1>5, <1>6

LEMMA JudgeKeeps == ExitInv /\ Judge => Place' /\ Counters' /\ Judged'
<1> SUFFICES ASSUME ExitInv, Judge PROVE Place' /\ Counters' /\ Judged'
  OBVIOUS
<1>1. /\ Place /\ Counters /\ Judged /\ Scan /\ phase = "scan" /\ at = Len(Text)
      /\ rows' = rows /\ ok' = ok /\ row' = row + 1 /\ phase' = "row"
      /\ flagged' = (IF Suspicious THEN flagged + 1 ELSE flagged)
      /\ failed' = (IF Suspicious THEN failed + 1 ELSE failed)
  BY DEF ExitInv, ScanInv, Judge
<1>2. /\ row \in 1..Len(rows) /\ row \in DOMAIN rows /\ Text # <<>> /\ Text = rows[row].text
      /\ Len(rows) \in Nat /\ flagged \in Nat /\ failed \in Nat
  BY <1>1 DEF Place, Counters, Text
<1>3. Text \in Seq(Unit)
  BY <1>1, <1>2, TextIsSeq
<1>4. failed' = 0 => failed = 0 /\ ~Suspicious
  BY <1>1, <1>2
<1>5. failed' = 0 => Sealed(rows[row])
  <2> SUFFICES ASSUME failed' = 0 PROVE Sealed(rows[row])
    OBVIOUS
  <2>1. rows[row].nonceFits
    BY <1>1, <1>4 DEF Judged
  <2>2. ~Fragment(Text) /\ ~KoreanOrEnglish(Text)
    BY <1>1, <1>2, <1>3, <1>4, FragmentsAreCaught, TextsAreCaught
  <2> QED
    BY <1>2, <2>1, <2>2 DEF Sealed
<1>6. Judged'
  <2>1. failed' = 0 => \A i \in DOMAIN rows : i < row + 1 => Sealed(rows[i])
    <3> SUFFICES ASSUME failed' = 0, NEW i \in DOMAIN rows, i < row + 1
                 PROVE  Sealed(rows[i])
      OBVIOUS
    <3>1. i < row \/ i = row
      BY <1>1, <1>2 DEF Place
    <3>2. CASE i < row
      BY <1>1, <1>4, <3>2 DEF Judged
    <3>3. CASE i = row
      BY <1>5, <3>3
    <3> QED
      BY <3>1, <3>2, <3>3
  <2> QED
    BY <1>1, <2>1 DEF Judged
<1>7. Place'
  BY <1>1, <1>2 DEF Place
<1>8. Counters'
  BY <1>1, <1>2 DEF Counters
<1> QED
  BY <1>6, <1>7, <1>8

LEMMA NoncesKeep == ExitInv /\ CheckNonceReuse => Place' /\ Counters' /\ Judged'
<1> SUFFICES ASSUME ExitInv, CheckNonceReuse PROVE Place' /\ Counters' /\ Judged'
  OBVIOUS
<1>1. /\ Place /\ Counters /\ Judged /\ phase = "nonces" /\ phase' = "done"
      /\ UNCHANGED <<rows, row, flagged, ok>>
      /\ failed' = IF Cardinality({rows[i].nonce : i \in DOMAIN rows}) # Len(rows)
                   THEN failed + 1 ELSE failed
  BY DEF ExitInv, CheckNonceReuse
<1>2. Place' /\ Counters'
  BY <1>1 DEF Place, Counters
<1>3. failed' = 0 =>
        /\ failed = 0
        /\ \A i, j \in DOMAIN rows : rows[i].nonce = rows[j].nonce => i = j
  <2> SUFFICES ASSUME failed' = 0
               PROVE  /\ failed = 0
                      /\ Cardinality({rows[i].nonce : i \in DOMAIN rows}) = Len(rows)
    BY <1>1, DistinctCount DEF Place
  <2> QED
    BY <1>1 DEF Counters
<1>4. Judged'
  BY <1>1, <1>3 DEF Judged
<1> QED
  BY <1>2, <1>4

LEMMA ExitNext == ExitInv /\ [PlaintextNext]_plainVars => ExitInv'
<1> SUFFICES ASSUME ExitInv, [PlaintextNext]_plainVars PROVE ExitInv'
  OBVIOUS
<1>1. ScanInv'
  BY ScanInvKept DEF ExitInv
<1>2. CASE TakeRow
  BY <1>1, <1>2, TakeRowKeeps DEF ExitInv
<1>3. CASE ScanUnit
  <2>1. UNCHANGED <<rows, row, flagged, failed, ok, phase, Text>>
    BY <1>3 DEF ScanUnit, Text
  <2>2. Place' /\ Counters' /\ Judged'
    BY <2>1 DEF ExitInv, Place, Counters, Judged
  <2> QED
    BY <1>1, <2>2 DEF ExitInv
<1>4. CASE Judge
  BY <1>1, <1>4, JudgeKeeps DEF ExitInv
<1>5. CASE CloseOutbox
  <2>1. /\ Place /\ Counters /\ Judged /\ phase = "row" /\ row > Len(rows) /\ phase' = "nonces"
        /\ ok' = (rows # <<>> /\ flagged = 0)
        /\ UNCHANGED <<rows, row, flagged, failed>>
    BY <1>5 DEF CloseOutbox, ExitInv
  <2>2. row = Len(rows) + 1
    BY <2>1 DEF Place
  <2>3. Place' /\ Counters' /\ Judged'
    BY <2>1, <2>2 DEF Place, Counters, Judged
  <2> QED
    BY <1>1, <2>3 DEF ExitInv
<1>6. CASE CheckNonceReuse
  BY <1>1, <1>6, NoncesKeep DEF ExitInv
<1>7. CASE UNCHANGED plainVars
  <2>1. UNCHANGED <<rows, row, flagged, failed, ok, phase, Text>>
    BY <1>7 DEF plainVars, Text
  <2>2. Place' /\ Counters' /\ Judged'
    BY <2>1 DEF ExitInv, Place, Counters, Judged
  <2> QED
    BY <1>1, <2>2 DEF ExitInv
<1> QED
  BY <1>2, <1>3, <1>4, <1>5, <1>6, <1>7 DEF PlaintextNext

LEMMA ExitInvariant == PlaintextSpec => []ExitInv
<1> QED
  BY ExitInit, ExitNext, PTL DEF PlaintextSpec

\* ExitTells, for an outbox of any size: exit code 0 (lines 277-281) is given
\* only if no row holds a fragment or is a text and no nonce is used twice.
THEOREM ExitIsTruthful == PlaintextSpec => []ExitTells
<1>1. ExitInv => ExitTells
  <2> SUFFICES ASSUME ExitInv, phase = "done", failed = 0 PROVE ExitTells
    BY DEF ExitTells
  <2>1. \A i \in DOMAIN rows : i < row
    BY DEF ExitInv, Place
  <2> QED
    BY <2>1 DEF ExitInv, Judged, ExitTells
<1> QED
  BY <1>1, ExitInvariant, PTL

\* OkOverFailure, for an outbox of any size: the line that all rows look like
\* ciphertext is never written over a row that failed (lines 165-171).
THEOREM NoOkOverFailure == PlaintextSpec => []OkOverFailure
<1>1. ExitInv => OkOverFailure
  BY DEF ExitInv, Counters, OkOverFailure
<1> QED
  BY <1>1, ExitInvariant, PTL
=============================================================================
