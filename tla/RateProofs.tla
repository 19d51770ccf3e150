----------------------------- MODULE RateProofs -----------------------------
(***************************************************************************)
(* The sliding window enforces its limit, for any limit, window and number *)
(* of sends.  The memory of a connection is only the tail of its history:  *)
(* what was forgotten is older than the window.                            *)
(***************************************************************************)
EXTENDS RateLimit, FiniteSetTheorems, WellFoundedInduction, TLAPS

\* A filter that keeps the elements from some place on cuts off the rest.
LEMMA KeptTail ==
    ASSUME NEW n \in Nat, NEW m \in 0..n, NEW seq
    PROVE  KeptAt(seq, (m + 1)..n) = [k \in 1..(n - m) |-> seq[m + k]]
  <1> DEFINE S == (m + 1)..n
  <1>1. Cardinality(S) = n - m
    <2>1. m + 1 \in Int /\ n \in Int
      OBVIOUS
    <2>2. Cardinality((m + 1)..n) = IF m + 1 > n THEN 0 ELSE n - (m + 1) + 1
      BY <2>1, FS_Interval
    <2> QED
      BY <2>2
  <1>2. ASSUME NEW x \in S
        PROVE  Cardinality({y \in S : Less(y, x)}) = x - m - 1
    <2>1. {y \in S : Less(y, x)} = (m + 1)..(x - 1)
      BY DEF Less
    <2>2. m + 1 \in Int /\ x - 1 \in Int /\ x >= m + 1
      OBVIOUS
    <2>3. Cardinality((m + 1)..(x - 1)) = IF m + 1 > x - 1 THEN 0 ELSE x - 1 - (m + 1) + 1
      BY <2>2, FS_Interval
    <2>4. Cardinality((m + 1)..(x - 1)) = x - m - 1
      BY <2>2, <2>3
    <2> QED
      BY <2>1, <2>4
  <1>3. ASSUME NEW i \in 1..(n - m)
        PROVE  (CHOOSE x \in S : Cardinality({y \in S : Less(y, x)}) = i - 1) = m + i
    <2>1. m + i \in S /\ \A x \in S : x - m - 1 = i - 1 <=> x = m + i
      OBVIOUS
    <2> HIDE DEF S
    <2> QED
      BY <1>2, <2>1
  <1> HIDE DEF S
  <1>4. InOrder(S, Less) = [i \in 1..(n - m) |-> m + i]
    BY <1>1, <1>3 DEF InOrder
  <1> QED
    BY <1>4 DEF KeptAt, S

\* Send times in order, none of them ahead of the clock.
InTime(times) ==
    /\ times \in Seq(0..now)
    /\ \A i, j \in DOMAIN times : i < j => times[i] <= times[j]

\* Of send times in order, the filter keeps those after the last old one.
LEMMA RecentTail ==
    ASSUME NEW times, now \in Nat, InTime(times), Window \in Nat
    PROVE  \E m \in 0..Len(times) :
              /\ Recent(times) = [k \in 1..(Len(times) - m) |-> times[m + k]]
              /\ \A i \in 1..m : now - times[i] >= Window
              /\ \A i \in (m + 1)..Len(times) : now - times[i] < Window
  <1> DEFINE n   == Len(times)
             kept == {i \in DOMAIN times : now - times[i] < Window}
  <1>1. n \in Nat /\ DOMAIN times = 1..n /\ \A i \in 1..n : times[i] \in 0..now
    BY DEF InTime
  <1>2. \A i, j \in 1..n : i < j /\ i \in kept => j \in kept
    BY <1>1 DEF InTime
  <1>3. kept \in SUBSET (1..n)
    BY <1>1
  <1>4. ASSUME NEW m \in 0..n, kept = (m + 1)..n
        PROVE  /\ Recent(times) = [k \in 1..(n - m) |-> times[m + k]]
               /\ \A i \in 1..m : now - times[i] >= Window
               /\ \A i \in (m + 1)..n : now - times[i] < Window
    <2>1. Recent(times) = KeptAt(times, (m + 1)..n)
      BY <1>4 DEF Recent
    <2>2. \A i \in 1..n : i \in kept <=> now - times[i] < Window
      BY <1>1
    <2>3. \A i \in 1..m : i \in 1..n /\ i \notin kept
      BY <1>1, <1>4
    <2>4. \A i \in (m + 1)..n : i \in 1..n /\ i \in kept
      BY <1>1, <1>4
    <2>5. \A i \in 1..n : now - times[i] \in Int
      BY <1>1
    <2> HIDE DEF kept, n
    <2>6. KeptAt(times, (m + 1)..n) = [k \in 1..(n - m) |-> times[m + k]]
      BY <1>1, KeptTail
    <2> QED
      BY <2>1, <2>2, <2>3, <2>4, <2>5, <2>6
  <1>5. CASE kept = {}
    <2>1. kept = (n + 1)..n /\ n \in 0..n
      BY <1>1, <1>5
    <2> HIDE DEF kept
    <2> QED
      BY <1>4, <2>1
  <1>6. CASE kept # {}
    <2> HIDE DEF kept, n
    <2>1. IsWellFoundedOn(OpToRel(<, Nat), Nat)
      BY NatLessThanWellFounded
    <2>2. kept \in SUBSET Nat
      BY <1>1, <1>3
    <2>3. PICK i \in kept : \A j \in kept : <<j, i>> \notin OpToRel(<, Nat)
      BY <1>6, <2>1, <2>2, WFMin
    <2>4. i \in kept /\ \A j \in kept : ~ (j < i)
      BY <2>2, <2>3 DEF OpToRel
    <2>5. i \in 1..n /\ n \in Nat
      BY <1>1, <1>3, <2>4
    <2>6. \A j \in kept : j \in i..n
      BY <1>3, <2>4, <2>5
    <2>7. \A j \in i..n : j \in kept
      <3>1. \A j \in i..n : j \in 1..n /\ (j = i \/ i < j)
        BY <2>5
      <3> QED
        BY <1>2, <2>4, <2>5, <3>1
    <2>8. kept = i..n
      BY <2>6, <2>7
    <2>9. i - 1 \in 0..n /\ kept = ((i - 1) + 1)..n
      BY <2>5, <2>8
    <2> QED
      BY <1>4, <2>9 DEF n
  <1> QED
    BY <1>5, <1>6

-----------------------------------------------------------------------------
\* How many of the connection's accepted sends it has forgotten.
Forgotten == Len(onConn) - Len(sendTimes)

\* The connection remembers the tail of its history, and what it has forgotten
\* is older than the window; a refusal met a full memory.
RateInv ==
    /\ now \in 0..MaxTime
    /\ refused \in BOOLEAN
    /\ InTime(onConn) /\ InTime(sendTimes)
    /\ Len(sendTimes) <= SendLimit
    /\ Len(sendTimes) <= Len(onConn)
    /\ \A k \in 1..Len(sendTimes) : sendTimes[k] = onConn[Forgotten + k]
    /\ \A i \in 1..Forgotten : now - onConn[i] >= Window
    /\ Limited(onConn)
    /\ refused => /\ Len(sendTimes) = SendLimit
                  /\ now - sendTimes[1] < Window

\* What a send does, in terms of the history.
LEMMA SendKeeps ==
    ASSUME RateInv, Send
    PROVE  RateInv'
  <1> USE LimitsAssumption
  <1>1. now \in 0..MaxTime /\ now' = now /\ now \in Nat /\ now \in 0..now
    BY DEF RateInv, Send
  <1>2. PICK m \in 0..Len(sendTimes) :
           /\ Recent(sendTimes) = [k \in 1..(Len(sendTimes) - m) |-> sendTimes[m + k]]
           /\ \A i \in 1..m : now - sendTimes[i] >= Window
           /\ \A i \in (m + 1)..Len(sendTimes) : now - sendTimes[i] < Window
    BY <1>1, RecentTail DEF RateInv
  <1> DEFINE kept == Recent(sendTimes)
             n    == Len(sendTimes)
             h    == Len(onConn)
             f    == h - n
  <1>3. /\ n \in Nat /\ h \in Nat /\ m \in Nat /\ m <= n /\ n <= h /\ n <= SendLimit
        /\ f \in Nat /\ h = f + n /\ n - m \in Nat
    BY DEF RateInv, InTime
  <1>4. onConn \in Seq(0..now) /\ \A i \in 1..h : onConn[i] \in 0..now
    BY DEF RateInv, InTime
  <1>5. \A i, j \in 1..h : i < j => onConn[i] <= onConn[j]
    BY DEF RateInv, InTime
  <1>6. sendTimes \in Seq(0..now) /\ \A k \in 1..n : sendTimes[k] \in 0..now
    BY DEF RateInv, InTime
  <1>7. \A k \in 1..n : sendTimes[k] = onConn[f + k]
    BY DEF RateInv, Forgotten
  <1>8. \A i \in 1..f : now - onConn[i] >= Window
    BY DEF RateInv, Forgotten
  <1>9. \A i \in 1..(h - SendLimit) : onConn[i + SendLimit] - onConn[i] >= Window
    BY DEF RateInv, Limited
  <1>10. \A k \in 1..n : sendTimes[k] \in 0..now /\ f + k \in 1..h
    BY <1>3, <1>6
  <1> HIDE DEF n, h, f
  <1>11. ASSUME NEW k \in 1..(n - m)
         PROVE  /\ m + k \in 1..n /\ f + m + k \in 1..h /\ f + (m + k) = f + m + k
                /\ sendTimes[m + k] = onConn[f + m + k]
    <2>1. m + k \in 1..n /\ f + m + k \in 1..h /\ f + (m + k) = f + m + k
      BY <1>3
    <2>2. sendTimes[m + k] = onConn[f + (m + k)]
      BY <1>7, <2>1
    <2> QED
      BY <2>1, <2>2
  <1>12. kept = [k \in 1..(n - m) |-> onConn[f + m + k]]
    <2>1. kept = [k \in 1..(n - m) |-> sendTimes[m + k]]
      BY <1>2 DEF n
    <2> HIDE DEF kept
    <2> QED
      BY <1>11, <2>1
  <1> HIDE DEF kept
  <1>13. kept \in Seq(0..now) /\ Len(kept) = n - m
    <2>1. \A k \in 1..(n - m) : onConn[f + m + k] \in 0..now
      BY <1>4, <1>11
    <2> QED
      BY <1>3, <1>12, <2>1
  <1>14. ASSUME NEW i \in 1..(f + m)
         PROVE  i \in 1..h /\ now - onConn[i] >= Window
    <2>1. i \in 1..h
      BY <1>3
    <2>2. CASE i <= f
      BY <1>3, <1>8, <2>1, <2>2
    <2>3. CASE i > f
      <3>1. i - f \in 1..m /\ i - f \in 1..n /\ f + (i - f) = i
        BY <1>3, <2>3
      <3>2. now - sendTimes[i - f] >= Window
        BY <1>2, <3>1
      <3>3. sendTimes[i - f] = onConn[f + (i - f)]
        BY <1>7, <3>1
      <3> QED
        BY <2>1, <3>1, <3>2, <3>3
    <2> QED
      BY <1>3, <2>2, <2>3
  <1>15. CASE Len(kept) < SendLimit
    <2>1. /\ sendTimes' = Append(kept, now) /\ onConn' = Append(onConn, now)
          /\ refused' = FALSE
      BY <1>15 DEF Send, Recorded, kept
    <2>2. /\ onConn' \in Seq(0..now) /\ Len(onConn') = h + 1
          /\ \A i \in 1..h : onConn'[i] = onConn[i]
          /\ onConn'[h + 1] = now
      BY <1>1, <1>4, <2>1 DEF h
    <2>3. /\ sendTimes' \in Seq(0..now) /\ Len(sendTimes') = n - m + 1
          /\ \A k \in 1..(n - m) : sendTimes'[k] = kept[k]
          /\ sendTimes'[n - m + 1] = now
      <3>1. /\ sendTimes' \in Seq(0..now) /\ Len(sendTimes') = Len(kept) + 1
            /\ \A k \in 1..Len(kept) : sendTimes'[k] = kept[k]
            /\ sendTimes'[Len(kept) + 1] = now
        BY <1>1, <1>13, <2>1
      <3> QED
        BY <1>13, <3>1
    <2>4. Forgotten' = f + m
      BY <1>3, <2>2, <2>3 DEF Forgotten
    <2>5. ASSUME NEW k \in 1..(n - m + 1)
          PROVE  f + m + k \in 1..(h + 1) /\ sendTimes'[k] = onConn'[f + m + k]
      <3>1. CASE k \in 1..(n - m)
        <4>1. sendTimes'[k] = kept[k]
          BY <2>3, <3>1
        <4>2. kept[k] = onConn[f + m + k] /\ f + m + k \in 1..h
          BY <1>11, <1>12, <3>1
        <4> QED
          BY <1>3, <2>2, <4>1, <4>2
      <3>2. CASE k = n - m + 1
        <4>1. f + m + k = h + 1 /\ h + 1 \in 1..(h + 1)
          BY <1>3, <3>2
        <4>2. sendTimes'[k] = now
          BY <2>3, <3>2
        <4> QED
          BY <2>2, <4>1, <4>2
      <3> QED
        BY <1>3, <3>1, <3>2
    <2>6. ASSUME NEW i \in 1..(h + 1), NEW j \in 1..(h + 1), i < j
          PROVE  onConn'[i] <= onConn'[j]
      <3>1. i \in 1..h /\ onConn'[i] = onConn[i] /\ onConn[i] \in 0..now
        BY <1>3, <1>4, <2>2, <2>6
      <3>2. CASE j = h + 1
        BY <1>1, <2>2, <3>1, <3>2
      <3>3. CASE j # h + 1
        <4>1. j \in 1..h
          BY <1>3, <3>3
        <4> QED
          BY <1>5, <2>2, <2>6, <3>1, <4>1
      <3> QED
        BY <3>2, <3>3
    <2>7. InTime(onConn)'
      <3>1. DOMAIN onConn' = 1..(h + 1)
        BY <2>2
      <3> QED
        BY <1>1, <2>2, <2>6, <3>1 DEF InTime
    <2>8. InTime(sendTimes)'
      <3>1. DOMAIN sendTimes' = 1..(n - m + 1)
        BY <2>3
      <3>2. ASSUME NEW i \in 1..(n - m + 1), NEW j \in 1..(n - m + 1), i < j
            PROVE  sendTimes'[i] <= sendTimes'[j]
        <4>1. f + m + i < f + m + j
          BY <1>3, <3>2
        <4> QED
          BY <2>5, <2>6, <4>1
      <3> QED
        BY <1>1, <2>3, <3>1, <3>2 DEF InTime
    <2>9. ASSUME NEW i \in 1..(Len(onConn') - SendLimit)
          PROVE  onConn'[i + SendLimit] - onConn'[i] >= Window
      <3>1. h + 1 = Len(onConn')
        BY <2>2
      <3> i \in 1..(h + 1 - SendLimit)
        BY <1>3, <3>1
      <3>2. CASE i + SendLimit <= h
        <4>1. i \in 1..(h - SendLimit) /\ i \in 1..h /\ i + SendLimit \in 1..h
          BY <1>3, <3>2
        <4> QED
          BY <1>9, <2>2, <4>1
      <3>3. CASE i + SendLimit = h + 1
        <4>1. i \in 1..(f + m)
          BY <1>3, <1>13, <1>15, <3>3
        <4>2. i \in 1..h /\ now - onConn[i] >= Window
          BY <1>14, <4>1
        <4> QED
          BY <2>2, <3>3, <4>2
      <3> QED
        BY <1>3, <3>2, <3>3
    <2>10. Limited(onConn)'
      BY <2>9 DEF Limited
    <2>11. \A i \in 1..(f + m) : now - onConn'[i] >= Window
      BY <1>14, <2>2
    <2>12. Len(sendTimes') <= SendLimit /\ Len(sendTimes') <= Len(onConn')
      BY <1>3, <1>13, <1>15, <2>2, <2>3
    <2> QED
      BY <1>1, <2>1, <2>3, <2>4, <2>5, <2>7, <2>8, <2>10, <2>11, <2>12 DEF RateInv
  <1>16. CASE ~ (Len(kept) < SendLimit)
    <2>1. sendTimes' = kept /\ onConn' = onConn /\ refused' = TRUE
      BY <1>16 DEF Send, Recorded, kept
    <2>2. n = SendLimit /\ m = 0 /\ f + m = f /\ n - m = n /\ 1 \in 1..n
      BY <1>3, <1>13, <1>16
    <2>3. kept = sendTimes
      <3>1. sendTimes = [k \in 1..n |-> sendTimes[k]]
        BY <1>6 DEF n
      <3>2. \A k \in 1..n : sendTimes[k] = onConn[f + m + k]
        BY <1>7, <2>2
      <3> QED
        BY <1>12, <2>2, <3>1, <3>2
    <2>4. now - sendTimes[1] < Window
      BY <1>2, <2>2 DEF n
    <2>5. UNCHANGED <<now, sendTimes, onConn>>
      BY <1>1, <2>1, <2>3
    <2>6. Len(sendTimes) = SendLimit
      BY <2>2 DEF n
    <2> QED
      BY <2>1, <2>4, <2>5, <2>6 DEF RateInv, InTime, Forgotten, Limited
  <1> QED
    BY <1>15, <1>16

LEMMA RateInit == Init => RateInv
  <1> SUFFICES ASSUME Init PROVE RateInv
    OBVIOUS
  <1>1. /\ now = 0 /\ refused = FALSE /\ onConn = <<>> /\ sendTimes = <<>>
        /\ Len(onConn) = 0 /\ Len(sendTimes) = 0
    BY DEF Init
  <1>2. InTime(onConn) /\ InTime(sendTimes)
    BY <1>1 DEF InTime
  <1>3. Limited(onConn) /\ Forgotten = 0
    BY <1>1, LimitsAssumption DEF Limited, Forgotten
  <1>4. \A k \in 1..0 : FALSE
    OBVIOUS
  <1>5. 0 \in 0..MaxTime /\ 0 <= SendLimit /\ 0 <= 0
    BY LimitsAssumption
  <1> QED
    BY <1>1, <1>2, <1>3, <1>4, <1>5 DEF RateInv

LEMMA RateStep == RateInv /\ [Next]_rateVars => RateInv'
  <1> USE LimitsAssumption
  <1> SUFFICES ASSUME RateInv, [Next]_rateVars PROVE RateInv'
    OBVIOUS
  <1>1. CASE Reconnect
    <2>1. /\ now' = now /\ refused' = FALSE /\ onConn' = <<>> /\ sendTimes' = <<>>
          /\ Len(onConn') = 0 /\ Len(sendTimes') = 0
      BY <1>1 DEF Reconnect
    <2>2. InTime(onConn)' /\ InTime(sendTimes)'
      BY <2>1 DEF InTime
    <2>3. Limited(onConn)' /\ Forgotten' = 0
      BY <2>1 DEF Limited, Forgotten
    <2>4. \A k \in 1..0 : FALSE
      OBVIOUS
    <2>5. now' \in 0..MaxTime /\ 0 <= SendLimit /\ 0 <= 0
      BY <2>1 DEF RateInv
    <2> QED
      BY <2>1, <2>2, <2>3, <2>4, <2>5 DEF RateInv
  <1>2. CASE Tick
    <2>1. now' = now + 1 /\ now' \in 0..MaxTime /\ refused' = FALSE
          /\ UNCHANGED <<sendTimes, onConn>> /\ now \in Nat
      BY <1>2 DEF Tick, RateInv
    <2>2. \A i \in 1..Len(onConn) : onConn[i] \in 0..now
      BY DEF RateInv, InTime
    <2>3. InTime(onConn)' /\ InTime(sendTimes)'
      <3>1. 0..now \subseteq 0..now'
        BY <2>1
      <3>2. onConn' \in Seq(0..now') /\ sendTimes' \in Seq(0..now')
        BY <2>1, <3>1 DEF RateInv, InTime
      <3> QED
        BY <2>1, <3>2 DEF RateInv, InTime
    <2>4. Forgotten \in Nat /\ Forgotten <= Len(onConn) /\ Forgotten' = Forgotten
      BY <2>1 DEF RateInv, Forgotten, InTime
    <2>5. \A i \in 1..Forgotten : now - onConn[i] >= Window
      BY DEF RateInv
    <2>6. \A i \in 1..Forgotten : now' - onConn[i] >= Window
      <3>1. \A i \in 1..Forgotten : onConn[i] \in 0..now
        BY <2>2, <2>4 DEF RateInv, InTime
      <3> QED
        BY <2>1, <2>5, <3>1
    <2>7. Limited(onConn)'
      BY <2>1 DEF RateInv, Limited
    <2> QED
      BY <2>1, <2>3, <2>4, <2>6, <2>7 DEF RateInv
  <1>3. CASE UNCHANGED rateVars
    BY <1>3 DEF rateVars, RateInv, InTime, Forgotten, Limited
  <1> QED
    BY <1>1, <1>2, <1>3, SendKeeps DEF Next

LEMMA RateAlways == Spec => []RateInv
  BY RateInit, RateStep, PTL DEF Spec

\* The memory of a connection never outgrows the limit and stays in order
\* (router.js, withinRateLimit): TypeOK.
THEOREM MemoryBounded == Spec => []TypeOK
  <1>1. RateInv => TypeOK
    BY LimitsAssumption DEF RateInv, TypeOK, InTime
  <1> QED
    BY <1>1, RateAlways, PTL

\* ConnectionLimited: whatever the times of the sends, no window of time sees
\* more than SendLimit of them accepted on one connection.
THEOREM LimitEnforced == Spec => []ConnectionLimited
  <1>1. RateInv => ConnectionLimited
    BY DEF RateInv, ConnectionLimited
  <1> QED
    BY <1>1, RateAlways, PTL

\* RefusedOnlyWhenFull: nobody is refused who has not had SendLimit sends
\* accepted within the last window.
THEOREM RefusalJustified == Spec => []RefusedOnlyWhenFull
  <1>1. RateInv => RefusedOnlyWhenFull
    <2> SUFFICES ASSUME RateInv, refused PROVE RefusedOnlyWhenFull
      BY DEF RefusedOnlyWhenFull
    <2>1. /\ Len(sendTimes) = SendLimit /\ now - sendTimes[1] < Window
          /\ SendLimit <= Len(onConn)
          /\ sendTimes[1] = onConn[Forgotten + 1]
      BY LimitsAssumption DEF RateInv
    <2>2. Forgotten = Len(onConn) - SendLimit
      BY <2>1 DEF Forgotten
    <2> QED
      BY <2>1, <2>2 DEF RefusedOnlyWhenFull
  <1> QED
    BY <1>1, RateAlways, PTL
=============================================================================
