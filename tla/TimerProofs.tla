---------------------------- MODULE TimerProofs -----------------------------
(***************************************************************************)
(* The properties of Timer for every number of channels, every size of a   *)
(* byte, every clock and every time between accesses.                      *)
(***************************************************************************)
EXTENDS Timer, TLAPS

Ticks == {n \in Nat : 2 <= n /\ n <= 65535}    \* what the prescaler can be

Channel ==
  [value : Counts, latch : Counts, reload : Counts, pendingLoad : BOOLEAN,
   waitingForLoad : BOOLEAN, latched : BOOLEAN, accessMode : AccessModes,
   numberFormat : {"binary", "decimal"}, writeByte : {"low", "high"},
   accessByte : {"low", "high", "status"}, since : 0..MaxElapsed]

Past == [whole : Nat, base : Nat, ideal : Nat, phase : Nat, low : Nat \union {-1}]

LEMMA Ranges ==
  /\ ByteSize \in Nat /\ ByteSize >= 2 /\ DecimalBase \in Nat /\ DecimalBase >= 1
  /\ MaxElapsed \in Nat /\ GuestPairs \in BOOLEAN
  /\ Bytes \subseteq Nat
  /\ \A p \in Prescalers : (p + 2) % 65536 \in Ticks
BY TimerAssumption, SMT DEF TimerAssumption, Ticks

LEMMA WordPositive == Word \in Nat /\ Word >= 1
BY Ranges DEF Word

(* Division as the code does it, by numbers that are not 0 *)
LEMMA Division ==
  ASSUME NEW m \in Nat, NEW d \in Nat, d >= 1
  PROVE  /\ m \div d \in Nat /\ m % d \in 0..(d - 1)
         /\ d * (m \div d) <= m /\ m < d * (m \div d) + d
<1>1. m \div d \in Nat
  OBVIOUS
<1>2. m % d \in 0..(d - 1)
  OBVIOUS
<1>3. d * (m \div d) <= m /\ m < d * (m \div d) + d
  OBVIOUS
<1> QED BY <1>1, <1>2, <1>3

LEMMA Remainder ==
  ASSUME NEW m \in Int, NEW d \in Nat, d >= 1
  PROVE  m % d \in 0..(d - 1)
OBVIOUS

LEMMA RemainderBelow ==
  ASSUME NEW m \in Int, NEW r \in Nat PROVE m % (r + 1) \in 0..r
OBVIOUS

(* A byte put into a count gives a count. *)
LEMMA WithByteType ==
  ASSUME NEW count \in Counts, NEW byte \in Nat, NEW half,
         NEW format \in {"binary", "decimal"}
  PROVE  WithByte(count, byte, half, format) \in Counts
<1>1. Base[format] \in Nat /\ Base[format] >= 1
  BY Ranges DEF Base
<1> DEFINE b == Base[format]
<1>2. count \in Nat
  BY WordPositive DEF Counts
<1> HIDE DEF b
<1>3. count % b \in Nat
  BY <1>1, <1>2, Division DEF b
<1>4. count - (count % b) + byte \in Int /\ b * byte + (count % b) \in Int
  BY <1>1, <1>2, <1>3 DEF b
<1>5. \A m \in Int : m % Word \in Counts
  BY WordPositive, Remainder DEF Counts
<1> QED BY <1>4, <1>5 DEF WithByte, b

-----------------------------------------------------------------------------
(* resolveTimers                                                             *)

LEMMA ResolvedIs ==
  ASSUME timerPrescaler \in Ticks, NEW s \in Channel
  PROVE  /\ Resolved(s) \in Channel
         /\ Resolved(s).latch = s.latch /\ Resolved(s).reload = s.reload
         /\ Resolved(s).waitingForLoad = s.waitingForLoad
         /\ Resolved(s).latched = s.latched
         /\ Resolved(s).accessMode = s.accessMode
         /\ Resolved(s).numberFormat = s.numberFormat
         /\ Resolved(s).writeByte = s.writeByte
         /\ Resolved(s).accessByte = s.accessByte
         /\ s.waitingForLoad => Resolved(s) = s /\ ~Wraps(s)
         /\ Wraps(s) => /\ Resolved(s).value <= s.reload
                        /\ ~Resolved(s).pendingLoad /\ Resolved(s).since = 0
         /\ ~s.waitingForLoad /\ ~Wraps(s) =>
              /\ Resolved(s).value = s.value - (s.since \div timerPrescaler)
              /\ Resolved(s).pendingLoad = s.pendingLoad /\ Resolved(s).since = 0
<1> DEFINE ticks == s.since \div timerPrescaler
           left == s.reload - ((ticks - s.value) % (s.reload + 1))
<1>1. s.value \in Counts /\ s.reload \in Counts /\ s.since \in 0..MaxElapsed
      /\ s.waitingForLoad \in BOOLEAN
  BY DEF Channel
<1>2. /\ s.value \in Nat /\ s.reload \in Nat /\ s.since \in Nat
      /\ s.reload < Word /\ s.value < Word
      /\ timerPrescaler \in Nat /\ timerPrescaler >= 1
      /\ MaxElapsed \in Nat /\ Word \in Nat
  BY <1>1, Ranges, WordPositive DEF Counts, Ticks
<1>3. ticks \in Nat
  BY <1>2, Division
<1> HIDE DEF ticks
<1>4. (ticks - s.value) % (s.reload + 1) \in 0..s.reload
  <2>1. ticks - s.value \in Int
    BY <1>2, <1>3
  <2> QED BY <1>2, <2>1, RemainderBelow
<1>5. left \in Nat /\ left <= s.reload /\ left \in Counts
  BY <1>2, <1>4 DEF Counts
<1> HIDE DEF left
<1>6. 0 \in 0..MaxElapsed
  BY <1>2
<1>7. CASE s.waitingForLoad
  BY <1>7 DEF Resolved, Wraps
<1>8. CASE Wraps(s)
  <2>1. ~s.waitingForLoad
    BY <1>8 DEF Wraps
  <2>2. Resolved(s) = [s EXCEPT !.value = left, !.pendingLoad = FALSE, !.since = 0]
    BY <1>8, <2>1 DEF Resolved, left, ticks
  <2> QED BY <1>5, <1>6, <1>8, <2>1, <2>2 DEF Channel
<1>9. CASE ~s.waitingForLoad /\ ~Wraps(s)
  <2>1. ticks <= s.value
    BY <1>2, <1>3, <1>9 DEF Wraps, ticks
  <2>2. s.value - ticks \in Counts
    BY <1>2, <1>3, <2>1 DEF Counts
  <2>3. Resolved(s) = [s EXCEPT !.value = s.value - ticks, !.since = 0]
    BY <1>9 DEF Resolved, ticks
  <2> QED BY <1>6, <1>9, <2>2, <2>3 DEF Channel, ticks
<1> QED BY <1>7, <1>8, <1>9

-----------------------------------------------------------------------------
(* The invariant of one channel: its state s and its past h, under prescaler p *)

Mid(s) == s.accessMode = "both" /\ s.writeByte = "high"

NullInv(s, h) ==
  ~s.waitingForLoad =>
    /\ IF Mid(s) THEN s.pendingLoad ELSE s.reload = h.whole
    /\ ~s.pendingLoad => h.base = h.whole /\ s.value <= h.whole

LowInv(s, h) ==
  h.low # -1 /\ s.accessMode = "both" /\ s.accessByte = "high" =>
    s.latched /\ s.latch = h.low

\* What has been counted since the last access is not more than what the ideal
\* counter is ahead of, in periods
EarlyInv(p, s, h) ==
  ~s.waitingForLoad =>
    /\ s.value >= h.ideal
    /\ h.ideal > 0 =>
         s.since <= (s.value - h.ideal) * p + (IF h.phase < p THEN h.phase ELSE 0)

Good(p, s, h) ==
  /\ s \in Channel /\ h \in Past /\ BytesFitMode(s)
  /\ EarlyInv(p, s, h)
  /\ GuestPairs => NullInv(s, h) /\ LowInv(s, h)

Inv ==
  /\ timerPrescaler \in Ticks
  /\ state \in [Channels -> Channel] /\ history \in [Channels -> Past]
  /\ \A c \in Channels : Good(timerPrescaler, state[c], history[c])

(* Whole ticks do not run ahead of the ideal counter. *)
LEMMA TicksBehind ==
  ASSUME NEW p \in Nat, p >= 1, NEW since \in Nat, NEW k \in Int, NEW phase \in Nat,
         phase < p, since <= k * p + phase
  PROVE  since \div p <= k
<1> DEFINE t == since \div p
<1>1. t \in Nat /\ p * t <= since
  BY Division
<1> HIDE DEF t
<1>2. p * t < k * p + p
  BY <1>1
<1>3. t < k + 1
  BY <1>1, <1>2
<1> QED BY <1>1, <1>3 DEF t

LEMMA FollowedIs ==
  ASSUME NEW h \in Past, NEW s \in Channel
  PROVE  /\ Followed(h, s) \in Past
         /\ Followed(h, s).whole = h.whole /\ Followed(h, s).ideal = h.ideal
         /\ Followed(h, s).phase = h.phase /\ Followed(h, s).low = h.low
         /\ Followed(h, s).base = IF Wraps(s) THEN s.reload ELSE h.base
<1>1. s.reload \in Nat
  BY WordPositive DEF Channel, Counts
<1> QED BY <1>1 DEF Followed, Past

(* An access that brings a channel up to date leaves it as it should be, for  *)
(* any prescaler that may follow, if the guest is not half-way through a count. *)
LEMMA ResolvedGood ==
  ASSUME timerPrescaler \in Ticks, NEW s, NEW h, Good(timerPrescaler, s, h),
         GuestPairs => ~Mid(s)
  PROVE  \A p \in Ticks : Good(p, Resolved(s), Followed(h, s))
<1> DEFINE r == Resolved(s)
           g == Followed(h, s)
<1>1. s \in Channel /\ h \in Past
  BY DEF Good
<1>2. r \in Channel /\ g \in Past
  BY <1>1, ResolvedIs, FollowedIs
<1>3. BytesFitMode(r)
  BY <1>1, ResolvedIs DEF Good, BytesFitMode
<1>4. ~s.waitingForLoad => r.since = 0 /\ r.value >= h.ideal
  <2> SUFFICES ASSUME ~s.waitingForLoad PROVE r.since = 0 /\ r.value >= h.ideal
    OBVIOUS
  <2>1. r.since = 0
    BY <1>1, ResolvedIs
  <2>2. /\ s.value \in Nat /\ s.since \in Nat /\ h.ideal \in Nat /\ h.phase \in Nat
        /\ timerPrescaler \in Nat /\ timerPrescaler >= 1 /\ r.value \in Nat
    BY <1>1, <1>2, Ranges, WordPositive DEF Channel, Past, Counts, Ticks
  <2>3. CASE h.ideal = 0
    BY <2>1, <2>2, <2>3
  <2>4. CASE h.ideal > 0
    <3> DEFINE phase == IF h.phase < timerPrescaler THEN h.phase ELSE 0
    <3>1. /\ s.value >= h.ideal /\ phase \in Nat /\ phase < timerPrescaler
          /\ s.since <= (s.value - h.ideal) * timerPrescaler + phase
      BY <2>2, <2>4 DEF Good, EarlyInv
    <3> HIDE DEF phase
    <3>2. s.value - h.ideal \in Int
      BY <2>2
    <3>3. s.since \div timerPrescaler <= s.value - h.ideal
      BY <2>2, <3>1, <3>2, TicksBehind
    <3>4. s.since \div timerPrescaler \in Nat
      BY <2>2, Division
    <3>5. ~Wraps(s)
      BY <2>2, <2>4, <3>3, <3>4 DEF Wraps
    <3>6. r.value = s.value - (s.since \div timerPrescaler)
      BY <1>1, <3>5, ResolvedIs
    <3> QED BY <2>1, <2>2, <3>3, <3>4, <3>6
  <2> QED BY <2>2, <2>3, <2>4
<1>5. ASSUME NEW p \in Ticks PROVE EarlyInv(p, r, g)
  <2>1. CASE s.waitingForLoad
    BY <1>1, <2>1, ResolvedIs DEF EarlyInv
  <2>2. CASE ~s.waitingForLoad
    <3>1. r.since = 0 /\ r.value >= g.ideal
      BY <1>1, <1>4, <2>2, FollowedIs
    <3>2. r.value \in Nat /\ g.ideal \in Nat /\ g.phase \in Nat /\ p \in Nat
      BY <1>2, WordPositive DEF Channel, Past, Counts, Ticks
    <3>3. (r.value - g.ideal) * p >= 0
      BY <3>1, <3>2
    <3> QED BY <3>1, <3>2, <3>3 DEF EarlyInv
  <2> QED BY <2>1, <2>2
<1>6. GuestPairs => LowInv(r, g)
  BY <1>1, ResolvedIs, FollowedIs DEF Good, LowInv
<1>7. GuestPairs => NullInv(r, g)
  <2> SUFFICES ASSUME GuestPairs, ~r.waitingForLoad
               PROVE  /\ IF Mid(r) THEN r.pendingLoad ELSE r.reload = g.whole
                      /\ ~r.pendingLoad => g.base = g.whole /\ r.value <= g.whole
    BY DEF NullInv
  <2>1. ~s.waitingForLoad /\ ~Mid(s) /\ ~Mid(r) /\ s.reload = h.whole
        /\ r.reload = g.whole /\ g.whole = h.whole
    BY <1>1, ResolvedIs, FollowedIs DEF Good, NullInv, Mid
  <2>2. CASE Wraps(s)
    BY <1>1, <2>1, <2>2, ResolvedIs, FollowedIs
  <2>3. CASE ~Wraps(s)
    <3>1. /\ r.value = s.value - (s.since \div timerPrescaler)
          /\ r.pendingLoad = s.pendingLoad /\ g.base = h.base
      BY <1>1, <2>1, <2>3, ResolvedIs, FollowedIs
    <3>2. s.since \div timerPrescaler \in Nat /\ s.value \in Int /\ h.whole \in Nat
      BY <1>1, Division, Ranges, WordPositive DEF Channel, Past, Counts, Ticks
    <3>3. ~s.pendingLoad => h.base = h.whole /\ s.value <= h.whole
      BY <2>1 DEF Good, NullInv
    <3> QED BY <2>1, <3>1, <3>2, <3>3
  <2> QED BY <2>2, <2>3
<1> QED BY <1>2, <1>3, <1>5, <1>6, <1>7 DEF Good

-----------------------------------------------------------------------------
(* What the operations do to a channel that has been brought up to date, or  *)
(* has not                                                                   *)

LEMMA First ==
  ASSUME NEW m \in AccessModes
  PROVE  FirstByte(m) \in {"low", "high"} /\ (m # "both" => FirstByte(m) = m)
         /\ (m = "both" => FirstByte(m) = "low")
BY DEF AccessModes, FirstByte

LEMMA LatchedGood ==
  ASSUME NEW p, NEW s, NEW h, Good(p, s, h), GuestPairs => s.accessByte = FirstByte(s.accessMode)
  PROVE  Good(p, [s EXCEPT !.latch = s.value, !.latched = TRUE], h)
<1> DEFINE r == [s EXCEPT !.latch = s.value, !.latched = TRUE]
<1>1. s \in Channel
  BY DEF Good
<1>2. r \in Channel
  BY <1>1 DEF Channel
<1>3. /\ r.value = s.value /\ r.since = s.since /\ r.waitingForLoad = s.waitingForLoad
      /\ r.pendingLoad = s.pendingLoad /\ r.reload = s.reload
      /\ r.accessMode = s.accessMode /\ r.writeByte = s.writeByte
      /\ r.accessByte = s.accessByte
  BY <1>1 DEF Channel
<1>4. s.accessMode \in AccessModes
  BY <1>1 DEF Channel
<1> HIDE DEF r
<1>5. BytesFitMode(r) /\ EarlyInv(p, r, h)
  BY <1>3 DEF Good, BytesFitMode, EarlyInv
<1>6. GuestPairs => NullInv(r, h) /\ LowInv(r, h)
  BY <1>3, <1>4, First DEF Good, NullInv, LowInv, Mid
<1> QED BY <1>2, <1>5, <1>6 DEF Good, r

LEMMA ReadBackGood ==
  ASSUME NEW p, NEW s, NEW h, Good(p, s, h), NEW ls \in BOOLEAN, NEW lc \in BOOLEAN
  PROVE  Good(p, [s EXCEPT !.accessByte = IF ls THEN "status" ELSE FirstByte(s.accessMode),
                        !.latch = IF lc THEN s.value ELSE s.latch,
                        !.latched = s.latched \/ lc], h)
<1> DEFINE r == [s EXCEPT !.accessByte = IF ls THEN "status" ELSE FirstByte(s.accessMode),
                          !.latch = IF lc THEN s.value ELSE s.latch,
                          !.latched = s.latched \/ lc]
<1>1. s \in Channel /\ s.accessMode \in AccessModes
  BY DEF Good, Channel
<1>2. r \in Channel
  BY <1>1, First DEF Channel
<1>3. /\ r.value = s.value /\ r.since = s.since /\ r.waitingForLoad = s.waitingForLoad
      /\ r.pendingLoad = s.pendingLoad /\ r.reload = s.reload
      /\ r.accessMode = s.accessMode /\ r.writeByte = s.writeByte
      /\ r.accessByte = IF ls THEN "status" ELSE FirstByte(s.accessMode)
  BY <1>1 DEF Channel
<1> HIDE DEF r
<1>4. BytesFitMode(r) /\ EarlyInv(p, r, h)
  BY <1>1, <1>3, First DEF Good, BytesFitMode, EarlyInv
<1>5. GuestPairs => NullInv(r, h) /\ LowInv(r, h)
  BY <1>1, <1>3, First DEF Good, NullInv, LowInv, Mid
<1> QED BY <1>2, <1>4, <1>5 DEF Good, r

LEMMA ConfiguredGood ==
  ASSUME NEW p, NEW s, NEW h, Good(p, s, h), NEW m \in AccessModes,
         NEW f \in {"binary", "decimal"}
  PROVE  Good(p, [s EXCEPT !.accessMode = m, !.numberFormat = f,
                        !.waitingForLoad = TRUE, !.since = 0,
                        !.accessByte = FirstByte(m), !.writeByte = FirstByte(m)],
              [h EXCEPT !.low = -1])
<1> DEFINE r == [s EXCEPT !.accessMode = m, !.numberFormat = f,
                          !.waitingForLoad = TRUE, !.since = 0,
                          !.accessByte = FirstByte(m), !.writeByte = FirstByte(m)]
           g == [h EXCEPT !.low = -1]
<1>1. s \in Channel /\ h \in Past /\ 0 \in 0..MaxElapsed
  BY Ranges DEF Good
<1>2. r \in Channel /\ g \in Past
  BY <1>1, First DEF Channel, Past
<1>3. /\ r.waitingForLoad /\ r.accessMode = m /\ r.accessByte = FirstByte(m)
      /\ r.writeByte = FirstByte(m) /\ g.low = -1
  BY <1>1 DEF Channel, Past
<1> HIDE DEF r, g
<1>4. BytesFitMode(r)
  BY <1>3, First DEF BytesFitMode
<1> QED BY <1>2, <1>3, <1>4 DEF Good, EarlyInv, NullInv, LowInv, r, g

LEMMA ReadGood ==
  ASSUME NEW p, NEW s, NEW h, Good(p, s, h), NEW low,
         low = IF s.accessByte = "low" /\ s.latched THEN s.latch ELSE -1
  PROVE  Good(p, AfterRead(s), [h EXCEPT !.low = low])
<1> DEFINE r == AfterRead(s)
           g == [h EXCEPT !.low = low]
<1>1. /\ s \in Channel /\ h \in Past /\ s.accessMode \in AccessModes
      /\ s.latch \in Nat /\ s.latched \in BOOLEAN
  BY WordPositive DEF Good, Channel, Counts
<1>2. g \in Past /\ g.low = low /\ g.whole = h.whole /\ g.base = h.base
      /\ g.ideal = h.ideal /\ g.phase = h.phase
  BY <1>1 DEF Past
<1>3. r \in Channel
  BY <1>1, First DEF Channel, AfterRead
<1>4. /\ r.value = s.value /\ r.since = s.since /\ r.waitingForLoad = s.waitingForLoad
      /\ r.pendingLoad = s.pendingLoad /\ r.reload = s.reload /\ r.latch = s.latch
      /\ r.accessMode = s.accessMode /\ r.writeByte = s.writeByte
      /\ r.accessByte = IF s.accessMode = "both" /\ s.accessByte = "low" THEN "high"
                        ELSE FirstByte(s.accessMode)
      /\ r.latched = (s.latched /\ s.accessByte # "high"
                      /\ (s.accessByte = "low" => s.accessMode # "low"))
  BY <1>1 DEF Channel, AfterRead
<1> HIDE DEF r, g
<1>5. BytesFitMode(r)
  BY <1>1, <1>4, First DEF Good, BytesFitMode
<1>6. EarlyInv(p, r, g)
  BY <1>2, <1>4 DEF Good, EarlyInv
<1>7. GuestPairs => NullInv(r, g)
  BY <1>2, <1>4 DEF Good, NullInv, Mid
<1>8. LowInv(r, g)
  BY <1>1, <1>2, <1>4, First DEF LowInv
<1> QED BY <1>2, <1>3, <1>5, <1>6, <1>7, <1>8 DEF Good, r, g

LEMMA PastRecord ==
  ASSUME NEW n \in Nat, NEW l \in Nat \union {-1}
  PROVE  [whole |-> n, base |-> n, ideal |-> n, phase |-> 0, low |-> l] \in Past
BY DEF Past

(* The channel that a byte of a count is written to *)
(* The channel and its history after a byte that leaves count in the reload
   register, as writeRegister makes them. *)
IsLast(s) == s.accessMode # "both" \/ s.writeByte = "high"

ChannelWith(s, count) ==
  LET next == IF s.accessMode # "both" THEN s.writeByte
              ELSE IF IsLast(s) THEN "low" ELSE "high"
  IN  IF IsLast(s) /\ s.waitingForLoad
      THEN [s EXCEPT !.pendingLoad = FALSE, !.reload = count, !.writeByte = next,
                     !.waitingForLoad = FALSE, !.value = count, !.since = 0]
      ELSE [s EXCEPT !.pendingLoad = TRUE, !.reload = count, !.writeByte = next]

PastWith(h, s, count) ==
  IF ~IsLast(s) THEN h
  ELSE IF ~s.waitingForLoad THEN [h EXCEPT !.whole = count]
  ELSE [h EXCEPT !.whole = count, !.base = count, !.ideal = count, !.phase = 0]

LEMMA WrittenGood ==
  ASSUME NEW p \in Ticks, NEW s, NEW h, Good(p, s, h), NEW count \in Counts
  PROVE  Good(p, ChannelWith(s, count), PastWith(h, s, count))
<1> DEFINE last == IsLast(s)
           next == IF s.accessMode # "both" THEN s.writeByte
                   ELSE IF last THEN "low" ELSE "high"
           r == ChannelWith(s, count)
           g == PastWith(h, s, count)
<1>a. last <=> s.accessMode # "both" \/ s.writeByte = "high"
  BY DEF IsLast
<1>b. next = IF s.accessMode # "both" THEN s.writeByte
             ELSE IF last THEN "low" ELSE "high"
  OBVIOUS
<1>c. r = IF last /\ s.waitingForLoad
          THEN [s EXCEPT !.pendingLoad = FALSE, !.reload = count,
                         !.writeByte = next, !.waitingForLoad = FALSE,
                         !.value = count, !.since = 0]
          ELSE [s EXCEPT !.pendingLoad = TRUE, !.reload = count, !.writeByte = next]
  BY DEF ChannelWith
<1>d. g = IF ~last THEN h
          ELSE IF ~s.waitingForLoad THEN [h EXCEPT !.whole = count]
          ELSE [h EXCEPT !.whole = count, !.base = count, !.ideal = count,
                         !.phase = 0]
  BY DEF PastWith
<1> SUFFICES Good(p, r, g)
  OBVIOUS
<1> HIDE DEF last, next, r, g
<1> USE <1>a, <1>b, <1>c, <1>d
<1>1. s \in Channel /\ h \in Past /\ s.waitingForLoad \in BOOLEAN
      /\ s.writeByte \in {"low", "high"} /\ next \in {"low", "high"}
  BY DEF Good, Channel
<1>2. count \in Nat /\ 0 \in 0..MaxElapsed /\ p \in Nat
  BY Ranges, WordPositive DEF Counts, Ticks
<1>3. /\ r.reload = count /\ r.accessMode = s.accessMode /\ r.writeByte = next
      /\ r.accessByte = s.accessByte /\ r.latched = s.latched /\ r.latch = s.latch
  BY <1>1 DEF Channel
<1>4. BytesFitMode(r)
  BY <1>3 DEF Good, BytesFitMode
<1>5. CASE last /\ s.waitingForLoad
  <2>1. r = [s EXCEPT !.pendingLoad = FALSE, !.reload = count,
                      !.writeByte = next, !.waitingForLoad = FALSE,
                      !.value = count, !.since = 0]
    BY <1>5
  <2>2. g = [h EXCEPT !.whole = count, !.base = count, !.ideal = count, !.phase = 0]
    BY <1>5
  <2>3. r \in Channel
    BY <1>1, <1>2, <2>1 DEF Channel
  <2>4. g \in Past /\ g.low = h.low
    <3>1. h.low \in Nat \union {-1}
      BY <1>1 DEF Past
    <3>2. g = [whole |-> count, base |-> count, ideal |-> count, phase |-> 0,
               low |-> h.low]
      BY <1>1, <2>2 DEF Past
    <3>3. g \in Past
      BY <1>2, <3>1, <3>2, PastRecord
    <3> QED BY <3>2, <3>3
  <2>5. r.value = count /\ r.since = 0 /\ ~r.waitingForLoad /\ ~r.pendingLoad
    BY <1>1, <2>1 DEF Channel
  <2>6. g.whole = count /\ g.base = count /\ g.ideal = count /\ g.phase = 0
    BY <1>1, <2>2 DEF Past
  <2>7. (count - count) * p = 0
    BY <1>2
  <2>8. EarlyInv(p, r, g)
    BY <1>2, <2>5, <2>6, <2>7 DEF EarlyInv
  <2>9. ~Mid(r)
    BY <1>3, <1>5 DEF Mid
  <2>10. NullInv(r, g)
    BY <1>2, <1>3, <2>5, <2>6, <2>9 DEF NullInv
  <2>11. GuestPairs => LowInv(r, g)
    BY <1>3, <2>4 DEF Good, LowInv
  <2> QED BY <1>4, <2>3, <2>4, <2>8, <2>10, <2>11 DEF Good
<1>6. CASE ~(last /\ s.waitingForLoad)
  <2>1. r = [s EXCEPT !.pendingLoad = TRUE, !.reload = count, !.writeByte = next]
    BY <1>6
  <2>2. g = IF ~last THEN h ELSE [h EXCEPT !.whole = count]
    BY <1>6
  <2>3. r \in Channel
    BY <1>1, <2>1 DEF Channel
  <2>4. /\ g \in Past /\ g.low = h.low /\ g.ideal = h.ideal /\ g.phase = h.phase
        /\ last => g.whole = count
    BY <1>1, <1>2, <2>2 DEF Past
  <2>5. /\ r.value = s.value /\ r.since = s.since /\ r.pendingLoad
        /\ r.waitingForLoad = s.waitingForLoad
    BY <1>1, <2>1 DEF Channel
  <2>6. EarlyInv(p, r, g)
    BY <2>4, <2>5 DEF Good, EarlyInv
  <2>7. ~Mid(r) => last
    BY <1>3 DEF Mid
  <2>8. NullInv(r, g)
    BY <1>3, <2>4, <2>5, <2>7 DEF NullInv
  <2>9. GuestPairs => LowInv(r, g)
    BY <1>3, <2>4 DEF Good, LowInv
  <2> QED BY <1>4, <2>3, <2>4, <2>6, <2>8, <2>9 DEF Good
<1> QED BY <1>5, <1>6

(* A period of the source clock passes for a channel. *)
LEMMA ElapsedGood ==
  ASSUME timerPrescaler \in Ticks, NEW s, NEW h, Good(timerPrescaler, s, h), ~s.waitingForLoad,
         s.since < MaxElapsed
  PROVE  Good(timerPrescaler, [s EXCEPT !.since = s.since + 1], Ticked(h))
<1> DEFINE r == [s EXCEPT !.since = s.since + 1]
           g == Ticked(h)
           p == timerPrescaler
<1>1. /\ s \in Channel /\ h \in Past /\ s.since \in Nat /\ s.value \in Nat
      /\ h.ideal \in Nat /\ h.phase \in Nat /\ p \in Nat /\ p >= 2 /\ MaxElapsed \in Nat
  BY Ranges, WordPositive DEF Good, Channel, Past, Counts, Ticks
<1>2. r \in Channel
  BY <1>1 DEF Channel
<1>3. /\ r.value = s.value /\ r.since = s.since + 1
      /\ r.waitingForLoad = s.waitingForLoad /\ r.latched = s.latched
      /\ r.pendingLoad = s.pendingLoad /\ r.reload = s.reload /\ r.latch = s.latch
      /\ r.accessMode = s.accessMode /\ r.writeByte = s.writeByte
      /\ r.accessByte = s.accessByte
  BY <1>1 DEF Channel
<1>4. g \in Past /\ g.whole = h.whole /\ g.base = h.base /\ g.low = h.low
  <2>1. CASE h.ideal = 0
    BY <1>1, <2>1 DEF Ticked
  <2>2. CASE h.ideal # 0 /\ h.phase + 1 >= p
    <3>1. g = [h EXCEPT !.phase = 0, !.ideal = h.ideal - 1] /\ h.ideal - 1 \in Nat
      BY <1>1, <2>2 DEF Ticked
    <3> HIDE DEF g
    <3> QED BY <1>1, <3>1 DEF Past
  <2>3. CASE h.ideal # 0 /\ ~(h.phase + 1 >= p)
    <3>1. g = [h EXCEPT !.phase = h.phase + 1] /\ h.phase + 1 \in Nat
      BY <1>1, <2>3 DEF Ticked
    <3> HIDE DEF g
    <3> QED BY <1>1, <3>1 DEF Past
  <2> QED BY <2>1, <2>2, <2>3
<1>5. /\ h.ideal = 0 => g = h
      /\ h.ideal > 0 /\ h.phase + 1 >= p => g.ideal = h.ideal - 1 /\ g.phase = 0
      /\ h.ideal > 0 /\ ~(h.phase + 1 >= p) =>
           g.ideal = h.ideal /\ g.phase = h.phase + 1
  BY <1>1 DEF Ticked, Past
<1> HIDE DEF r, g
<1>6. EarlyInv(timerPrescaler, r, g)
  <2> HIDE DEF p
  <2>1. s.value >= h.ideal
    BY DEF Good, EarlyInv
  <2>2. CASE h.ideal = 0
    BY <1>1, <1>3, <1>5, <2>1, <2>2 DEF EarlyInv
  <2>3. CASE h.ideal > 0
    <3> DEFINE k == s.value - h.ideal
    <3>1. s.since <= k * p + (IF h.phase < p THEN h.phase ELSE 0)
      BY <2>3 DEF Good, EarlyInv, p
    <3>2. k \in Int
      BY <1>1
    <3>3. (k + 1) * p = k * p + p
      BY <1>1, <3>2
    <3>4. k * p \in Int
      BY <1>1, <3>2
    <3>5. s.value - (h.ideal - 1) = k + 1
      BY <1>1
    <3> HIDE DEF k
    <3>6. CASE h.phase + 1 >= p
      <4>1. r.since <= (k + 1) * p + 0
        BY <1>1, <1>3, <3>1, <3>3, <3>4, <3>6
      <4>2. g.ideal = h.ideal - 1 /\ g.phase = 0 /\ r.value >= g.ideal
            /\ r.value - g.ideal = k + 1
        BY <1>1, <1>3, <1>5, <2>1, <2>3, <3>5, <3>6
      <4> QED BY <1>1, <4>1, <4>2 DEF EarlyInv, p
    <3>7. CASE ~(h.phase + 1 >= p)
      <4>1. r.since <= k * p + (h.phase + 1) /\ h.phase + 1 < p
        BY <1>1, <1>3, <3>1, <3>4, <3>7
      <4>2. g.ideal = h.ideal /\ g.phase = h.phase + 1 /\ r.value - g.ideal = k
            /\ r.value >= g.ideal
        BY <1>3, <1>5, <2>1, <2>3, <3>7 DEF k
      <4> QED BY <4>1, <4>2 DEF EarlyInv, p
    <3> QED BY <3>6, <3>7
  <2> QED BY <1>1, <2>2, <2>3
<1>7. BytesFitMode(r)
  BY <1>3 DEF Good, BytesFitMode
<1>8. GuestPairs => NullInv(r, g) /\ LowInv(r, g)
  BY <1>3, <1>4 DEF Good, NullInv, LowInv, Mid
<1> QED BY <1>2, <1>4, <1>6, <1>7, <1>8 DEF Good, r, g

-----------------------------------------------------------------------------
(* Every action keeps every channel good.                                    *)

LEMMA InitInv == Init => Inv
<1> SUFFICES ASSUME Init PROVE Inv
  OBVIOUS
<1> DEFINE s0 == [value |-> 0, latch |-> 0, reload |-> 0, pendingLoad |-> FALSE,
                  waitingForLoad |-> TRUE, latched |-> FALSE, accessMode |-> "both",
                  numberFormat |-> "binary", writeByte |-> "low",
                  accessByte |-> "low", since |-> 0]
           h0 == [whole |-> 0, base |-> 0, ideal |-> 0, phase |-> 0, low |-> -1]
<1>1. 0 \in Counts /\ 0 \in 0..MaxElapsed
  BY Ranges, WordPositive DEF Counts
<1>2. s0 \in Channel
  BY <1>1 DEF Channel, AccessModes
<1>3. h0 \in Past
  BY DEF Past
<1>4. BytesFitMode(s0) /\ EarlyInv(timerPrescaler, s0, h0)
  BY DEF BytesFitMode, EarlyInv
<1>5. NullInv(s0, h0) /\ LowInv(s0, h0)
  BY DEF NullInv, LowInv
<1>6. Good(timerPrescaler, s0, h0)
  BY <1>2, <1>3, <1>4, <1>5 DEF Good
<1>7. /\ timerPrescaler = 2
      /\ state = [c \in Channels |-> s0] /\ history = [c \in Channels |-> h0]
  BY DEF Init
<1> HIDE DEF s0, h0
<1> QED BY <1>2, <1>3, <1>6, <1>7 DEF Inv, Ticks

\* An access brings every channel up to date.
LEMMA AllGood ==
  ASSUME Inv, GuestPairs => \A c \in Channels : ~MidWrite(c)
  PROVE  /\ AllResolved \in [Channels -> Channel]
         /\ AllFollowed \in [Channels -> Past]
         /\ \A c \in Channels, p \in Ticks : Good(p, AllResolved[c], AllFollowed[c])
         /\ \A c \in Channels : /\ AllResolved[c].accessByte = state[c].accessByte
                                /\ AllResolved[c].accessMode = state[c].accessMode
                                /\ AllResolved[c].latched = state[c].latched
                                /\ AllResolved[c].latch = state[c].latch
                                /\ AllFollowed[c].low = history[c].low
<1>1. ASSUME NEW c \in Channels
      PROVE  /\ Good(timerPrescaler, state[c], history[c])
             /\ state[c] \in Channel /\ history[c] \in Past
             /\ GuestPairs => ~Mid(state[c])
  BY DEF Inv, Mid, MidWrite
<1>2. timerPrescaler \in Ticks
  BY DEF Inv
<1>3. \A c \in Channels, p \in Ticks :
        Good(p, Resolved(state[c]), Followed(history[c], state[c]))
  BY <1>1, <1>2, ResolvedGood
<1>4. \A c \in Channels : /\ Resolved(state[c]) \in Channel
                          /\ Resolved(state[c]).accessByte = state[c].accessByte
                          /\ Resolved(state[c]).accessMode = state[c].accessMode
                          /\ Resolved(state[c]).latched = state[c].latched
                          /\ Resolved(state[c]).latch = state[c].latch
  BY <1>1, <1>2, ResolvedIs
<1>5. \A c \in Channels : /\ Followed(history[c], state[c]) \in Past
                          /\ Followed(history[c], state[c]).low = history[c].low
  BY <1>1, FollowedIs
<1> HIDE DEF Channel, Past, Good, Ticks
<1> QED BY <1>3, <1>4, <1>5 DEF AllResolved, AllFollowed

\* A step that changes one channel more after bringing all up to date
LEMMA OneChannel ==
  ASSUME Inv, MayAccess, UNCHANGED timerPrescaler, NEW c \in Channels,
         NEW r, NEW g, Good(timerPrescaler, r, g),
         state' = [AllResolved EXCEPT ![c] = r],
         history' = [AllFollowed EXCEPT ![c] = g]
  PROVE  Inv'
<1>1. /\ AllResolved \in [Channels -> Channel] /\ AllFollowed \in [Channels -> Past]
      /\ \A d \in Channels, p \in Ticks : Good(p, AllResolved[d], AllFollowed[d])
  BY AllGood DEF MayAccess
<1>2. r \in Channel /\ g \in Past /\ timerPrescaler \in Ticks
  BY DEF Good, Inv
<1> HIDE DEF Channel, Past, Good, Ticks
<1>3. state' \in [Channels -> Channel] /\ history' \in [Channels -> Past]
  BY <1>1, <1>2
<1>4. \A d \in Channels : Good(timerPrescaler', state'[d], history'[d])
  BY <1>1, <1>2
<1> QED BY <1>2, <1>3, <1>4 DEF Inv

LEMMA SetPrescalerStep ==
  ASSUME Inv, NEW p \in Prescalers, SetPrescaler(p) PROVE Inv'
<1>1. timerPrescaler' \in Ticks
  BY Ranges DEF SetPrescaler
<1>2. /\ state' = AllResolved /\ history' = AllFollowed
      /\ GuestPairs => \A c \in Channels : ~MidWrite(c)
  BY DEF SetPrescaler, MayAccess
<1>3. /\ AllResolved \in [Channels -> Channel] /\ AllFollowed \in [Channels -> Past]
      /\ \A d \in Channels, q \in Ticks : Good(q, AllResolved[d], AllFollowed[d])
  BY <1>2, AllGood
<1> HIDE DEF Channel, Past, Good, Ticks
<1> QED BY <1>1, <1>2, <1>3 DEF Inv

LEMMA LatchCountStep ==
  ASSUME Inv, NEW c \in Channels, LatchCount(c) PROVE Inv'
<1> DEFINE s == AllResolved[c]
           h == AllFollowed[c]
<1>1. MayAccess /\ (GuestPairs => ~MidRead(c)) /\ UNCHANGED timerPrescaler
  BY DEF LatchCount, MayCommand
<1>2. /\ AllResolved \in [Channels -> Channel] /\ AllFollowed \in [Channels -> Past]
      /\ Good(timerPrescaler, s, h)
      /\ s.accessByte = state[c].accessByte /\ s.accessMode = state[c].accessMode
  BY <1>1, AllGood DEF MayAccess, Inv
<1>3. GuestPairs => s.accessByte = FirstByte(s.accessMode)
  BY <1>1, <1>2 DEF MidRead
<1>4. Good(timerPrescaler, [s EXCEPT !.latch = s.value, !.latched = TRUE], h)
  BY <1>2, <1>3, LatchedGood
<1>5. s \in Channel
  BY <1>2
<1>6. /\ state' = [AllResolved EXCEPT
                     ![c] = [s EXCEPT !.latch = s.value, !.latched = TRUE]]
      /\ history' = [AllFollowed EXCEPT ![c] = h]
  BY <1>2 DEF LatchCount, s, h
<1> QED BY <1>1, <1>4, <1>6, OneChannel

LEMMA ConfigureStep ==
  ASSUME Inv, NEW c \in Channels, NEW m \in AccessModes,
         NEW f \in {"binary", "decimal"}, Configure(c, m, f)
  PROVE  Inv'
<1> DEFINE s == AllResolved[c]
           h == AllFollowed[c]
           r == [s EXCEPT !.accessMode = m, !.numberFormat = f,
                          !.waitingForLoad = TRUE, !.since = 0,
                          !.accessByte = FirstByte(m), !.writeByte = FirstByte(m)]
           g == [h EXCEPT !.low = -1]
<1>1. MayAccess /\ UNCHANGED timerPrescaler
  BY DEF Configure, MayCommand
<1>2. /\ AllResolved \in [Channels -> Channel] /\ AllFollowed \in [Channels -> Past]
      /\ Good(timerPrescaler, s, h)
  BY <1>1, AllGood DEF MayAccess, Inv
<1>3. Good(timerPrescaler, r, g)
  BY <1>2, ConfiguredGood
<1>4. /\ state' = [AllResolved EXCEPT ![c] = r]
      /\ history' = [AllFollowed EXCEPT ![c] = g]
  BY <1>2 DEF Configure
<1> HIDE DEF r, g
<1> QED BY <1>1, <1>3, <1>4, OneChannel

LEMMA ReadRegisterStep ==
  ASSUME Inv, NEW c \in Channels, ReadRegister(c) PROVE Inv'
<1> DEFINE s == AllResolved[c]
           h == AllFollowed[c]
           low == IF state[c].accessByte = "low" /\ state[c].latched
                  THEN state[c].latch ELSE -1
           r == AfterRead(s)
           g == [h EXCEPT !.low = low]
<1>1. MayAccess /\ UNCHANGED timerPrescaler
  BY DEF ReadRegister
<1>2. /\ AllResolved \in [Channels -> Channel] /\ AllFollowed \in [Channels -> Past]
      /\ Good(timerPrescaler, s, h)
      /\ s.accessByte = state[c].accessByte /\ s.latched = state[c].latched
      /\ s.latch = state[c].latch
  BY <1>1, AllGood DEF MayAccess, Inv
<1>3. low = IF s.accessByte = "low" /\ s.latched THEN s.latch ELSE -1
  BY <1>2
<1>4. /\ state' = [AllResolved EXCEPT ![c] = r]
      /\ history' = [AllFollowed EXCEPT ![c] = g]
  BY <1>2 DEF ReadRegister
<1> HIDE DEF low
<1>5. Good(timerPrescaler, r, g)
  BY <1>2, <1>3, ReadGood
<1> HIDE DEF r, g
<1> QED BY <1>1, <1>4, <1>5, OneChannel

LEMMA ReadBackStep ==
  ASSUME Inv, NEW selected \in SUBSET Channels, NEW ls \in BOOLEAN,
         NEW lc \in BOOLEAN, ReadBack(selected, ls, lc)
  PROVE  Inv'
<1> DEFINE Back(s) == [s EXCEPT !.accessByte = IF ls THEN "status"
                                               ELSE FirstByte(s.accessMode),
                                !.latch = IF lc THEN s.value ELSE s.latch,
                                !.latched = s.latched \/ lc]
<1>1. MayAccess /\ UNCHANGED timerPrescaler /\ timerPrescaler \in Ticks
  BY DEF ReadBack, Inv
<1>2. /\ AllResolved \in [Channels -> Channel] /\ AllFollowed \in [Channels -> Past]
      /\ \A c \in Channels : Good(timerPrescaler, AllResolved[c], AllFollowed[c])
  BY <1>1, AllGood DEF MayAccess
<1>3. \A c \in Channels : Good(timerPrescaler, Back(AllResolved[c]), AllFollowed[c])
  BY <1>2, ReadBackGood
<1>4. /\ state' = [c \in Channels |-> IF c \notin selected THEN AllResolved[c]
                                      ELSE Back(AllResolved[c])]
      /\ history' = AllFollowed
  BY <1>2 DEF ReadBack
<1> HIDE DEF Back
<1>5. \A c \in Channels : Back(AllResolved[c]) \in Channel
  BY <1>3 DEF Good
<1> HIDE DEF Channel, Past, Good, Ticks
<1>6. state' \in [Channels -> Channel] /\ history' \in [Channels -> Past]
  BY <1>2, <1>4, <1>5
<1>7. \A c \in Channels : Good(timerPrescaler', state'[c], history'[c])
  BY <1>1, <1>2, <1>3, <1>4
<1> QED BY <1>1, <1>6, <1>7 DEF Inv

LEMMA WriteRegisterStep ==
  ASSUME Inv, NEW c \in Channels, NEW byte \in Bytes, WriteRegister(c, byte)
  PROVE  Inv'
<1> DEFINE s == state[c]
           h == history[c]
           count == WithByte(s.reload, byte, s.writeByte, s.numberFormat)
           written == [s EXCEPT !.pendingLoad = TRUE, !.reload = count,
                                !.writeByte = IF s.accessMode # "both" THEN s.writeByte
                                              ELSE IF IsLast(s) THEN "low" ELSE "high"]
           r == ChannelWith(s, count)
           g == PastWith(h, s, count)
<1>1. /\ s \in Channel /\ h \in Past /\ Good(timerPrescaler, s, h)
      /\ timerPrescaler \in Ticks /\ UNCHANGED timerPrescaler
      /\ state \in [Channels -> Channel] /\ history \in [Channels -> Past]
  BY DEF Inv, WriteRegister
<1>2. count \in Counts
  <2>1. /\ s.reload \in Counts /\ s.numberFormat \in {"binary", "decimal"}
        /\ byte \in Nat
    BY <1>1, Ranges DEF Channel
  <2> QED BY <2>1, WithByteType
<1>3. /\ state' = [state EXCEPT ![c] = IF IsLast(s) THEN Loaded(written)
                                       ELSE written]
      /\ history' = [history EXCEPT ![c] =
           IF ~IsLast(s) THEN h
           ELSE IF ~s.waitingForLoad THEN [h EXCEPT !.whole = written.reload]
           ELSE [h EXCEPT !.whole = written.reload, !.base = written.reload,
                          !.ideal = written.reload, !.phase = 0]]
  BY DEF WriteRegister, IsLast
<1> HIDE DEF count
<1>4. written.waitingForLoad = s.waitingForLoad /\ written.reload = count
  BY <1>1 DEF Channel
<1>5. (IF IsLast(s) THEN Loaded(written) ELSE written) = r
  <2>1. CASE IsLast(s) /\ s.waitingForLoad
    <3>1. Loaded(written) = [written EXCEPT !.waitingForLoad = FALSE,
                               !.pendingLoad = FALSE, !.value = count, !.since = 0]
      BY <2>1, <1>4 DEF Loaded
    <3>2. [written EXCEPT !.waitingForLoad = FALSE, !.pendingLoad = FALSE,
                          !.value = count, !.since = 0] = r
      BY <1>1, <2>1 DEF Channel, ChannelWith
    <3> QED BY <2>1, <3>1, <3>2
  <2>2. CASE IsLast(s) /\ ~s.waitingForLoad
    BY <2>2, <1>4 DEF Loaded, ChannelWith
  <2>3. CASE ~IsLast(s)
    BY <2>3 DEF ChannelWith
  <2> QED BY <2>1, <2>2, <2>3
<1>6. state' = [state EXCEPT ![c] = r] /\ history' = [history EXCEPT ![c] = g]
  BY <1>3, <1>4, <1>5 DEF PastWith
<1>7. Good(timerPrescaler, r, g)
  BY <1>1, <1>2, WrittenGood
<1>8. r \in Channel /\ g \in Past
  BY <1>7 DEF Good
<1>9. \A d \in Channels : Good(timerPrescaler, state[d], history[d])
  BY DEF Inv
<1> HIDE DEF r, g, Channel, Past, Good, Ticks
<1>10. state' \in [Channels -> Channel] /\ history' \in [Channels -> Past]
  BY <1>1, <1>6, <1>8
<1>11. \A d \in Channels : Good(timerPrescaler', state'[d], history'[d])
  BY <1>1, <1>6, <1>7, <1>9
<1> QED BY <1>1, <1>10, <1>11 DEF Inv

LEMMA ElapseStep == Inv /\ Elapse => Inv'
<1> SUFFICES ASSUME Inv, Elapse PROVE Inv'
  OBVIOUS
<1> DEFINE Later(s) == [s EXCEPT !.since = s.since + 1]
<1>1. /\ timerPrescaler \in Ticks /\ UNCHANGED timerPrescaler
      /\ \A c \in Channels : Good(timerPrescaler, state[c], history[c])
      /\ state \in [Channels -> Channel] /\ history \in [Channels -> Past]
      /\ \A c \in Channels : state[c].since < MaxElapsed
  BY DEF Inv, Elapse
<1>2. \A c \in Channels : ~state[c].waitingForLoad =>
        Good(timerPrescaler, Later(state[c]), Ticked(history[c]))
  BY <1>1, ElapsedGood
<1>3. /\ state' = [c \in Channels |-> IF state[c].waitingForLoad THEN state[c]
                                      ELSE Later(state[c])]
      /\ history' = [c \in Channels |-> IF state[c].waitingForLoad THEN history[c]
                                        ELSE Ticked(history[c])]
  BY <1>1 DEF Elapse
<1> HIDE DEF Later
<1>4. \A c \in Channels : ~state[c].waitingForLoad =>
        Later(state[c]) \in Channel /\ Ticked(history[c]) \in Past
  BY <1>2 DEF Good
<1> HIDE DEF Channel, Past, Good, Ticks
<1>5. state' \in [Channels -> Channel] /\ history' \in [Channels -> Past]
  BY <1>1, <1>3, <1>4
<1>6. \A c \in Channels : Good(timerPrescaler', state'[c], history'[c])
  BY <1>1, <1>2, <1>3
<1> QED BY <1>1, <1>5, <1>6 DEF Inv

LEMMA StepInv == Inv /\ [Next]_vars => Inv'
<1> SUFFICES ASSUME Inv, [Next]_vars PROVE Inv'
  OBVIOUS
<1>1. CASE UNCHANGED vars
  BY <1>1 DEF vars, Inv
<1>2. DOMAIN Base = {"binary", "decimal"}
  BY DEF Base
<1> QED
  BY <1>1, <1>2, SetPrescalerStep, LatchCountStep, ConfigureStep, ReadRegisterStep,
     ReadBackStep, WriteRegisterStep, ElapseStep DEF Next

LEMMA InvAlways == Spec => []Inv
BY InitInv, StepInv, PTL DEF Spec

-----------------------------------------------------------------------------
(* The theorems.                                                             *)

(* The counters, the access machines and the prescaler keep their types; no   *)
(* single-byte mode ever waits for the byte it does not have.                 *)
THEOREM TypeCorrect == Spec => []TypeOK
<1>1. Inv => TypeOK
  <2> SUFFICES ASSUME Inv PROVE TypeOK
    OBVIOUS
  <2>1. timerPrescaler \in Nat /\ 2 <= timerPrescaler /\ timerPrescaler <= 65535
    BY DEF Inv, Ticks
  <2>2. DOMAIN Base = {"binary", "decimal"}
    BY DEF Base
  <2>3. ASSUME NEW c \in Channels
        PROVE  StateTypeOK(state[c]) /\ BytesFitMode(state[c])
    <3>1. state[c] \in Channel /\ BytesFitMode(state[c])
      BY DEF Inv, Good
    <3> QED BY <2>2, <3>1 DEF StateTypeOK, Channel
  <2> HIDE DEF Inv
  <2> QED BY <2>1, <2>3 DEF TypeOK
<1> QED BY <1>1, InvAlways, PTL

(* A status byte without a pending load tells the truth, for a guest that     *)
(* writes both bytes of a count one after the other.                          *)
THEOREM NullCountHonestHolds == GuestPairs => (Spec => []NullCountHonest)
<1> SUFFICES ASSUME GuestPairs PROVE Spec => []NullCountHonest
  OBVIOUS
<1>1. Inv => NullCountHonest
  BY DEF Inv, Good, NullInv, NullCountHonest
<1> QED BY <1>1, InvAlways, PTL

(* However often the guest's accesses make resolveTimers drop the fraction of *)
(* a tick, and whenever the prescaler is changed, no count runs ahead of the  *)
(* clock before it first expires.                                             *)
THEOREM NeverEarlyHolds == Spec => []NeverEarly
<1>1. Inv => NeverEarly
  BY DEF Inv, Good, EarlyInv, NeverEarly
<1> QED BY <1>1, InvAlways, PTL

(* The second byte of a latched count comes from the count that the first     *)
(* came from.                                                                 *)
THEOREM LatchedPairIsOneCountHolds ==
  GuestPairs => (Spec => LatchedPairIsOneCount)
<1> SUFFICES ASSUME GuestPairs PROVE Spec => LatchedPairIsOneCount
  OBVIOUS
<1>1. Inv /\ [Next]_vars =>
        [\A c \in Channels :
           /\ history[c].low # -1 /\ state[c].accessMode = "both"
           /\ state[c].accessByte = "high" /\ state'[c].accessByte = "low"
           => Source(state[c]) = history[c].low]_vars
  BY DEF Inv, Good, LowInv, Source
<1> QED BY <1>1, InvAlways, PTL DEF Spec, LatchedPairIsOneCount

-----------------------------------------------------------------------------
(* Counts written in two bytes.                                              *)

LEMMA HalvesOf ==
  ASSUME NEW b \in Nat, b >= 1, NEW q \in Nat, NEW r \in 0..(b - 1)
  PROVE  (b * q + r) % b = r /\ (b * q + r) \div b = q
<1> DEFINE m == b * q + r
           e == m \div b
<1>1. m \in Nat
  OBVIOUS
<1>2. e \in Nat /\ b * e <= m /\ m < b * e + b
  BY <1>1, Division
<1>3. m % b = m - b * e
  BY <1>1
<1> HIDE DEF e
<1>4. b * e < b * (q + 1) /\ b * q < b * (e + 1)
  BY <1>2
<1>5. e < q + 1 /\ q < e + 1
  BY <1>2, <1>4
<1>6. e = q
  BY <1>2, <1>5
<1> QED BY <1>3, <1>6 DEF e

\* What is left of a count when its low half is taken out, and the room above
LEMMA LowHalfOut ==
  ASSUME NEW n \in Nat, NEW b \in Nat, b >= 1
  PROVE  \E q \in Nat : n - (n % b) = b * q /\ b * q <= n
<1>1. n \div b \in Nat /\ b * (n \div b) <= n
  BY Division
<1>2. n - (n % b) = b * (n \div b)
  OBVIOUS
<1> QED BY <1>1, <1>2

\* In binary the low half always fits
LEMMA BinaryFits ==
  ASSUME NEW n \in Counts, NEW lo \in 0..(ByteSize - 1)
  PROVE  n - (n % ByteSize) + lo < Word
<1>1. n \in Nat /\ n < Word
  BY WordPositive DEF Counts
<1>2. PICK q \in Nat : n - (n % ByteSize) = ByteSize * q /\ ByteSize * q <= n
  <2>1. ByteSize \in Nat /\ ByteSize >= 1
    BY Ranges
  <2> QED BY <1>1, <2>1, LowHalfOut
<1>3. ByteSize * q < ByteSize * ByteSize
  BY <1>1, <1>2, Ranges DEF Word
<1>4. q < ByteSize
  BY <1>2, <1>3, Ranges
<1>5. ByteSize * q <= ByteSize * (ByteSize - 1)
  BY <1>4, Ranges
<1>6. ByteSize * q + lo < ByteSize * ByteSize
  BY <1>5, Ranges
<1> QED BY <1>2, <1>6 DEF Word

(* Two bytes written one after the other make the count base * high + low,   *)
(* whatever the register held before, and readRegister gives the same two    *)
(* back.  In decimal the low byte has to be less than the base, and the sum  *)
(* to stay within 16 bits while the old high half is still there: after a    *)
(* binary count of FFDCh or more the first byte of a decimal one may wrap.   *)
THEOREM PairIsOneCount ==
  ASSUME NEW n \in Counts, NEW format \in {"binary", "decimal"},
         NEW lo \in 0..(Base[format] - 1), NEW hi \in 0..(ByteSize - 1),
         format = "decimal" => n - (n % DecimalBase) + lo < Word,
         NEW count,
         count = WithByte(WithByte(n, lo, "low", format), hi, "high", format)
  PROVE  /\ count = Base[format] * hi + lo
         /\ count % Base[format] = lo
         /\ count \div Base[format] = hi
<1> DEFINE b == Base[format]
<1>1. b \in Nat /\ b >= 1 /\ b <= ByteSize
  BY Ranges, TimerAssumption DEF Base, TimerAssumption
<1>2. n \in Nat
  BY WordPositive DEF Counts
<1>3. n - (n % b) + lo < Word
  BY BinaryFits DEF Base
<1> HIDE DEF b
<1>4. PICK q \in Nat : n - (n % b) = b * q
  BY <1>1, <1>2, LowHalfOut
<1>5. lo \in 0..(b - 1)
  BY DEF b
<1>6. \A m \in Nat : m < Word => m % Word = m
  BY WordPositive
<1>7. b * q + lo \in Nat
  BY <1>1, <1>4, <1>5
<1>8. WithByte(n, lo, "low", format) = b * q + lo
  BY <1>3, <1>4, <1>6, <1>7 DEF WithByte, b
<1>9. (b * q + lo) % b = lo
  BY <1>1, <1>5, HalvesOf
<1>10. b * hi + lo \in Nat /\ b * hi + lo < Word
  <2>1. b * hi <= ByteSize * (ByteSize - 1)
    BY <1>1, Ranges
  <2>2. b * hi + lo < ByteSize * ByteSize
    BY <2>1, <1>1, <1>5, Ranges
  <2> QED BY <2>2, <1>1, <1>5, Ranges DEF Word
<1>11. count = b * hi + lo
  BY <1>6, <1>8, <1>9, <1>10 DEF WithByte, b
<1>12. count % b = lo /\ count \div b = hi
  BY <1>1, <1>5, <1>11, Ranges, HalvesOf
<1> QED BY <1>11, <1>12 DEF b

=============================================================================
