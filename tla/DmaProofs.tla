----------------------------- MODULE DmaProofs -----------------------------
(***************************************************************************)
(* Proofs about Dma for any channels, slices, block sizes and counts.      *)
(* The state falls into four parts that few actions connect: the channels  *)
(* with their logs, the interrupt registers, the service in progress, and  *)
(* the devices.  IInv has one conjunct for each.                           *)
(***************************************************************************)
EXTENDS Dma, TLAPS

Log == [from : 0..Space-1, plan : Nat, moved : Nat, done : BOOLEAN]
Dicr == [force : BOOLEAN, master_enable : BOOLEAN, enables : SUBSET Channels,
         flags : SUBSET Channels, master : BOOLEAN]

Moving(r) == r.mode \in {"immediate", "block"}

(* A transfer has moved what is not left of its plan, and one that was     *)
(* completed is off, so that it is not served again.                       *)
Conserved(r, l) == Moving(r) => l.plan = l.moved + (IF l.done THEN 0 ELSE Left(r))
Ended(r, l) == l.done => ~r.on

ChannelInv ==
  /\ ch \in [Channels -> Channel] /\ log \in [Channels -> Log]
  /\ \A c \in Channels : Conserved(ch[c], log[c]) /\ Ended(ch[c], log[c])

IrqInv ==
  /\ dicr \in Dicr /\ pending \in BOOLEAN /\ acked \in BOOLEAN
  /\ dicr.flags = owed
  /\ NoLostInterrupt

(* What is left of a slice is what the log says, and the channel being     *)
(* served is on.                                                           *)
ServiceInv ==
  /\ serving \in Channels \cup {Nobody} /\ turn \in 0..Nobody /\ ops \in 0..MaxOps
  /\ budget \in Nat /\ slice \in Nat
  /\ serving = Nobody => slice = 0
  /\ serving \in Streaming => budget > 0 /\ slice = budget
  /\ serving \in Channels \ Streaming => budget = NoLimit
  /\ serving \in Channels => ch[serving].on

DeviceInv ==
  /\ line \in [Asking -> BOOLEAN] /\ supply \in [Supplied -> Nat] /\ dpcr \subseteq Channels

IInv == ChannelInv /\ IrqInv /\ ServiceInv /\ DeviceInv

(***************************************************************************)
(* The arithmetic of a transfer.                                           *)
(***************************************************************************)
LEMMA FullType ==
  ASSUME NEW n \in 0..Wrap-1
  PROVE  Full(n) \in 1..Wrap
  BY DmaAssumption DEF Full

LEMMA RestType ==
  ASSUME NEW r \in Channel
  PROVE  Rest(r) \in 1..Wrap
  BY FullType DEF Rest, Channel

LEMMA Product ==
  ASSUME NEW a \in Nat, NEW b \in Nat
  PROVE  a * b \in Nat
  OBVIOUS

LEMMA LeftType ==
  ASSUME NEW r \in Channel
  PROVE  Left(r) \in Nat
  <1>1. Rest(r) \in Nat
    BY RestType, DmaAssumption
  <1>2. Full(r.size) \in Nat /\ Full(r.count) - 1 \in Nat
    BY FullType, DmaAssumption DEF Channel
  <1>3. (Full(r.count) - 1) * Full(r.size) \in Nat
    BY <1>2, Product
  <1>4. QED
    BY <1>1, <1>3 DEF Left

LEMMA Modulo ==
  ASSUME NEW a \in Int
  PROVE  a % Space \in 0..Space-1
  BY DmaAssumption

(* What dma_block() leaves of a channel is a channel. *)
LEMMA AfterType ==
  ASSUME NEW c, NEW r \in Channel, NEW n \in 0..Rest(r)
  PROVE  After(c, r, n) \in Channel
  <1>1. Rest(r) \in 1..Wrap /\ Full(r.count) \in 1..Wrap /\ Wrap \in Nat
    BY RestType, FullType, DmaAssumption DEF Channel
  <1>2. (r.madr - n) % Space \in 0..Space-1 /\ (r.madr + n) % Space \in 0..Space-1
    <2>1. r.madr \in Int /\ n \in Int
      BY <1>1, DmaAssumption DEF Channel
    <2>2. QED
      BY <2>1, Modulo
  <1>3. Rest(r) - n \in 0..Wrap /\ Full(r.count) - 1 \in 0..Wrap-1
    BY <1>1
  <1> DEFINE x == Rest(r) - n
             y == (IF c = Otc \/ r.back THEN r.madr - n ELSE r.madr + n) % Space
             z == IF r.mode = "block" /\ n = Rest(r) THEN Full(r.count) - 1 ELSE r.count
  <1>4. x \in 0..Wrap /\ y \in 0..Space-1 /\ z \in 0..Wrap-1
    BY <1>2, <1>3 DEF Channel
  <1> DEFINE r1 == [r EXCEPT !.rest = x]
             r2 == [r1 EXCEPT !.madr = y]
             r3 == [r2 EXCEPT !.count = z]
  <1>5. r.madr = r1.madr /\ r.count = r2.count
    BY DEF Channel
  <1>6. After(c, r, n) = r3
    BY <1>5 DEF After
  <1> HIDE DEF x, y, z
  <1>7. r1 \in Channel
    BY <1>4 DEF Channel
  <1> HIDE DEF r1
  <1>8. r2 \in Channel
    BY <1>4, <1>7 DEF Channel
  <1> HIDE DEF r2
  <1>9. r3 \in Channel
    BY <1>4, <1>8 DEF Channel
  <1>10. QED
    BY <1>6, <1>9

(* Moving n words takes n words off what is left, through every carry from *)
(* the words of a block to the count of blocks; nothing is left exactly    *)
(* when the code finds nothing left.                                       *)
LEMMA AfterLeft ==
  ASSUME NEW c, NEW r \in Channel, NEW n \in 0..Rest(r), Moving(r)
  PROVE  LET s == After(c, r, n)
             end == s.rest = 0 /\ (r.mode = "block" => s.count = 0)
         IN  /\ end => Left(r) = n
             /\ s.rest # 0 => Left(s) = Left(r) - n
             /\ r.mode = "block" /\ s.rest = 0 /\ s.count # 0 => Left(s) = Left(r) - n
  <1> DEFINE s == After(c, r, n)
  <1>1. Rest(r) \in 1..Wrap /\ Full(r.count) \in 1..Wrap /\ Full(r.size) \in 1..Wrap
        /\ Wrap \in Nat
    BY RestType, FullType, DmaAssumption DEF Channel
  <1>2. s.rest = Rest(r) - n /\ s.size = r.size /\ s.mode = r.mode
    BY DEF After, Channel
  <1>3. CASE n = Rest(r) /\ r.mode = "block"
    <2>1. s.rest = 0 /\ s.count = Full(r.count) - 1
      BY <1>3, <1>1, <1>2 DEF After, Channel
    <2>2. CASE s.count = 0
      <3>1. (Full(r.count) - 1) * Full(r.size) = 0
        BY <2>1, <2>2, <1>1
      <3>2. QED
        BY <3>1, <2>1, <2>2, <1>1, <1>3 DEF Left
    <2>3. CASE s.count # 0
      <3>1. Left(s) = Full(r.size) + (s.count - 1) * Full(r.size)
        BY <2>1, <2>3, <1>2, <1>3 DEF Left, Rest, Full
      <3>2. Full(r.size) + (s.count - 1) * Full(r.size) = (Full(r.count) - 1) * Full(r.size)
        BY <2>1, <1>1
      <3>3. Left(r) = n + (Full(r.count) - 1) * Full(r.size)
        BY <1>3 DEF Left
      <3> DEFINE blocks == (Full(r.count) - 1) * Full(r.size)
      <3>4. blocks \in Int /\ Left(s) = blocks /\ Left(r) = n + blocks
        BY <1>1, <3>1, <3>2, <3>3, Product
      <3> HIDE DEF blocks, s
      <3>5. Left(s) = Left(r) - n
        BY <3>4, <1>1
      <3>6. QED
        BY <3>5, <2>1, <2>3, <1>3 DEF s
    <2>4. QED
      BY <2>2, <2>3
  <1>4. CASE n # Rest(r) /\ r.mode = "block"
    <2>1. s.rest # 0 /\ s.count = r.count
      BY <1>4, <1>1, <1>2 DEF After, Channel
    <2>2. (Full(r.count) - 1) * Full(r.size) \in Int
      BY <1>1, Product
    <2>3. QED
      BY <2>1, <2>2, <1>1, <1>2, <1>4 DEF Left, Rest
  <1>5. CASE r.mode = "immediate"
    BY <1>5, <1>1, <1>2 DEF Left, Rest
  <1>6. QED
    BY <1>3, <1>4, <1>5 DEF Moving

(***************************************************************************)
(* The channels and their logs.                                            *)
(***************************************************************************)
LEMMA NewLogType ==
  ASSUME NEW r \in Channel
  PROVE  NewLog(r) \in Log /\ Conserved(r, NewLog(r)) /\ Ended(r, NewLog(r))
  <1>1. Left(r) \in Nat
    BY LeftType
  <1>2. r.madr \in 0..Space-1
    BY DEF Channel
  <1> HIDE DEF Left
  <1>3. QED
    BY <1>1, <1>2 DEF NewLog, Log, Conserved, Ended

(* A CHCR value makes a channel of a channel. *)
LEMMA ChcrType ==
  ASSUME NEW r \in Channel, NEW k \in Commands
  PROVE  Commanded(r, k) \in Channel
  BY DmaAssumption DEF Commanded, Command, Channel

LEMMA WrittenBcr ==
  ASSUME NEW r \in Channel, NEW size \in Sizes, NEW count \in Counts
  PROVE  [r EXCEPT !.size = size, !.count = count, !.rest = 0] \in Channel
  <1> DEFINE r1 == [r EXCEPT !.size = size]
             r2 == [r1 EXCEPT !.count = count]
             r3 == [r2 EXCEPT !.rest = 0]
  <1>1. [r EXCEPT !.size = size, !.count = count, !.rest = 0] = r3
    OBVIOUS
  <1>2. r1 \in Channel
    BY DmaAssumption DEF Channel
  <1> HIDE DEF r1
  <1>3. r2 \in Channel
    BY <1>2, DmaAssumption DEF Channel
  <1> HIDE DEF r2
  <1>4. r3 \in Channel
    BY <1>3, DmaAssumption DEF Channel
  <1>5. QED
    BY <1>1, <1>4

(* A write to a channel's registers begins a new log. *)
LEMMA Programmed ==
  ASSUME ChannelInv, NEW c \in Channels, NEW r \in Channel,
         ch' = [ch EXCEPT ![c] = r], log' = [log EXCEPT ![c] = NewLog(r)]
  PROVE  ChannelInv'
  <1>1. NewLog(r) \in Log /\ Conserved(r, NewLog(r)) /\ Ended(r, NewLog(r))
    BY NewLogType
  <1>2. ch' \in [Channels -> Channel] /\ log' \in [Channels -> Log]
    BY <1>1 DEF ChannelInv
  <1>3. ASSUME NEW d \in Channels
        PROVE  Conserved(ch'[d], log'[d]) /\ Ended(ch'[d], log'[d])
    BY <1>1 DEF ChannelInv
  <1>4. QED
    BY <1>2, <1>3 DEF ChannelInv

(* What the log says after n more words. *)
LEMMA MovedLog ==
  ASSUME NEW l \in Log, NEW n \in Nat
  PROVE  /\ Grown(l, n) \in Log
         /\ Grown(l, n).plan = l.plan
         /\ Grown(l, n).moved = l.moved + n
         /\ Grown(l, n).done = l.done
  BY DEF Log, Grown

LEMMA EndedLog ==
  ASSUME NEW l \in Log
  PROVE  /\ Closed(l) \in Log
         /\ Closed(l).plan = l.plan
         /\ Closed(l).moved = l.moved
         /\ Closed(l).done
  BY DEF Log, Closed

LEMMA OffType ==
  ASSUME NEW r \in Channel
  PROVE  Off(r) \in Channel /\ ~Off(r).on /\ Off(r).mode = r.mode
  <1> DEFINE r1 == [r EXCEPT !.on = FALSE]
             r2 == [r1 EXCEPT !.go = FALSE]
             r3 == [r2 EXCEPT !.rest = 0]
  <1>1. Off(r) = r3
    BY DEF Off
  <1>2. r1 \in Channel /\ ~r1.on /\ r1.mode = r.mode
    BY DEF Channel
  <1> HIDE DEF r1
  <1>3. r2 \in Channel /\ ~r2.on /\ r2.mode = r.mode
    BY <1>2 DEF Channel
  <1> HIDE DEF r2
  <1>4. r3 \in Channel /\ ~r3.on /\ r3.mode = r.mode
    BY <1>3, DmaAssumption DEF Channel
  <1>5. QED
    BY <1>1, <1>4

(* A service that moves n words and leaves some. *)
LEMMA Moves ==
  ASSUME ChannelInv, NEW c \in Channels, NEW s \in Channel, NEW n \in Nat,
         ch[c].on,
         Moving(ch[c]) => Left(s) = Left(ch[c]) - n,
         s.mode = ch[c].mode,
         ch' = [ch EXCEPT ![c] = s],
         log' = [log EXCEPT ![c] = Grown(@, n)]
  PROVE  ChannelInv'
  <1> DEFINE l == Grown(log[c], n)
  <1>1. ch[c] \in Channel /\ log[c] \in Log /\ Conserved(ch[c], log[c]) /\ Ended(ch[c], log[c])
    BY DEF ChannelInv
  <1>2. l \in Log /\ l.plan = log[c].plan /\ l.moved = log[c].moved + n /\ l.done = log[c].done
    BY <1>1, MovedLog
  <1>3. ~log[c].done
    BY <1>1 DEF Ended
  <1>4. Left(ch[c]) \in Nat /\ log[c].moved \in Nat /\ log[c].plan \in Nat
    BY <1>1, LeftType DEF Log
  <1>log. log' = [log EXCEPT ![c] = l]
    OBVIOUS
  <1> HIDE DEF l
  <1>5. ch' \in [Channels -> Channel] /\ log' \in [Channels -> Log]
    BY <1>2, <1>log DEF ChannelInv
  <1>6. ch'[c] = s /\ log'[c] = l
    BY <1>log DEF ChannelInv
  <1>7. Conserved(s, l) /\ Ended(s, l)
    <2>1. Moving(s) => Moving(ch[c])
      BY DEF Moving
    <2> HIDE DEF Left, Moving
    <2>2. QED
      BY <1>1, <1>2, <1>3, <1>4, <2>1 DEF Conserved, Ended
  <1>8. ASSUME NEW d \in Channels
        PROVE  Conserved(ch'[d], log'[d]) /\ Ended(ch'[d], log'[d])
    <2>1. CASE d = c
      BY <2>1, <1>6, <1>7
    <2>2. CASE d # c
      <3>1. ch'[d] = ch[d] /\ log'[d] = log[d]
        BY <2>2, <1>log DEF ChannelInv
      <3>2. QED
        BY <3>1 DEF ChannelInv
    <2>3. QED
      BY <2>1, <2>2
  <1>9. QED
    BY <1>5, <1>8 DEF ChannelInv

(* A service that moves the last n words, or ends a list. *)
LEMMA Ends ==
  ASSUME ChannelInv, NEW c \in Channels, NEW s \in Channel, NEW n \in Nat,
         ch[c].on,
         Moving(ch[c]) => Left(ch[c]) = n,
         s.mode = ch[c].mode,
         ch' = [ch EXCEPT ![c] = Off(s)],
         log' = [log EXCEPT ![c] = Closed(Grown(@, n))]
  PROVE  ChannelInv'
  <1> DEFINE k == Grown(log[c], n)
             l == Closed(k)
  <1>1. ch[c] \in Channel /\ log[c] \in Log /\ Conserved(ch[c], log[c]) /\ Ended(ch[c], log[c])
    BY DEF ChannelInv
  <1>2. k \in Log /\ k.plan = log[c].plan /\ k.moved = log[c].moved + n
    BY <1>1, MovedLog
  <1>3. ch' \in [Channels -> Channel] /\ ch'[c] = Off(s)
    BY OffType DEF ChannelInv
  <1>4. log' = [log EXCEPT ![c] = l]
    OBVIOUS
  <1> HIDE DEF k
  <1>5. l \in Log /\ l.plan = log[c].plan /\ l.moved = log[c].moved + n /\ l.done
    BY <1>2, EndedLog
  <1> HIDE DEF l
  <1>6. log' \in [Channels -> Log] /\ log'[c] = l
    BY <1>4, <1>5 DEF ChannelInv
  <1>7. ~log[c].done
    BY <1>1 DEF Ended
  <1>8. Left(ch[c]) \in Nat /\ log[c].moved \in Nat /\ log[c].plan \in Nat
    BY <1>1, LeftType DEF Log
  <1>9. Conserved(Off(s), l) /\ Ended(Off(s), l)
    <2>1. Moving(Off(s)) => Moving(ch[c])
      BY OffType DEF Moving
    <2>2. ~Off(s).on
      BY OffType
    <2> HIDE DEF Left, Moving
    <2>3. QED
      BY <1>1, <1>5, <1>7, <1>8, <2>1, <2>2 DEF Conserved, Ended
  <1>10. ASSUME NEW d \in Channels
        PROVE  Conserved(ch'[d], log'[d]) /\ Ended(ch'[d], log'[d])
    <2>1. CASE d = c
      BY <2>1, <1>3, <1>6, <1>9
    <2>2. CASE d # c
      <3>1. ch'[d] = ch[d] /\ log'[d] = log[d]
        BY <2>2, <1>4 DEF ChannelInv
      <3>2. QED
        BY <3>1 DEF ChannelInv
    <2>3. QED
      BY <2>1, <2>2
  <1>11. QED
    BY <1>3, <1>6, <1>10 DEF ChannelInv

(***************************************************************************)
(* The words of one step of a service.                                     *)
(***************************************************************************)
LEMMA WordsType ==
  ASSUME ServiceInv, DeviceInv, NEW c \in Channels, NEW r \in Channel
  PROVE  /\ Words(c, r) \in 0..Rest(r)
         /\ budget # NoLimit => Words(c, r) <= budget
         /\ r.toRam /\ c \in Supplied => Words(c, r) <= supply[c]
  <1>1. Rest(r) \in 1..Wrap /\ Wrap \in Nat /\ budget \in Nat
    BY RestType, DmaAssumption DEF ServiceInv
  <1>2. Wanted(r) \in 0..Rest(r) /\ (budget # NoLimit => Wanted(r) <= budget)
    BY <1>1 DEF Wanted, Least, NoLimit
  <1>3. c \in Supplied => supply[c] \in Nat
    BY DEF DeviceInv
  <1> HIDE DEF Wanted
  <1>4. QED
    BY <1>1, <1>2, <1>3 DEF Words, Least

(* The registers of a channel at the start of a step of its service. *)
LEMMA Served ==
  ASSUME IInv, NEW c \in Channels, serving = c
  PROVE  LET r == ch[c]  n == Words(c, r)  s == After(c, r, n) IN
         /\ r \in Channel /\ r.on /\ n \in Nat /\ n \in 0..Rest(r)
         /\ s \in Channel /\ s.mode = r.mode
  <1>1. ch[c] \in Channel /\ ch[c].on
    BY DEF IInv, ChannelInv, ServiceInv
  <1> DEFINE n == Words(c, ch[c])
  <1>2. n \in 0..Rest(ch[c])
    BY <1>1, WordsType DEF IInv
  <1>3. n \in Nat
    BY <1>1, <1>2, RestType, DmaAssumption
  <1> HIDE DEF n
  <1>4. After(c, ch[c], n) \in Channel
    BY <1>1, <1>2, AfterType
  <1>5. After(c, ch[c], n).mode = ch[c].mode
    BY <1>1 DEF After, Channel
  <1>6. QED
    BY <1>1, <1>2, <1>3, <1>4, <1>5 DEF n

(***************************************************************************)
(* Every step keeps the channels' part.                                    *)
(***************************************************************************)
LEMMA ImmediateKeepsChannels ==
  ASSUME IInv, NEW c \in Channels, ServeImmediate(c)
  PROVE  ChannelInv'
  <1> DEFINE n == Words(c, ch[c])
             s == After(c, ch[c], n)
  <1>1. ch[c] \in Channel /\ ch[c].on /\ n \in Nat /\ n \in 0..Rest(ch[c])
        /\ s \in Channel /\ s.mode = ch[c].mode
    BY Served DEF ServeImmediate
  <1>2. Moving(ch[c]) /\ ch[c].mode # "block"
    BY DEF ServeImmediate, Moving
  <1>3. /\ s.rest = 0 => Left(ch[c]) = n
        /\ s.rest # 0 => Left(s) = Left(ch[c]) - n
    BY <1>1, <1>2, AfterLeft
  <1>4. IF s.rest = 0 THEN Complete(c, s, n) ELSE Move(c, s, n)
    BY DEF ServeImmediate
  <1>5. ChannelInv
    BY DEF IInv
  <1> HIDE DEF n, s, Left
  <1>6. CASE s.rest = 0
    BY <1>1, <1>3, <1>4, <1>5, <1>6, Ends DEF Complete
  <1>7. CASE s.rest # 0
    BY <1>1, <1>3, <1>4, <1>5, <1>7, Moves DEF Move
  <1>8. QED
    BY <1>6, <1>7

LEMMA BlockKeepsChannels ==
  ASSUME IInv, NEW c \in Channels, ServeBlock(c)
  PROVE  ChannelInv'
  <1> DEFINE n == Words(c, ch[c])
             s == After(c, ch[c], n)
             end == s.count = 0 /\ s.rest = 0
  <1>1. ch[c] \in Channel /\ ch[c].on /\ n \in Nat /\ n \in 0..Rest(ch[c])
        /\ s \in Channel /\ s.mode = ch[c].mode
    BY Served DEF ServeBlock
  <1>2. Moving(ch[c]) /\ ch[c].mode = "block"
    BY DEF ServeBlock, Moving
  <1>3. /\ end => Left(ch[c]) = n
        /\ ~end => Left(s) = Left(ch[c]) - n
    BY <1>1, <1>2, AfterLeft
  <1>4. IF end THEN Complete(c, s, n) ELSE Move(c, s, n)
    BY DEF ServeBlock
  <1>5. ChannelInv
    BY DEF IInv
  <1> HIDE DEF n, s, end, Left
  <1>6. CASE end
    BY <1>1, <1>3, <1>4, <1>5, <1>6, Ends DEF Complete
  <1>7. CASE ~end
    BY <1>1, <1>3, <1>4, <1>5, <1>7, Moves DEF Move
  <1>8. QED
    BY <1>6, <1>7

LEMMA ChannelsKept ==
  ASSUME IInv, Next
  PROVE  ChannelInv'
  <1>1. ASSUME NEW c \in Channels, WriteMadr(c) PROVE ChannelInv'
    <2>1. PICK a \in Starts : LET r == [ch[c] EXCEPT !.madr = a] IN
            ch' = [ch EXCEPT ![c] = r] /\ log' = [log EXCEPT ![c] = NewLog(r)]
      BY <1>1 DEF WriteMadr
    <2>2. ch[c] \in Channel
      BY DEF IInv, ChannelInv
    <2>3. [ch[c] EXCEPT !.madr = a] \in Channel
      BY <2>2, DmaAssumption DEF Channel
    <2>4. QED
      BY <2>1, <2>3, Programmed DEF IInv
  <1>2. ASSUME NEW c \in Channels, WriteBcr(c) PROVE ChannelInv'
    <2>1. PICK size \in Sizes, count \in Counts :
            LET r == [ch[c] EXCEPT !.size = size, !.count = count, !.rest = 0] IN
            ch' = [ch EXCEPT ![c] = r] /\ log' = [log EXCEPT ![c] = NewLog(r)]
      BY <1>2 DEF WriteBcr
    <2>2. [ch[c] EXCEPT !.size = size, !.count = count, !.rest = 0] \in Channel
      BY WrittenBcr DEF IInv, ChannelInv
    <2>3. QED
      BY <2>1, <2>2, Programmed DEF IInv
  <1>3. ASSUME NEW c \in Channels, WriteChcr(c) PROVE ChannelInv'
    <2>1. PICK k \in Commands :
            LET r == Commanded(ch[c], k) IN
            ch' = [ch EXCEPT ![c] = r] /\ log' = [log EXCEPT ![c] = NewLog(r)]
      BY <1>3 DEF WriteChcr
    <2>2. Commanded(ch[c], k) \in Channel
      BY ChcrType DEF IInv, ChannelInv
    <2>3. QED
      BY <2>1, <2>2, Programmed DEF IInv
  <1>4. ASSUME NEW c \in Channels, ServeImmediate(c) PROVE ChannelInv'
    BY <1>4, ImmediateKeepsChannels
  <1>5. ASSUME NEW c \in Channels, ServeBlock(c) PROVE ChannelInv'
    BY <1>5, BlockKeepsChannels
  <1>6. ASSUME NEW c \in Channels, ServeList(c) PROVE ChannelInv'
    <2>1. ch[c] \in Channel /\ ch[c].on
      BY <1>6 DEF IInv, ChannelInv, ServiceInv, ServeList
    <2>2. ~Moving(ch[c])
      BY <1>6 DEF ServeList, Moving
    <2>3. Complete(c, ch[c], 0)
      BY <1>6 DEF ServeList
    <2> HIDE DEF Moving
    <2>4. QED
      BY <2>1, <2>2, <2>3, Ends DEF Complete, IInv
  <1>7. ASSUME UNCHANGED <<ch, log>> PROVE ChannelInv'
    BY <1>7 DEF IInv, ChannelInv, Conserved, Ended, Left, Rest, Full, Moving
  <1>8. QED
    BY <1>1, <1>2, <1>3, <1>4, <1>5, <1>6, <1>7
    DEF Next, WriteDpcr, WriteDicr, AckIrq, Deliver, Raise, Drop, Tick, Service, TickServe,
        TickEnd, EndBlocks, ServeReserved, guest

(***************************************************************************)
(* Every step keeps the interrupt registers' part.                         *)
(***************************************************************************)
LEMMA RecomputeKeeps ==
  ASSUME IrqInv, NEW d \in Dicr, d.master = dicr.master, Recompute(d)
  PROVE  dicr' \in Dicr /\ dicr'.flags = d.flags /\ pending' \in BOOLEAN /\ acked' \in BOOLEAN
         /\ NoLostInterrupt'
  <1> DEFINE up == d.force \/ (d.master_enable /\ d.flags # {})
  <1>1. dicr' = [d EXCEPT !.master = up]
    BY DEF Recompute
  <1>2. pending' = (pending \/ (up /\ ~d.master)) /\ acked' = (acked /\ up)
    BY DEF Recompute
  <1>3. pending' \in BOOLEAN /\ acked' \in BOOLEAN
    BY <1>2, Zenon DEF IrqInv
  <1>4. up \in BOOLEAN
    BY Zenon DEF Dicr
  <1>5. /\ dicr' \in Dicr /\ dicr'.flags = d.flags /\ dicr'.master = up
        /\ dicr'.force = d.force /\ dicr'.master_enable = d.master_enable
    <2> HIDE DEF up
    <2>1. QED
      BY <1>1, <1>4 DEF Dicr
  <1>6. dicr.master => pending \/ acked
    BY DEF IrqInv, NoLostInterrupt
  <1>7. dicr'.master => pending' \/ acked'
    <2>1. CASE up /\ ~d.master
      BY <2>1, <1>2, Zenon
    <2>2. CASE up /\ d.master
      BY <2>2, <1>2, <1>6, Zenon
    <2>3. CASE ~up
      BY <2>3, <1>5
    <2>4. QED
      BY <2>1, <2>2, <2>3
  <1>8. dicr'.master = (dicr'.force \/ (dicr'.master_enable /\ dicr'.flags # {}))
    BY <1>5, Zenon
  <1>9. QED
    BY <1>3, <1>5, <1>7, <1>8 DEF NoLostInterrupt

(* A completion sets its flag and owes it. *)
LEMMA CompleteKeepsIrq ==
  ASSUME IInv, NEW c \in Channels, NEW s, NEW n, Complete(c, s, n)
  PROVE  IrqInv'
  <1> DEFINE d == [dicr EXCEPT !.flags = @ \cup {c}]
  <1>1. IrqInv
    BY DEF IInv
  <1>2. d \in Dicr /\ d.master = dicr.master /\ d.flags = dicr.flags \cup {c}
    BY <1>1 DEF IrqInv, Dicr
  <1> HIDE DEF d
  <1>3. CASE dicr.master_enable /\ c \in dicr.enables
    <2>1. Recompute(d) /\ owed' = owed \cup {c}
      BY <1>3 DEF Complete, d
    <2>2. QED
      BY <1>1, <1>2, <2>1, RecomputeKeeps DEF IrqInv
  <1>4. CASE ~(dicr.master_enable /\ c \in dicr.enables)
    BY <1>1, <1>4 DEF Complete, IrqInv, NoLostInterrupt
  <1>5. QED
    BY <1>3, <1>4

LEMMA IrqKept ==
  ASSUME IInv, Next
  PROVE  IrqInv'
  <1>1. CASE WriteDicr
    <2>0. PICK touched \in Accesses :
          \E f \in (IF "force" \in touched THEN BOOLEAN ELSE {dicr.force}),
             m \in (IF "enables" \in touched THEN BOOLEAN ELSE {dicr.master_enable}),
             e \in (IF "enables" \in touched THEN Masks ELSE {dicr.enables}),
             w \in (IF "flags" \in touched THEN SUBSET Channels ELSE {{}}) :
            /\ Recompute([dicr EXCEPT !.force = f, !.master_enable = m, !.enables = e,
                                      !.flags = dicr.flags \ Cleared(touched, w)])
            /\ owed' = owed \ w
      BY <1>1 DEF WriteDicr
    <2>1. PICK f \in (IF "force" \in touched THEN BOOLEAN ELSE {dicr.force}),
               m \in (IF "enables" \in touched THEN BOOLEAN ELSE {dicr.master_enable}),
               e \in (IF "enables" \in touched THEN Masks ELSE {dicr.enables}),
               w \in (IF "flags" \in touched THEN SUBSET Channels ELSE {{}}) :
            /\ Recompute([dicr EXCEPT !.force = f, !.master_enable = m, !.enables = e,
                                      !.flags = dicr.flags \ w])
            /\ owed' = owed \ w
      BY <2>0, Zenon DEF Cleared
    <2>a. f \in BOOLEAN /\ m \in BOOLEAN
      BY <2>1 DEF IInv, IrqInv, Dicr
    <2>b. e \in SUBSET Channels /\ w \in SUBSET Channels
      BY <2>1, DmaAssumption DEF IInv, IrqInv, Dicr
    <2> DEFINE d1 == [dicr EXCEPT !.force = f]
               d2 == [d1 EXCEPT !.master_enable = m]
               d3 == [d2 EXCEPT !.enables = e]
               d4 == [d3 EXCEPT !.flags = dicr.flags \ w]
    <2>2. Recompute(d4)
      BY <2>1
    <2>3. dicr \in Dicr
      BY DEF IInv, IrqInv
    <2>4. d1 \in Dicr /\ d1.master = dicr.master
      BY <2>3, <2>a DEF Dicr
    <2> HIDE DEF d1
    <2>5. d2 \in Dicr /\ d2.master = dicr.master
      BY <2>4, <2>a DEF Dicr
    <2> HIDE DEF d2
    <2>6. d3 \in Dicr /\ d3.master = dicr.master
      BY <2>5, <2>b DEF Dicr
    <2> HIDE DEF d3
    <2>7. dicr.flags \ w \in SUBSET Channels
      BY <2>3 DEF Dicr
    <2>8. d4 \in Dicr /\ d4.master = dicr.master /\ d4.flags = dicr.flags \ w
      BY <2>6, <2>7 DEF Dicr
    <2> HIDE DEF d4
    <2>9. QED
      BY <2>1, <2>2, <2>8, RecomputeKeeps DEF IInv, IrqInv
  <1>2. CASE AckIrq
    <2>1. pending' = FALSE /\ acked' = dicr.master /\ UNCHANGED <<dicr, owed>>
      BY <1>2 DEF AckIrq
    <2>2. acked' \in BOOLEAN
      BY <2>1 DEF IInv, IrqInv, Dicr
    <2>3. QED
      BY <2>1, <2>2, Zenon DEF IInv, IrqInv, NoLostInterrupt
  <1>3. ASSUME NEW c \in Channels, ServeImmediate(c) PROVE IrqInv'
    <2>1. PICK s, n : Complete(c, s, n) \/ Move(c, s, n)
      BY <1>3 DEF ServeImmediate
    <2>2. CASE Complete(c, s, n)
      BY <2>2, CompleteKeepsIrq
    <2>3. CASE Move(c, s, n)
      BY <2>3 DEF Move, IInv, IrqInv, NoLostInterrupt
    <2>4. QED
      BY <2>1, <2>2, <2>3
  <1>4. ASSUME NEW c \in Channels, ServeBlock(c) PROVE IrqInv'
    <2>1. PICK s, n : Complete(c, s, n) \/ Move(c, s, n)
      BY <1>4 DEF ServeBlock
    <2>2. CASE Complete(c, s, n)
      BY <2>2, CompleteKeepsIrq
    <2>3. CASE Move(c, s, n)
      BY <2>3 DEF Move, IInv, IrqInv, NoLostInterrupt
    <2>4. QED
      BY <2>1, <2>2, <2>3
  <1>5. ASSUME NEW c \in Channels, ServeList(c) PROVE IrqInv'
    BY <1>5, CompleteKeepsIrq DEF ServeList
  <1>6. ASSUME UNCHANGED <<dicr, pending, owed, acked>> PROVE IrqInv'
    BY <1>6 DEF IInv, IrqInv, NoLostInterrupt
  <1>7. QED
    BY <1>1, <1>2, <1>3, <1>4, <1>5, <1>6
    DEF Next, WriteMadr, WriteBcr, WriteChcr, WriteDpcr, Deliver, Raise, Drop, Tick, Service,
        TickServe, TickEnd, EndBlocks, ServeReserved, guest

(***************************************************************************)
(* Every step keeps the service's part.                                    *)
(***************************************************************************)
LEMMA ServeKeeps ==
  ASSUME NEW c \in Channels, Serve(c)
  PROVE  /\ serving' = c /\ budget' \in Nat /\ slice' \in Nat
         /\ c \in Streaming => budget' > 0 /\ slice' = budget'
         /\ c \notin Streaming => budget' = NoLimit
  BY DmaAssumption DEF Serve, NoLimit

LEMMA BeginsService ==
  ASSUME NEW c \in Channels, Serve(c), ch'[c].on, turn' \in 0..Nobody, ops' \in 0..MaxOps
  PROVE  ServiceInv'
  <1>1. /\ serving' = c /\ budget' \in Nat /\ slice' \in Nat
        /\ c \in Streaming => budget' > 0 /\ slice' = budget'
        /\ c \notin Streaming => budget' = NoLimit
    BY ServeKeeps
  <1>2. c # Nobody
    BY DmaAssumption DEF Nobody
  <1>3. QED
    BY <1>1, <1>2 DEF ServiceInv

(* After n words of a service: it goes on, or it leaves.                   *)
LEMMA StepKeepsService ==
  ASSUME IInv, NEW c \in Channels, serving = c, NEW n \in Nat,
         budget # NoLimit => n <= budget,
         Account(c, n),
         \/ Leave
         \/ /\ serving' = c /\ ch'[c].on
            /\ budget # NoLimit => n < budget
            /\ budget' = IF budget = NoLimit THEN NoLimit ELSE budget - n,
         turn' = turn, ops' = ops
  PROVE  ServiceInv'
  <1>1. /\ c # Nobody /\ budget \in Nat /\ slice \in Nat
        /\ c \in Streaming => budget > 0 /\ slice = budget
        /\ c \notin Streaming => budget = NoLimit
        /\ turn' \in 0..Nobody /\ ops' \in 0..MaxOps
    BY DmaAssumption DEF IInv, ServiceInv, Nobody
  <1>2. c \in Streaming => Spend(c, n) = budget - n /\ n <= budget
    BY <1>1 DEF Spend, NoLimit
  <1>3. c \notin Streaming => Spend(c, n) = 0
    BY DEF Spend
  <1>4. CASE Leave
    <2>1. serving' = Nobody /\ budget' = NoLimit /\ slice' = Least(Spend(c, n), 0)
      BY <1>4 DEF Leave, Account
    <2>2. slice' = 0
      BY <2>1, <1>1, <1>2, <1>3 DEF Least
    <2>3. Nobody \notin Channels /\ Nobody \notin Streaming
      BY DmaAssumption DEF Nobody
    <2>4. QED
      BY <1>1, <2>1, <2>2, <2>3 DEF ServiceInv, NoLimit
  <1>5. CASE ~Leave
    <2>1. /\ serving' = c /\ ch'[c].on /\ (budget # NoLimit => n < budget)
          /\ budget' = IF budget = NoLimit THEN NoLimit ELSE budget - n
          /\ slice' = Spend(c, n)
      BY <1>5, <1>1 DEF Account
    <2>2. CASE c \in Streaming
      BY <2>1, <2>2, <1>1, <1>2 DEF ServiceInv, NoLimit
    <2>3. CASE c \notin Streaming
      BY <2>1, <2>3, <1>1, <1>3 DEF ServiceInv, NoLimit
    <2>4. QED
      BY <2>2, <2>3
  <1>6. QED
    BY <1>4, <1>5

LEMMA ServiceKept ==
  ASSUME IInv, Next
  PROVE  ServiceInv'
  <1>1. ASSUME NEW c \in Channels, ServeImmediate(c) PROVE ServiceInv'
    <2> DEFINE n == Words(c, ch[c])
    <2>1. serving = c /\ turn' = turn /\ ops' = ops /\ Leave /\ Account(c, n)
      BY <1>1 DEF ServeImmediate, Complete
    <2>2. n \in Nat /\ (budget # NoLimit => n <= budget)
      BY <2>1, Served, WordsType DEF IInv
    <2> HIDE DEF n
    <2>3. QED
      BY <2>1, <2>2, StepKeepsService
  <1>2. ASSUME NEW c \in Channels, ServeBlock(c) PROVE ServiceInv'
    <2> DEFINE n == Words(c, ch[c])
               s == After(c, ch[c], n)
    <2>1. /\ serving = c /\ turn' = turn /\ ops' = ops
          /\ \/ Complete(c, s, n)
             \/ /\ Move(c, s, n) /\ Account(c, n)
                /\ IF budget # NoLimit /\ n >= budget THEN Leave
                   ELSE /\ UNCHANGED serving
                        /\ budget' = IF budget = NoLimit THEN NoLimit ELSE budget - n
      BY <1>2 DEF ServeBlock
    <2>2. n \in Nat /\ (budget # NoLimit => n <= budget) /\ budget \in Nat
      BY <2>1, Served, WordsType DEF IInv, ServiceInv
    <2>3. s.on
      BY <2>1, Served DEF After, Channel
    <2> HIDE DEF n, s
    <2>4. CASE Complete(c, s, n)
      BY <2>1, <2>2, <2>4, StepKeepsService DEF Complete
    <2>5. CASE Move(c, s, n) /\ Account(c, n)
               /\ budget # NoLimit /\ n >= budget /\ Leave
      BY <2>1, <2>2, <2>5, StepKeepsService
    <2>6. CASE Move(c, s, n) /\ Account(c, n)
               /\ ~(budget # NoLimit /\ n >= budget) /\ UNCHANGED serving
               /\ budget' = IF budget = NoLimit THEN NoLimit ELSE budget - n
      <3>1. ch'[c].on
        BY <2>3, <2>6 DEF Move, IInv, ChannelInv
      <3>2. budget # NoLimit => n < budget
        BY <2>2, <2>6
      <3>3. QED
        BY <2>1, <2>2, <2>6, <3>1, <3>2, StepKeepsService
    <2>7. QED
      BY <2>1, <2>4, <2>5, <2>6
  <1>3. ASSUME NEW c \in Channels, ServeList(c) PROVE ServiceInv'
    <2>1. serving = c /\ turn' = turn /\ ops' = ops /\ Leave /\ Account(c, 0)
      BY <1>3 DEF ServeList, Complete
    <2>2. 0 \in Nat /\ (budget # NoLimit => 0 <= budget)
      BY DEF IInv, ServiceInv
    <2>3. QED
      BY <2>1, <2>2, StepKeepsService
  <1>4. ASSUME NEW c \in Channels, EndBlocks(c) \/ ServeReserved(c) PROVE ServiceInv'
    <2>1. serving = c /\ turn' = turn /\ ops' = ops /\ Leave /\ Account(c, 0)
      BY <1>4 DEF EndBlocks, ServeReserved, guest
    <2>2. 0 \in Nat /\ (budget # NoLimit => 0 <= budget)
      BY DEF IInv, ServiceInv
    <2>3. QED
      BY <2>1, <2>2, StepKeepsService
  <1>5. ASSUME NEW c \in Channels, WriteChcr(c) PROVE ServiceInv'
    <2>1. serving = Nobody /\ turn' = turn /\ ops' \in 0..MaxOps
      BY <1>5, DmaAssumption DEF WriteChcr, Operate, Busy, IInv, ServiceInv
    <2>2. PICK k \in Commands :
            /\ ch' = [ch EXCEPT ![c] = Commanded(ch[c], k)]
            /\ IF Runnable(c, Commanded(ch[c], k)) THEN Serve(c)
               ELSE UNCHANGED <<serving, budget, slice>>
      BY <1>5 DEF WriteChcr
    <2>3. CASE Runnable(c, Commanded(ch[c], k))
      <3>1. Serve(c) /\ ch'[c].on
        BY <2>2, <2>3 DEF Runnable, Active, IInv, ChannelInv
      <3>2. QED
        BY <2>1, <3>1, BeginsService DEF IInv, ServiceInv
    <2>4. CASE ~Runnable(c, Commanded(ch[c], k))
      <3>1. UNCHANGED <<serving, budget, slice>>
        BY <2>2, <2>4
      <3>2. Nobody \notin Channels
        BY DmaAssumption DEF Nobody
      <3>3. QED
        BY <2>1, <3>1, <3>2, DmaAssumption DEF IInv, ServiceInv
    <2>5. QED
      BY <2>3, <2>4
  <1>6. ASSUME NEW c \in Channels, TickServe(c) PROVE ServiceInv'
    <2>1. Serve(c) /\ turn' = c + 1 /\ UNCHANGED <<ch, ops>> /\ ch[c].on
      BY <1>6 DEF TickServe, Ahead, Runnable, Active, guest
    <2>2. turn' \in 0..Nobody /\ ops' \in 0..MaxOps
      BY <2>1, DmaAssumption DEF Nobody, IInv, ServiceInv
    <2>3. QED
      BY <2>1, <2>2, BeginsService
  <1>7. ASSUME UNCHANGED <<serving, budget, slice>>, serving = Nobody,
               turn' \in 0..Nobody, ops' \in 0..MaxOps
        PROVE  ServiceInv'
    <2>1. Nobody \notin Channels
      BY DmaAssumption DEF Nobody
    <2>2. QED
      BY <1>7, <2>1, DmaAssumption DEF IInv, ServiceInv
  <1>8. CASE Operate /\ UNCHANGED <<serving, budget, slice, turn>>
    <2>1. serving = Nobody /\ turn' \in 0..Nobody /\ ops' \in 0..MaxOps
      BY <1>8, DmaAssumption DEF Operate, Busy, IInv, ServiceInv
    <2>2. QED
      BY <1>8, <2>1, <1>7
  <1>9. CASE ~Busy /\ UNCHANGED <<serving, budget, slice, turn, ops>>
    <2>1. serving = Nobody /\ turn' \in 0..Nobody /\ ops' \in 0..MaxOps
      BY <1>9 DEF Busy, IInv, ServiceInv
    <2>2. QED
      BY <1>9, <2>1, <1>7
  <1>10. CASE Tick
    <2>1. serving = Nobody /\ turn' \in 0..Nobody /\ ops' \in 0..MaxOps
          /\ UNCHANGED <<serving, budget, slice>>
      BY <1>10 DEF Tick, Busy, IInv, ServiceInv, Nobody, guest
    <2>2. QED
      BY <2>1, <1>7
  <1>11. CASE TickEnd
    <2>1. serving = Nobody /\ turn' \in 0..Nobody /\ ops' \in 0..MaxOps
          /\ UNCHANGED <<serving, budget, slice>>
      BY <1>11 DEF TickEnd, IInv, ServiceInv, Nobody, guest
    <2>2. QED
      BY <2>1, <1>7
  <1>12. ASSUME NEW c, WriteMadr(c) \/ WriteBcr(c) \/ Drop(c) PROVE ServiceInv'
    BY <1>12, <1>8 DEF WriteMadr, WriteBcr, Drop
  <1>13. CASE WriteDpcr \/ WriteDicr \/ AckIrq
    BY <1>13, <1>8 DEF WriteDpcr, WriteDicr, AckIrq
  <1>14. ASSUME NEW c, Deliver(c) \/ Raise(c) PROVE ServiceInv'
    BY <1>14, <1>9 DEF Deliver, Raise, guest
  <1>15. QED
    BY <1>1, <1>2, <1>3, <1>4, <1>5, <1>6, <1>10, <1>11, <1>12, <1>13, <1>14 DEF Next, Service

(***************************************************************************)
(* Every step keeps the devices' part.                                     *)
(***************************************************************************)
LEMMA DrainKeeps ==
  ASSUME DeviceInv, NEW c \in Channels, NEW r, NEW n \in Nat, Drain(c, r, n),
         r.toRam /\ c \in Supplied => n <= supply[c]
  PROVE  line' \in [Asking -> BOOLEAN] /\ supply' \in [Supplied -> Nat]
  <1> DEFINE given == c \in Supplied /\ r.toRam /\ n > 0 /\ (c \in Sectors => line[c])
             left == supply[c] - n
  <1>1. CASE given
    <2>1. left \in Nat
      BY <1>1 DEF DeviceInv
    <2>2. CASE c \in Sectors
      <3>1. PICK tail \in {0, RawTail} :
              /\ supply' = [supply EXCEPT ![c] = IF left <= tail THEN 0 ELSE left]
              /\ line' = [line EXCEPT ![c] = left > tail]
        BY <1>1, <2>2 DEF Drain
      <3>2. (left > tail) \in BOOLEAN
        OBVIOUS
      <3> HIDE DEF left
      <3>3. QED
        BY <3>1, <3>2, <2>1 DEF DeviceInv
    <2>3. CASE c \notin Sectors
      <3>1. PICK more \in Loads \cup {0} :
              line' = line /\ supply' = [supply EXCEPT ![c] = left + more]
        BY <1>1, <2>3 DEF Drain
      <3>2. left + more \in Nat
        BY <2>1, DmaAssumption
      <3> HIDE DEF left
      <3>3. QED
        BY <3>1, <3>2 DEF DeviceInv
    <2>4. QED
      BY <2>2, <2>3
  <1>2. CASE ~given
    <2>1. PICK open \in BOOLEAN :
            line' = IF c \in Asking \ Supplied THEN [line EXCEPT ![c] = @ /\ open] ELSE line
      BY <1>2 DEF Drain
    <2>2. c \in Asking => (line[c] /\ open) \in BOOLEAN
      BY Zenon DEF DeviceInv
    <2>3. supply' = supply
      BY <1>2 DEF Drain
    <2>4. QED
      BY <2>1, <2>2, <2>3 DEF DeviceInv
  <1>3. QED
    BY <1>1, <1>2

LEMMA DevicesKept ==
  ASSUME IInv, Next
  PROVE  DeviceInv'
  <1>1. ASSUME NEW c \in Channels, ServeImmediate(c) \/ ServeBlock(c) PROVE DeviceInv'
    <2> DEFINE n == Words(c, ch[c])
    <2>1. serving = c /\ Drain(c, ch[c], n) /\ dpcr' = dpcr
      BY <1>1 DEF ServeImmediate, ServeBlock
    <2>2. n \in Nat /\ (ch[c].toRam /\ c \in Supplied => n <= supply[c])
      BY <2>1, Served, WordsType DEF IInv
    <2> HIDE DEF n
    <2>3. QED
      BY <2>1, <2>2, DrainKeeps DEF IInv, DeviceInv
  <1>2. ASSUME NEW c \in Supplied, Deliver(c) PROVE DeviceInv'
    BY <1>2, DmaAssumption DEF Deliver, IInv, DeviceInv, guest
  <1>3. ASSUME NEW c \in Asking, Raise(c) \/ Drop(c) PROVE DeviceInv'
    <2>1. DeviceInv /\ dpcr' = dpcr
      BY <1>3 DEF Raise, Drop, IInv, guest
    <2>2. PICK b \in BOOLEAN : line' = [line EXCEPT ![c] = b]
      BY <1>3 DEF Raise, Drop
    <2>3. line' \in [Asking -> BOOLEAN]
      BY <2>1, <2>2 DEF DeviceInv
    <2>4. CASE supply' = supply
      BY <2>1, <2>3, <2>4 DEF DeviceInv
    <2>5. CASE c \in Supplied /\ supply' = [supply EXCEPT ![c] = 0]
      BY <2>1, <2>3, <2>5 DEF DeviceInv
    <2>6. QED
      BY <1>3, <2>4, <2>5 DEF Raise, Drop
  <1>4. CASE WriteDpcr
    BY <1>4, DmaAssumption DEF WriteDpcr, IInv, DeviceInv
  <1>5. CASE UNCHANGED <<line, supply, dpcr>>
    BY <1>5 DEF IInv, DeviceInv
  <1>6. QED
    BY <1>1, <1>2, <1>3, <1>4, <1>5
    DEF Next, WriteMadr, WriteBcr, WriteChcr, WriteDicr, AckIrq, Tick, Service, TickServe,
        TickEnd, EndBlocks, ServeList, ServeReserved, guest

(***************************************************************************)
(* The theorems.                                                           *)
(***************************************************************************)
LEMMA InitIInv ==
  ASSUME Init
  PROVE  IInv
  <1> DEFINE r == [madr |-> 0, size |-> 0, count |-> 0, rest |-> 0, mode |-> "immediate",
                   toRam |-> TRUE, back |-> FALSE, on |-> FALSE, go |-> FALSE]
  <1>1. r \in Channel
    BY DmaAssumption DEF Channel, Modes
  <1>2. ch = [c \in Channels |-> r] /\ log = [c \in Channels |-> NewLog(ch[c])]
    BY DEF Init
  <1> HIDE DEF r
  <1>3. \A c \in Channels : ch[c] = r /\ log[c] = NewLog(r)
    BY <1>2
  <1>4. NewLog(r) \in Log /\ Conserved(r, NewLog(r)) /\ Ended(r, NewLog(r))
    BY <1>1, NewLogType
  <1>5. ChannelInv
    BY <1>1, <1>2, <1>3, <1>4 DEF ChannelInv
  <1>6. IrqInv
    BY DEF Init, IrqInv, Dicr, NoLostInterrupt
  <1>7. ServiceInv
    BY DmaAssumption DEF Init, ServiceInv, Nobody, NoLimit
  <1>8. DeviceInv
    BY DEF Init, DeviceInv
  <1>9. QED
    BY <1>5, <1>6, <1>7, <1>8 DEF IInv

LEMMA Inductive ==
  ASSUME IInv, [Next]_vars
  PROVE  IInv'
  <1>1. CASE Next
    BY <1>1, ChannelsKept, IrqKept, ServiceKept, DevicesKept DEF IInv
  <1>2. CASE UNCHANGED vars
    <2>1. UNCHANGED <<ch, log>> /\ UNCHANGED <<dicr, pending, owed, acked>>
          /\ UNCHANGED <<serving, budget, slice, turn, ops>> /\ UNCHANGED <<line, supply, dpcr>>
      BY <1>2 DEF vars
    <2>2. ChannelInv'
      BY <2>1 DEF IInv, ChannelInv
    <2>3. IrqInv'
      BY <2>1 DEF IInv, IrqInv, NoLostInterrupt
    <2>4. ServiceInv'
      BY <2>1 DEF IInv, ServiceInv
    <2>5. DeviceInv'
      BY <2>1 DEF IInv, DeviceInv
    <2>6. QED
      BY <2>2, <2>3, <2>4, <2>5 DEF IInv
  <1>3. QED
    BY <1>1, <1>2

LEMMA Invariance == Spec => []IInv
  <1>1. Init => IInv
    BY InitIInv
  <1>2. IInv /\ [Next]_vars => IInv'
    BY Inductive
  <1>3. QED
    BY <1>1, <1>2, PTL DEF Spec

(* The registers, the interrupt bits and the histories keep their types:   *)
(* above all MADR stays an address of 24 bits and the counts of words and  *)
(* of blocks stay within 16, through every carry of dma_block().           *)
THEOREM TypeCorrect == Spec => []TypeOK
  <1>1. IInv => TypeOK
    <2> SUFFICES ASSUME IInv PROVE TypeOK
      OBVIOUS
    <2>1. slice \in Int
      BY DEF IInv, ServiceInv
    <2>2. owed \subseteq Channels
      BY DEF IInv, IrqInv, Dicr
    <2>3. QED
      BY <2>1, <2>2 DEF IInv, ChannelInv, IrqInv, ServiceInv, DeviceInv, TypeOK, Log, Dicr
  <1>2. QED
    BY <1>1, Invariance, PTL

(* No slice, no device that runs dry and no block boundary makes a         *)
(* transfer move a word twice or skip one (dma_block, execute_dma).        *)
THEOREM NothingLost == Spec => []WordsConserved
  <1>1. IInv => WordsConserved
    BY DEF IInv, ChannelInv, WordsConserved, Conserved, Moving
  <1>2. QED
    BY <1>1, Invariance, PTL

(* A service of a streaming channel moves no more words than its slice     *)
(* (slice_words_for_channel, execute_dma).                                 *)
THEOREM SliceKept == Spec => []SliceBound
  <1>1. IInv => SliceBound
    BY DEF IInv, ServiceInv, SliceBound
  <1>2. QED
    BY <1>1, Invariance, PTL

(* The flags of DICR are the completions the guest has not acknowledged,   *)
(* whatever the width of its writes (write, transfer_complete).            *)
THEOREM FlagsAreOwed == Spec => []FlagsOwed
  <1>1. IInv => FlagsOwed
    BY DEF IInv, IrqInv, FlagsOwed
  <1>2. QED
    BY <1>1, Invariance, PTL

(* No rise of the master flag goes unnoticed by the CPU                    *)
(* (recompute_dicr_master).                                                *)
THEOREM InterruptNotLost == Spec => []NoLostInterrupt
  <1>1. IInv => NoLostInterrupt
    BY DEF IInv, IrqInv
  <1>2. QED
    BY <1>1, Invariance, PTL

(* The two together: from the end of a transfer to the CPU's interrupt bit *)
(* no interrupt is lost, whatever the guest writes and in whatever order.  *)
THEOREM InterruptsAreKept == Spec => []InterruptsKept
  <1>1. FlagsOwed /\ NoLostInterrupt => InterruptsKept
    BY DEF InterruptsKept
  <1>2. QED
    BY <1>1, FlagsAreOwed, InterruptNotLost, PTL

(***************************************************************************)
(* The addresses.  MADR wraps at Space, the log does not count the laps.   *)
(***************************************************************************)
LEMMA Division ==
  ASSUME NEW a \in Int
  PROVE  a % Space \in 0..Space-1 /\ a \div Space \in Int
         /\ a = Space * (a \div Space) + (a % Space)
  BY DmaAssumption

LEMMA NoLap ==
  ASSUME NEW a \in 0..Space-1
  PROVE  a % Space = a
  BY DmaAssumption

(* Two divisions of one number have one remainder: a quotient that differs *)
(* moves the number by a whole lap.                                        *)
LEMMA OneRemainder ==
  ASSUME NEW q \in Int, NEW p \in Int, NEW r \in 0..Space-1, NEW t \in 0..Space-1,
         Space * q + r = Space * p + t
  PROVE  r = t
  <1>1. ASSUME NEW x \in Int, NEW y \in Int, x > y
        PROVE  Space * x \in Int /\ Space * y \in Int /\ Space * x >= Space * y + Space
    <2>1. PICK k \in Nat : x = y + 1 + k
      <3>1. x - y - 1 \in Nat /\ x = y + 1 + (x - y - 1)
        BY <1>1
      <3>2. QED
        BY <3>1
    <2>2. Space * x = Space * y + Space + Space * k
      BY <2>1, DmaAssumption
    <2>3. Space * k \in Nat /\ Space * y \in Int /\ Space \in Nat
      BY DmaAssumption
    <2>4. QED
      BY <2>2, <2>3
  <1>2. CASE q = p
    BY <1>2, DmaAssumption
  <1>3. CASE q > p
    BY <1>1, <1>3, DmaAssumption
  <1>4. CASE q < p
    BY <1>1, <1>4, DmaAssumption
  <1>5. QED
    BY <1>2, <1>3, <1>4

(* Wrapping before one more move or after it is the same. *)
LEMMA WrapOnce ==
  ASSUME NEW a \in Int, NEW n \in Int
  PROVE  ((a % Space) + n) % Space = (a + n) % Space
  <1> DEFINE q1 == a \div Space          r1 == a % Space
             q2 == (r1 + n) \div Space   r2 == (r1 + n) % Space
             q3 == (a + n) \div Space    r3 == (a + n) % Space
  <1>1. q1 \in Int /\ r1 \in 0..Space-1 /\ a = Space * q1 + r1
    BY Division
  <1>2. r1 + n \in Int /\ a + n \in Int
    BY <1>1, DmaAssumption
  <1>3. q2 \in Int /\ r2 \in 0..Space-1 /\ r1 + n = Space * q2 + r2
    <2> HIDE DEF r1
    <2>1. QED
      BY <1>2, Division
  <1>4. q3 \in Int /\ r3 \in 0..Space-1 /\ a + n = Space * q3 + r3
    BY <1>2, Division
  <1> HIDE DEF q1, q2, q3, r1, r2, r3
  <1>5. Space * q3 + r3 = Space * (q1 + q2) + r2 /\ q1 + q2 \in Int
    <2>1. Space * (q1 + q2) = Space * q1 + Space * q2
      BY <1>1, <1>3, DmaAssumption
    <2>2. Space * q1 \in Int /\ Space * q2 \in Int /\ Space * q3 \in Int
      BY <1>1, <1>3, <1>4, DmaAssumption
    <2>3. QED
      BY <2>1, <2>2, <1>1, <1>3, <1>4, DmaAssumption
  <1>6. r3 = r2
    BY <1>3, <1>4, <1>5, OneRemainder
  <1>7. QED
    BY <1>6 DEF r1, r2, r3

(* MADR is as far from where the log began as the log has moved. *)
Follows(c, r, l) ==
  r.madr = (IF c = Otc \/ r.back THEN l.from - l.moved ELSE l.from + l.moved) % Space

LEMMA NewLogFollows ==
  ASSUME NEW c, NEW r \in Channel
  PROVE  Follows(c, r, NewLog(r))
  <1>1. r.madr \in 0..Space-1 /\ r.madr % Space = r.madr
    BY NoLap DEF Channel
  <1>2. r.madr - 0 = r.madr /\ r.madr + 0 = r.madr
    BY <1>1
  <1>3. QED
    BY <1>1, <1>2 DEF Follows, NewLog

LEMMA AfterFollows ==
  ASSUME NEW c, NEW r \in Channel, NEW l \in Log, NEW n \in Nat, Follows(c, r, l)
  PROVE  Follows(c, After(c, r, n), Grown(l, n))
  <1> DEFINE s == After(c, r, n)
             g == Grown(l, n)
             away == IF c = Otc \/ r.back THEN -n ELSE n
             far == IF c = Otc \/ r.back THEN l.from - l.moved ELSE l.from + l.moved
  <1>1. g.from = l.from /\ g.moved = l.moved + n
    BY DEF Grown, Log
  <1>2. s.back = r.back
        /\ s.madr = (IF c = Otc \/ r.back THEN r.madr - n ELSE r.madr + n) % Space
    BY DEF After, Channel
  <1>3. l.from \in Int /\ l.moved \in Int /\ r.madr \in Int
    BY DmaAssumption DEF Log, Channel
  <1>4. far \in Int /\ away \in Int /\ r.madr = far % Space
    BY <1>3 DEF Follows
  <1>5. s.madr = (r.madr + away) % Space
    BY <1>2, <1>3
  <1>6. far + away = IF c = Otc \/ r.back THEN g.from - g.moved ELSE g.from + g.moved
    BY <1>1, <1>3
  <1> HIDE DEF s, g, away, far
  <1>7. s.madr = (far + away) % Space
    BY <1>4, <1>5, WrapOnce
  <1>8. QED
    BY <1>2, <1>6, <1>7 DEF Follows, s, g

LEMMA OffFollows ==
  ASSUME NEW c, NEW r \in Channel, NEW l \in Log, Follows(c, r, l)
  PROVE  Follows(c, Off(r), Closed(l))
  BY DEF Follows, Off, Closed, Channel, Log

AllFollow == \A c \in Channels : Follows(c, ch[c], log[c])

(* One channel changes, and its log with it. *)
LEMMA OneFollows ==
  ASSUME ChannelInv, AllFollow, NEW c \in Channels, NEW r, NEW l, Follows(c, r, l),
         ch' = [ch EXCEPT ![c] = r], log' = [log EXCEPT ![c] = l]
  PROVE  AllFollow'
  <1> SUFFICES ASSUME NEW d \in Channels PROVE Follows(d, ch'[d], log'[d])
    BY DEF AllFollow
  <1>1. CASE d = c
    <2>1. ch'[d] = r /\ log'[d] = l
      BY <1>1 DEF ChannelInv
    <2>2. QED
      BY <1>1, <2>1
  <1>2. CASE d # c
    <2>1. ch'[d] = ch[d] /\ log'[d] = log[d]
      BY <1>2 DEF ChannelInv
    <2>2. QED
      BY <2>1 DEF AllFollow
  <1>3. QED
    BY <1>1, <1>2

LEMMA ProgrammedFollows ==
  ASSUME ChannelInv, AllFollow, NEW c \in Channels, NEW r \in Channel,
         ch' = [ch EXCEPT ![c] = r], log' = [log EXCEPT ![c] = NewLog(r)]
  PROVE  AllFollow'
  <1>1. Follows(c, r, NewLog(r))
    BY NewLogFollows
  <1>2. QED
    BY <1>1, OneFollows

(* n more words of a service, whether it goes on or ends. *)
LEMMA ServedFollows ==
  ASSUME ChannelInv, AllFollow, NEW c \in Channels, NEW s \in Channel, NEW n \in Nat,
         Follows(c, s, Grown(log[c], n)), Complete(c, s, n) \/ Move(c, s, n)
  PROVE  AllFollow'
  <1> DEFINE l == Grown(log[c], n)
  <1>1. l \in Log
    BY MovedLog DEF ChannelInv
  <1>2. log' = [log EXCEPT ![c] = l] \/ log' = [log EXCEPT ![c] = Closed(l)]
    BY DEF Complete, Move
  <1>3. CASE Complete(c, s, n)
    <2>1. ch' = [ch EXCEPT ![c] = Off(s)] /\ log' = [log EXCEPT ![c] = Closed(l)]
      BY <1>3 DEF Complete
    <2> HIDE DEF l
    <2>2. Follows(c, Off(s), Closed(l))
      BY <1>1, OffFollows DEF l
    <2>3. QED
      BY <2>1, <2>2, OneFollows
  <1>4. CASE Move(c, s, n)
    <2>1. ch' = [ch EXCEPT ![c] = s] /\ log' = [log EXCEPT ![c] = l]
      BY <1>4 DEF Move
    <2> HIDE DEF l
    <2>2. QED
      BY <2>1, OneFollows DEF l
  <1>5. QED
    BY <1>3, <1>4

LEMMA FollowsKept ==
  ASSUME IInv, AllFollow, [Next]_vars
  PROVE  AllFollow'
  <1>0. ChannelInv
    BY DEF IInv
  <1>1. ASSUME NEW c \in Channels, WriteMadr(c) PROVE AllFollow'
    <2>1. PICK a \in Starts : LET r == [ch[c] EXCEPT !.madr = a] IN
            ch' = [ch EXCEPT ![c] = r] /\ log' = [log EXCEPT ![c] = NewLog(r)]
      BY <1>1 DEF WriteMadr
    <2>2. [ch[c] EXCEPT !.madr = a] \in Channel
      BY <1>0, DmaAssumption DEF ChannelInv, Channel
    <2>3. QED
      BY <1>0, <2>1, <2>2, ProgrammedFollows
  <1>2. ASSUME NEW c \in Channels, WriteBcr(c) PROVE AllFollow'
    <2>1. PICK size \in Sizes, count \in Counts :
            LET r == [ch[c] EXCEPT !.size = size, !.count = count, !.rest = 0] IN
            ch' = [ch EXCEPT ![c] = r] /\ log' = [log EXCEPT ![c] = NewLog(r)]
      BY <1>2 DEF WriteBcr
    <2>2. [ch[c] EXCEPT !.size = size, !.count = count, !.rest = 0] \in Channel
      BY WrittenBcr DEF IInv, ChannelInv
    <2>3. QED
      BY <1>0, <2>1, <2>2, ProgrammedFollows
  <1>3. ASSUME NEW c \in Channels, WriteChcr(c) PROVE AllFollow'
    <2>1. PICK k \in Commands :
            LET r == Commanded(ch[c], k) IN
            ch' = [ch EXCEPT ![c] = r] /\ log' = [log EXCEPT ![c] = NewLog(r)]
      BY <1>3 DEF WriteChcr
    <2>2. Commanded(ch[c], k) \in Channel
      BY <1>0, ChcrType DEF ChannelInv
    <2>3. QED
      BY <1>0, <2>1, <2>2, ProgrammedFollows
  <1>4. ASSUME NEW c \in Channels, ServeImmediate(c) \/ ServeBlock(c) PROVE AllFollow'
    <2> DEFINE n == Words(c, ch[c])
               s == After(c, ch[c], n)
    <2>1. ch[c] \in Channel /\ n \in Nat /\ s \in Channel
      BY <1>4, Served DEF ServeImmediate, ServeBlock
    <2>2. Complete(c, s, n) \/ Move(c, s, n)
      BY <1>4 DEF ServeImmediate, ServeBlock
    <2>3. log[c] \in Log /\ Follows(c, ch[c], log[c])
      BY <1>0 DEF ChannelInv, AllFollow
    <2>4. Follows(c, s, Grown(log[c], n))
      BY <2>1, <2>3, AfterFollows
    <2> HIDE DEF s, n
    <2>5. QED
      BY <1>0, <2>1, <2>2, <2>4, ServedFollows
  <1>5. ASSUME NEW c \in Channels, ServeList(c) PROVE AllFollow'
    <2>1. ch[c] \in Channel /\ log[c] \in Log /\ Follows(c, ch[c], log[c])
      BY <1>0 DEF ChannelInv, AllFollow
    <2>2. Follows(c, ch[c], Grown(log[c], 0))
      BY <2>1 DEF Follows, Grown, Log
    <2>3. QED
      BY <1>0, <1>5, <2>1, <2>2, ServedFollows DEF ServeList
  <1>6. CASE UNCHANGED <<ch, log>>
    BY <1>6 DEF AllFollow
  <1>7. QED
    BY <1>1, <1>2, <1>3, <1>4, <1>5, <1>6
    DEF Next, vars, WriteDpcr, WriteDicr, AckIrq, Deliver, Raise, Drop, Tick, Service,
        TickServe, TickEnd, EndBlocks, ServeReserved, guest

(* However a transfer is cut, its words lie side by side: MADR advances by *)
(* exactly what each slice moved, forwards or backwards, and wraps as the  *)
(* 24-bit register does (dma_block).                                       *)
THEOREM AddressesFollow == Spec => []AddressFollows
  <1>1. Init => AllFollow
    <2> SUFFICES ASSUME Init, NEW c \in Channels PROVE Follows(c, ch[c], log[c])
      BY DEF AllFollow
    <2>1. ch[c] \in Channel
      BY InitIInv DEF IInv, ChannelInv
    <2>2. log[c] = NewLog(ch[c])
      BY DEF Init
    <2>3. QED
      BY <2>1, <2>2, NewLogFollows
  <1>2. IInv /\ AllFollow /\ [Next]_vars => AllFollow'
    BY FollowsKept
  <1>3. AllFollow => AddressFollows
    BY DEF AllFollow, Follows, AddressFollows
  <1>4. QED
    BY <1>1, <1>2, <1>3, Invariance, PTL DEF Spec
=============================================================================
