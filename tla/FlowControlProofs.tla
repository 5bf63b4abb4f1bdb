-------------------------- MODULE FlowControlProofs --------------------------
(***************************************************************************)
(* The slots and the bandwidth limit, for every finite set of calls, every *)
(* number of slots, every rate and every resolution of the clock.          *)
(***************************************************************************)
EXTENDS TLAPS, FlowControl, FiniteSetTheorems

\* A set of calls is finite, and so its cardinality is a number that changes
\* by one with each call.
LEMMA HoldersFinite ==
    /\ IsFiniteSet(SlotHolders)
    /\ Cardinality(SlotHolders) \in Nat
<1>1. IsFiniteSet(SlotHolders)
  <2>1. SlotHolders \subseteq Calls
    BY DEF SlotHolders
  <2>2. QED BY <2>1, FlowAssumption, FS_Subset
<1>2. QED BY <1>1, FS_CardinalityType

\* What the slots need to know of the state.
SlotsInv ==
    /\ pc \in [Calls -> Holding \cup {"idle", "acquire", "done"}]
    /\ sem \in 0 .. MaxConcurrent
    /\ SlotsConserved

\* A step of a call that neither takes nor returns a slot.
LEMMA SlotsKept ==
    ASSUME SlotsInv, NEW c \in Calls, NEW to, sem' = sem,
           pc' = [pc EXCEPT ![c] = to],
           \/ pc[c] \in Holding /\ to \in Holding
           \/ pc[c] \notin Holding /\ to \in {"idle", "acquire", "done"}
    PROVE  SlotsInv'
<1>1. pc' \in [Calls -> Holding \cup {"idle", "acquire", "done"}]
  BY DEF SlotsInv
<1>2. SlotHolders' = SlotHolders
  BY DEF SlotsInv, SlotHolders, Holding
<1>3. QED BY <1>1, <1>2 DEF SlotsInv, SlotsConserved

\* Every step keeps the number of free and held slots.
LEMMA SlotsStep == SlotsInv /\ [FlowNext]_flowVars => SlotsInv'
<1> SUFFICES ASSUME SlotsInv, [FlowNext]_flowVars
             PROVE  SlotsInv'
  OBVIOUS
<1> USE FlowAssumption
<1>0. /\ Cardinality(SlotHolders) \in Nat /\ sem \in Nat
      /\ sem + Cardinality(SlotHolders) = MaxConcurrent
  BY HoldersFinite DEF SlotsInv, SlotsConserved
<1>1. ASSUME NEW c \in Calls, SendFile(c)
      PROVE  SlotsInv'
  BY <1>1, SlotsKept DEF SendFile, Holding
<1>2. ASSUME NEW c \in Calls, Acquire(c)
      PROVE  SlotsInv'
  <2>1. /\ pc' = [pc EXCEPT ![c] = "register"]
        /\ sem > 0 /\ sem' = sem - 1 /\ pc[c] = "acquire"
    BY <1>2 DEF Acquire
  <2>2. pc' \in [Calls -> Holding \cup {"idle", "acquire", "done"}]
    BY <2>1 DEF SlotsInv, Holding
  <2>3. SlotHolders' = SlotHolders \cup {c} /\ c \notin SlotHolders
    BY <2>1 DEF SlotsInv, SlotHolders, Holding
  <2>4. Cardinality(SlotHolders') = Cardinality(SlotHolders) + 1
    BY <2>3, HoldersFinite, FS_AddElement
  <2>5. sem' \in 0 .. MaxConcurrent
    BY <1>0, <2>1
  <2>6. sem' + Cardinality(SlotHolders') = MaxConcurrent
    BY <1>0, <2>1, <2>4
  <2>7. QED BY <2>2, <2>5, <2>6 DEF SlotsInv, SlotsConserved
<1>3. ASSUME NEW c \in Calls, Release(c)
      PROVE  SlotsInv'
  <2>1. /\ pc' = [pc EXCEPT ![c] = "done"] /\ pc[c] = "release"
        /\ sem < MaxConcurrent /\ sem' = sem + 1
    BY <1>3 DEF Release
  <2>2. pc' \in [Calls -> Holding \cup {"idle", "acquire", "done"}]
    BY <2>1 DEF SlotsInv
  <2>3. SlotHolders' = SlotHolders \ {c} /\ c \in SlotHolders
    BY <2>1 DEF SlotsInv, SlotHolders, Holding
  <2>4. Cardinality(SlotHolders') = Cardinality(SlotHolders) - 1
    BY <2>3, HoldersFinite, FS_RemoveElement
  <2>5. sem' \in 0 .. MaxConcurrent
    BY <1>0, <2>1
  <2>6. sem' + Cardinality(SlotHolders') = MaxConcurrent
    BY <1>0, <2>1, <2>4
  <2>7. QED BY <2>2, <2>5, <2>6 DEF SlotsInv, SlotsConserved
<1>4. ASSUME NEW c \in Calls, Register(c) \/ CheckPeer(c) \/ Unregister(c)
      PROVE  SlotsInv'
  <2>1. PICK to \in Holding : pc' = [pc EXCEPT ![c] = to]
    BY <1>4 DEF Register, CheckPeer, AfterCheck, Unregister, Holding
  <2>2. pc[c] \in Holding /\ sem' = sem
    BY <1>4 DEF Register, CheckPeer, Unregister, Holding
  <2>3. QED BY <2>1, <2>2, SlotsKept
<1>5. ASSUME NEW c \in Calls, TryConsume(c) \/ Sent(c)
      PROVE  SlotsInv'
  <2>1. pc[c] \in {"wait", "send"} /\ sem' = sem
    BY <1>5 DEF TryConsume, Sent
  <2>2. \/ pc' = pc
        \/ \E to \in {"wait", "send", "unregister"} :
             pc' = [pc EXCEPT ![c] = to]
    BY <1>5 DEF TryConsume, Sent
  <2>3. CASE pc' = pc
    BY <2>1, <2>3 DEF SlotsInv, SlotsConserved, SlotHolders
  <2>4. CASE \E to \in {"wait", "send", "unregister"} :
               pc' = [pc EXCEPT ![c] = to]
    BY <2>1, <2>4, SlotsKept DEF Holding
  <2>5. QED BY <2>2, <2>3, <2>4
<1>6. CASE RefillTokens \/ FlowTick \/ UNCHANGED flowVars
  BY <1>6 DEF RefillTokens, FlowTick, flowVars, SlotsInv, SlotsConserved, SlotHolders
<1>7. QED BY <1>1, <1>2, <1>3, <1>4, <1>5, <1>6 DEF FlowNext, Call

\* Transfer slots are neither lost nor made up, on any path through SendFile
\* and in any interleaving of calls: ReleaseTransferSlot never blocks.
THEOREM SlotsConservedHolds == FlowSpec => []SlotsConserved
<1>1. FlowInit => SlotsInv
  <2> SUFFICES ASSUME FlowInit PROVE SlotsInv
    OBVIOUS
  <2>1. SlotHolders = {}
    BY DEF FlowInit, SlotHolders, Holding
  <2>2. Cardinality(SlotHolders) = 0
    BY <2>1, FS_EmptySet
  <2>3. QED BY <2>2, FlowAssumption DEF FlowInit, SlotsInv, SlotsConserved
<1>2. SlotsInv => SlotsConserved
  BY DEF SlotsInv
<1>3. QED BY <1>1, <1>2, SlotsStep, PTL DEF FlowSpec

-----------------------------------------------------------------------------
\* Division by the resolution of the clock rounds down.
LEMMA RoundsDown ==
    ASSUME NEW a \in Nat, NEW t \in Nat \ {0}
    PROVE  /\ a \div t \in Nat
           /\ (a \div t) * t <= a
OBVIOUS

\* One tick more is worth at most one rate more.
LEMMA OneMore ==
    ASSUME NEW a \in Nat, NEW b \in Nat, NEW r \in Nat, a <= b + 1
    PROVE  a * r <= b * r + r
<1> DEFINE k == b + 1 - a
<1>1. k \in Nat /\ b + 1 = a + k
  OBVIOUS
<1> HIDE DEF k
<1>2. k * r \in Nat /\ a * r \in Nat
  BY <1>1
<1>3. (b + 1) * r = a * r + k * r
  BY <1>1
<1>4. (b + 1) * r = b * r + r
  OBVIOUS
<1>5. QED BY <1>2, <1>3, <1>4

\* A call that has not come to its first message has paid for none.
Fresh == {"idle", "acquire", "register", "check"}

\* What the bandwidth needs to know of the state: everything that was let
\* through, is in the bucket, or will be when the clock is read, was allowed.
BandwidthInv ==
    /\ msg \in [Calls -> Nat]
    /\ \A c \in Calls : /\ pc[c] \in Fresh => msg[c] = 0
                        /\ pc[c] = "wait" => msg[c] < Len(Lengths[c])
    /\ pc \in [Calls -> Holding \cup {"idle", "acquire", "done"}]
    /\ tokens \in 0 .. Burst /\ elapsed \in Nat
    /\ spent \in Nat /\ credit \in Nat
    /\ credit < MaxCredit =>
         (spent + tokens) * TicksPerSecond + elapsed * Rate <= credit

\* A refill, by whomever, stays within the allowance: what it adds is paid for
\* by the time it takes off the clock.
LEMMA RefillAllowed ==
    ASSUME BandwidthInv
    PROVE  /\ Refilled \in 0 .. Burst
           /\ Restarted \in Nat
           /\ credit < MaxCredit =>
                (spent + Refilled) * TicksPerSecond + Restarted * Rate <= credit
<1> USE FlowAssumption
<1> DEFINE add == TokensToAdd
<1>0. /\ tokens \in Nat /\ elapsed \in Nat /\ spent \in Nat /\ credit \in Nat
      /\ Burst \in Nat /\ tokens <= Burst /\ Rate \in Nat
      /\ TicksPerSecond \in Nat \ {0}
  BY DEF BandwidthInv, Burst
<1>1. add \in Nat /\ add * TicksPerSecond <= elapsed * Rate
  BY <1>0, RoundsDown DEF TokensToAdd
<1> HIDE DEF add
<1>2. /\ Refilled \in 0 .. Burst /\ Refilled <= tokens + add
  BY <1>0, <1>1 DEF Refilled, MinOf, add
<1>3. /\ Restarted \in Nat
      /\ Restarted * Rate + add * TicksPerSecond <= elapsed * Rate
  <2>1. CASE add > 0
    BY <1>0, <1>1, <2>1 DEF Restarted, add
  <2>2. CASE add = 0
    BY <1>0, <1>1, <2>2 DEF Restarted, add
  <2>3. QED BY <1>1, <2>1, <2>2
<1>4. ASSUME credit < MaxCredit
      PROVE  (spent + Refilled) * TicksPerSecond + Restarted * Rate <= credit
  <2>1. (spent + tokens) * TicksPerSecond + elapsed * Rate <= credit
    BY <1>4 DEF BandwidthInv
  <2>2. (spent + Refilled) * TicksPerSecond
          <= (spent + tokens) * TicksPerSecond + add * TicksPerSecond
    BY <1>0, <1>1, <1>2
  <2>3. QED BY <1>0, <1>1, <1>2, <1>3, <2>1, <2>2
<1>5. QED BY <1>2, <1>3, <1>4

\* The steps that leave the bucket and the clock alone.
LEMMA BandwidthKept ==
    ASSUME BandwidthInv, NEW c \in Calls, NEW to,
           to \in Holding \cup {"idle", "acquire", "done"},
           to \in Fresh => msg[c] = 0,
           to = "wait" => msg[c] < Len(Lengths[c]),
           pc' = [pc EXCEPT ![c] = to],
           UNCHANGED <<msg, tokens, elapsed, spent, credit>>
    PROVE  BandwidthInv'
BY DEF BandwidthInv

\* One turn of the loop of RateLimiter.Wait.
LEMMA ConsumeAllowed ==
    ASSUME BandwidthInv, NEW c \in Calls, TryConsume(c)
    PROVE  BandwidthInv'
<1> USE FlowAssumption
<1> DEFINE n == Lengths[c][msg[c] + 1]
<1>0. /\ Refilled \in 0 .. Burst /\ Restarted \in Nat /\ Burst \in Nat
      /\ credit < MaxCredit =>
           (spent + Refilled) * TicksPerSecond + Restarted * Rate <= credit
  BY RefillAllowed DEF Burst
<1>1. msg[c] \in Nat /\ msg[c] < Len(Lengths[c]) /\ pc[c] = "wait"
  BY DEF TryConsume, BandwidthInv
<1>2. n \in Nat
  <2>1. Lengths[c] \in Seq(Nat) /\ msg[c] + 1 \in 1 .. Len(Lengths[c])
    BY <1>1
  <2>2. QED BY <2>1
<1> HIDE DEF n
<1>3. CASE Enough(n)
  <2>1. /\ tokens' = Refilled - n /\ spent' = spent + n /\ elapsed' = Restarted
        /\ msg' = [msg EXCEPT ![c] = @ + 1] /\ pc' = [pc EXCEPT ![c] = "send"]
        /\ credit' = credit
    BY <1>3 DEF TryConsume, n
  <2>2. Refilled >= n
    BY <1>3 DEF Enough
  <2>3. /\ tokens' \in 0 .. Burst /\ elapsed' \in Nat /\ spent' \in Nat
        /\ spent' + tokens' = spent + Refilled
    BY <1>0, <1>2, <2>1, <2>2 DEF BandwidthInv
  <2>4. /\ msg' \in [Calls -> Nat]
        /\ pc' \in [Calls -> Holding \cup {"idle", "acquire", "done"}]
        /\ \A b \in Calls : /\ pc'[b] \in Fresh => msg'[b] = 0
                            /\ pc'[b] = "wait" => msg'[b] < Len(Lengths[b])
    BY <1>1, <2>1 DEF BandwidthInv, Holding, Fresh
  <2>5. QED BY <1>0, <2>1, <2>3, <2>4 DEF BandwidthInv
<1>4. CASE ~Enough(n)
  <2>1. /\ tokens' = Refilled /\ elapsed' = Restarted
        /\ UNCHANGED <<spent, msg, pc, credit>>
    BY <1>4 DEF TryConsume, n
  <2>2. QED BY <1>0, <2>1 DEF BandwidthInv
<1>5. QED BY <1>3, <1>4

\* The clock: every tick is worth the rate.
LEMMA TickAllowed ==
    ASSUME BandwidthInv, FlowTick
    PROVE  BandwidthInv'
<1> USE FlowAssumption
<1>0. /\ tokens \in Nat /\ elapsed \in Nat /\ spent \in Nat /\ credit \in Nat
      /\ UNCHANGED <<pc, msg, tokens, spent>>
  BY DEF BandwidthInv, Burst, FlowTick
<1>1. elapsed' \in Nat /\ elapsed' <= elapsed + 1
  BY <1>0 DEF FlowTick, MinOf, FillTime, Burst
<1>2. /\ credit' \in Nat
      /\ credit' < MaxCredit => credit < MaxCredit /\ credit' = credit + Rate
  BY <1>0 DEF FlowTick, MinOf
<1>3. ASSUME credit' < MaxCredit
      PROVE  (spent + tokens) * TicksPerSecond + elapsed' * Rate <= credit'
  <2>1. (spent + tokens) * TicksPerSecond + elapsed * Rate <= credit
    BY <1>2, <1>3 DEF BandwidthInv
  <2>2. elapsed' * Rate <= elapsed * Rate + Rate
    BY <1>0, <1>1, OneMore
  <2>3. elapsed' * Rate \in Nat /\ elapsed * Rate \in Nat
    <3>1. \A a, b \in Nat : a * b \in Nat
      OBVIOUS
    <3>2. QED BY <1>0, <1>1, <3>1
  <2>4. (spent + tokens) * TicksPerSecond \in Nat
    BY <1>0
  <2>5. QED BY <1>0, <1>2, <1>3, <2>1, <2>2, <2>3, <2>4
<1>4. QED BY <1>0, <1>1, <1>2, <1>3 DEF BandwidthInv

\* Every step stays within the allowance.
LEMMA BandwidthStep == BandwidthInv /\ [FlowNext]_flowVars => BandwidthInv'
<1> SUFFICES ASSUME BandwidthInv, [FlowNext]_flowVars
             PROVE  BandwidthInv'
  OBVIOUS
<1>1. ASSUME NEW c \in Calls,
             \/ SendFile(c) \/ Acquire(c) \/ Register(c) \/ Unregister(c)
             \/ Release(c)
      PROVE  BandwidthInv'
  <2>1. PICK to \in {"acquire", "register", "check", "release", "done"} :
          pc' = [pc EXCEPT ![c] = to] /\ (to \in Fresh => pc[c] \in Fresh)
    BY <1>1 DEF SendFile, Acquire, Register, Unregister, Release, Fresh
  <2>2. UNCHANGED <<msg, tokens, elapsed, spent, credit>>
    BY <1>1 DEF SendFile, Acquire, Register, Unregister, Release
  <2>3. to \in Fresh => msg[c] = 0
    BY <2>1 DEF BandwidthInv
  <2>4. QED BY <2>1, <2>2, <2>3, BandwidthKept DEF Holding
<1>2. ASSUME NEW c \in Calls, CheckPeer(c)
      PROVE  BandwidthInv'
  <2>1. PICK to \in AfterCheck(c) : pc' = [pc EXCEPT ![c] = to]
    BY <1>2 DEF CheckPeer
  <2>2. msg[c] = 0 /\ Lengths[c] \in Seq(Nat)
    BY <1>2, FlowAssumption DEF CheckPeer, Fresh, BandwidthInv
  <2>3. to = "wait" => msg[c] < Len(Lengths[c])
    BY <2>1, <2>2 DEF AfterCheck
  <2>4. QED BY <1>2, <2>1, <2>2, <2>3, BandwidthKept
            DEF CheckPeer, AfterCheck, Holding
<1>3. ASSUME NEW c \in Calls, Sent(c)
      PROVE  BandwidthInv'
  <2>1. PICK to \in {"unregister", "wait"} :
          /\ pc' = [pc EXCEPT ![c] = to]
          /\ to = "wait" => msg[c] < Len(Lengths[c])
    BY <1>3 DEF Sent
  <2>2. QED BY <1>3, <2>1, BandwidthKept DEF Sent, Holding, Fresh
<1>4. CASE RefillTokens
  <2>1. /\ tokens' = Refilled /\ elapsed' = Restarted
        /\ UNCHANGED <<spent, msg, pc, credit>>
    BY <1>4 DEF RefillTokens
  <2>2. QED BY <2>1, RefillAllowed DEF BandwidthInv
<1>5. CASE UNCHANGED flowVars
  BY <1>5 DEF flowVars, BandwidthInv
<1>6. QED BY <1>1, <1>2, <1>3, <1>4, <1>5, ConsumeAllowed, TickAllowed
          DEF FlowNext, Call

\* The calls together never get more than one burst and the rate, whoever
\* refills the bucket and whenever.
THEOREM BandwidthBoundHolds == FlowSpec => []BandwidthBound
<1> USE FlowAssumption
<1>1. FlowInit => BandwidthInv
  BY DEF FlowInit, BandwidthInv, Burst, MinOf, Fresh
<1>2. BandwidthInv => BandwidthBound
  <2> SUFFICES ASSUME BandwidthInv, credit < MaxCredit
               PROVE  spent * TicksPerSecond <= credit
    BY DEF BandwidthBound
  <2>1. /\ spent \in Nat /\ tokens \in Nat /\ elapsed \in Nat /\ credit \in Nat
        /\ (spent + tokens) * TicksPerSecond + elapsed * Rate <= credit
    BY DEF BandwidthInv
  <2>2. (spent + tokens) * TicksPerSecond >= spent * TicksPerSecond
    BY <2>1
  <2>3. elapsed * Rate \in Nat
    BY <2>1
  <2>4. QED BY <2>1, <2>2, <2>3
<1>3. QED BY <1>1, <1>2, BandwidthStep, PTL DEF FlowSpec

-----------------------------------------------------------------------------
\* What slots and bandwidth do not say of the types: a call pays for no message
\* twice, and the histories end where they should.
BoundsInv ==
    /\ \A c \in Calls : msg[c] <= Len(Lengths[c])
    /\ active \subseteq {FileID[c] : c \in Calls}
    /\ elapsed <= FillTime /\ credit <= MaxCredit

\* Every step keeps the bounds.
LEMMA BoundsStep ==
    ASSUME BandwidthInv, BoundsInv, [FlowNext]_flowVars
    PROVE  BoundsInv'
<1> USE FlowAssumption
<1>1. /\ FillTime \in Nat /\ elapsed \in Nat /\ credit \in Nat /\ Restarted <= elapsed
      /\ 0 <= FillTime /\ msg \in [Calls -> Nat]
      /\ \A c \in Calls : Len(Lengths[c]) \in Nat
  BY DEF BandwidthInv, FillTime, Burst, Restarted
<1>2. ASSUME NEW c \in Calls,
             SendFile(c) \/ Acquire(c) \/ CheckPeer(c) \/ Sent(c) \/ Release(c)
      PROVE  BoundsInv'
  <2>1. UNCHANGED <<msg, active, elapsed, credit>>
    BY <1>2 DEF SendFile, Acquire, CheckPeer, Sent, Release
  <2>2. QED BY <2>1 DEF BoundsInv
<1>3. ASSUME NEW c \in Calls, Register(c) \/ Unregister(c)
      PROVE  BoundsInv'
  <2>1. /\ UNCHANGED <<msg, elapsed, credit>>
        /\ active' = active \cup {FileID[c]} \/ active' = active \ {FileID[c]}
    BY <1>3 DEF Register, Unregister
  <2>2. QED BY <2>1 DEF BoundsInv
<1>4. ASSUME NEW c \in Calls, TryConsume(c)
      PROVE  BoundsInv'
  <2>1. /\ UNCHANGED <<active, credit>> /\ elapsed' = Restarted /\ pc[c] = "wait"
        /\ msg' = msg \/ msg' = [msg EXCEPT ![c] = @ + 1]
    BY <1>4 DEF TryConsume
  <2>2. msg[c] < Len(Lengths[c])
    BY <2>1 DEF BandwidthInv
  <2>3. \A b \in Calls : msg'[b] <= Len(Lengths[b])
    <3>1. \A b \in Calls : msg[b] <= Len(Lengths[b])
      BY DEF BoundsInv
    <3>2. \A b \in Calls : msg'[b] = msg[b] \/ (b = c /\ msg'[b] = msg[b] + 1)
      BY <1>1, <2>1
    <3>3. ASSUME NEW b \in Calls
          PROVE  msg'[b] <= Len(Lengths[b])
      <4> DEFINE n == Len(Lengths[b])
      <4>1. n \in Nat /\ msg[b] \in Nat /\ msg[b] <= n /\ (b = c => msg[b] < n)
        BY <1>1, <2>2, <3>1
      <4> HIDE DEF n
      <4>2. msg'[b] <= n
        BY <3>2, <4>1
      <4>3. QED BY <4>2 DEF n
    <3>4. QED BY <3>3
  <2>4. elapsed' <= FillTime
    BY <1>1, <2>1 DEF BoundsInv, Restarted
  <2>5. QED BY <2>1, <2>3, <2>4 DEF BoundsInv
<1>5. CASE RefillTokens
  <2>1. UNCHANGED <<msg, active, credit>> /\ elapsed' = Restarted
    BY <1>5 DEF RefillTokens
  <2>2. elapsed' <= FillTime
    BY <1>1, <2>1 DEF BoundsInv, Restarted
  <2>3. QED BY <2>1, <2>2 DEF BoundsInv
<1>6. CASE FlowTick
  <2>1. /\ UNCHANGED <<msg, active>>
        /\ elapsed' = MinOf(elapsed + 1, FillTime) /\ credit' = MinOf(credit + Rate, MaxCredit)
    BY <1>6 DEF FlowTick
  <2>2. elapsed' <= FillTime /\ credit' <= MaxCredit
    BY <1>1, <2>1 DEF MinOf
  <2>3. QED BY <2>1, <2>2 DEF BoundsInv
<1>7. CASE UNCHANGED flowVars
  BY <1>7 DEF flowVars, BoundsInv
<1>8. QED BY <1>2, <1>3, <1>4, <1>5, <1>6, <1>7 DEF FlowNext, Call

\* Type correctness: whatever the calls do, the bucket is neither overdrawn nor
\* overfull, the semaphore stays within its capacity, and no call pays for a
\* message it does not have.
THEOREM FlowTypeCorrect == FlowSpec => []FlowTypeOK
<1> USE FlowAssumption
<1>1. FlowInit => SlotsInv /\ BandwidthInv /\ BoundsInv
  <2> SUFFICES ASSUME FlowInit
               PROVE  SlotsInv /\ BandwidthInv /\ BoundsInv
    OBVIOUS
  <2>1. SlotsInv
    <3>1. SlotHolders = {}
      BY DEF FlowInit, SlotHolders, Holding
    <3>2. Cardinality(SlotHolders) = 0
      BY <3>1, FS_EmptySet
    <3>3. QED BY <3>2 DEF FlowInit, SlotsInv, SlotsConserved
  <2>2. BandwidthInv
    BY DEF FlowInit, BandwidthInv, Burst, MinOf, Fresh
  <2>3. BoundsInv
    <3>1. /\ FillTime \in Nat /\ Burst * TicksPerSecond \in Nat
          /\ \A c \in Calls : Len(Lengths[c]) \in Nat
      BY DEF FillTime, Burst
    <3>2. QED BY <3>1 DEF FlowInit, BoundsInv, MinOf
  <2>4. QED BY <2>1, <2>2, <2>3
<1>2. SlotsInv /\ BandwidthInv /\ BoundsInv => FlowTypeOK
  <2> SUFFICES ASSUME SlotsInv, BandwidthInv, BoundsInv
               PROVE  FlowTypeOK
    OBVIOUS
  <2>1. elapsed \in 0 .. FillTime /\ credit \in 0 .. MaxCredit
    BY DEF BandwidthInv, BoundsInv, FillTime, Burst
  <2>2. QED BY <2>1 DEF SlotsInv, BandwidthInv, BoundsInv, FlowTypeOK
<1>3. SlotsInv /\ BandwidthInv /\ BoundsInv /\ [FlowNext]_flowVars
        => (SlotsInv /\ BandwidthInv /\ BoundsInv)'
  BY SlotsStep, BandwidthStep, BoundsStep
<1>4. QED BY <1>1, <1>2, <1>3, PTL DEF FlowSpec
=============================================================================
