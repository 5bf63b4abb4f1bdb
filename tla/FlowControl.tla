----------------------------- MODULE FlowControl -----------------------------
(***************************************************************************)
(* internal/network/flowcontrol and its only client, SendFile of           *)
(* internal/network/messenger.go: a semaphore of transfer slots, the table *)
(* of active transfers and one token bucket for the bandwidth, shared by   *)
(* SendFile calls that run at the same time.  The calls for one operation, *)
(* one per connected peer, are calls for the same file ID.                 *)
(***************************************************************************)
EXTENDS Naturals, Sequences, FiniteSets

CONSTANTS
    Calls,           \* SendFile calls
    FileID,          \* the file ID of each call
    Lengths,         \* the bytes of each message of a call
    MaxConcurrent,   \* slots, 5 in the code
    Rate,            \* bytes per second
    TicksPerSecond,  \* resolution of the clock
    MaxCredit        \* bound: where the history of the allowance ends

\* NewFlowController: the bucket holds what two seconds bring.
Burst == Rate * 2

\* Config validation keeps a chunk below the burst of the limiter.
ASSUME FlowAssumption ==
    /\ IsFiniteSet(Calls)
    /\ Lengths \in [Calls -> Seq(Nat)]
    /\ MaxConcurrent \in Nat \ {0}
    /\ Rate \in Nat \ {0} /\ TicksPerSecond \in Nat \ {0}
    /\ MaxCredit \in Nat
    /\ \A c \in Calls : \A i \in 1 .. Len(Lengths[c]) : Lengths[c][i] <= Burst

VARIABLES
    pc, msg,    \* where a call is, and the messages it has paid for
    sem,        \* len(transferSemaphore)
    active,     \* activeTransfers
    tokens,     \* RateLimiter.tokens
    elapsed,    \* ticks since RateLimiter.lastRefill
    spent,      \* history: bytes that were let through
    credit      \* history: bytes allowed up to now, times TicksPerSecond

flowVars == <<pc, msg, sem, active, tokens, elapsed, spent, credit>>

-----------------------------------------------------------------------------
\* A full bucket stays full: time beyond that makes no difference.
FillTime == Burst * TicksPerSecond

MinOf(a, b) == IF a < b THEN a ELSE b

FlowInit ==
    /\ pc = [c \in Calls |-> "idle"]
    /\ msg = [c \in Calls |-> 0]
    /\ sem = MaxConcurrent
    /\ active = {}
    /\ tokens = Burst
    /\ elapsed = 0
    /\ spent = 0
    /\ credit = MinOf(Burst * TicksPerSecond, MaxCredit)

SendFile(c) ==
    /\ pc[c] = "idle"
    /\ pc' = [pc EXCEPT ![c] = "acquire"]
    /\ UNCHANGED <<msg, sem, active, tokens, elapsed, spent, credit>>

\* AcquireTransferSlot: the receive from the semaphore, then the table.
Acquire(c) ==
    /\ pc[c] = "acquire" /\ sem > 0
    /\ sem' = sem - 1
    /\ pc' = [pc EXCEPT ![c] = "register"]
    /\ UNCHANGED <<msg, active, tokens, elapsed, spent, credit>>

Register(c) ==
    /\ pc[c] = "register"
    /\ active' = active \cup {FileID[c]}
    /\ pc' = [pc EXCEPT ![c] = "check"]
    /\ UNCHANGED <<msg, sem, tokens, elapsed, spent, credit>>

\* Mutant: an early return before the release is deferred.
AfterCheckLeaks(c) ==
    {"done", IF Lengths[c] = <<>> THEN "unregister" ELSE "wait"}

\* The peer may be gone, have no session key, or the compression fail: the
\* deferred release runs.  A call without data has nothing to wait for.
AfterCheck(c) ==
    {"unregister", IF Lengths[c] = <<>> THEN "unregister" ELSE "wait"}

CheckPeer(c) ==
    /\ pc[c] = "check"
    /\ \E next \in AfterCheck(c) : pc' = [pc EXCEPT ![c] = next]
    /\ UNCHANGED <<msg, sem, active, tokens, elapsed, spent, credit>>

\* Whole tokens only: what is left of a token is lost at a refill.
TokensToAdd == (elapsed * Rate) \div TicksPerSecond
Refilled    == MinOf(tokens + TokensToAdd, Burst)

\* Mutant: lastRefill is not moved.
RestartedNever == elapsed

\* lastRefill moves only when a token was added.
Restarted == IF TokensToAdd > 0 THEN 0 ELSE elapsed

\* Mutant: consume without looking.
EnoughAlways(n) == TRUE

Enough(n) == Refilled >= n

\* RateLimiter.Wait, one turn of its loop: tryConsume.
TryConsume(c) ==
    LET n == Lengths[c][msg[c] + 1]
    IN  /\ pc[c] = "wait"
        /\ elapsed' = Restarted
        /\ IF Enough(n)
           THEN /\ tokens' = Refilled - n
                /\ spent' = spent + n
                /\ msg' = [msg EXCEPT ![c] = @ + 1]
                /\ pc' = [pc EXCEPT ![c] = "send"]
           ELSE tokens' = Refilled /\ UNCHANGED <<spent, msg, pc>>
        /\ UNCHANGED <<sem, active, credit>>

\* sendMessage returns: with an error, or the next message follows.
Sent(c) ==
    /\ pc[c] = "send"
    /\ \/ pc' = [pc EXCEPT ![c] = "unregister"]
       \/ /\ msg[c] < Len(Lengths[c])
          /\ pc' = [pc EXCEPT ![c] = "wait"]
    /\ UNCHANGED <<msg, sem, active, tokens, elapsed, spent, credit>>

\* ReleaseTransferSlot: the table, then the send to the semaphore, which
\* blocks when the channel is full.
Unregister(c) ==
    /\ pc[c] = "unregister"
    /\ active' = active \ {FileID[c]}
    /\ pc' = [pc EXCEPT ![c] = "release"]
    /\ UNCHANGED <<msg, sem, tokens, elapsed, spent, credit>>

Release(c) ==
    /\ pc[c] = "release" /\ sem < MaxConcurrent
    /\ sem' = sem + 1
    /\ pc' = [pc EXCEPT ![c] = "done"]
    /\ UNCHANGED <<msg, active, tokens, elapsed, spent, credit>>

\* refillTokens, every tenth of a second.
RefillTokens ==
    /\ TokensToAdd > 0
    /\ tokens' = Refilled
    /\ elapsed' = Restarted
    /\ UNCHANGED <<pc, msg, sem, active, spent, credit>>

FlowTick ==
    /\ elapsed' = MinOf(elapsed + 1, FillTime)
    /\ credit' = MinOf(credit + Rate, MaxCredit)
    /\ UNCHANGED <<pc, msg, sem, active, tokens, spent>>

-----------------------------------------------------------------------------
Call(c) == \/ Acquire(c) \/ Register(c) \/ CheckPeer(c) \/ TryConsume(c)
           \/ Sent(c) \/ Unregister(c) \/ Release(c)

FlowNext == \/ \E c \in Calls : SendFile(c) \/ Call(c)
            \/ RefillTokens
            \/ FlowTick

FlowSpec == FlowInit /\ [][FlowNext]_flowVars

\* Goroutines run; sendMessage returns after at most three attempts.
CallsRun == \A c \in Calls : WF_flowVars(Call(c))

-----------------------------------------------------------------------------
Holding == {"register", "check", "wait", "send", "unregister", "release"}
SlotHolders == {c \in Calls : pc[c] \in Holding}

\* Every variable has its type; the bucket is never overdrawn nor overfull.
FlowTypeOK ==
    /\ pc \in [Calls -> Holding \cup {"idle", "acquire", "done"}]
    /\ msg \in [Calls -> Nat]
    /\ \A c \in Calls : /\ msg[c] <= Len(Lengths[c])
                        /\ pc[c] = "wait" => msg[c] < Len(Lengths[c])
    /\ sem \in 0 .. MaxConcurrent
    /\ active \subseteq {FileID[c] : c \in Calls}
    /\ tokens \in 0 .. Burst
    /\ elapsed \in 0 .. FillTime
    /\ spent \in Nat
    /\ credit \in 0 .. MaxCredit

\* No slot is lost or made up on any path through SendFile: at most
\* MaxConcurrent transfers run, a free slot is never missing, and the send of
\* ReleaseTransferSlot never blocks.
SlotsConserved == sem + Cardinality(SlotHolders) = MaxConcurrent

\* Over any time from the start, all calls together are let through no more
\* than one burst and the rate: the two refills, by the ticker and by every
\* call that waits, never count the same time twice.
BandwidthBound == credit < MaxCredit => spent * TicksPerSecond <= credit

\* Every transfer gets its slot, then its bandwidth, and ends: the calls do
\* not wait on each other for ever.
CallsEnd == \A c \in Calls : pc[c] = "acquire" ~> pc[c] = "done"
=============================================================================
