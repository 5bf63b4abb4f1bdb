---------------------------- MODULE FileDelivery ----------------------------
(***************************************************************************)
(* What sendChunkedFile promises its caller: the file of a transfer        *)
(* arrives whole, with the metadata of its own operation and at most once, *)
(* before the call returns without an error; and every call returns.       *)
(***************************************************************************)
EXTENDS Sequences, Naturals

CONSTANT Transfers

VARIABLES sent,      \* the state of every call
          received   \* the transfers whose file has arrived, in order

vars == <<sent, received>>

Arrived(t) == \E i \in 1 .. Len(received) : received[i] = t

Init == sent = [t \in Transfers |-> "idle"] /\ received = <<>>

Begin(t) ==
    /\ sent[t] = "idle"
    /\ sent' = [sent EXCEPT ![t] = "active"]
    /\ UNCHANGED received

Arrive(t) ==
    /\ sent[t] = "active" /\ ~Arrived(t)
    /\ received' = Append(received, t)
    /\ UNCHANGED sent

Finish(t) ==
    /\ sent[t] = "active" /\ Arrived(t)
    /\ sent' = [sent EXCEPT ![t] = "done"]
    /\ UNCHANGED received

GiveUp(t) ==
    /\ sent[t] = "active"
    /\ sent' = [sent EXCEPT ![t] = "failed"]
    /\ UNCHANGED received

Next == \E t \in Transfers : Begin(t) \/ Arrive(t) \/ Finish(t) \/ GiveUp(t)

SafeSpec == Init /\ [][Next]_vars

Spec ==
    /\ SafeSpec
    /\ \A t \in Transfers : WF_vars(Finish(t) \/ GiveUp(t))
=============================================================================
