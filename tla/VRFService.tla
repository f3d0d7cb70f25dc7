----------------------------- MODULE VRFService -----------------------------
(***************************************************************************)
(* What the VRF contract promises its users, without keys, proofs, rounds, *)
(* callbacks or transactions: a request is opened once, settled at most    *)
(* once, either with an output that belongs to it or with a refund, and    *)
(* the escrow holds exactly the fees of the requests still pending.        *)
(***************************************************************************)
EXTENDS Naturals

CONSTANTS
  MaxRequestId,  \* largest request id
  Fee,           \* fee of a request
  NoOutput,      \* output of an unsettled or refunded request
  OutputsOf      \* OutputsOf[id]: the outputs that belong to request id

Requests == 1..MaxRequestId

VARIABLES status, output, escrow

vars == <<status, output, escrow>>

Init ==
  /\ status = [id \in Requests |-> "none"]
  /\ output = [id \in Requests |-> NoOutput]
  /\ escrow = 0

Open(id) ==
  /\ status[id] = "none"
  /\ \A j \in 1..(id - 1) : status[j] # "none"
  /\ status' = [status EXCEPT ![id] = "pending"]
  /\ escrow' = escrow + Fee
  /\ UNCHANGED output

Deliver(id) ==
  /\ status[id] = "pending"
  /\ status' = [status EXCEPT ![id] = "fulfilled"]
  /\ \E out \in OutputsOf[id] : output' = [output EXCEPT ![id] = out]
  /\ escrow' = escrow - Fee

Refund(id) ==
  /\ status[id] = "pending"
  /\ status' = [status EXCEPT ![id] = "refunded"]
  /\ escrow' = escrow - Fee
  /\ UNCHANGED output

Next == \E id \in Requests : Open(id) \/ Deliver(id) \/ Refund(id)

Spec == Init /\ [][Next]_vars
=============================================================================
