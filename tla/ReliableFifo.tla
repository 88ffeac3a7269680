---------------------------- MODULE ReliableFifo ----------------------------
(***************************************************************************)
(* What one direction of a host session promises, without sequence         *)
(* numbers, logs, acknowledgements or connections: the consumer is handed  *)
(* the first, second, third ... produced item, each once, none left out.   *)
(* An item may be revised (its payload replaced) until the producer knows  *)
(* that it arrived, so for every item the set of the payloads it has ever  *)
(* carried is kept, and the consumer gets one of them.                     *)
(***************************************************************************)
EXTENDS Naturals, Sequences

CONSTANT Payload

VARIABLES versions,   \* versions[i]: every payload item i has carried
          delivered   \* the payloads handed to the consumer, in order

fifoVars == << versions, delivered >>

FifoInit == versions = << >> /\ delivered = << >>

Produce ==
    /\ \E p \in Payload : versions' = Append(versions, {p})
    /\ UNCHANGED delivered

Revise ==
    /\ \E i \in DOMAIN versions, p \in Payload :
           versions' = [versions EXCEPT ![i] = @ \cup {p}]
    /\ UNCHANGED delivered

\* One arrival may hand over a whole run of items.
Deliver ==
    /\ delivered' \in Seq(Payload)
    /\ Len(delivered) < Len(delivered') /\ Len(delivered') <= Len(versions)
    /\ \A i \in DOMAIN delivered : delivered'[i] = delivered[i]
    /\ \A i \in (Len(delivered) + 1) .. Len(delivered') : delivered'[i] \in versions[i]
    /\ UNCHANGED versions

FifoNext == Produce \/ Revise \/ Deliver

FifoSpec == FifoInit /\ [][FifoNext]_fifoVars
=============================================================================
