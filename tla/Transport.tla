----------------------------- MODULE Transport -----------------------------
(***************************************************************************)
(* What the vaults of a user get from sync and relay: an entry, once it is *)
(* in one log, may reach the log of any other device, and not before what  *)
(* its writer had.  RelaySync implements it; Replicas, which lets entries  *)
(* come in any order, assumes less than it promises.                       *)
(*                                                                         *)
(* The promise is about entries of the default share, which every device   *)
(* is handed; and an entry a device was never handed (RelaySync's raced    *)
(* rows) is one nothing else waits for.                                    *)
(***************************************************************************)
EXTENDS Integers

CONSTANTS Devices, Shares, Nil, MaxWrites

VARIABLES
  log,      \* log[d]: the entries in the log of d
  written,  \* entries written so far
  saw,      \* saw[n]: the log of the writer of entry n when it wrote it
  lost      \* lost[d]: entries given up for d, which may still come

vars == <<log, written, saw, lost>>

Entry == [n : 1..MaxWrites, share : Shares]

Init ==
  /\ log = [d \in Devices |-> {}]
  /\ written = 0
  /\ saw = [n \in 1..MaxWrites |-> {}]
  /\ lost = [d \in Devices |-> {}]

Written == UNION {log[d] : d \in Devices}

\* A new entry, which has seen the log it is appended to.
Write(d, s) ==
  /\ written < MaxWrites
  /\ written' = written + 1
  /\ log' = [log EXCEPT ![d] = @ \cup {[n |-> written + 1, share |-> s]}]
  /\ saw' = [saw EXCEPT ![written + 1] = log[d]]
  /\ UNCHANGED lost

\* The default-share entries that e's writer had are there or given up.
Ready(d, e) == \A f \in saw[e.n] : f.share = Nil => f \in log[d] \cup lost[d]

\* An entry of another log arrives.
Deliver(d, e) ==
  /\ e \in Written \ log[d]
  /\ Ready(d, e)
  /\ log' = [log EXCEPT ![d] = @ \cup {e}]
  /\ UNCHANGED <<written, saw, lost>>

\* Entries are given up.
Lose(d, es) ==
  /\ es \subseteq Written
  /\ lost' = [lost EXCEPT ![d] = @ \cup es]
  /\ UNCHANGED <<log, written, saw>>

Next ==
  \E d \in Devices :
    \/ \E s \in Shares : Write(d, s)
    \/ \E e \in Entry : Deliver(d, e)
    \/ \E es \in SUBSET Entry : Lose(d, es)

Spec == Init /\ [][Next]_vars

\* Every log is closed under what the writers of its entries had.
Causal == \A d \in Devices : \A e \in log[d] : Ready(d, e)
=============================================================================
