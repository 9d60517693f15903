---------------------------- MODULE DispatchGate ----------------------------
(***************************************************************************)
(* What the signed-dispatch boundary promises, without keys, clocks or a   *)
(* transport: only what was offered is admitted, only at the runner it is  *)
(* addressed to, and within one life of the runner process nothing is      *)
(* admitted a second time.                                                 *)
(***************************************************************************)
EXTENDS Integers, Sequences

CONSTANTS
    Offers,          \* what may be offered
    Id,              \* the identity of an offer
    Addressee,       \* the runner an offer is addressed to
    Runners          \* the runners that admit

VARIABLES
    offered,    \* the offers made so far
    admitted,   \* the admissions in order, each with the life it was made in
    era         \* the current life of the runner process

gateVars == <<offered, admitted, era>>

AdmittedInEra(id) == \E n \in DOMAIN admitted : admitted[n].life = era /\ Id[admitted[n].dispatch] = id

GateInit == offered = {} /\ admitted = <<>> /\ era = 1

Offer(o) ==
    /\ offered' = offered \cup {o}
    /\ UNCHANGED <<admitted, era>>

Admit(o) ==
    /\ o \in offered
    /\ Addressee[o] \in Runners
    /\ ~AdmittedInEra(Id[o])
    /\ admitted' = Append(admitted, [dispatch |-> o, life |-> era])
    /\ UNCHANGED <<offered, era>>

NewEra ==
    /\ era' = era + 1
    /\ UNCHANGED <<offered, admitted>>

GateNext == (\E o \in Offers : Offer(o) \/ Admit(o)) \/ NewEra

GateSpec == GateInit /\ [][GateNext]_gateVars
=============================================================================
