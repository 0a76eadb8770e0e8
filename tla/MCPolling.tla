----------------------------- MODULE MCPolling ------------------------------
(***************************************************************************)
(* Model-checking instance of Polling.  Devices and addresses are          *)
(* interchangeable, so the safety run identifies states up to renaming.    *)
(* The liveness run starts from the configurations in which every device   *)
(* is enabled and has a register, each with an address, and neither edits  *)
(* nor restarts.                                                           *)
(***************************************************************************)
EXTENDS Polling, TLC

Renaming == Permutations(Device) \cup Permutations(Addr)

FixedConfigNext ==
    \/ Boot
    \/ Start
    \/ Stop
    \/ \E w \in Worker : RequestStop(w)
    \/ Join
    \/ \E w \in Worker : WorkerStep(w)

(* One representative of each class of configurations up to renaming. *)
Representative ==
    LET d0 == CHOOSE d \in Device : TRUE
        a0 == CHOOSE a \in Addr : TRUE
    IN  /\ \A d \in Device : d \in DOMAIN dev /\ dev[d].enabled /\ dev[d].regs # {}
        /\ dev[d0].regs = {a0}
        /\ dev[d0].conn = "tcp" => \A d \in Device : dev[d].conn = "tcp"

FixedConfigInit == Init /\ Representative

FixedConfigSpec == FixedConfigInit /\ [][FixedConfigNext]_vars /\ Fairness
=============================================================================
