---------------------------- MODULE MCWriteQueue ----------------------------
(***************************************************************************)
(* Model-checking instance of WriteQueue.  The configurations to start     *)
(* from and the register edits are cut down to two registers per run; the  *)
(* requests themselves are not.                                            *)
(***************************************************************************)
EXTENDS WriteQueue

Reg(d, ro, k) == [owner |-> d, readOnly |-> ro, kind |-> k]

CONSTANTS d1, d2

(* A plain register beside one of the difficult ones. *)
Start1 == /\ device = [d \in Device |-> "enabled"]
          /\ reg[0] = Reg(d1, FALSE, "word")
          /\ reg[1] \in {Unmapped, Reg(d1, FALSE, "coil"), Reg(d1, TRUE, "word"),
                         Reg(d1, FALSE, "wide"), Reg(d2, FALSE, "word")}

MCEdit ==
    \/ \E d \in Device, status \in {"enabled", "disabled"} :
          PostDevice(d, status) \/ PutDevice(d, status)
    \/ \E d \in Device : DeleteDevice(d)
    \/ \E c \in {Unmapped, Reg(d2, FALSE, "word")} :
          EditRegister(1, c)

MCNext ==
    \/ ClientCall
    \/ \E a \in Addr : ForwardOne(a)
    \/ \E portOpens \in BOOLEAN : Start(portOpens)
    \/ Stop
    \/ Join
    \/ ProcessRestart
    \/ MCEdit
    \/ \E d \in Device : Exit(d) \/ Flush(d)

MCInit == Init /\ Start1

MCSpec == MCInit /\ [][MCNext]_vars /\ Fairness
=============================================================================
