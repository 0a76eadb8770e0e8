--------------------------- MODULE MCRegisterTable --------------------------
(***************************************************************************)
(* Model-checking instance of RegisterTable: every kind of value polled    *)
(* once per unit, and few kinds of value under every timing.               *)
(***************************************************************************)
EXTENDS RegisterTable

Register(type, length, isSigned, scale, min, max) ==
    [unifiedAddress |-> 1, type |-> type, length |-> length, isSigned |-> isSigned,
     scale |-> scale, minValue |-> min, maxValue |-> max]

(* Lengths up to one word too many; ranges that cut, that do not, and without 0. *)
Numbers ==
    UNION {{Register("HoldingRegister", n, s, 1, -100, 100),
            Register("HoldingRegister", n, s, -2, -1, 2),
            Register("HoldingRegister", n, s, 1, 3, 5)} : n \in 0 .. 2, s \in BOOLEAN}
    \cup {Register("HoldingRegister", 3, TRUE, 1, -100, 100),
          Register("HoldingRegister", 3, FALSE, -2, -50, 2),
          Register("HoldingRegister", 4, TRUE, 1, -100, 100)}

Bits == {Register("Coil", n, FALSE, -2, -3, 100) : n \in 0 .. 3}

Plain == Register("InputRegister", 1, FALSE, 1, 1, 2)
Timed ==
    {Plain, [Plain EXCEPT !.type = "DiscreteInput"], [Plain EXCEPT !.unifiedAddress = -1]}

Steady  == [transport |-> "serial", pollMode |-> "Manual", intervalMs |-> 1]
Timings == [transport: {"serial", "tcp"}, pollMode: {"Auto", "Manual"}, intervalMs: 1 .. 2]

MCSetups ==
    {s \in [config: Numbers \cup Bits \cup Timed, polling: Timings] :
        s.polling = Steady \/ s.config \in Timed}
=============================================================================
