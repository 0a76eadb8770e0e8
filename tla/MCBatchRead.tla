---------------------------- MODULE MCBatchRead -----------------------------
(***************************************************************************)
(* Model-checking instance of BatchRead: every list of up to three         *)
(* registers over few addresses, with one register longer than a batch.    *)
(***************************************************************************)
EXTENDS BatchRead

CONSTANTS Types, Addresses, Lengths, ByteOrders

(* The byte order of bits makes no difference, nor does the length of what is not read. *)
MCRegister == {r \in [type: Types, localAddress: Addresses, length: Lengths,
                      byteOrder: ByteOrders] :
                  /\ IsBit(r.type) => r.byteOrder = "Default"
                  /\ r.type = Unknown => r.byteOrder = "Default" /\ r.length = 1}

MCLayouts == UNION {[1 .. n -> MCRegister] : n \in 0 .. 3}
=============================================================================
