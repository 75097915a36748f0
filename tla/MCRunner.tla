------------------------------ MODULE MCRunner ------------------------------
(***************************************************************************)
(* Small instance of Runner: pages of three bytes, of which page 0 is too  *)
(* low to be mapped, 1 and 2 are writable and adjacent, and 3 and 4 are    *)
(* not writable.  All sequences of one or two instructions, and longer     *)
(* ones that store in every order to bytes in a row across pages 1 and 2,  *)
(* to separate bytes of them, touch a page between the two, or touch one   *)
(* page more than MaxTries.                                                *)
(***************************************************************************)
EXTENDS Runner

Store(addr, val) == [op |-> "store", addr |-> addr, val |-> val]
Load(addr) == [op |-> "load", addr |-> addr]
SetReg(reg, val) == [op |-> "set", reg |-> reg, val |-> val]

(* Register 1 is a vector register, 2 is the one that is not saved.          *)
All == {[op |-> "ill"], [op |-> "loop"], Load(1), Load(9), Store(9, 1), Store(5, 7), Store(5, 2),
        Store(6, 3), SetReg(1, 40), SetReg(2, 5)}

Orders == {o \in [1 .. 3 -> 1 .. 3] : IsInjective(o)}
Triples ==
  {[k \in 1 .. 3 |-> t[o[k]]] : o \in Orders,
     t \in {<<Store(5, 2), Store(6, 3), Store(7, 4)>>, <<Store(3, 1), Store(5, 2), Store(8, 4)>>,
            <<Store(5, 2), Load(9), Store(6, 3)>>}}
TooManyPages == <<Store(5, 2), Load(9), Load(12), Store(6, 3)>>

MCContent == [a \in Addrs |-> IF a = 5 THEN 7 ELSE 0]

In(p, full) == [instr_seq |-> p, regs |-> [r \in Regs |-> r], full_seq |-> full]

MCInputs ==
  {In(p, FALSE) : p \in [1 .. 1 -> All] \cup [1 .. 2 -> All]}
  \cup {In(p, full) : p \in Triples \cup {TooManyPages}, full \in BOOLEAN}

(* A checksum that depends on the order.                                     *)
MCChecksum(sum, byte) == ((sum + byte) * 5) % 32
=============================================================================
