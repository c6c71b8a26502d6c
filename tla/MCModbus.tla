------------------------------- MODULE MCModbus -------------------------------
(***************************************************************************)
(* A small instance of Modbus: bytes of one bit, so that a register counts *)
(* to 3, and maps of at most four tags out of a pool.                      *)
(***************************************************************************)
EXTENDS Modbus, FiniteSetsExt

MCMaxCount == [area \in Areas |-> IF area = "holding" THEN 4 ELSE 2]

MCSizes == [area \in Areas |-> IF area = "holding" THEN 7 ELSE 1]

MCValues == {-9, -2, 0, 3, 4, 20}

MCSignalled == {-2, 3}

Number(address, type, word, byte, scale, offset) ==
    [area |-> "holding", address |-> address, type |-> type, word |-> word,
     byte |-> byte, bit |-> None, scale |-> scale, offset |-> offset]

Bit(address, bit, byte) ==
    [area |-> "holding", address |-> address, type |-> "bool", word |-> "big",
     byte |-> byte, bit |-> bit, scale |-> 1, offset |-> 0]

Of(area) == [Bit(0, None, "big") EXCEPT !.area = area]

Pool ==
    {Bit(0, 0, "big"), Bit(0, 1, "big"), Bit(0, None, "little"), Bit(6, 1, "little"),
     Number(1, "int32", "little", "big", 1, 0), Number(1, "int16", "big", "little", 2, 1),
     Number(3, "uint16", "big", "big", -2, 0), Number(5, "uint32", "big", "little", 3, -1),
     Of("coil"), Of("input")}

(* A word whose bits are in different byte orders, with a coil whose tag   *)
(* was given the type of a number.                                         *)
Mixed == {Bit(6, 1, "little"), Bit(6, 0, "big"), [Of("coil") EXCEPT !.type = "int16"]}

(* Every pair of the pool, every triple of its registers, one map with a   *)
(* tag at each address but the last, and a mixed one.                      *)
Large ==
    {Bit(0, 1, "big"), Number(1, "int32", "little", "big", 1, 0),
     Number(3, "uint16", "big", "big", -2, 0), Number(5, "uint32", "big", "little", 3, -1)}

MCMaps ==
    kSubset(2, Pool) \cup {Large, Mixed}
        \cup kSubset(3, {tag \in Pool : tag.area = "holding"})
=============================================================================
