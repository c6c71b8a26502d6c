-------------------------------- MODULE TagMap --------------------------------
(***************************************************************************)
(* The tag database of tags.py, as far as addresses go, and the coalescing *)
(* of poller.py that plans the reads of its tags.  A map is a set of tags; *)
(* a tag stands for its name.  One device is meant: tags of different      *)
(* devices are kept apart just as those of different areas are.            *)
(***************************************************************************)
EXTENDS Codec, FiniteSets

CONSTANTS
    MaxGap,         \* unused registers read through to save a request
    MaxCount        \* per area, what one request may read

(* Registers and coils; the areas of inputs are read in the same two ways. *)
Areas == {"coil", "holding", "input"}

ASSUME TagMapAssumption ==
    /\ MaxGap \in Nat
    /\ MaxCount \in [Areas -> Nat \ {0}]

Tag == [area : Areas, address : Int, type : Types, word : Orders, byte : Orders,
        bit : Int \cup {None}, scale : Int, offset : Int]

IsBitArea(area) == area = "coil"

Width(tag) == IF IsBitArea(tag.area) THEN 1 ELSE RegisterCount(tag.type)

EndAddress(tag) == tag.address + Width(tag) - 1

-----------------------------------------------------------------------------
(* Validation                                                              *)

FieldsAreSound(tag) ==
    /\ tag.address >= 0
    /\ tag.scale # 0
    /\ tag.bit # None => tag.bit \in Bits /\ tag.type = "bool"
    /\ Width(tag) <= MaxCount[tag.area]

BitsAreDisjoint(a, b) ==
    /\ a.bit # None /\ b.bit # None
    /\ a.address = b.address
    /\ a.bit # b.bit

Overlap(a, b) ==
    /\ a # b
    /\ a.area = b.area
    /\ a.address <= b.address /\ b.address <= EndAddress(a)
    /\ ~BitsAreDisjoint(a, b)

IsValid(tags) ==
    /\ \A tag \in tags : FieldsAreSound(tag)
    /\ \A a, b \in tags : ~Overlap(a, b)

-----------------------------------------------------------------------------
(* Coalescing                                                              *)

BlockEnd(block) == block.start + block.count - 1

Larger(m, n) == IF m < n THEN n ELSE m

(* Mutant of Fits: a gap of one register too many is refused.              *)
FitsClosely(block, tag) ==
    /\ tag.address - BlockEnd(block) - 1 < MaxGap
    /\ Larger(BlockEnd(block), EndAddress(tag)) - block.start + 1 <= MaxCount[block.area]

Fits(block, tag) ==
    /\ tag.address - BlockEnd(block) - 1 <= MaxGap
    /\ Larger(BlockEnd(block), EndAddress(tag)) - block.start + 1 <= MaxCount[block.area]

NewBlock(tag) ==
    [area |-> tag.area, start |-> tag.address, count |-> Width(tag), tags |-> {tag}]

Grown(block, tag) ==
    [block EXCEPT !.count = Larger(BlockEnd(block), EndAddress(tag)) - block.start + 1,
                  !.tags = @ \cup {tag}]

(* The last block is the one being built.                                  *)
Extended(blocks, tag) ==
    IF blocks # <<>> /\ Fits(Last(blocks), tag)
    THEN [blocks EXCEPT ![Len(blocks)] = Grown(@, tag)]
    ELSE Append(blocks, NewBlock(tag))

ComesBefore(a, b) ==
    \/ a.address < b.address
    \/ a.address = b.address /\ EndAddress(a) < EndAddress(b)

(* Tags of one address and end are bits of one word, in any order.         *)
FirstOf(some) == CHOOSE tag \in some : \A other \in some : ~ComesBefore(other, tag)

(* The tags of an area are taken in order, one at a time.                  *)
BlocksOf(tags, area) ==
    LET mine == {tag \in tags : tag.area = area}
        taken[n \in 0..Cardinality(mine)] ==
            IF n = 0 THEN [blocks |-> <<>>, left |-> mine]
            ELSE LET before == taken[n - 1]
                     first == FirstOf(before.left)
                 IN  [blocks |-> Extended(before.blocks, first),
                      left |-> before.left \ {first}]
    IN  taken[Cardinality(mine)].blocks

(* One area after another.                                                 *)
CoalesceBlocks(tags) ==
    BlocksOf(tags, "coil") \o BlocksOf(tags, "holding") \o BlocksOf(tags, "input")
=============================================================================
