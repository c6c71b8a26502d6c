-------------------------------- MODULE Modbus --------------------------------
(***************************************************************************)
(* The Modbus driver of protocols/modbus_tcp.py, and modbus_rtu.py which   *)
(* adds only a delay, with the device at the other end: the connection,    *)
(* reads in coalesced blocks, writes, and the read-modify-write of one bit *)
(* of a word.  Between two requests of a read or of a bit write the device *)
(* goes on working and changes its registers.                              *)
(***************************************************************************)
EXTENDS TagMap

CONSTANTS
    Maps,           \* the tag maps to choose from, valid or not
    Sizes,          \* how many registers or coils the device has per area
    Values,         \* the values a caller may write
    Signalled,      \* the values a numeric signal of the device may have
    MaxEvents       \* bound: writes asked for and images rendered

ASSUME ModbusAssumption ==
    /\ Sizes \in [Areas -> Nat]
    /\ Maps \subseteq SUBSET Tag
    /\ \A map \in Maps :
           /\ IsFiniteSet(map)
           /\ \A tag \in map : EndAddress(tag) < Sizes[tag.area]
    /\ Values \subseteq Int /\ Signalled \subseteq Int
    /\ MaxEvents \in Nat

VARIABLES
    tags,           \* the tag database
    image,          \* the device: its registers and coils
    connected,
    todo,           \* blocks still to be read, <<>> when no read is under way
    out,            \* what the read under way, or the last one, returned
    pending,        \* a bit write between its two requests, else None
    process,        \* the signals the device rendered last, else None
    events          \* writes asked for and images rendered so far

vars == <<tags, image, connected, todo, out, pending, process, events>>

(* A reading is GOOD with a value, or BAD.                                 *)
Bad == [quality |-> "BAD", value |-> None]

Good(value) == [quality |-> "GOOD", value |-> value]

Init ==
    /\ tags \in {map \in Maps : IsValid(map)}
    /\ image = [area \in Areas |-> [address \in 0..Sizes[area] - 1 |-> 0]]
    /\ connected = FALSE
    /\ todo = <<>>
    /\ out = <<>>
    /\ pending = None
    /\ process = None
    /\ events = 0

-----------------------------------------------------------------------------
(* Helpers                                                                 *)

Idle == todo = <<>> /\ pending = None

(* What a device that holds "held" answers, the lowest address first.      *)
Request(held, area, start, count) == [i \in 1..count |-> held[area][start + i - 1]]

Stored(area, start, regs) ==
    [image EXCEPT ![area] = [address \in DOMAIN @ |->
        IF address \in start..start + Len(regs) - 1
        THEN regs[address - start + 1] ELSE @[address]]]

Decoded(tag, regs) ==
    Good(IF IsBitArea(tag.area) THEN regs[1]
         ELSE ToEngineering(DecodeRegisters(regs, tag), tag))

(* What a tag reads as when it is asked for alone, which is how the driver *)
(* of the simulated line reads it.                                         *)
Holds(held, tag) == Decoded(tag, Request(held, tag.area, tag.address, Width(tag)))

(* Mutant of Decode: a short answer is taken for a whole one.              *)
DecodeFromEnd(tag, start, raw) ==
    LET offset == tag.address - start
    IN  IF offset + 1 > Len(raw) THEN Bad
        ELSE Decoded(tag, [i \in 1..Width(tag) |->
                              IF offset + i <= Len(raw) THEN raw[offset + i] ELSE 0])

(* Of a block that was answered, the part that is the tag's.               *)
Decode(tag, start, raw) ==
    LET offset == tag.address - start
    IN  IF offset + Width(tag) > Len(raw) THEN Bad
        ELSE Decoded(tag, SubSeq(raw, offset + 1, offset + Width(tag)))

-----------------------------------------------------------------------------
(* The connection                                                          *)

Connect ==
    /\ Idle /\ ~connected
    /\ connected' = TRUE
    /\ UNCHANGED <<tags, image, todo, out, pending, process, events>>

Disconnect ==
    /\ Idle /\ connected
    /\ connected' = FALSE
    /\ UNCHANGED <<tags, image, todo, out, pending, process, events>>

-----------------------------------------------------------------------------
(* Reads, one request per block                                            *)

StartRead ==
    /\ Idle /\ connected
    /\ todo' = CoalesceBlocks(tags)
    /\ out' = <<>>
    /\ UNCHANGED <<tags, image, connected, pending, process, events>>

BlockRead(answers) ==
    /\ todo # <<>>
    /\ todo' = Tail(todo)
    /\ out' = [tag \in DOMAIN answers \cup DOMAIN out |->
                   IF tag \in DOMAIN answers THEN answers[tag] ELSE out[tag]]
    /\ UNCHANGED <<tags, image, connected, pending, process, events>>

(* A device may answer with fewer registers than asked for.                *)
BlockAnswered ==
    /\ todo # <<>>
    /\ \E length \in 0..Head(todo).count :
           LET block == Head(todo)
               raw == SubSeq(Request(image, block.area, block.start, block.count), 1, length)
           IN  BlockRead([tag \in block.tags |-> Decode(tag, block.start, raw)])

(* A request that fails makes the tags of its block BAD, and no others.    *)
BlockFails ==
    /\ todo # <<>>
    /\ BlockRead([tag \in Head(todo).tags |-> Bad])

-----------------------------------------------------------------------------
(* Writes                                                                  *)

(* Inputs are refused before anything is sent.  Of the others a boolean    *)
(* takes a boolean and a number a number.                                  *)
ValuesFor(tag) == IF tag.type = "bool" THEN {0, 1} ELSE Values

(* bool(value): what a coil takes, whatever type its tag is given.         *)
Truth(value) == IF value = 0 THEN 0 ELSE 1

Asked == /\ Idle /\ connected
         /\ events < MaxEvents
         /\ events' = events + 1

(* The request reached the device; whether its answer came back or not.    *)
Sent(tag, regs) ==
    /\ image' = Stored(tag.area, tag.address, regs)
    /\ UNCHANGED <<tags, connected, todo, out, process>>

WriteCoil(tag, value) ==
    /\ Asked
    /\ tag.area = "coil"
    /\ Sent(tag, <<Truth(value)>>)
    /\ UNCHANGED pending

WriteRegisters(tag, value) ==
    /\ Asked
    /\ tag.area = "holding" /\ tag.bit = None
    /\ Sent(tag, IF tag.type = "bool" THEN EncodeBool(value, tag, 0)
                 ELSE EncodeNumber(value, tag))
    /\ UNCHANGED pending

(* A bit is written by reading its word ...                                *)
ReadWord(tag, value) ==
    /\ Asked
    /\ tag.area = "holding" /\ tag.bit # None
    /\ pending' = [tag |-> tag, value |-> value, word |-> image[tag.area][tag.address]]
    /\ UNCHANGED <<tags, image, connected, todo, out, process>>

(* ... and writing it back, with what else was in it when it was read.     *)
WriteWord ==
    /\ pending # None
    /\ Sent(pending.tag, EncodeBool(pending.value, pending.tag, pending.word))
    /\ pending' = None
    /\ UNCHANGED events

(* The word could not be read, or the request to write it back was lost.   *)
WriteFails ==
    /\ pending # None
    /\ pending' = None
    /\ UNCHANGED <<tags, image, connected, todo, out, process, events>>

-----------------------------------------------------------------------------
(* The device: the simulated controller renders its process into registers *)

Signals(tag) == IF tag.type = "bool" THEN {0, 1} ELSE Signalled

Encoded(tag, value) ==
    IF IsBitArea(tag.area) THEN <<Truth(value)>>
    ELSE IF tag.type = "bool" THEN EncodeBool(value, tag, 0)
    ELSE EncodeNumber(value, tag)

(* The bits of a word are put into it one after another: in the order of   *)
(* the tag database, here from 0 up.  The order tells only in a word with  *)
(* a bit of byte order "little", for which nothing is claimed below.       *)
WordOf(tag, values) ==
    LET named(n) == {bit \in tags : /\ bit.area = tag.area /\ bit.address = tag.address
                                   /\ bit.bit = n}
        upTo[n \in 0..2 * ByteBits] ==
            IF n = 0 THEN 0
            ELSE IF named(n - 1) = {} THEN upTo[n - 1]
            ELSE LET bit == CHOOSE bit \in named(n - 1) : TRUE
                 IN  EncodeBool(values[bit], bit, upTo[n - 1])[1]
    IN  upTo[2 * ByteBits]

Rendered(values) ==
    [area \in Areas |-> [address \in DOMAIN image[area] |->
        LET covers(tag) == tag.area = area /\ address \in tag.address..EndAddress(tag)
        IN  IF ~\E tag \in tags : covers(tag) THEN image[area][address]
            ELSE LET tag == CHOOSE tag \in tags : covers(tag)
                 IN  IF ~IsBitArea(area) /\ tag.bit # None THEN WordOf(tag, values)
                     ELSE Encoded(tag, values[tag])[address - tag.address + 1]]]

(* It does so at any time, also between two requests of the driver.        *)
SyncImage(values) ==
    /\ events < MaxEvents
    /\ events' = events + 1
    /\ process' = values
    /\ image' = Rendered(values)
    /\ UNCHANGED <<tags, connected, todo, out, pending>>

Write ==
    \/ \E tag \in tags : \E value \in ValuesFor(tag) :
           WriteCoil(tag, value) \/ WriteRegisters(tag, value) \/ ReadWord(tag, value)
    \/ WriteWord
    \/ WriteFails

Processes ==
    {values \in [tags -> UNION {Signals(tag) : tag \in tags}] :
        \A tag \in tags : values[tag] \in Signals(tag)}

Next ==
    \/ Connect \/ Disconnect
    \/ StartRead \/ BlockAnswered \/ BlockFails
    \/ Write
    \/ \E values \in Processes : SyncImage(values)

Spec == Init /\ [][Next]_vars

-----------------------------------------------------------------------------
(* Properties                                                              *)

TypeOK ==
    /\ tags \in Maps
    /\ \A area \in Areas :
           image[area] \in [0..Sizes[area] - 1 -> IF IsBitArea(area) THEN {0, 1} ELSE Register]
    /\ connected \in BOOLEAN
    /\ \A i \in DOMAIN todo : todo[i].tags \subseteq tags
    /\ DOMAIN out \subseteq tags
    /\ pending = None \/ (connected /\ pending.tag \in tags /\ pending.word \in Register)
    /\ process = None \/ process \in Processes
    /\ events \in 0..MaxEvents

(* A plan of reads, as the docstring of coalesce_blocks means it: within   *)
(* the limit of one request and through no larger run of unused registers. *)
Used(some) == UNION {tag.address..EndAddress(tag) : tag \in some}

IsLegal(some, area) ==
    \A low, high \in Used(some) :
        /\ high - low < MaxCount[area]
        /\ high - low > MaxGap + 1 => \E between \in Used(some) : low < between /\ between < high

(* coalesce_blocks merges tags into legal reads, each tag in exactly one,  *)
(* wholly inside it, and no legal plan has fewer.                          *)
FewestRequests ==
    \A area \in Areas :
        LET mine == {tag \in tags : tag.area = area}
            blocks == BlocksOf(tags, area)
        IN  /\ \A i \in DOMAIN blocks :
                   /\ IsLegal(blocks[i].tags, area)
                   /\ Used(blocks[i].tags) \subseteq blocks[i].start..BlockEnd(blocks[i])
            /\ \A tag \in mine : Cardinality({i \in DOMAIN blocks : tag \in blocks[i].tags}) = 1
            /\ Len(blocks) > 0 =>
                   ~\E plan \in [mine -> 1..Len(blocks) - 1] :
                       \A n \in 1..Len(blocks) - 1 :
                           IsLegal({tag \in mine : plan[tag] = n}, area)

(* A GOOD reading is what the device held for that tag at one moment of    *)
(* the read, never half of one value and half of the next and never a      *)
(* neighbour's; and a read that has ended has answered for every tag.      *)
ReadsWhatIsThere ==
    [][/\ \A tag \in DOMAIN out' \ DOMAIN out : out'[tag] \in {Bad, Holds(image, tag)}
       /\ todo # <<>> /\ todo' = <<>> => DOMAIN out' = tags]_vars

(* What a number can be written as.                                        *)
Writings(tag) ==
    {raw * tag.scale + tag.offset : raw \in Lowest(tag.type)..Highest(tag.type)}

Distance(m, n) == IF m < n THEN n - m ELSE m - n

IsNearest(now, tag, value) ==
    IF tag.type = "bool" THEN now = value
    ELSE /\ now \in Writings(tag)
         /\ \A other \in Writings(tag) : Distance(now, value) <= Distance(other, value)

(* A write that reached the device reads back as the nearest value its     *)
(* type and scale can hold, from a coil as whether it was not 0, and every *)
(* other tag reads as before; those in the word of a bit as they were when *)
(* the word was read, for what changed in it since is set back.  What the  *)
(* device renders reads back in the same way.  Of the bits of one word     *)
(* this is so in byte order "big" only, see EncodeBool; and what is called *)
(* a bit of a coil is the whole coil.                                      *)
RegistersLand ==
    \A tag \in tags : \A value \in ValuesFor(tag) :
        WriteRegisters(tag, value) =>
            /\ IsNearest(Holds(image', tag).value, tag, value)
            /\ \A other \in tags \ {tag} : Holds(image', other) = Holds(image, other)

SharesWord(a, b) == a.area = b.area /\ a.address = b.address

CoilLands ==
    \A tag \in tags : \A value \in ValuesFor(tag) :
        WriteCoil(tag, value) =>
            /\ Holds(image', tag).value = Truth(value)
            /\ \A other \in tags :
                   ~SharesWord(other, tag) => Holds(image', other) = Holds(image, other)

BitLands ==
    WriteWord /\ pending.tag.byte = "big" =>
        /\ Holds(image', pending.tag).value = pending.value
        /\ \A other \in tags \ {pending.tag} :
               IF SharesWord(other, pending.tag)
               THEN other.byte = "big" =>
                        Holds(image', other) = Decoded(other, <<pending.word>>)
               ELSE Holds(image', other) = Holds(image, other)

HasItsPlace(tag) ==
    \/ tag.bit = None
    \/ /\ ~IsBitArea(tag.area)
       /\ \A other \in tags : SharesWord(other, tag) => other.byte = "big"

ImageShows ==
    process' # None /\ SyncImage(process') =>
        \A tag \in tags : HasItsPlace(tag) =>
            IF IsBitArea(tag.area)
            THEN image'[tag.area][tag.address] = Truth(process'[tag])
            ELSE IsNearest(Holds(image', tag).value, tag, process'[tag])

WritesLand == [][RegistersLand /\ CoilLands /\ BitLands /\ ImageShows]_vars
=============================================================================
