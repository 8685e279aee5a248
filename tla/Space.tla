-------------------------------- MODULE Space --------------------------------
(***************************************************************************)
(* The ownership table and the identity map: S5 (foundation/space/          *)
(* ownership.c), S6 (foundation/space/mmu_policy.c) and the part of          *)
(* nxu_rooms_run (foundation/room/room.c) that takes RAM for the rooms.      *)
(*                                                                         *)
(* The boot CPU runs alone here. Each call of add_owner and each call of    *)
(* nxu_mmu_map is a step, and each may halt the boot. A page is named by    *)
(* its first address. The tables under the map are those of Translate.tla;  *)
(* here the map is flat and a call may always find the pool empty.          *)
(***************************************************************************)
EXTENDS Handover

CONSTANTS
  VA,         \* addresses that the walk translates, 2^48
  OWNER_MAX,  \* NXU_OWNER_MAX, slots of the ownership table
  Facts       \* what S3 and S4 may have accepted; see Accepted

VARIABLES
  facts,      \* nxu_facts and nxu_image
  region,     \* nxu_space.region[0 .. nxu_space.count - 1]
  leaf,       \* the leaf attribute of every page, "none" when there is none
  mapped,     \* ranges of this phase that are done with
  at,         \* the phase: "own", "map", "armed", "rooms", "run", "halt"
  why         \* what halted the boot, "none" while it runs

vars == <<facts, region, leaf, mapped, at, why>>

ASSUME SpaceAssumption ==
  /\ VA \in Nat \ {0} /\ VA % PAGE = 0 /\ VA < WORD
  /\ 4 * PAGE < WORD
  /\ OWNER_MAX \in Nat
  /\ \A f \in Facts : Accepted(f)

Pages == {p \in 0 .. VA - 1 : p % PAGE = 0}
Perms == {"none", "RX", "R", "RW", "DEV"}

-----------------------------------------------------------------------------
(* S5 *)

Claim == [base : Word, size : Word, owner : {"NXU", "IMAGE", "RESERVED", "MMIO"}]
Whole(r, owner) == [base |-> r.base, size |-> PageUp(r.size), owner |-> owner]

\* What a set of at most one range adds.
Opt(ranges, owner) ==
  IF ranges = {} THEN <<>> ELSE <<Whole(CHOOSE r \in ranges : TRUE, owner)>>

\* nxu_s5_ownership's calls of add_owner, in order.
Claims ==
    [i \in DOMAIN facts.mem |->
       [base |-> facts.mem[i].base, size |-> facts.mem[i].size, owner |-> "NXU"]]
  \o <<Whole(facts.image, "IMAGE")>> \o Opt(facts.dtb, "RESERVED")
  \o <<Whole(facts.gicd, "MMIO"), Whole(facts.gicr, "MMIO")>>
  \o Opt(facts.uart, "MMIO") \o Opt(facts.pwrc, "MMIO")

Halt(reason) ==
  /\ at' = "halt" /\ why' = reason
  /\ UNCHANGED <<facts, region, leaf, mapped>>

AddOwner ==
  /\ at = "own" /\ Len(region) < Len(Claims)
  /\ LET c == Claims[Len(region) + 1] IN
     \/ ~RangeOk(c.base, c.size) /\ Halt("wrap")
     \/ RangeOk(c.base, c.size) /\ Len(region) >= OWNER_MAX /\ Halt("table")
     \/ /\ RangeOk(c.base, c.size) /\ Len(region) < OWNER_MAX
        /\ region' = Append(region, c)
        /\ UNCHANGED <<facts, leaf, mapped, at, why>>

\* Mutant: size < best
OwnerOfFirst(pa, size) ==
  LET hold == {i \in DOMAIN region :
                 RangeContains(region[i].base, region[i].size, pa, size)}
      best == {i \in hold : \A j \in hold :
                 \/ region[i].size < region[j].size
                 \/ region[i].size = region[j].size /\ i <= j}
  IN IF hold = {} THEN "UNKNOWN" ELSE region[CHOOSE i \in best : TRUE].owner

\* nxu_space_owner: the smallest region that contains the range, the last of
\* those of one size.
OwnerOf(pa, size) ==
  LET hold == {i \in DOMAIN region :
                 RangeContains(region[i].base, region[i].size, pa,
                               IF size = 0 THEN 1 ELSE size)}
      best == {i \in hold : \A j \in hold :
                 \/ region[i].size < region[j].size
                 \/ region[i].size = region[j].size /\ j <= i}
  IN IF hold = {} THEN "UNKNOWN" ELSE region[CHOOSE i \in best : TRUE].owner

-----------------------------------------------------------------------------
(* S6 *)

\* Mutant: for (off = 0U; off <= size; ...)
TouchedOneMore(b, n) == {PageDown(x) % VA : x \in Bytes(b, n + 1)}

\* The pages of a range: map_page keeps the low bits of an address only.
Touched(b, n) == {PageDown(x) % VA : x \in Bytes(b, n)}

\* nxu_mmu_map: what it refuses, and the leaves it writes. A call that finds
\* the pool empty halts in the middle of its range.
Map(b, n, perm) ==
  \/ ~RangeOk(b, n) /\ Halt("wrap")
  \/ /\ RangeOk(b, n)
     /\ \/ (b % PAGE # 0 \/ n % PAGE # 0) /\ Halt("unaligned")
        \/ b % PAGE = 0 /\ n % PAGE = 0 /\ Halt("pt")
        \/ /\ b % PAGE = 0 /\ n % PAGE = 0
           /\ leaf' = [p \in Pages |-> IF p \in Touched(b, n) THEN perm ELSE leaf[p]]
           /\ mapped' = mapped + 1
           /\ UNCHANGED <<facts, region, at, why>>

TextEnd == IF PageUp(facts.image.text) <= facts.image.base
           THEN Plus(facts.image.base, PAGE) ELSE PageUp(facts.image.text)
RoEnd == IF PageUp(facts.image.ro) < TextEnd THEN TextEnd ELSE PageUp(facts.image.ro)

\* Mutant: the image's end without its base
ImageEndNoBase == PageUp(facts.image.size)

ImageEnd == PageUp(Plus(facts.image.base, facts.image.size))

DeviceMap(r) ==
  LET b == PageDown(r.base) IN
  [base |-> b, size |-> PageUp(Plus(r.size, r.base - b)), perm |-> "DEV"]

StartMap ==
  /\ at = "own" /\ Len(region) = Len(Claims)
  /\ at' = "map"
  /\ UNCHANGED <<facts, region, leaf, mapped, why>>

\* A part of the image; of those behind the text, the empty ones are left out.
MapPart(from, to, perm) ==
  IF from < to THEN Map(from, to - from, perm)
  ELSE mapped' = mapped + 1 /\ UNCHANGED <<facts, region, leaf, at, why>>

\* The turn of a region in the loop over the owner table.
MapDevice(r) ==
  IF r.owner = "MMIO" THEN LET m == DeviceMap(r) IN Map(m.base, m.size, m.perm)
  ELSE mapped' = mapped + 1 /\ UNCHANGED <<facts, region, leaf, at, why>>

MapImage ==
  /\ at = "map"
  /\ \/ mapped = 0 /\ Map(facts.image.base, TextEnd - facts.image.base, "RX")
     \/ mapped = 1 /\ MapPart(TextEnd, RoEnd, "R")
     \/ mapped = 2 /\ MapPart(RoEnd, ImageEnd, "RW")

MapDevices ==
  /\ at = "map" /\ mapped >= 3 /\ mapped < 3 + Len(region)
  /\ MapDevice(region[mapped - 2])

Arm ==
  /\ at = "map" /\ mapped = 3 + Len(region)
  /\ \/ OwnerOf(facts.image.base, PAGE) # "IMAGE" /\ Halt("owner")
     \/ /\ OwnerOf(facts.image.base, PAGE) = "IMAGE"
        /\ at' = "armed" /\ mapped' = 0
        /\ UNCHANGED <<facts, region, leaf, why>>

-----------------------------------------------------------------------------
(* nxu_rooms_run *)

RoomBase == ImageEnd

\* Mutant: the room's code pages counted, its data pages forgotten
TakeRoomsHalf ==
  /\ at = "armed"
  /\ LET fits == RangeContains(facts.mem[1].base, facts.mem[1].size,
                               RoomBase, 2 * PAGE)
     IN \/ ~fits /\ Halt("no_ram")
        \/ /\ fits /\ at' = "rooms"
           /\ UNCHANGED <<facts, region, leaf, mapped, why>>

TakeRooms ==
  /\ at = "armed"
  /\ LET fits == RangeContains(facts.mem[1].base, facts.mem[1].size,
                               RoomBase, 4 * PAGE)
     IN \/ ~fits /\ Halt("no_ram")
        \/ /\ fits /\ at' = "rooms"
           /\ UNCHANGED <<facts, region, leaf, mapped, why>>

\* priv(0) and priv(1): the code and the data page of each.
PrivRoom ==
  /\ at = "rooms" /\ mapped < 4
  /\ Map(RoomBase + mapped * PAGE, PAGE, "RW")

Run ==
  /\ at = "rooms" /\ mapped = 4
  /\ at' = "run"
  /\ UNCHANGED <<facts, region, leaf, mapped, why>>

Stay == at \in {"run", "halt"} /\ UNCHANGED vars

-----------------------------------------------------------------------------
Init ==
  /\ facts \in Facts
  /\ region = <<>>
  /\ leaf = [p \in Pages |-> "none"]
  /\ mapped = 0 /\ at = "own" /\ why = "none"

Next ==
  \/ AddOwner \/ StartMap \/ MapImage \/ MapDevices \/ Arm
  \/ TakeRooms \/ PrivRoom \/ Run \/ Stay

Spec == Init /\ [][Next]_vars

-----------------------------------------------------------------------------
(* Properties *)

TypeOK ==
  /\ facts \in Facts
  /\ region \in Seq(Claim)
  /\ leaf \in [Pages -> Perms]
  /\ mapped \in Nat
  /\ at \in {"own", "map", "armed", "rooms", "run", "halt"}
  /\ why \in {"none", "wrap", "table", "unaligned", "pt", "owner", "no_ram"}

PageBytes(p) == Bytes(p, PAGE)
OwnedBy(owners) ==
  UNION {Bytes(region[i].base, region[i].size) :
           i \in {k \in DOMAIN region : region[k].owner \in owners}}
RoomPages == {PageDown(x) : x \in Bytes(RoomBase, 4 * PAGE)}
RoomPage(p) ==
  /\ p \in RoomPages /\ leaf[p] = "none"
  /\ PageBytes(p) \subseteq OwnedBy({"NXU"})
  /\ PageBytes(p) \cap OwnedBy({"IMAGE", "MMIO"}) = {}

\* An owner justifies the attribute of a page.
Justified(p, perm) ==
  /\ perm = "DEV" => PageBytes(p) \cap OwnedBy({"MMIO"}) # {}
  /\ perm \in {"RX", "R"} => PageBytes(p) \subseteq OwnedBy({"IMAGE"})
  /\ perm = "RW" => \/ PageBytes(p) \subseteq OwnedBy({"IMAGE"})
                    \/ p \in RoomPages /\ PageBytes(p) \subseteq OwnedBy({"NXU"})

\* Physical membership is wrap-safe, invariant 5: every region of the table ends
\* below the last address, also when a board or a DTB names one that does not,
\* and after its size is rounded up to pages (ownership.c:26-37, 70-90).
RegionsAreWrapSafe ==
  \A i \in DOMAIN region : region[i].size > 0 /\ region[i].base + region[i].size < WORD

\* Region owners, invariant 25: unknown memory is never mapped. A page that is
\* mapped holds a byte of a region whose owner justifies the attribute: device
\* memory a device's, the other attributes the image's, or NXU's RAM when it
\* is a page of a room (mmu_policy.c:52-66).
MappedIsOwned ==
  \A p \in Pages : Justified(p, leaf[p])

\* Once the MMU is on, every byte of the image is reachable with the rights of
\* its part: text executable and never written, constants neither, the rest
\* written and never executed (mmu_policy.c:44-57; invariant 7).
ImageHasItsRights ==
  at \in {"armed", "rooms", "run"} =>
    \A x \in Bytes(facts.image.base, facts.image.size) :
      leaf[PageDown(x)] = IF x < facts.image.text THEN "RX"
                          ELSE IF x < facts.image.ro THEN "R" ELSE "RW"

\* A board is as it should be: it has no more ranges than the table has room for;
\* the image is of whole pages; RAM and, taken in whole pages, devices and the DTB
\* end below the last address; and RAM is apart from other RAM and from devices.
Devs == {facts.gicd, facts.gicr} \cup facts.uart \cup facts.pwrc
PagesOf(r) == {PageDown(x) : x \in Bytes(r.base, r.size)}
RamApart ==
  \A i, j \in DOMAIN facts.mem :
    i # j => ~RangeOverlap(facts.mem[i].base, facts.mem[i].size,
                           facts.mem[j].base, facts.mem[j].size)
Honest ==
  /\ Len(Claims) <= OWNER_MAX
  /\ facts.image.base % PAGE = 0 /\ facts.image.size % PAGE = 0
  /\ \A i \in DOMAIN facts.mem : RangeOk(facts.mem[i].base, facts.mem[i].size)
  /\ \A r \in Devs \cup facts.dtb : r.base + r.size + 2 * PAGE < WORD
  /\ RamApart
  /\ \A r \in Devs, i \in DOMAIN facts.mem :
       PagesOf(r) \cap PagesOf(facts.mem[i]) = {}

\* Such a board is never refused by S5 and S6 for a range or an owner: not when
\* a device's pages meet another's, nor when RAM is no larger than the image
\* (ownership.c:52 takes the later of two regions of one size).
HonestFactsAreMapped ==
  Honest => why \notin {"wrap", "unaligned", "owner", "table"}

\* Once the MMU is on, the only pages whose leaf changes are the rooms' pages;
\* each lies wholly in NXU's RAM, had no leaf before, and is not the image's
\* nor a device's (room.c:407-417).
ArmedGrowsByRoomsOnly ==
  [][(at \in {"armed", "rooms", "run"}) =>
       \A p \in Pages : leaf'[p] # leaf[p] => RoomPage(p)]_vars

\* What GENESIS_V2_CLOSURE.md:122 says of owner classes: a page of a region
\* that is reserved-do-not-touch is never mapped.
ReservedUntouched ==
  \A p \in Pages : leaf[p] # "none" => PageBytes(p) \cap OwnedBy({"RESERVED"}) = {}

==============================================================================
