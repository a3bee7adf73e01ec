----------------------------- MODULE AddressSpace -----------------------------
(***************************************************************************)
(* What the kernel's mapping functions promise (paging.h: kernel_map_page, *)
(* unmap_page): a page is mapped to a frame no other page has, until it is *)
(* unmapped, and mapping one page leaves every other page alone.           *)
(***************************************************************************)
CONSTANTS
  Pages,   (* the virtual pages above and below the kernel image *)
  Frames,  (* the page frames                                    *)
  NoFrame  (* what an unmapped page has                          *)

VARIABLE map

Init == map = [v \in Pages |-> NoFrame]

Map(v) ==
  /\ map[v] = NoFrame
  /\ map'[v] \in Frames \ {map[w] : w \in Pages}
  /\ map' = [map EXCEPT ![v] = map'[v]]

Unmap(v) ==
  /\ map[v] # NoFrame /\ map'[v] = NoFrame
  /\ map' = [map EXCEPT ![v] = NoFrame]

Next == \E v \in Pages : Map(v) \/ Unmap(v)

Spec == Init /\ [][Next]_map

===============================================================================
