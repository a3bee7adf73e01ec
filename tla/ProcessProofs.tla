---------------------------- MODULE ProcessProofs -----------------------------
(***************************************************************************)
(* Theorems about Process, for tables and memories of every size.          *)
(*                                                                         *)
(* Most steps of a creation are calls PagingProofs knows.  The others are  *)
(* one that maps a page of the kernel image anew, one that maps a page of  *)
(* a process to a frame nobody took, and one that writes entries of a      *)
(* directory past the slot.                                                *)
(***************************************************************************)
EXTENDS Process, PagingProofs

(***************************************************************************)
(* What each of them does to the shape.                                    *)
(***************************************************************************)

(* The page table of the kernel image may change where it stays present: it is at no
   place.  *)
LEMMA ImageShape ==
  ASSUME NEW s \in State, NEW R, NEW W, Shape(s, R, W), NEW out, out.pool = s.pool,
         \A f \in Frames, x \in Idx :
           f # KERNEL_PT /\ ~(f = KERNEL_PD /\ x = KERNEL_PT_PDT_IDX) =>
             out.mem[f][x] = s.mem[f][x],
         out.mem[KERNEL_PD][KERNEL_PT_PDT_IDX].present,
         out.mem[KERNEL_PD][KERNEL_PT_PDT_IDX].frame = KERNEL_PT,
         \A t \in Idx \ {KERNEL_TMP_PT_IDX} : out.mem[KERNEL_PT][t].present
  PROVE  Shape(out, R, W) /\ SamePlaces(s, out, R)
<1>1. /\ Unique(s, R) /\ Taken(s, R, W) /\ Untouched(s, W)
      /\ KernelTables(s) /\ Directories(s, R)
  BY DEF Shape
<1>2. \A p \in R : p \in Frames /\ p # KERNEL_PT
  BY RootFacts
<1>3. ASSUME NEW p \in R, NEW e \in Idx
      PROVE  /\ out.mem[p][e].present = s.mem[p][e].present
             /\ out.mem[p][e].frame = s.mem[p][e].frame
             /\ p # KERNEL_PD => out.mem[p][e] = s.mem[p][e]
  <2>1. CASE p = KERNEL_PD /\ e = KERNEL_PT_PDT_IDX
    BY <2>1, <1>1 DEF KernelTables
  <2>2. CASE ~(p = KERNEL_PD /\ e = KERNEL_PT_PDT_IDX)
    <3>1. out.mem[p][e] = s.mem[p][e]
      BY <2>2, <1>2
    <3> QED
      BY <3>1
  <2> QED
    BY <2>1, <2>2
<1>4. ASSUME NEW p \in R, NEW e \in Idx, HasTable(s, p, e), NEW y \in Idx
      PROVE  out.mem[s.mem[p][e].frame][y] = s.mem[s.mem[p][e].frame][y]
  <2>1. /\ s.mem[p][e].frame \in Frames /\ s.mem[p][e].frame # KERNEL_PT
        /\ s.mem[p][e].frame \notin R
    BY <1>4, TableFacts
  <2>2. KERNEL_PD \in R
    BY <1>1 DEF Directories
  <2> QED
    BY <2>1, <2>2
<1>5. ASSUME NEW p \in R, NEW e \in Idx, NEW u \in Spots
      PROVE  /\ Used(out, p, e, u) <=> Used(s, p, e, u)
             /\ Used(s, p, e, u) => At(out, p, e, u) = At(s, p, e, u)
  <2>1. /\ out.mem[p][e].present = s.mem[p][e].present
        /\ out.mem[p][e].frame = s.mem[p][e].frame
    BY <1>3
  <2>2. ASSUME HasTable(s, p, e), u # Itself
        PROVE  out.mem[s.mem[p][e].frame][u] = s.mem[s.mem[p][e].frame][u]
    BY <2>2, <1>4 DEF Spots
  <2> QED
    BY <2>1, <2>2 DEF Used, At, HasTable
<1>6. SamePlaces(s, out, R)
  BY <1>5 DEF SamePlaces
<1>7. Unique(out, R)
  BY <1>1, <1>5 DEF Unique
<1>8. Free(out) = Free(s)
  BY DEF Free
<1>9. Taken(out, R, W)
  BY <1>1, <1>5, <1>8 DEF Taken
<1>10. Untouched(out, W)
  <2>1. ASSUME NEW f \in W \union Free(s), NEW x \in Idx
        PROVE  out.mem[f][x] = s.mem[f][x]
    <3>1. f \in START .. TOTAL_FRAMES - 1
      BY <1>1 DEF Untouched
    <3>2. f \in Frames /\ f # KERNEL_PT /\ f # KERNEL_PD
      BY <3>1, Constants DEF Frames
    <3> QED
      BY <3>2
  <2> QED
    BY <2>1, <1>1, <1>8 DEF Untouched
<1>11. KernelTables(out)
  <2>1. KERNEL_PD \in R
    BY <1>1 DEF Directories
  <2>2. ASSUME NEW d \in Idx
        PROVE  /\ out.mem[KERNEL_PD][d].present = s.mem[KERNEL_PD][d].present
               /\ out.mem[KERNEL_PD][d].frame = s.mem[KERNEL_PD][d].frame
    BY <2>1, <1>3
  <2> QED
    BY <2>2, <1>1 DEF KernelTables
<1>12. Directories(out, R)
  <2>1. Idx \subseteq Spots /\ KERNEL_PD \in R
    BY <1>1 DEF Spots, Directories
  <2> QED
    BY <2>1, <1>1, <1>3, <1>5 DEF Directories
<1> QED
  BY <1>6, <1>7, <1>9, <1>10, <1>11, <1>12 DEF Shape

(* A page mapped in a process's directory, to whatever frame, and then left out, makes
   no difference but that its table, if it is new, was free before.  *)
LEMMA WithoutShape ==
  ASSUME NEW s \in State, NEW R, NEW W, Shape(s, R, W), NEW pd \in R \ {KERNEL_PD},
         NEW d \in Idx, NEW t \in Idx, NEW fr, NEW out,
         MapsPlace(s, out, R, W, pd, d, t, fr), NEW T, T = out.mem[pd][d].frame,
         NEW m, m.pool = out.pool,
         \A f \in Frames, x \in Idx :
           m.mem[f][x] = IF f = T /\ x = t THEN Empty ELSE out.mem[f][x]
  PROVE  /\ Shape(m, R, W) /\ KernelPlacesKept(s, m)
         /\ HasTable(m, pd, d) /\ m.mem[pd][d].frame = T
<1>1. /\ Unique(s, R) /\ Taken(s, R, W) /\ Untouched(s, W)
      /\ KernelTables(s) /\ Directories(s, R) /\ KERNEL_PD \in R /\ KERNEL_PD # pd
  BY DEF Shape, Directories
<1>2. /\ Free(out) \subseteq Free(s)
      /\ \A j, k \in 1 .. Len(out.pool) : out.pool[j] = out.pool[k] => j = k
      /\ Used(out, pd, d, t)
      /\ \A p \in R, e \in Idx, u \in Spots :
           ~(p = pd /\ e = d /\ u = t) /\ Used(s, p, e, u) =>
             Used(out, p, e, u) /\ At(out, p, e, u) = At(s, p, e, u)
      /\ \A p \in R, e \in Idx, u \in Spots :
           Used(out, p, e, u) =>
             \/ p = pd /\ e = d /\ u = t
             \/ Used(s, p, e, u)
             \/ p = pd /\ e = d /\ u = Itself /\ At(out, p, e, u) \in Free(s) \ Free(out)
      /\ \A p \in R, e \in Idx : (p = pd /\ e = d) \/ out.mem[p][e] = s.mem[p][e]
      /\ \A f \in W \union Free(out) \union {KERNEL_PT}, x \in Idx : out.mem[f][x] = s.mem[f][x]
  BY DEF MapsPlace
<1>3. /\ W \union Free(s) \subseteq START .. TOTAL_FRAMES - 1
      /\ W \intersect Free(s) = {}
      /\ \A f \in W \union Free(s), x \in Idx : s.mem[f][x] \in {Empty, Junk}
  BY <1>1 DEF Untouched
<1>4. Itself \in Spots /\ t # Itself /\ t \in Spots
  BY Constants DEF Spots, Itself, Idx
<1>5. Used(out, pd, d, Itself) /\ At(out, pd, d, Itself) = T
  BY <1>2, <1>4 DEF Used, At
<1>6. (Used(s, pd, d, Itself) /\ At(s, pd, d, Itself) = T) \/ T \in Free(s) \ Free(out)
  BY <1>2, <1>4, <1>5
<1>7. /\ T \in START .. TOTAL_FRAMES - 1 /\ T \notin W \union Free(out) /\ T \notin R
      /\ \A p \in R, e \in Idx : HasTable(s, p, e) /\ s.mem[p][e].frame = T => p = pd /\ e = d
  <2>1. CASE Used(s, pd, d, Itself) /\ At(s, pd, d, Itself) = T
    <3>1. HasTable(s, pd, d) /\ s.mem[pd][d].frame = T
      BY <2>1 DEF Used, At
    <3> QED
      BY <3>1, <1>2, TableFacts
  <2>2. CASE T \in Free(s) \ Free(out)
    <3>1. T \notin R
      BY <2>2, RootFacts
    <3>2. ASSUME NEW p \in R, NEW e \in Idx, HasTable(s, p, e), s.mem[p][e].frame = T
          PROVE  FALSE
      BY <2>2, <3>2, TableFacts
    <3> QED
      BY <2>2, <3>1, <3>2, <1>3
  <2> QED
    BY <2>1, <2>2, <1>6
<1>8. T \in Frames /\ T # KERNEL_PT
  BY <1>7, Constants DEF Frames
<1>9. \A p \in R : p \in Frames
  BY RootFacts
<1>10. \A p \in R, e \in Idx : m.mem[p][e] = out.mem[p][e]
  BY <1>7, <1>9
<1>11. HasTable(m, pd, d) /\ m.mem[pd][d].frame = T
  BY <1>5, <1>10 DEF Used, HasTable
<1>12. ~Empty.present
  BY DEF Empty
<1>13. ASSUME NEW p \in R, NEW e \in Idx, NEW u \in Spots, Used(m, p, e, u)
       PROVE  /\ ~(p = pd /\ e = d /\ u = t)
              /\ \/ Used(s, p, e, u) /\ At(m, p, e, u) = At(s, p, e, u)
                 \/ p = pd /\ e = d /\ u = Itself /\ At(m, p, e, u) \in Free(s) \ Free(out)
  <2>1. m.mem[p][e] = out.mem[p][e]
    BY <1>10
  <2>2. CASE u = Itself
    <3>1. Used(out, p, e, u) /\ At(out, p, e, u) = At(m, p, e, u)
      BY <2>1, <2>2, <1>13 DEF Used, HasTable, At
    <3> QED
      BY <3>1, <2>2, <1>2, <1>4
  <2>3. CASE u # Itself /\ p = pd /\ e = d
    <3>1. u \in Idx /\ m.mem[T][u].present
      BY <2>3, <1>11, <1>13 DEF Used, Spots
    <3>2. u # t /\ m.mem[T][u] = out.mem[T][u]
      BY <3>1, <1>8, <1>12
    <3>3. Used(out, p, e, u) /\ At(out, p, e, u) = At(m, p, e, u)
      BY <3>1, <3>2, <2>1, <2>3, <1>5, <1>11 DEF Used, At
    <3>4. Used(s, p, e, u)
      BY <3>2, <3>3, <2>3, <1>2
    <3> QED
      BY <3>2, <3>3, <3>4, <1>2
  <2>4. CASE u # Itself /\ ~(p = pd /\ e = d)
    <3>1. HasTable(s, p, e) /\ m.mem[p][e] = s.mem[p][e] /\ u \in Idx
      <4>1. HasTable(m, p, e) /\ u \in Idx
        BY <2>4, <1>13 DEF Used, Spots
      <4>2. out.mem[p][e] = s.mem[p][e]
        BY <2>4, <1>2
      <4> QED
        BY <4>1, <4>2, <2>1 DEF HasTable
    <3>2. s.mem[p][e].frame # T /\ s.mem[p][e].frame \in Frames
      BY <3>1, <2>4, <1>7, TableFacts
    <3>3. m.mem[s.mem[p][e].frame][u] = out.mem[s.mem[p][e].frame][u]
      BY <3>1, <3>2
    <3>4. Used(out, p, e, u) /\ At(out, p, e, u) = At(m, p, e, u)
      BY <3>1, <3>3, <2>1, <2>4, <1>13 DEF Used, HasTable, At
    <3>5. Used(s, p, e, u)
      BY <3>4, <2>4, <1>2
    <3> QED
      BY <3>4, <3>5, <2>4, <1>2
  <2> QED
    BY <2>2, <2>3, <2>4
<1>14. \A p \in R, e \in Idx, u \in Spots :
         Used(s, p, e, u) =>
           At(s, p, e, u) \in (START .. TOTAL_FRAMES - 1) \ (W \union Free(s))
  BY <1>1 DEF Taken
<1>15. Unique(m, R)
  <2> SUFFICES ASSUME NEW p \in R, NEW q \in R, NEW e \in Idx, NEW g \in Idx,
                      NEW u \in Spots, NEW w \in Spots, Used(m, p, e, u), Used(m, q, g, w),
                      At(m, p, e, u) = At(m, q, g, w)
               PROVE  p = q /\ e = g /\ u = w
    BY DEF Unique
  <2>1. \/ Used(s, p, e, u) /\ At(m, p, e, u) = At(s, p, e, u)
        \/ p = pd /\ e = d /\ u = Itself /\ At(m, p, e, u) \in Free(s) \ Free(out)
    BY <1>13
  <2>2. \/ Used(s, q, g, w) /\ At(m, q, g, w) = At(s, q, g, w)
        \/ q = pd /\ g = d /\ w = Itself /\ At(m, q, g, w) \in Free(s) \ Free(out)
    BY <1>13
  <2>3. CASE Used(s, p, e, u) /\ At(m, p, e, u) = At(s, p, e, u)
    <3>1. At(s, p, e, u) \notin Free(s)
      BY <2>3, <1>14
    <3>2. Used(s, q, g, w) /\ At(s, p, e, u) = At(s, q, g, w)
      BY <2>2, <2>3, <3>1
    <3> QED
      BY <2>3, <3>2, <1>1 DEF Unique
  <2>4. CASE p = pd /\ e = d /\ u = Itself /\ At(m, p, e, u) \in Free(s) \ Free(out)
    BY <2>2, <2>4, <1>14
  <2> QED
    BY <2>1, <2>3, <2>4
<1>16. Free(m) = Free(out)
  BY DEF Free
<1>17. Taken(m, R, W)
  <2> SUFFICES ASSUME NEW p \in R, NEW e \in Idx, NEW u \in Spots, Used(m, p, e, u)
               PROVE  At(m, p, e, u) \in (START .. TOTAL_FRAMES - 1) \ (W \union Free(m))
    BY DEF Taken
  <2> QED
    BY <1>2, <1>3, <1>13, <1>14, <1>16
<1>18. \A f \in W \union Free(out) \union {KERNEL_PT}, x \in Idx : m.mem[f][x] = s.mem[f][x]
  <2> SUFFICES ASSUME NEW f \in W \union Free(out) \union {KERNEL_PT}, NEW x \in Idx
               PROVE  m.mem[f][x] = s.mem[f][x]
    OBVIOUS
  <2>1. f \in Frames
    BY <1>2, <1>3, Constants DEF Frames
  <2>2. f # T
    BY <1>7, <1>8
  <2> QED
    BY <2>1, <2>2, <1>2
<1>19. Untouched(m, W)
  <2>1. \A f \in W \union Free(m), x \in Idx : m.mem[f][x] \in {Empty, Junk}
    BY <1>2, <1>3, <1>16, <1>18
  <2> QED
    BY <2>1, <1>2, <1>3, <1>16 DEF Untouched
<1>20. KernelTables(m)
  <2>1. \A x \in Idx : /\ m.mem[KERNEL_PD][x] = s.mem[KERNEL_PD][x]
                       /\ m.mem[KERNEL_PT][x] = s.mem[KERNEL_PT][x]
    BY <1>1, <1>2, <1>10, <1>18
  <2>2. KERNEL_PT_PDT_IDX \in Idx
    BY Constants
  <2> QED
    BY <2>1, <2>2, <1>1 DEF KernelTables
<1>21. KernelPlacesKept(s, m)
  <2> SUFFICES ASSUME NEW e \in Idx, NEW u \in Spots
               PROVE  /\ Used(m, KERNEL_PD, e, u) <=> Used(s, KERNEL_PD, e, u)
                      /\ Used(s, KERNEL_PD, e, u) =>
                           At(m, KERNEL_PD, e, u) = At(s, KERNEL_PD, e, u)
    BY DEF KernelPlacesKept
  <2>1. m.mem[KERNEL_PD][e] = s.mem[KERNEL_PD][e]
    BY <1>1, <1>2, <1>10
  <2>2. ASSUME HasTable(s, KERNEL_PD, e), u # Itself
        PROVE  /\ Used(m, KERNEL_PD, e, u) <=> Used(s, KERNEL_PD, e, u)
               /\ Used(s, KERNEL_PD, e, u) => At(m, KERNEL_PD, e, u) = At(s, KERNEL_PD, e, u)
    <3>1. s.mem[KERNEL_PD][e].frame # T /\ s.mem[KERNEL_PD][e].frame \in Frames /\ u \in Idx
      BY <2>2, <1>1, <1>7, TableFacts DEF Spots
    <3>2. m.mem[s.mem[KERNEL_PD][e].frame][u] = out.mem[s.mem[KERNEL_PD][e].frame][u]
      BY <3>1
    <3>3. Used(m, KERNEL_PD, e, u) => Used(s, KERNEL_PD, e, u)
      BY <1>1, <1>13
    <3>4. ASSUME Used(s, KERNEL_PD, e, u)
          PROVE  Used(m, KERNEL_PD, e, u) /\ At(m, KERNEL_PD, e, u) = At(s, KERNEL_PD, e, u)
      <4>1. Used(out, KERNEL_PD, e, u) /\ At(out, KERNEL_PD, e, u) = At(s, KERNEL_PD, e, u)
        BY <3>4, <1>1, <1>2
      <4>2. out.mem[KERNEL_PD][e] = s.mem[KERNEL_PD][e]
        BY <1>1, <1>2
      <4>3. /\ out.mem[s.mem[KERNEL_PD][e].frame][u].present
            /\ At(s, KERNEL_PD, e, u) = out.mem[s.mem[KERNEL_PD][e].frame][u].frame
        BY <4>1, <4>2, <2>2, Zenon DEF Used, At
      <4>4. HasTable(m, KERNEL_PD, e)
        BY <2>1, <2>2, Zenon DEF HasTable
      <4> QED
        BY <4>3, <4>4, <3>2, <2>1, <2>2, Zenon DEF Used, At
    <3> QED
      BY <3>3, <3>4
  <2>3. CASE u = Itself
    BY <2>1, <2>3 DEF Used, HasTable, At
  <2>4. CASE ~HasTable(s, KERNEL_PD, e)
    BY <2>1, <2>4 DEF Used, HasTable
  <2> QED
    BY <2>2, <2>3, <2>4
<1>22. Directories(m, R)
  <2> SUFFICES ASSUME NEW p \in R \ {KERNEL_PD}
               PROVE  /\ \E e, u \in Idx : /\ e > KERNEL_PT_PDT_IDX
                                          /\ Used(m, KERNEL_PD, e, u) /\ At(m, KERNEL_PD, e, u) = p
                      /\ \A e \in Idx : m.mem[p][e].present /\ m.mem[p][e].frame = KERNEL_PT
                           => m.mem[p][e] = Junk
    BY <1>1 DEF Directories
  <2>1. PICK e, u \in Idx : /\ e > KERNEL_PT_PDT_IDX
                            /\ Used(s, KERNEL_PD, e, u) /\ At(s, KERNEL_PD, e, u) = p
    BY <1>1 DEF Directories
  <2>2. Used(m, KERNEL_PD, e, u) /\ At(m, KERNEL_PD, e, u) = p
    BY <2>1, <1>21 DEF KernelPlacesKept, Spots
  <2>3. ASSUME NEW g \in Idx, m.mem[p][g].present, m.mem[p][g].frame = KERNEL_PT
        PROVE  m.mem[p][g] = Junk
    <3>1. ~(p = pd /\ g = d)
      BY <2>3, <1>8, <1>11
    <3>2. m.mem[p][g] = s.mem[p][g]
      BY <3>1, <1>2, <1>10
    <3> QED
      BY <3>2, <2>3, <1>1 DEF Directories
  <2> QED
    BY <2>1, <2>2, <2>3
<1> QED
  BY <1>11, <1>15, <1>17, <1>19, <1>20, <1>21, <1>22 DEF Shape

(* FramesShapeOf needs no more of a step of a creation than the shape and the kernel's
   places.  *)
LEMMA PlacesKeptShape ==
  ASSUME NEW s \in State, NEW n \in Nat, FramesShapeOf(s, dirs, HEAP_PAGES, n),
         \A dir \in dirs : dir.pdt \in VPages, \A v \in n .. HeapLimit - 1 : v \in VPages,
         NEW out \in State, Shape(out, RootsOf(s, dirs), {}), KernelPlacesKept(s, out)
  PROVE  FramesShapeOf(out, dirs, HEAP_PAGES, n)
<1>1. HEAP_PAGES .. HEAP_PAGES - 1 = {} /\ n <= n /\ n \in Int
  BY Constants
<1>2. InHand(out, HEAP_PAGES) = {}
  BY <1>1 DEF InHand
<1>3. ASSUME NEW v \in VPages
      PROVE  /\ InUse(out, v) <=> InUse(s, v)
             /\ InUse(s, v) => FrameOf(out, v) = FrameOf(s, v)
  <2> DEFINE d == GET_PD_IDX(v)
             t == GET_PT_IDX(v)
  <2>1. d \in Idx /\ t \in Spots
    BY AddressParts DEF Spots
  <2> HIDE DEF d, t
  <2>2. /\ Used(out, KERNEL_PD, d, t) <=> Used(s, KERNEL_PD, d, t)
        /\ Used(s, KERNEL_PD, d, t) => At(out, KERNEL_PD, d, t) = At(s, KERNEL_PD, d, t)
    BY <2>1, Zenon DEF KernelPlacesKept
  <2> QED
    BY <2>2 DEF InUse, FrameOf, d, t
<1>4. \A dir \in dirs : InUse(out, dir.pdt) /\ FrameOf(out, dir.pdt) = FrameOf(s, dir.pdt)
  BY <1>3 DEF FramesShapeOf
<1>5. \A v \in n .. HeapLimit - 1 : InUse(out, v) => InUse(s, v)
  BY <1>3
<1> QED
  BY <1>1, <1>2, <1>4, <1>5, FramesKept


(***************************************************************************)
(* The steps of a creation, one by one.                                    *)
(***************************************************************************)

(* Page 0 and PROGRAM are pages; PROGRAM lies in the kernel image. *)
LEMMA CreationPages ==
  /\ 0 \in VPages /\ GET_PD_IDX(0) = 0 /\ GET_PT_IDX(0) \in Idx
  /\ PROGRAM \in VPages /\ GET_PD_IDX(PROGRAM) = KERNEL_PT_PDT_IDX
  /\ 0 \in Idx /\ KERNEL_PT_PDT_IDX # 0 /\ KERNEL_PT_PDT_IDX \in Idx
<1>1. 0 \in Idx /\ 0 * PT_ENTRIES + 0 = 0 /\ KERNEL_PT_PDT_IDX # 0 /\ KERNEL_PT_PDT_IDX \in Idx
  BY Constants
<1>2. 0 * PT_ENTRIES + 0 \in VPages /\ GET_PD_IDX(0 * PT_ENTRIES + 0) = 0
      /\ GET_PT_IDX(0 * PT_ENTRIES + 0) = 0
  BY <1>1, AddressOfParts
<1> QED
  BY <1>1, <1>2, ProcessAssumption

(* The frame of a process's directory is a root and not the kernel's. *)
LEMMA DirectoryRoot ==
  ASSUME NEW s \in State, NEW ds, NEW k, NEW n, FramesShapeOf(s, ds, k, n), NEW dir \in ds,
         dir.pdt \in VPages
  PROVE  /\ Entry(s, dir.pdt).frame \in RootsOf(s, ds) \ {KERNEL_PD}
         /\ Entry(s, dir.pdt).frame \in Frames
         /\ InUse(s, dir.pdt) /\ Entry(s, dir.pdt).frame = FrameOf(s, dir.pdt)
<1> DEFINE pd == Entry(s, dir.pdt).frame
           R == RootsOf(s, ds)
           W == InHand(s, k)
<1>1. /\ Shape(s, R, W) /\ KERNEL_PD \in R /\ pd \in R /\ KernelTables(s)
      /\ InUse(s, dir.pdt) /\ GET_PD_IDX(dir.pdt) > KERNEL_PT_PDT_IDX
  BY DEF FramesShapeOf, Shape, RootsOf
<1>2. GET_PD_IDX(dir.pdt) \in Idx /\ GET_PT_IDX(dir.pdt) \in Spots
  BY AddressParts DEF Spots
<1>3. dir.pdt \in Pages
  BY <1>1, <1>2, Constants DEF Pages, Idx
<1>4. pd = FrameOf(s, dir.pdt)
  BY <1>1, <1>3, PageEntry DEF InUse, FrameOf
<1>5. FrameOf(s, dir.pdt) \in START .. TOTAL_FRAMES - 1
  BY <1>1, <1>2 DEF Shape, Taken, InUse, FrameOf
<1> QED
  BY <1>1, <1>4, <1>5, Constants DEF Frames


(* Mapping the page of the program changes the kernel image only. *)
LEMMA ProgramMappedShape ==
  ASSUME NEW s \in State, Coherent(s), NEW R, NEW W, Shape(s, R, W), NEW fr \in Frames
  PROVE  LET b == kernel_map_page(s, fr, PROGRAM, TRUE) IN
         /\ Keeps(s, b) /\ b.array = s.array /\ b.pool = s.pool
         /\ Shape(b, R, W) /\ SamePlaces(s, b, R)
<1> DEFINE b == kernel_map_page(s, fr, PROGRAM, TRUE)
           t == GET_PT_IDX(PROGRAM)
           K == KERNEL_PT_PDT_IDX
<1>1. /\ PROGRAM \in VPages /\ GET_PD_IDX(PROGRAM) = K /\ K \in Idx /\ TRUE \in BOOLEAN
      /\ KERNEL_PD \in Frames /\ KERNEL_PT \in Frames /\ KERNEL_PT # KERNEL_PD
      /\ ~IsSlot(KERNEL_PD, K)
  BY CreationPages, Constants DEF IsSlot
<1>2. t \in Idx
  BY <1>1, AddressParts
<1>3. /\ s.mem[KERNEL_PD][K].present /\ s.mem[KERNEL_PD][K].frame = KERNEL_PT
      /\ \A x \in Idx \ {KERNEL_TMP_PT_IDX} : s.mem[KERNEL_PT][x].present
  BY DEF Shape, KernelTables
<1>4. Keeps(s, b)
  BY <1>1, KernelMapPageKeeps
<1>5. b = MapInOldTable(s, KERNEL_PD, fr, PROGRAM, TRUE)
  BY <1>1, <1>3 DEF kernel_map_page, map_page
<1>6. MappedInOldTable(s, KERNEL_PD, fr, PROGRAM, b)
  BY <1>1, <1>5, MapInOldTableEffect
<1> HIDE DEF b, t
<1>7. /\ b.pool = s.pool /\ b.array = s.array
      /\ \A f \in Frames, x \in Idx :
           ~(f = KERNEL_PD /\ x = K) /\ ~(f = KERNEL_PT /\ x \in {0, t}) =>
             b.mem[f][x] = s.mem[f][x]
      /\ b.mem[KERNEL_PD][K].present /\ b.mem[KERNEL_PD][K].frame = KERNEL_PT
      /\ b.mem[KERNEL_PT][0].present
      /\ ~IsSlot(KERNEL_PT, t) => b.mem[KERNEL_PT][t].present
  BY <1>1, <1>3, <1>6, Zenon DEF MappedInOldTable, t
<1>8. ASSUME NEW x \in Idx \ {KERNEL_TMP_PT_IDX}
      PROVE  b.mem[KERNEL_PT][x].present
  <2>1. CASE x = 0
    BY <2>1, <1>7
  <2>2. CASE x = t
    BY <2>2, <1>7 DEF IsSlot
  <2>3. CASE x \notin {0, t}
    <3>1. b.mem[KERNEL_PT][x] = s.mem[KERNEL_PT][x]
      BY <2>3, <1>1, <1>7
    <3> QED
      BY <3>1, <1>3
  <2> QED
    BY <2>1, <2>2, <2>3
<1>9. Shape(b, R, W) /\ SamePlaces(s, b, R)
  BY <1>7, <1>8, ImageShape
<1> QED
  BY <1>4, <1>7, <1>9, Zenon DEF b


(* The calls of process_set_code, as it makes them *)
CodeProgram == kernel_map_page(CodeFrame, CodeFrame.array[0], PROGRAM, TRUE)

(* What process_set_code makes the state *)
LEMMA CodeCalls ==
  ASSUME process_set_code
  PROVE  /\ Idle /\ step = "code" /\ UNCHANGED <<unlucky, dirs, total_malloc_pages, i>>
         /\ CodeFrame.res = 0 =>
              Becomes(CodeFrame) /\ broken' = TRUE /\ step' = "none" /\ process' = process
         /\ CodeFrame.res # 0 =>
              /\ Becomes(CodeMapped(CodeProgram))
              /\ \/ step' = "none" /\ process' = process
                 \/ /\ step' = "map"
                    /\ process' = [process EXCEPT !.process_code_paddr =
                                     CodeMapped(CodeProgram).array[0]]
BY Zenon DEF process_set_code, CodeProgram, ReturnNull, GoOn

(* It gives the slot back. *)
LEMMA CodeKeeps ==
  ASSUME SlotInv, process.pdt \in VPages, process_set_code
  PROVE  Keeps(Now, Now')
<1> DEFINE a == CodeFrame
           fr == a.array[0]
           b == CodeProgram
           c == CodeMapped(b)
<1>1. /\ Now \in State /\ Coherent(Now) /\ 1 \in 1 .. HEAP_PAGES /\ TRUE \in BOOLEAN
      /\ KERNEL_PD \in Frames
  BY Constants DEF SlotInv
<1>2. Keeps(Now, a) /\ fr \in Frames
  BY <1>1, PfAllocateKeeps DEF CodeFrame
<1>3. Keeps(a, b)
  <2> HIDE DEF a, fr
  <2>1. a \in State /\ Coherent(a)
    BY <1>2 DEF Keeps
  <2>2. Keeps(a, kernel_map_page(a, fr, PROGRAM, TRUE))
    BY <2>1, <1>1, <1>2, CreationPages, KernelMapPageKeeps
  <2> QED
    BY <2>2 DEF CodeProgram, a, fr
<1>4. Keeps(b, c)
  <2> HIDE DEF a, b
  <2>1. b \in State /\ Coherent(b)
    BY <1>3 DEF Keeps
  <2>2. PD \in Frames
    BY <1>1, EntryType DEF PD, Entry
  <2>3. b.array[0] \in Frames
    BY <2>1, StateParts, Constants
  <2>4. 0 \in VPages /\ ~IsSlot(PD, GET_PD_IDX(0))
    BY CreationPages, Constants DEF IsSlot
  <2> QED
    BY <2>1, <2>2, <2>3, <2>4, <1>1, MapPageKeeps DEF CodeMapped
<1> HIDE DEF a, b, c
<1>5. Keeps(Now, c) /\ a \in State /\ c \in State
  BY <1>2, <1>3, <1>4, KeepsTransitive DEF Keeps
<1>6. Now' = a \/ Now' = c
  BY <1>5, CodeCalls, BecomesNow DEF a, b, c
<1> QED
  BY <1>2, <1>5, <1>6

(* The new frame comes to a place of the process's directory, and no place of the
   kernel's changes.  *)
LEMMA CodeFrames ==
  ASSUME SlotInv, FramesShape, NEW dir \in dirs, process.pdt = dir.pdt, process_set_code,
         seen' = {}
  PROVE  /\ ~broken' => FramesShapeOf(Now', dirs', i', NextAfter)
         /\ Mapping' = Mapping
<1> DEFINE a == CodeFrame
           fr == a.array[0]
           b == CodeProgram
           c == CodeMapped(b)
           R == RootsOf(Now, dirs)
           W == InHand(Now, i)
           z == 0
<1>1. /\ Now \in State /\ Coherent(Now) /\ Shape(Now, R, W) /\ KERNEL_PD \in R
      /\ FramesShapeOf(Now, dirs, i, HeapNext) /\ dir.pdt \in VPages /\ TRUE \in BOOLEAN
  BY DEF SlotInv, FramesShape, FramesShapeOf, RootsOf
<1>2. /\ i = HEAP_PAGES /\ UNCHANGED <<total_malloc_pages, i, dirs>>
      /\ IF a.res = 0 THEN Becomes(a) /\ broken' ELSE Becomes(c)
  BY CodeCalls DEF Idle
<1>3. PD \in R \ {KERNEL_PD} /\ PD \in Frames
  <2>1. PD = Entry(Now, dir.pdt).frame
    BY DEF PD
  <2> QED
    BY <2>1, <1>1, DirectoryRoot
<1>4. Keeps(Now, Now') /\ Now' \in State
  BY <1>1, CodeKeeps DEF Keeps
<1>5. /\ a \in State /\ Coherent(a) /\ a.mem = Now.mem
      /\ Shape(a, R, W) /\ fr \in Frames
      /\ a.res # 0 => Shape(a, R, W \union {fr}) /\ fr \notin W
  <2> HIDE DEF R, W
  <2> QED
    BY <1>1, OneRequested DEF CodeFrame
<1>6. /\ InHand(Now', i') = W
      /\ \A x, y \in i' .. HEAP_PAGES - 1 : Now'.array[x] = Now'.array[y] => x = y
      /\ NextAfter = HeapNext /\ NextAfter \in Int /\ HeapNext <= NextAfter
  BY <1>1, <1>2, NothingInHand DEF W
<1> HIDE DEF a, fr, R, W
<1>7. CASE a.res = 0
  <2>1. Now' = a
    BY <1>2, <1>5, <1>7, BecomesNow
  <2>2. KernelPlacesKept(Now, Now')
    BY <2>1, <1>5, MemoryPlaces
  <2>3. Mapping' = Mapping
    BY <2>1, <2>2, <1>1, <1>5, SameMaps DEF KernelPlacesKept, Shape
  <2> QED
    BY <2>3, <1>2, <1>7
<1>8. CASE a.res # 0
  <2>1. /\ Keeps(a, b) /\ b.array = a.array /\ b.pool = a.pool
        /\ Shape(b, R, W \union {fr}) /\ SamePlaces(a, b, R)
    <3>1. b = kernel_map_page(a, fr, PROGRAM, TRUE)
      BY DEF CodeProgram, a, fr
    <3> QED
      BY <3>1, <1>5, <1>8, ProgramMappedShape
  <2> HIDE DEF b
  <2>2. b \in State /\ Coherent(b) /\ b.array[0] = fr
    BY <2>1 DEF Keeps, fr
  <2>3. c = map_page(b, PD, fr, z, TRUE)
    BY <2>2 DEF CodeMapped
  <2>4. /\ z \in VPages /\ ~IsSlot(PD, GET_PD_IDX(z)) /\ PD # KERNEL_PD /\ PD \in Frames
        /\ PD \in R /\ fr \in Frames /\ fr \notin W /\ Shape(b, R, W \union {fr})
    BY <2>1, <1>3, <1>5, <1>8, CreationPages, Constants DEF IsSlot
  <2> HIDE DEF c, z
  <2>12. Keeps(b, map_page(b, PD, fr, z, TRUE))
    BY <2>2, <2>4, <1>1, MapPageKeeps
  <2>13. Now' = c
    BY <2>3, <2>12, <1>2, <1>8, BecomesNow DEF Keeps
  <2>5. c.seen = {} =>
             /\ Shape(c, R, W)
             /\ c.res = 0 => c.mem = b.mem
             /\ c.res # 0 =>
                  MapsPlace(b, c, R, W \union {fr}, PD, GET_PD_IDX(z), GET_PT_IDX(z), fr)
    BY <2>2, <2>3, <2>4, <1>1, MapPageShape
  <2>6. c.seen = {}
    BY <2>13 DEF Now
  <2>7. KernelPlacesKept(b, c)
    <3>1. CASE c.res = 0
      BY <3>1, <2>5, <2>6, MemoryPlaces
    <3>2. CASE c.res # 0
      <4>1. MapsPlace(b, c, R, W \union {fr}, PD, GET_PD_IDX(z), GET_PT_IDX(z), fr)
        BY <3>2, <2>5, <2>6
      <4> QED
        BY <4>1, <1>1, <1>3, OtherDirectory
    <3> QED
      BY <3>1, <3>2
  <2>8. KernelPlacesKept(a, b)
    BY <2>1, <1>1 DEF SamePlaces, KernelPlacesKept
  <2>9. KernelPlacesKept(a, c)
    BY <2>7, <2>8 DEF KernelPlacesKept
  <2>10. KernelPlacesKept(Now, Now')
    BY <2>13, <2>9, <1>5, MemoryPlaces
  <2>11. Shape(Now', R, W) /\ Shape(Now', R, {})
    <3>1. W = {}
      BY <1>1, <1>2, NothingInHand DEF W
    <3> QED
      BY <3>1, <2>5, <2>6, <2>13
  <2>14. Mapping' = Mapping
    BY <2>10, <2>11, <1>1, <1>4, SameMaps DEF KernelPlacesKept, Shape
  <2>15. HeapNext \in Nat /\ \A v \in HeapNext .. HeapLimit - 1 : v \in VPages
    BY <1>1, PageSpots
  <2>16. FramesShapeOf(Now', dirs, HEAP_PAGES, HeapNext)
    <3>1. \A q \in dirs : q.pdt \in VPages
      BY DEF SlotInv
    <3> QED
      BY <3>1, <2>10, <2>11, <2>15, <1>1, <1>2, <1>4, PlacesKeptShape DEF R
  <2> QED
    BY <2>14, <2>16, <1>2, <1>6
<1> QED
  BY <1>7, <1>8


(* The last two calls of a creation put entries in the tables that no frame was taken for:
   that of struct PROCESS and those load_process_pdt copies.  The frames still have their
   shape in a state s that differs from the one reached, n, in those only, and in the page
   table of the kernel image.  *)
ProcessRoot(s) == Entry(s, process.pdt).frame

AtProcess(s, f, x) ==
  /\ HasTable(s, ProcessRoot(s), GET_PD_IDX(process.at))
  /\ f = s.mem[ProcessRoot(s)][GET_PD_IDX(process.at)].frame
  /\ x = GET_PT_IDX(process.at)

AtCopied(s, f, x) == f = ProcessRoot(s) /\ x >= KERNEL_PT_PDT_IDX

StandsFor(s, n) ==
  /\ s.pool = n.pool
  /\ \A f \in Frames \ {KERNEL_PT}, x \in Idx :
       n.mem[f][x] = s.mem[f][x] \/ AtProcess(s, f, x) \/ AtCopied(s, f, x)

(* The state n has the kernel's pages where s has them. *)
LEMMA StandsForPages ==
  ASSUME NEW s \in State, NEW ds, NEW k, NEW h, FramesShapeOf(s, ds, k, h),
         NEW dir \in ds, dir.pdt \in VPages, process.pdt = dir.pdt,
         GET_PD_IDX(process.at) \in Idx, NEW n, StandsFor(s, n)
  PROVE  /\ \A e \in Idx : n.mem[KERNEL_PD][e] = s.mem[KERNEL_PD][e]
         /\ \A v \in Pages : Entry(n, v) = Entry(s, v)
         /\ MapOf(n) = MapOf(s)
<1> DEFINE R == RootsOf(s, ds)
           W == InHand(s, k)
           pd == ProcessRoot(s)
           at == GET_PD_IDX(process.at)
<1>1. /\ Shape(s, R, W) /\ KERNEL_PD \in R /\ KernelTables(s) /\ KERNEL_PD \in Frames
      /\ KERNEL_PD # KERNEL_PT
  BY Constants DEF FramesShapeOf, Shape, RootsOf
<1>2. pd \in R \ {KERNEL_PD} /\ pd \in Frames
  <2>1. pd = Entry(s, dir.pdt).frame
    BY DEF ProcessRoot
  <2> QED
    BY <2>1, DirectoryRoot
<1>3. \A f \in Frames \ {KERNEL_PT}, x \in Idx :
        \/ n.mem[f][x] = s.mem[f][x]
        \/ HasTable(s, pd, at) /\ f = s.mem[pd][at].frame
        \/ f = pd
  BY DEF StandsFor, AtProcess, AtCopied
<1> HIDE DEF R, W, pd, at
<1>4. ASSUME NEW f \in Frames \ {KERNEL_PT}, NEW x \in Idx, f # pd,
             HasTable(s, pd, at) => f # s.mem[pd][at].frame
      PROVE  n.mem[f][x] = s.mem[f][x]
  BY <1>3, <1>4
<1>5. at \in Idx
  BY DEF at
<1>6. ASSUME NEW e \in Idx
      PROVE  n.mem[KERNEL_PD][e] = s.mem[KERNEL_PD][e]
  <2>1. HasTable(s, pd, at) => s.mem[pd][at].frame # KERNEL_PD
    BY <1>1, <1>2, <1>5, RootFacts
  <2> QED
    BY <2>1, <1>1, <1>2, <1>4
<1>7. ASSUME NEW v \in Pages
      PROVE  Entry(n, v) = Entry(s, v)
  <2> DEFINE e == GET_PD_IDX(v)
             t == GET_PT_IDX(v)
             T == s.mem[KERNEL_PD][e].frame
  <2>1. e \in Idx /\ t \in Idx /\ e # KERNEL_PT_PDT_IDX
    BY AddressParts DEF Pages
  <2>2. Entry(s, v) = IF s.mem[KERNEL_PD][e].present THEN s.mem[T][t] ELSE Empty
    BY DEF Entry, Walk
  <2>3. Entry(n, v) = IF s.mem[KERNEL_PD][e].present THEN n.mem[T][t] ELSE Empty
    BY <2>1, <1>6 DEF Entry, Walk
  <2> HIDE DEF e, t, T
  <2>4. ASSUME s.mem[KERNEL_PD][e].present
        PROVE  n.mem[T][t] = s.mem[T][t]
    <3>1. HasTable(s, KERNEL_PD, e)
      BY <2>1, <2>4, <1>1 DEF KernelTables, HasTable
    <3>2. /\ T \in Frames /\ T # KERNEL_PT /\ T \notin R
          /\ \A q \in R, g \in Idx : HasTable(s, q, g) /\ s.mem[q][g].frame = T => q = KERNEL_PD
      BY <3>1, <2>1, <1>1, TableFacts DEF T
    <3>3. T # pd /\ (HasTable(s, pd, at) => T # s.mem[pd][at].frame)
      BY <3>2, <1>2, <1>5
    <3> QED
      BY <3>2, <3>3, <2>1, <1>4
  <2> QED
    BY <2>2, <2>3, <2>4
<1>8. MapOf(n) = MapOf(s)
  BY <1>7 DEF MapOf
<1> QED
  BY <1>6, <1>7, <1>8

(* States with the same kernel places map the same pages. *)
LEMMA PlacesMaps ==
  ASSUME NEW s \in State, NEW m \in State, KernelTables(s), KernelTables(m),
         KernelPlacesKept(s, m)
  PROVE  MapOf(m) = MapOf(s)
<1> DEFINE U(q, x) == Used(q, KERNEL_PD, GET_PD_IDX(x), GET_PT_IDX(x))
           A(q, x) == At(q, KERNEL_PD, GET_PD_IDX(x), GET_PT_IDX(x))
           f == MapOf(s)
           g == MapOf(m)
<1>1. /\ f \in [Pages -> Frames \union {NoFrame}] /\ g \in [Pages -> Frames \union {NoFrame}]
      /\ \A x \in Pages : IF U(s, x) THEN f[x] = A(s, x) /\ f[x] \in Frames ELSE f[x] = NoFrame
      /\ \A x \in Pages : IF U(m, x) THEN g[x] = A(m, x) /\ g[x] \in Frames ELSE g[x] = NoFrame
  BY MapOfPlaces
<1>2. \A x \in Pages : GET_PD_IDX(x) \in Idx /\ GET_PT_IDX(x) \in Spots
  BY AddressParts DEF Pages, Spots
<1>3. ASSUME NEW x \in Pages PROVE g[x] = f[x]
  <2>1. /\ U(m, x) <=> U(s, x)
        /\ U(s, x) => A(m, x) = A(s, x)
    BY <1>2 DEF KernelPlacesKept
  <2> QED
    BY <2>1, <1>1
<1> HIDE DEF f, g, U, A
<1>4. g = f
  BY <1>1, <1>3
<1> QED
  BY <1>4 DEF f, g


(* m is out without the entry of page v of directory pd. *)
Without(m, out, pd, v) ==
  /\ m \in State /\ m.pool = out.pool
  /\ \A f \in Frames, x \in Idx :
       \/ out.mem[f][x] = m.mem[f][x]
       \/ /\ HasTable(m, pd, GET_PD_IDX(v))
          /\ f = m.mem[pd][GET_PD_IDX(v)].frame /\ x = GET_PT_IDX(v)

(* map_page of a page of a process to any address: without the entry, the shape and the
   kernel's places are as they were.  *)
LEMMA MappedWithout ==
  ASSUME NEW s \in State, Coherent(s), NEW R, NEW W, Shape(s, R, W),
         NEW pd \in R \ {KERNEL_PD}, NEW fr \in Frames, NEW v \in VPages, NEW u \in BOOLEAN,
         ~IsSlot(pd, GET_PD_IDX(v)), NEW out, out = map_page(s, pd, fr, v, u), out.seen = {}
  PROVE  \E m : Without(m, out, pd, v) /\ Shape(m, R, W) /\ KernelPlacesKept(s, m)
<1> DEFINE d == GET_PD_IDX(v)
           t == GET_PT_IDX(v)
           T == out.mem[pd][d].frame
<1>1. /\ d \in Idx /\ t \in Idx /\ pd \in Frames /\ pd \in R /\ pd # KERNEL_PD
      /\ Directories(s, R)
  BY AddressParts, RootFacts DEF Shape
<1>2. Keeps(s, out) /\ out \in State
  BY <1>1, MapPageKeeps DEF Keeps
<1>3. ASSUME MapsPlace(s, out, R, W, pd, d, t, fr)
      PROVE  \E m : Without(m, out, pd, v) /\ Shape(m, R, W) /\ KernelPlacesKept(s, m)
  <2> DEFINE m == With(out, Put(out.mem, T, t, Empty), out.tlb, out.res)
  <2>1. T \in Frames
    <3>1. out.mem[pd][d] \in PTE
      BY <1>1, <1>2, StateParts DEF Memory
    <3> QED
      BY <3>1 DEF PTE
  <2>2. Empty \in PTE
    BY Constants DEF Empty, PTE
  <2> HIDE DEF d, t, T
  <2>3. /\ m \in State /\ m.mem[T][t] = Empty /\ m.pool = out.pool
        /\ \A g \in Frames, y \in Idx : ~(g = T /\ y = t) => m.mem[g][y] = out.mem[g][y]
    <3>1. t \in Idx /\ out \in State
      BY <1>1, <1>2
    <3> HIDE DEF m
    <3>2. m = With(out, Put(out.mem, T, t, Empty), out.tlb, out.res)
      BY DEF m
    <3> QED
      BY <3>1, <3>2, <2>1, <2>2, PutState
  <2> HIDE DEF m
  <2>4. \A f \in Frames, x \in Idx :
          m.mem[f][x] = IF f = T /\ x = t THEN Empty ELSE out.mem[f][x]
    BY <2>3
  <2>5. T = out.mem[pd][d].frame
    BY DEF T
  <2>6. /\ Shape(m, R, W) /\ KernelPlacesKept(s, m)
        /\ HasTable(m, pd, d) /\ m.mem[pd][d].frame = T
    BY <2>3, <2>4, <2>5, <1>1, <1>3, WithoutShape
  <2>7. Without(m, out, pd, v)
    BY <2>3, <2>4, <2>6 DEF Without, d, t
  <2> QED
    BY <2>6, <2>7
<1>4. CASE s.mem[pd][d].present
  <2>1. MappedInOldTable(s, pd, fr, v, out)
    <3>1. out = MapInOldTable(s, pd, fr, v, u)
      BY <1>4 DEF map_page
    <3> QED
      BY <3>1, <1>1, MapInOldTableEffect
  <2>2. s.mem[pd][d] = Junk => "stray" \in out.seen
    BY <2>1, <1>1, Zenon DEF MappedInOldTable
  <2>3. HasTable(s, pd, d)
    BY <2>2, <1>1, <1>4 DEF HasTable, Directories
  <2>4. MapsPlace(s, out, R, W, pd, d, t, fr)
    <3>1. "ghost" \notin out.seen
      OBVIOUS
    <3> HIDE DEF d, t
    <3>2. HasTable(s, pd, GET_PD_IDX(v))
      BY <2>3 DEF d
    <3>3. MapsPlace(s, out, R, W, pd, GET_PD_IDX(v), GET_PT_IDX(v), fr)
      BY <3>1, <3>2, <2>1, <1>1, MapOldPlaces
    <3> QED
      BY <3>3 DEF d, t
  <2> QED
    BY <2>4, <1>3
<1>5. CASE ~s.mem[pd][d].present
  <2>1. MappedInNewTable(s, pd, fr, v, out)
    <3>1. out = MapInNewTable(s, pd, fr, v, u)
      BY <1>5 DEF map_page
    <3> QED
      BY <3>1, <1>1, MapInNewTableEffect
  <2>2. CASE out.res # 0
    <3>1. MapsPlace(s, out, R, W, pd, GET_PD_IDX(v), GET_PT_IDX(v), fr)
      BY <2>1, <2>2, <1>1, <1>5, MapNewPlaces
    <3> QED
      BY <3>1, <1>3
  <2>3. CASE out.res = 0
    <3> DEFINE a == pf_allocate_frames(s, 1)
    <3>1. out.pool = a.pool /\ out.mem = s.mem
      BY <2>1, <2>3, Zenon DEF MappedInNewTable
    <3>2. Shape(a, R, W) /\ a.mem = s.mem
      BY OneRequested
    <3> HIDE DEF a
    <3>3. /\ Free(out) = Free(a) /\ W \intersect Free(a) = {}
          /\ \A x, y \in 1 .. Len(out.pool) : out.pool[x] = out.pool[y] => x = y
      BY <3>1, <3>2 DEF Free, Shape, Untouched
    <3>4. Shape(out, R, W)
      BY <3>1, <3>2, <3>3, ShapeSubset
    <3>5. KernelPlacesKept(s, out)
      BY <3>1, MemoryPlaces
    <3>6. Without(out, out, pd, v)
      BY <1>2 DEF Without
    <3> QED
      BY <3>4, <3>5, <3>6
  <2> QED
    BY <2>2, <2>3
<1> QED
  BY <1>4, <1>5


(* The calls of process_map_process, as it makes them *)
PageHeld == get_page(Now, process.at)
PageMapped ==
  IF process.null THEN PageHeld ELSE map_page(PageHeld, PD, PageHeld.res, process.at, TRUE)
PageReleased == kernel_set_temporary_entry(PageMapped, kernel_get_temporary_entry(Now))

(* What process_map_process makes the state *)
LEMMA MapCalls ==
  ASSUME process_map_process
  PROVE  /\ Idle /\ step = "map" /\ UNCHANGED <<dirs, total_malloc_pages, i, broken, process>>
         /\ Becomes(PageReleased)
         /\ step' = IF process.null THEN "none" ELSE "load"
BY Zenon DEF process_map_process, ProcessMapped, PageReleased, PageMapped, PageHeld, GoOn

(* The slot is taken for the page and map_page borrows it from there; it is given back as
   it was at first.  *)
LEMMA MapKeeps ==
  ASSUME SlotInv, process.at \in VPages, GET_PD_IDX(process.at) < KERNEL_PT_PDT_IDX,
         process.pdt \in VPages
  PROVE  /\ PageHeld \in State /\ Coherent(PageHeld) /\ PageHeld.res = KERNEL_TEMP_VADDR
         /\ PageHeld.pool = pool /\ PageHeld.seen = seen
         /\ \A g \in Frames, y \in Idx : ~IsSlot(g, y) => PageHeld.mem[g][y] = mem[g][y]
         /\ PageMapped \in State /\ PD \in Frames /\ ~IsSlot(PD, GET_PD_IDX(process.at))
         /\ Keeps(Now, PageReleased) /\ PageReleased.pool = PageMapped.pool
         /\ PageReleased.seen = PageMapped.seen
         /\ \A g \in Frames, y \in Idx :
              ~IsSlot(g, y) => PageReleased.mem[g][y] = PageMapped.mem[g][y]
<1> DEFINE a == PageHeld
           b == PageMapped
           v == process.at
           T == mem[KERNEL_PD][GET_PD_IDX(v)].frame
<1>1. Now \in State /\ Coherent(Now) /\ v \in VPages /\ TRUE \in BOOLEAN
  BY DEF SlotInv
<1>2. T \in Frames /\ a = temp_map_page(Now, T)
  <2>1. Now.mem \in Memory /\ GET_PD_IDX(v) \in Idx /\ KERNEL_PD \in Frames
    BY <1>1, AddressParts, StateParts, Constants
  <2>2. Now.mem[KERNEL_PD][GET_PD_IDX(v)] \in PTE
    BY <2>1 DEF Memory
  <2>3. Now.mem = mem
    BY DEF Now
  <2> QED
    BY <2>2, <2>3 DEF PTE, PageHeld, get_page
<1> HIDE DEF a, b, T
<1>3. /\ a \in State /\ Coherent(a) /\ a.pool = Now.pool /\ a.seen = Now.seen
      /\ a.res = KERNEL_TEMP_VADDR
      /\ \A g \in Frames, y \in Idx : ~IsSlot(g, y) => a.mem[g][y] = Now.mem[g][y]
  BY <1>1, <1>2, TempMapState
<1>4. PD \in Frames
  BY <1>1, EntryType, Constants DEF PD, Entry
<1>5. ~IsSlot(PD, GET_PD_IDX(v))
  <2>1. GET_PD_IDX(v) \in Idx
    BY <1>1, AddressParts
  <2> QED
    BY <2>1, Constants DEF IsSlot, Idx
<1>6. /\ b \in State /\ a.seen \subseteq b.seen
      /\ ("stale" \in b.seen => "stale" \in a.seen)
  <2>1. a.res \in Frames
    BY <1>3, Constants DEF Allocatable
  <2>2. Keeps(a, map_page(a, PD, a.res, v, TRUE))
    BY <2>1, <1>1, <1>3, <1>4, <1>5, MapPageKeeps
  <2>3. b = a \/ b = map_page(a, PD, a.res, v, TRUE)
    BY DEF b, a, PageMapped
  <2> QED
    BY <2>2, <2>3, <1>3 DEF Keeps
<1>7. /\ Keeps(Now, PageReleased) /\ PageReleased.pool = b.pool /\ PageReleased.seen = b.seen
  <2>1. PageReleased = kernel_set_temporary_entry(b, kernel_get_temporary_entry(Now))
    BY DEF PageReleased, b
  <2> QED
    BY <2>1, <1>1, <1>3, <1>6, SlotReturned
<1>8. \A g \in Frames, y \in Idx : ~IsSlot(g, y) => PageReleased.mem[g][y] = b.mem[g][y]
  <2>1. kernel_get_temporary_entry(Now) \in PTE
    <3>1. Now.mem[KERNEL_PT][KERNEL_TMP_PT_IDX] \in PTE
      BY <1>1, StateParts, Constants DEF Memory
    <3> QED
      BY <3>1 DEF kernel_get_temporary_entry
  <2>2. PageReleased = kernel_set_temporary_entry(b, kernel_get_temporary_entry(Now))
    BY DEF PageReleased, b
  <2> QED
    BY <2>1, <2>2, <1>6, SetSlotState
<1>9. Now.pool = pool /\ Now.seen = seen /\ Now.mem = mem
  BY DEF Now
<1> QED
  BY <1>3, <1>4, <1>5, <1>6, <1>7, <1>8, <1>9 DEF a, b


(* Where the kernel's places are kept, a directory has the same root. *)
LEMMA SameRoot ==
  ASSUME NEW s \in State, NEW m \in State, NEW ds, NEW k, NEW n, FramesShapeOf(s, ds, k, n),
         FramesShapeOf(m, ds, k, n), NEW dir \in ds, dir.pdt \in VPages, KernelPlacesKept(s, m)
  PROVE  Entry(m, dir.pdt).frame = Entry(s, dir.pdt).frame
<1> DEFINE d == GET_PD_IDX(dir.pdt)
           t == GET_PT_IDX(dir.pdt)
<1>1. d \in Idx /\ t \in Spots
  BY AddressParts DEF Spots
<1>2. /\ InUse(s, dir.pdt) /\ Entry(s, dir.pdt).frame = FrameOf(s, dir.pdt)
      /\ Entry(m, dir.pdt).frame = FrameOf(m, dir.pdt)
  BY DirectoryRoot
<1> HIDE DEF d, t
<1>3. Used(s, KERNEL_PD, d, t) => At(m, KERNEL_PD, d, t) = At(s, KERNEL_PD, d, t)
  BY <1>1 DEF KernelPlacesKept
<1> QED
  BY <1>2, <1>3 DEF InUse, FrameOf, d, t

(* The page of struct PROCESS comes to the process's directory, at an address that is no
   frame's; without it the shape is as it was.  *)
LEMMA MapProcessFrames ==
  ASSUME SlotInv, FramesShape, NEW dir \in dirs, process.pdt = dir.pdt,
         process.at \in VPages, GET_PD_IDX(process.at) < KERNEL_PT_PDT_IDX,
         process_map_process, seen' = {}
  PROVE  /\ Mapping' = Mapping
         /\ process.null => FramesShapeOf(Now', dirs, HEAP_PAGES, HeapNext)
         /\ \E s \in State : FramesShapeOf(s, dirs, HEAP_PAGES, HeapNext) /\ StandsFor(s, Now')
<1> DEFINE a == PageHeld
           b == PageMapped
           r == PageReleased
           R == RootsOf(Now, dirs)
           K == KERNEL_PT_PDT_IDX
<1>1. /\ Now \in State /\ Coherent(Now) /\ KERNEL_PD \in R
      /\ FramesShapeOf(Now, dirs, i, HeapNext) /\ dir.pdt \in VPages /\ process.pdt \in VPages
      /\ \A q \in dirs : q.pdt \in VPages
      /\ HeapNext \in Nat /\ \A v \in HeapNext .. HeapLimit - 1 : v \in VPages
  BY PageSpots DEF SlotInv, FramesShape, RootsOf
<1>2. /\ i = HEAP_PAGES /\ UNCHANGED <<dirs, total_malloc_pages, i>> /\ Becomes(r)
  BY MapCalls DEF Idle
<1>3. FramesShapeOf(Now, dirs, HEAP_PAGES, HeapNext) /\ Shape(Now, R, {}) /\ KernelTables(Now)
  <2>1. InHand(Now, i) = {}
    BY <1>1, <1>2, NothingInHand
  <2>2. Shape(Now, R, InHand(Now, i))
    BY <1>1 DEF FramesShapeOf
  <2> QED
    BY <2>1, <2>2, <1>1, <1>2 DEF Shape
<1>4. PD \in R \ {KERNEL_PD} /\ PD = Entry(Now, dir.pdt).frame
  <2>1. PD = Entry(Now, dir.pdt).frame
    BY DEF PD
  <2> QED
    BY <2>1, <1>1, DirectoryRoot
<1>5. /\ a \in State /\ Coherent(a) /\ a.res = KERNEL_TEMP_VADDR /\ a.pool = Now.pool
      /\ \A g \in Frames, y \in Idx : ~IsSlot(g, y) => a.mem[g][y] = Now.mem[g][y]
      /\ ~IsSlot(PD, GET_PD_IDX(process.at))
      /\ b \in State /\ r.pool = b.pool /\ r.seen = b.seen /\ Keeps(Now, r)
      /\ \A g \in Frames, y \in Idx : ~IsSlot(g, y) => r.mem[g][y] = b.mem[g][y]
  BY <1>1, MapKeeps DEF Now
<1>6. process.null => b = a
  BY DEF PageMapped
<1>7. ~process.null => b = map_page(a, PD, a.res, process.at, TRUE)
  BY DEF PageMapped
<1> HIDE DEF a, b, r, R
<1>8. Now' = r /\ r \in State
  BY <1>2, <1>5, BecomesNow DEF Keeps
<1>9. b.seen = {}
  <2>1. Now'.seen = {}
    BY DEF Now
  <2> QED
    BY <2>1, <1>5, <1>8
<1>10. ASSUME NEW q, q.pool = Now.pool,
              \A g \in Frames, y \in Idx : ~IsSlot(g, y) => q.mem[g][y] = Now.mem[g][y]
       PROVE  Shape(q, R, {}) /\ SamePlaces(Now, q, R) /\ KernelPlacesKept(Now, q)
  <2>1. /\ KERNEL_PD \in Frames /\ KERNEL_PT \in Frames /\ K \in Idx
        /\ ~IsSlot(KERNEL_PD, K) /\ \A x \in Idx \ {KERNEL_TMP_PT_IDX} : ~IsSlot(KERNEL_PT, x)
    BY Constants DEF IsSlot
  <2>2. q.mem[KERNEL_PD][K] = Now.mem[KERNEL_PD][K]
        /\ \A x \in Idx \ {KERNEL_TMP_PT_IDX} : q.mem[KERNEL_PT][x] = Now.mem[KERNEL_PT][x]
    BY <2>1, <1>10
  <2>3. /\ q.mem[KERNEL_PD][K].present /\ q.mem[KERNEL_PD][K].frame = KERNEL_PT
        /\ \A x \in Idx \ {KERNEL_TMP_PT_IDX} : q.mem[KERNEL_PT][x].present
    BY <2>2, <1>3 DEF KernelTables
  <2>4. \A g \in Frames, y \in Idx :
          g # KERNEL_PT /\ ~(g = KERNEL_PD /\ y = K) => q.mem[g][y] = Now.mem[g][y]
    BY <1>10 DEF IsSlot
  <2>5. Shape(q, R, {}) /\ SamePlaces(Now, q, R)
    BY <2>3, <2>4, <1>1, <1>3, <1>10, ImageShape
  <2> QED
    BY <2>5, <1>1 DEF SamePlaces, KernelPlacesKept
<1>11. Shape(a, R, {}) /\ KernelPlacesKept(Now, a)
  BY <1>5, <1>10
<1>12. PICK m \in State : /\ FramesShapeOf(m, dirs, HEAP_PAGES, HeapNext)
                          /\ KernelPlacesKept(Now, m) /\ Without(m, b, PD, process.at)
  <2>1. ASSUME NEW m, Shape(m, R, {}), KernelPlacesKept(a, m), Without(m, b, PD, process.at)
        PROVE  /\ m \in State /\ FramesShapeOf(m, dirs, HEAP_PAGES, HeapNext)
               /\ KernelPlacesKept(Now, m)
    <3>1. m \in State
      BY <2>1 DEF Without
    <3>2. KernelPlacesKept(Now, m)
      BY <2>1, <1>11 DEF KernelPlacesKept
    <3>3. FramesShapeOf(m, dirs, HEAP_PAGES, HeapNext)
      BY <3>1, <3>2, <2>1, <1>1, <1>3, PlacesKeptShape DEF R
    <3> QED
      BY <3>1, <3>2, <3>3
  <2>2. CASE process.null
    <3>1. Without(a, b, PD, process.at) /\ KernelPlacesKept(a, a)
      BY <2>2, <1>5, <1>6 DEF Without, KernelPlacesKept
    <3> QED
      BY <3>1, <2>1, <1>11
  <2>3. CASE ~process.null
    <3>1. b = map_page(a, PD, KERNEL_TEMP_VADDR, process.at, TRUE)
          /\ KERNEL_TEMP_VADDR \in Frames /\ TRUE \in BOOLEAN
      BY <2>3, <1>5, <1>7, Constants DEF Allocatable
    <3>2. \E m : Without(m, b, PD, process.at) /\ Shape(m, R, {}) /\ KernelPlacesKept(a, m)
      BY <3>1, <1>4, <1>5, <1>9, <1>11, MappedWithout
    <3> QED
      BY <3>2, <2>1, <2>3
  <2> QED
    BY <2>2, <2>3
<1>13. ProcessRoot(m) = PD
  <2>1. Entry(m, dir.pdt).frame = Entry(Now, dir.pdt).frame
    BY <1>1, <1>3, <1>12, SameRoot
  <2> QED
    BY <2>1, <1>4 DEF ProcessRoot
<1>14. StandsFor(m, r)
  <2>1. ASSUME NEW f \in Frames \ {KERNEL_PT}, NEW x \in Idx
        PROVE  r.mem[f][x] = m.mem[f][x] \/ AtProcess(m, f, x)
    <3>1. r.mem[f][x] = b.mem[f][x]
      BY <1>5 DEF IsSlot
    <3> QED
      BY <3>1, <1>12, <1>13 DEF Without, AtProcess
  <2>2. m.pool = r.pool
    BY <1>5, <1>12 DEF Without
  <2> QED
    BY <2>1, <2>2 DEF StandsFor
<1>15. Mapping' = Mapping
  <2>1. GET_PD_IDX(process.at) \in Idx
    BY AddressParts
  <2>2. MapOf(r) = MapOf(m)
    BY <2>1, <1>1, <1>12, <1>14, StandsForPages
  <2>3. KernelTables(m)
    BY <1>12 DEF FramesShapeOf, Shape
  <2>4. MapOf(m) = MapOf(Now)
    BY <2>3, <1>1, <1>3, <1>12, PlacesMaps
  <2> QED
    BY <2>2, <2>4, <1>8, MappingOfNow
<1>16. ASSUME process.null PROVE FramesShapeOf(Now', dirs, HEAP_PAGES, HeapNext)
  <2>1. b = a /\ r.pool = Now.pool
        /\ \A g \in Frames, y \in Idx : ~IsSlot(g, y) => r.mem[g][y] = Now.mem[g][y]
    BY <1>5, <1>6, <1>16
  <2>2. Shape(r, R, {}) /\ KernelPlacesKept(Now, r)
    BY <2>1, <1>10
  <2> QED
    BY <2>2, <1>1, <1>3, <1>8, PlacesKeptShape DEF R
<1> QED
  BY <1>8, <1>12, <1>14, <1>15, <1>16


(* What load_process_pdt makes the state *)
Loaded ==
  [Now EXCEPT !.mem[PD] = [d \in Idx |-> IF Copied(d) THEN mem[KERNEL_PD][d] ELSE @[d]]]

(* The call as a step from one state to another *)
LEMMA LoadCalls ==
  ASSUME load_process_pdt
  PROVE  /\ Idle /\ step = "load" /\ step' = "entered" /\ Becomes(Loaded)
         /\ UNCHANGED <<dirs, total_malloc_pages, i, process>>
BY Zenon DEF load_process_pdt, Loaded

(* It writes entries of the process's directory past the kernel's half. *)
LEMMA LoadedState ==
  ASSUME Now \in State, process.pdt \in VPages
  PROVE  /\ Loaded \in State /\ PD \in Frames /\ Loaded.pool = pool /\ Loaded.seen = seen
         /\ \A f \in Frames, x \in Idx :
              f # PD \/ x < KERNEL_PT_PDT_IDX => Loaded.mem[f][x] = mem[f][x]
<1> DEFINE table == [d \in Idx |-> IF Copied(d) THEN mem[KERNEL_PD][d] ELSE mem[PD][d]]
           m == [mem EXCEPT ![PD] = table]
<1>1. Now.mem = mem /\ Now.pool = pool /\ Now.seen = seen /\ mem \in Memory
  <2>1. Now.mem \in Memory
    BY StateParts
  <2> QED
    BY <2>1 DEF Now
<1>2. PD \in Frames /\ KERNEL_PD \in Frames
  BY EntryType, Constants DEF PD, Entry
<1>3. table \in [Idx -> PTE]
  BY <1>1, <1>2 DEF Memory
<1>4. m \in Memory /\ \A f \in Frames : m[f] = IF f = PD THEN table ELSE mem[f]
  <2> HIDE DEF table
  <2> QED
    BY <1>1, <1>2, <1>3 DEF Memory
<1>5. Loaded = [Now EXCEPT !.mem = m]
  BY <1>1 DEF Loaded, Now
<1> HIDE DEF m
<1>6. Loaded \in State /\ Loaded.mem = m /\ Loaded.pool = pool /\ Loaded.seen = seen
  <2>1. m \in [Frames -> [Idx -> PTE]]
    BY <1>4 DEF Memory
  <2> QED
    BY <2>1, <1>1, <1>5 DEF State, Now
<1>7. ASSUME NEW f \in Frames, NEW x \in Idx, f # PD \/ x < KERNEL_PT_PDT_IDX
      PROVE  Loaded.mem[f][x] = mem[f][x]
  <2>1. CASE f # PD
    BY <2>1, <1>4, <1>6
  <2>2. CASE f = PD /\ x < KERNEL_PT_PDT_IDX
    <3>1. ~Copied(x)
      BY <2>2, Constants DEF Copied, Idx
    <3>2. Loaded.mem[f] = table
      BY <2>2, <1>4, <1>6
    <3> QED
      BY <2>2, <3>1, <3>2
  <2> QED
    BY <2>1, <2>2, <1>7
<1> QED
  BY <1>2, <1>6, <1>7

(* The tables load_process_pdt copies to the directory of the process are no news to the
   kernel's.  *)
LEMMA LoadFrames ==
  ASSUME Now \in State, NEW dir \in dirs, process.pdt = dir.pdt, dir.pdt \in VPages,
         GET_PD_IDX(process.at) \in Idx, NEW s \in State, NEW h,
         FramesShapeOf(s, dirs, HEAP_PAGES, h), StandsFor(s, Now), load_process_pdt
  PROVE  StandsFor(s, Now') /\ Mapping' = Mapping
<1>1. /\ Loaded \in State /\ PD \in Frames /\ Loaded.pool = pool /\ Now' = Loaded
      /\ \A f \in Frames, x \in Idx :
           f # PD \/ x < KERNEL_PT_PDT_IDX => Loaded.mem[f][x] = mem[f][x]
  BY LoadCalls, LoadedState, BecomesNow
<1>2. Now.mem = mem /\ Now.pool = pool
  BY DEF Now
<1>3. MapOf(Now) = MapOf(s) /\ \A v \in Pages : Entry(Now, v) = Entry(s, v)
  BY StandsForPages
<1>4. PD = ProcessRoot(s)
  <2>1. GET_PD_IDX(dir.pdt) > KERNEL_PT_PDT_IDX /\ GET_PD_IDX(dir.pdt) \in Idx
    BY AddressParts DEF FramesShapeOf
  <2>2. dir.pdt \in Pages
    BY <2>1, Constants DEF Pages, Idx
  <2> QED
    BY <2>2, <1>3 DEF PD, ProcessRoot
<1>5. StandsFor(s, Now')
  <2>1. ASSUME NEW f \in Frames \ {KERNEL_PT}, NEW x \in Idx
        PROVE  Loaded.mem[f][x] = s.mem[f][x] \/ AtProcess(s, f, x) \/ AtCopied(s, f, x)
    <3>1. CASE AtCopied(s, f, x)
      BY <3>1
    <3>2. CASE ~AtCopied(s, f, x)
      <4>1. f # PD \/ x < KERNEL_PT_PDT_IDX
        BY <3>2, <1>4, Constants DEF AtCopied, Idx
      <4>2. Loaded.mem[f][x] = Now.mem[f][x]
        BY <4>1, <1>1, <1>2
      <4> QED
        BY <4>2 DEF StandsFor
    <3> QED
      BY <3>1, <3>2
  <2>2. s.pool = Loaded.pool
    BY <1>1, <1>2 DEF StandsFor
  <2> QED
    BY <2>1, <2>2, <1>1 DEF StandsFor
<1>6. MapOf(Now') = MapOf(s)
  BY <1>5, StandsForPages
<1> QED
  BY <1>3, <1>5, <1>6, MappingOfNow


(***************************************************************************)
(* The invariant.                                                          *)
(***************************************************************************)

(* Where a creation stands: from process_set_pdt on its directory is one of dirs. *)
Fields == {"at", "null", "pdt", "pdt_paddr", "kernel_stack_vaddr", "process_stack_paddr",
           "process_code_paddr"}

CreationInv ==
  /\ step \in Steps /\ (step # "none" => i = HEAP_PAGES)
  /\ step \notin {"none", "pdt"} => \E dir \in dirs : dir.pdt = process.pdt
  /\ DOMAIN process = Fields
  /\ process.at \in VPages /\ GET_PD_IDX(process.at) < KERNEL_PT_PDT_IDX
  /\ process.pdt \in VPages

(* What a state stands for once the page of struct PROCESS is mapped *)
Standing ==
  \E s \in State : FramesShapeOf(s, dirs, HEAP_PAGES, HeapNext) /\ StandsFor(s, Now)

LoadInv ==
  /\ Now \in State /\ NoStaleAccess /\ \A dir \in dirs : dir.pdt \in VPages
  /\ seen = {} /\ ~broken => Standing

ProcessInv ==
  CreationInv /\ IF step \in {"load", "entered"} THEN LoadInv ELSE FramesInv

(* Standing after a step is that of the new state. *)
LEMMA StandingNow ==
  ASSUME process' = process, NEW s \in State,
         FramesShapeOf(s, dirs', HEAP_PAGES, NextAfter), StandsFor(s, Now')
  PROVE  Standing'
<1>1. FramesShapeOf(s, dirs, HEAP_PAGES, HeapNext)'
  <2>1. HeapNext' = NextAfter
    BY DEF HeapNext, NextAfter
  <2> QED
    BY <2>1 DEF FramesShapeOf, Shape, Unique, Taken, Untouched, KernelTables, Directories,
       RootsOf, InHand, InUse, Used, HasTable, At, Free, Entry, Walk
<1>2. StandsFor(s, Now)'
  BY DEF StandsFor, AtProcess, AtCopied, ProcessRoot, HasTable, Entry, Walk, Now
<1> QED
  BY <1>1, <1>2 DEF Standing, State, PTE, Frames, Idx, Allocatable, Notes

(* The steps that only call functions of Paging, and in what state they leave a creation *)
PagingStep ==
  \/ Malloc \/ process_set_pdt \/ SetStack \/ SetKernelStack

(* Such a step is one of Paging; while a process is created, one that maps a page. *)
LEMMA PagingSteps ==
  ASSUME CreationInv, PagingStep
  PROVE  /\ Next /\ step \in {"none", "pdt", "stack", "kernel_stack"}
         /\ step' \in {"none", "stack", "kernel_stack", "code"}
         /\ step # "none" => \/ create_pdt \/ process_set_kernel_stack
                            \/ \E dir \in dirs : process_set_stack(dir)
<1>1. CASE Malloc
  BY <1>1 DEF Malloc, Next, exec_vars
<1>2. CASE process_set_pdt
  BY <1>2 DEF process_set_pdt, Next, ReturnNull, GoOn
<1>3. CASE SetStack
  <2>1. PICK dir \in dirs : dir.pdt = process.pdt
    BY <1>3 DEF SetStack, CreationInv
  <2>2. process_set_stack(dir)
    BY <1>3, <2>1 DEF SetStack, process_set_stack
  <2>3. step = "stack" /\ step' \in {"none", "kernel_stack"}
    BY <1>3 DEF SetStack, ReturnNull, GoOn
  <2> QED
    BY <2>1, <2>2, <2>3 DEF Next
<1>4. CASE SetKernelStack
  BY <1>4 DEF SetKernelStack, Next, ReturnNull, GoOn
<1> QED
  BY <1>1, <1>2, <1>3, <1>4 DEF PagingStep

(* A creation begins with a block on a page of the heap, or at page 0, and keeps to one
   directory.  *)
LEMMA CreationSteps ==
  ASSUME CreationInv, step \notin {"load", "entered"} => SlotInv, [ProcessNext]_process_vars
  PROVE  CreationInv'
<1>1. /\ step \in Steps /\ (step # "none" => i = HEAP_PAGES)
      /\ step \notin {"none", "pdt"} => \E dir \in dirs : dir.pdt = process.pdt
      /\ DOMAIN process = Fields
      /\ process.at \in VPages /\ GET_PD_IDX(process.at) < KERNEL_PT_PDT_IDX
      /\ process.pdt \in VPages
  BY DEF CreationInv
<1>2. ASSUME step' \in Steps, i' = i, i = HEAP_PAGES, dirs' = dirs,
             DOMAIN process' = Fields, process'.at = process.at, process'.pdt = process.pdt,
             step \notin {"none", "pdt"}
      PROVE  CreationInv'
  BY <1>1, <1>2 DEF CreationInv
<1>3. CASE UNCHANGED process_vars
  BY <1>1, <1>3 DEF CreationInv, process_vars, vars, exec_vars
<1>4. CASE Malloc
  <2>1. step = "none" /\ UNCHANGED exec_vars
    BY <1>4 DEF Malloc
  <2> QED
    BY <2>1, <1>1 DEF CreationInv, exec_vars
<1>5. CASE sys_exec
  <2>1. /\ i = HEAP_PAGES /\ i' = i /\ step' = "pdt" /\ step = "none"
        /\ \/ \E v \in HeapPages : process' = Blank(v, FALSE)
           \/ process' = Blank(0, TRUE)
    BY <1>5 DEF sys_exec, Idle
  <2>2. SlotInv
    BY <2>1
  <2>3. ASSUME NEW v, NEW null, v = 0 \/ v \in HeapPages
        PROVE  /\ DOMAIN Blank(v, null) = Fields
               /\ Blank(v, null).at \in VPages /\ GET_PD_IDX(Blank(v, null).at) < KERNEL_PT_PDT_IDX
               /\ Blank(v, null).pdt \in VPages
    <3>1. v \in VPages /\ GET_PD_IDX(v) < KERNEL_PT_PDT_IDX
      <4>1. CASE v = 0
        BY <4>1, CreationPages, Constants DEF Idx
      <4>2. CASE v \in HeapPages
        <5>1. v \in Nat /\ v < total_malloc_pages /\ total_malloc_pages \in Nat
              /\ total_malloc_pages <= HeapLimit
          BY <4>2, <2>2 DEF HeapPages, SlotInv
        <5> QED
          BY <5>1, HeapPage
      <4> QED
        BY <4>1, <4>2, <2>3
    <3> QED
      BY <3>1, CreationPages DEF Blank, Fields
  <2> QED
    BY <2>1, <2>3 DEF CreationInv, Steps
<1>6. CASE process_set_pdt
  <2>1. /\ create_pdt /\ i' = i /\ step = "pdt" /\ i = HEAP_PAGES
    BY <1>6 DEF process_set_pdt, create_pdt, Idle
  <2>2. CASE ReturnNull
    BY <2>1, <2>2, <1>1 DEF CreationInv, ReturnNull, GoOn, Steps
  <2>3. CASE \E dir \in dirs' \ dirs :
          /\ process' = [process EXCEPT !.pdt = dir.pdt, !.pdt_paddr = dir.pdt_paddr]
          /\ GoOn("stack")
    <3>1. PICK dir \in dirs' :
            /\ process' = [process EXCEPT !.pdt = dir.pdt, !.pdt_paddr = dir.pdt_paddr]
            /\ step' = "stack"
      BY <2>3 DEF GoOn
    <3>2. \A d \in dirs' : d.pdt \in VPages
      <4>1. [NextExported]_vars
        BY <2>1 DEF NextExported, Next
      <4> QED
        BY <4>1, <2>1, StepKeeps
    <3>3. DOMAIN process' = Fields /\ process'.at = process.at /\ process'.pdt = dir.pdt
      BY <3>1, <1>1 DEF Fields
    <3> QED
      BY <2>1, <3>1, <3>2, <3>3, <1>1 DEF CreationInv, Steps
  <2> QED
    BY <1>6, <2>2, <2>3 DEF process_set_pdt
<1>7. CASE SetStack
  <2>1. /\ i' = i /\ i = HEAP_PAGES /\ dirs' = dirs /\ step = "stack"
        /\ step' \in Steps
        /\ \/ process' = process
           \/ process' = [process EXCEPT !.process_stack_paddr = array'[0]]
    BY <1>7 DEF SetStack, process_set_stack, Idle, ReturnNull, GoOn, Steps
  <2>2. DOMAIN process' = Fields /\ process'.at = process.at /\ process'.pdt = process.pdt
    BY <2>1, <1>1 DEF Fields
  <2> QED
    BY <2>1, <2>2, <1>2
<1>8. CASE SetKernelStack
  <2>1. /\ i' = i /\ i = HEAP_PAGES /\ dirs' = dirs /\ step = "kernel_stack"
        /\ step' \in Steps
        /\ \/ process' = process
           \/ process' = [process EXCEPT !.kernel_stack_vaddr = KernelStackSearch.res]
    BY <1>8, Zenon DEF SetKernelStack, process_set_kernel_stack, Idle, ReturnNull, GoOn, Steps
  <2>2. DOMAIN process' = Fields /\ process'.at = process.at /\ process'.pdt = process.pdt
    BY <2>1, <1>1 DEF Fields
  <2> QED
    BY <2>1, <2>2, <1>2
<1>9. CASE process_set_code
  <2>1. /\ i' = i /\ i = HEAP_PAGES /\ dirs' = dirs /\ step = "code"
        /\ step' \in Steps
        /\ \/ process' = process
           \/ process' = [process EXCEPT !.process_code_paddr = CodeMapped(CodeProgram).array[0]]
    BY <1>9, CodeCalls DEF Idle, Steps
  <2>2. DOMAIN process' = Fields /\ process'.at = process.at /\ process'.pdt = process.pdt
    BY <2>1, <1>1 DEF Fields
  <2> QED
    BY <2>1, <2>2, <1>2
<1>10. CASE process_map_process
  <2>1. /\ i' = i /\ i = HEAP_PAGES /\ dirs' = dirs /\ step = "map"
        /\ step' \in Steps /\ process' = process
    BY <1>10, MapCalls DEF Idle, Steps
  <2> QED
    BY <2>1, <1>1, <1>2
<1>11. CASE load_process_pdt
  <2>1. /\ i' = i /\ i = HEAP_PAGES /\ dirs' = dirs /\ step = "load"
        /\ step' \in Steps /\ process' = process
    BY <1>11, LoadCalls DEF Idle, Steps
  <2> QED
    BY <2>1, <1>1, <1>2
<1> QED
  BY <1>3, <1>4, <1>5, <1>6, <1>7, <1>8, <1>9, <1>10, <1>11 DEF ProcessNext


(* A call that gives the slot back keeps what SlotInv says. *)
LEMMA SlotKept ==
  ASSUME SlotInv, Keeps(Now, Now'), UNCHANGED <<i, total_malloc_pages, dirs>>
  PROVE  SlotInv' /\ seen \subseteq seen'
<1>1. Now' \in State /\ Coherent(Now') /\ ("stale" \in Now'.seen => "stale" \in Now.seen)
      /\ Now.seen \subseteq Now'.seen
  BY DEF Keeps
<1>2. Now'.seen = seen' /\ Now.seen = seen /\ "stale" \notin seen
  BY DEF Now, SlotInv, NoStaleAccess
<1>3. Coherent(Now)'
  BY <1>1 DEF Coherent, Slot, kernel_get_temporary_entry
<1> QED
  BY <1>1, <1>2, <1>3 DEF SlotInv, NoStaleAccess

(* After a call outside malloc the heap's next page is the one before it. *)
LEMMA SameNext ==
  ASSUME i = HEAP_PAGES, UNCHANGED <<i, total_malloc_pages, dirs>>
  PROVE  NextAfter = HeapNext
         /\ (FramesShapeOf(Now', dirs, HEAP_PAGES, HeapNext) => FramesShape')
<1>1. NextAfter = HeapNext
  BY DEF NextAfter, HeapNext
<1>2. NextAfter = total_malloc_pages' - HEAP_PAGES + i'
  BY DEF NextAfter
<1>3. FramesShape' <=> FramesShapeOf(Now', dirs', i', NextAfter)
  BY <1>2, FramesShapeNow
<1> QED
  BY <1>1, <1>3

(* A step that maps a page to a frame, or none, takes no page away. *)
LEMMA MapKeepsPages ==
  ASSUME Mapping' = Mapping \/ MapStep
  PROVE  \A v \in Pages : Mapping[v] # NoFrame => Mapping'[v] = Mapping[v]
<1>1. CASE MapStep
  <2>1. PICK x \in Pages : Space!Map(x)
    BY <1>1 DEF MapStep
  <2>2. Mapping[x] = NoFrame /\ Mapping' = [Mapping EXCEPT ![x] = Mapping'[x]]
    BY <2>1 DEF Space!Map
  <2>3. DOMAIN Mapping = Pages
    BY DEF Mapping
  <2> QED
    BY <2>2, <2>3
<1> QED
  BY <1>1

(* ProcessInv is inductive, and a step of a creation that notes nothing takes no page away. *)
LEMMA NextProcessInv ==
  ASSUME ProcessInv, [ProcessNext]_process_vars
  PROVE  /\ ProcessInv'
         /\ ProcessNext /\ step # "none" /\ seen' = {} =>
              \A v \in Pages : Mapping[v] # NoFrame => Mapping'[v] = Mapping[v]
<1> DEFINE Kept == \A v \in Pages : Mapping[v] # NoFrame => Mapping'[v] = Mapping[v]
           Held == IF step \in {"load", "entered"} THEN LoadInv ELSE FramesInv
<1>1. CreationInv /\ Held
  BY DEF ProcessInv
<1>2. step \notin {"load", "entered"} => SlotInv /\ FramesInv
  BY <1>1 DEF FramesInv
<1>3. CreationInv'
  BY <1>1, <1>2, CreationSteps
<1>4. Mapping' = Mapping \/ MapStep => Kept
  BY MapKeepsPages
<1> HIDE DEF Kept
<1>5. CASE UNCHANGED process_vars
  <2>1. UNCHANGED vars /\ step' = step /\ process' = process
    BY <1>5 DEF process_vars, exec_vars
  <2>2. /\ Now' = Now /\ dirs' = dirs /\ i' = i /\ total_malloc_pages' = total_malloc_pages
        /\ broken' = broken /\ seen' = seen
    BY <2>1 DEF vars, machine, Now
  <2>3. Mapping' = Mapping
    BY <2>2, MappingOfNow
  <2>4. FramesInv => FramesInv'
    BY <2>1, NextFramesInv
  <2>5. LoadInv => LoadInv'
    <3>1. ASSUME Standing PROVE Standing'
      <4>1. PICK s \in State : FramesShapeOf(s, dirs, HEAP_PAGES, HeapNext) /\ StandsFor(s, Now)
        BY <3>1 DEF Standing
      <4>2. NextAfter = HeapNext
        BY <2>2 DEF NextAfter, HeapNext
      <4> QED
        BY <4>1, <4>2, <2>1, <2>2, StandingNow
    <3>2. NoStaleAccess => NoStaleAccess'
      BY <2>2 DEF NoStaleAccess
    <3> QED
      BY <3>1, <3>2, <2>2 DEF LoadInv
  <2> QED
    BY <2>1, <2>3, <2>4, <2>5, <1>1, <1>3, <1>4 DEF ProcessInv
<1>6. CASE PagingStep
  <2>1. /\ Next /\ step \in {"none", "pdt", "stack", "kernel_stack"}
        /\ step' \in {"none", "stack", "kernel_stack", "code"}
        /\ step # "none" => \/ create_pdt \/ process_set_kernel_stack
                           \/ \E dir \in dirs : process_set_stack(dir)
    BY <1>1, <1>6, PagingSteps
  <2>2. FramesInv'
    BY <2>1, <1>2, NextFramesInv
  <2>3. ASSUME step # "none", seen' = {} PROVE Kept
    <3>1. SlotInv /\ FramesInv
      BY <2>1, <1>2
    <3>2. seen = {}
      <4>1. [NextExported]_vars
        BY <2>1 DEF NextExported
      <4>2. Now.seen \subseteq Now'.seen
        BY <4>1, <3>1, StepKeeps DEF Keeps
      <4> QED
        BY <4>2, <2>3 DEF Now
    <3>3. ~broken
      BY <2>1, <2>3 DEF create_pdt, process_set_kernel_stack, process_set_stack, Idle
    <3>4. FramesShape
      BY <3>1, <3>2, <3>3 DEF FramesInv
    <3>5. FramesStep
      BY <2>1, <2>3, <3>1, <3>4, CreatePdtFrames, SetKernelStackFrames, SetStackFrames
    <3> QED
      BY <3>5, <1>4 DEF FramesStep
  <2> QED
    BY <2>1, <2>2, <2>3, <1>3 DEF ProcessInv, Kept
<1>7. CASE sys_exec
  <2>1. /\ step = "none" /\ step' = "pdt" /\ i = HEAP_PAGES /\ ~broken
        /\ UNCHANGED <<machine, dirs, total_malloc_pages, i>>
    BY <1>7 DEF sys_exec, Idle
  <2>2. Now' = Now /\ seen' = seen
    BY <2>1 DEF machine, Now
  <2>3. SlotInv'
    <3>1. Keeps(Now, Now')
      BY <2>1, <2>2, <1>2 DEF Keeps, SlotInv
    <3> QED
      BY <3>1, <2>1, <1>2, SlotKept
  <2>4. seen' = {} => FramesShape'
    <3>1. seen' = {} => FramesShapeOf(Now', dirs, HEAP_PAGES, HeapNext)
      BY <2>1, <2>2, <1>2 DEF FramesInv, FramesShape
    <3> QED
      BY <3>1, <2>1, SameNext
  <2> QED
    BY <2>1, <2>3, <2>4, <1>3 DEF ProcessInv, FramesInv
<1>8. CASE process_set_code
  <2>1. /\ i = HEAP_PAGES /\ ~broken /\ step = "code" /\ step' \in {"none", "map"}
        /\ UNCHANGED <<dirs, total_malloc_pages, i>>
    BY <1>8, CodeCalls DEF Idle
  <2>2. PICK dir \in dirs : dir.pdt = process.pdt
    BY <2>1, <1>1 DEF CreationInv
  <2>3. SlotInv /\ FramesInv /\ process.pdt \in VPages
    BY <2>1, <1>1, <1>2 DEF CreationInv
  <2>4. SlotInv' /\ seen \subseteq seen'
    BY <2>1, <2>3, <1>8, CodeKeeps, SlotKept
  <2>5. ASSUME seen' = {}
        PROVE  (~broken' => FramesShape') /\ Kept
    <3>1. FramesShape
      BY <2>1, <2>3, <2>4, <2>5 DEF FramesInv
    <3>2. /\ ~broken' => FramesShapeOf(Now', dirs', i', NextAfter)
          /\ Mapping' = Mapping
      BY <3>1, <2>2, <2>3, <2>5, <1>8, CodeFrames
    <3> QED
      BY <3>2, <2>1, <1>4, SameNext
  <2> QED
    BY <2>1, <2>4, <2>5, <1>3 DEF ProcessInv, FramesInv, Kept
<1>9. CASE process_map_process
  <2>1. /\ i = HEAP_PAGES /\ ~broken /\ step = "map" /\ Becomes(PageReleased)
        /\ step' = IF process.null THEN "none" ELSE "load"
        /\ UNCHANGED <<dirs, total_malloc_pages, i, broken, process>>
    BY <1>9, MapCalls DEF Idle
  <2>2. PICK dir \in dirs : dir.pdt = process.pdt
    BY <2>1, <1>1 DEF CreationInv
  <2>3. /\ SlotInv /\ FramesInv /\ process.pdt \in VPages
        /\ process.at \in VPages /\ GET_PD_IDX(process.at) < KERNEL_PT_PDT_IDX
    BY <2>1, <1>1, <1>2 DEF CreationInv
  <2>4. SlotInv' /\ seen \subseteq seen'
    <3>1. Keeps(Now, PageReleased)
      BY <2>3, MapKeeps
    <3>2. Now' = PageReleased
      BY <3>1, <2>1, BecomesNow DEF Keeps
    <3> QED
      BY <3>1, <3>2, <2>1, <2>3, SlotKept
  <2>5. ASSUME seen' = {}
        PROVE  Kept /\ Standing' /\ (process.null => FramesShape')
    <3>1. FramesShape
      BY <2>1, <2>3, <2>4, <2>5 DEF FramesInv
    <3>2. /\ Mapping' = Mapping
          /\ process.null => FramesShapeOf(Now', dirs, HEAP_PAGES, HeapNext)
          /\ \E s \in State : FramesShapeOf(s, dirs, HEAP_PAGES, HeapNext) /\ StandsFor(s, Now')
      BY <3>1, <2>2, <2>3, <2>5, <1>9, MapProcessFrames
    <3>3. Standing'
      <4>1. PICK s \in State : FramesShapeOf(s, dirs, HEAP_PAGES, HeapNext) /\ StandsFor(s, Now')
        BY <3>2
      <4>2. NextAfter = HeapNext
        BY <2>1, SameNext
      <4> QED
        BY <4>1, <4>2, <2>1, StandingNow
    <3> QED
      BY <3>2, <3>3, <2>1, <1>4, SameNext
  <2>6. LoadInv' \/ ~(seen' = {} => Standing')
    BY <2>4 DEF LoadInv, SlotInv
  <2> QED
    BY <2>1, <2>4, <2>5, <2>6, <1>3 DEF ProcessInv, FramesInv, Kept
<1>10. CASE load_process_pdt
  <2>1. /\ i = HEAP_PAGES /\ ~broken /\ step = "load" /\ step' = "entered" /\ Becomes(Loaded)
        /\ UNCHANGED <<dirs, total_malloc_pages, i, process>>
    BY <1>10, LoadCalls DEF Idle
  <2>2. PICK dir \in dirs : dir.pdt = process.pdt
    BY <2>1, <1>1 DEF CreationInv
  <2>3. LoadInv /\ process.pdt \in VPages /\ GET_PD_IDX(process.at) \in Idx
    BY <2>1, <1>1, AddressParts DEF CreationInv
  <2>4. Now' \in State /\ seen' = seen
    <3>1. Loaded \in State /\ Loaded.seen = seen
      BY <2>3, LoadedState DEF LoadInv
    <3> QED
      BY <3>1, <2>1, BecomesNow DEF Becomes
  <2>5. ASSUME seen' = {}
        PROVE  Kept /\ Standing'
    <3>1. PICK s \in State : FramesShapeOf(s, dirs, HEAP_PAGES, HeapNext) /\ StandsFor(s, Now)
      BY <2>1, <2>3, <2>4, <2>5 DEF LoadInv, Standing
    <3>2. StandsFor(s, Now') /\ Mapping' = Mapping
      BY <3>1, <2>2, <2>3, <1>10, LoadFrames DEF LoadInv
    <3>3. NextAfter = HeapNext
      BY <2>1, SameNext
    <3> QED
      BY <3>1, <3>2, <3>3, <2>1, <1>4, StandingNow
  <2>6. NoStaleAccess'
    BY <2>3, <2>4 DEF LoadInv, NoStaleAccess
  <2>7. LoadInv'
    BY <2>1, <2>3, <2>4, <2>5, <2>6 DEF LoadInv
  <2> QED
    BY <2>1, <2>5, <2>7, <1>3 DEF ProcessInv, Kept
<1> QED
  BY <1>5, <1>6, <1>7, <1>8, <1>9, <1>10 DEF ProcessNext, PagingStep


(***************************************************************************)
(* The pages of the processes.                                             *)
(***************************************************************************)

(* The tables reached are those of s but for the entries AtProcess and AtCopied, and those
   only at the end of a creation.  *)
ViewOf(s) ==
  /\ s \in State /\ FramesShapeOf(s, dirs, i, HeapNext) /\ s.pool = pool
  /\ \A f \in Frames \ {KERNEL_PT}, x \in Idx :
       \/ mem[f][x] = s.mem[f][x]
       \/ step \in {"load", "entered"} /\ (AtProcess(s, f, x) \/ AtCopied(s, f, x))
  /\ \A e \in Idx : mem[KERNEL_PD][e] = s.mem[KERNEL_PD][e]
  /\ \A v \in Pages : Entry(Now, v) = Entry(s, v)
  /\ \A dir \in dirs : dir.pdt \in VPages
  /\ process.at \in VPages /\ GET_PD_IDX(process.at) < KERNEL_PT_PDT_IDX
  /\ step \in {"load", "entered"} => \E dir \in dirs : dir.pdt = process.pdt

(* The invariant gives such a state. *)
LEMMA Views ==
  ASSUME ProcessInv, seen = {}, ~broken
  PROVE  \E s : ViewOf(s)
<1>1. CreationInv /\ IF step \in {"load", "entered"} THEN LoadInv ELSE FramesInv
  BY DEF ProcessInv
<1>2. Now.mem = mem /\ Now.pool = pool
  BY DEF Now
<1>3. CASE step \in {"load", "entered"}
  <2>1. LoadInv /\ i = HEAP_PAGES
    BY <1>1, <1>3 DEF CreationInv
  <2>2. PICK s \in State : FramesShapeOf(s, dirs, HEAP_PAGES, HeapNext) /\ StandsFor(s, Now)
    BY <2>1 DEF LoadInv, Standing
  <2>3. PICK dir \in dirs : dir.pdt = process.pdt
    BY <1>1, <1>3 DEF CreationInv
  <2>4. /\ dir.pdt \in VPages /\ GET_PD_IDX(process.at) \in Idx
        /\ \A q \in dirs : q.pdt \in VPages
    BY <1>1, <2>1, AddressParts DEF LoadInv, CreationInv
  <2>5. /\ \A e \in Idx : Now.mem[KERNEL_PD][e] = s.mem[KERNEL_PD][e]
        /\ \A v \in Pages : Entry(Now, v) = Entry(s, v)
    BY <2>2, <2>3, <2>4, StandsForPages
  <2>6. /\ s.pool = Now.pool
        /\ \A f \in Frames \ {KERNEL_PT}, x \in Idx :
             Now.mem[f][x] = s.mem[f][x] \/ AtProcess(s, f, x) \/ AtCopied(s, f, x)
    BY <2>2 DEF StandsFor
  <2>7. ViewOf(s)
    BY <2>1, <2>2, <2>3, <2>4, <2>5, <2>6, <1>1, <1>2, <1>3 DEF ViewOf, CreationInv
  <2> QED
    BY <2>7
<1>4. CASE step \notin {"load", "entered"}
  <2>1. SlotInv /\ FramesShape
    BY <1>1, <1>4 DEF FramesInv
  <2>2. ViewOf(Now)
    BY <2>1, <1>1, <1>2, <1>4 DEF ViewOf, CreationInv, SlotInv, FramesShape
  <2> QED
    BY <2>2
<1> QED
  BY <1>3, <1>4

(* Two directories have two roots. *)
LEMMA RootsDiffer ==
  ASSUME NEW s, ViewOf(s), NEW p \in dirs, NEW q \in dirs,
         Entry(s, p.pdt).frame = Entry(s, q.pdt).frame
  PROVE  p = q
<1>1. /\ s \in State /\ FramesShapeOf(s, dirs, i, HeapNext)
      /\ p.pdt \in VPages /\ q.pdt \in VPages
  BY DEF ViewOf
<1>2. Unique(s, RootsOf(s, dirs)) /\ KERNEL_PD \in RootsOf(s, dirs)
      /\ (p.pdt = q.pdt => p = q)
  BY <1>1 DEF FramesShapeOf, Shape, RootsOf
<1>3. /\ InUse(s, p.pdt) /\ Entry(s, p.pdt).frame = FrameOf(s, p.pdt)
      /\ InUse(s, q.pdt) /\ Entry(s, q.pdt).frame = FrameOf(s, q.pdt)
  BY <1>1, DirectoryRoot
<1>4. /\ GET_PD_IDX(p.pdt) \in Idx /\ GET_PT_IDX(p.pdt) \in Spots
      /\ GET_PD_IDX(q.pdt) \in Idx /\ GET_PT_IDX(q.pdt) \in Spots
  BY <1>1, AddressParts DEF Spots
<1>5. GET_PD_IDX(p.pdt) = GET_PD_IDX(q.pdt) /\ GET_PT_IDX(p.pdt) = GET_PT_IDX(q.pdt)
  BY <1>2, <1>3, <1>4 DEF Unique, InUse, FrameOf
<1>6. p.pdt = q.pdt
  BY <1>1, <1>5, PagesDiffer
<1> QED
  BY <1>2, <1>6

(* A directory has its own entries below the kernel image. *)
LEMMA OwnEntries ==
  ASSUME NEW s, ViewOf(s), NEW dir \in dirs
  PROVE  LET pd == Entry(s, dir.pdt).frame IN
         /\ Entry(Now, dir.pdt).frame = pd
         /\ pd \in RootsOf(s, dirs) \ {KERNEL_PD} /\ pd \in Frames
         /\ \A d \in 0 .. KERNEL_PT_PDT_IDX - 1 :
              /\ d \in Idx /\ mem[pd][d] = s.mem[pd][d]
              /\ mem[pd][d].present /\ mem[pd][d] # Junk => HasTable(s, pd, d)
<1> DEFINE pd == Entry(s, dir.pdt).frame
           R == RootsOf(s, dirs)
           W == InHand(s, i)
<1>1. /\ s \in State /\ FramesShapeOf(s, dirs, i, HeapNext) /\ dir.pdt \in VPages
      /\ Shape(s, R, W) /\ Directories(s, R)
      /\ GET_PD_IDX(dir.pdt) > KERNEL_PT_PDT_IDX
      /\ process.at \in VPages
  BY DEF ViewOf, FramesShapeOf, Shape
<1>2. pd \in R \ {KERNEL_PD} /\ pd \in Frames /\ pd # KERNEL_PT
  <2>1. pd \in R \ {KERNEL_PD}
    BY <1>1, DirectoryRoot
  <2> HIDE DEF R, W
  <2> QED
    BY <2>1, <1>1, RootFacts
<1>3. dir.pdt \in Pages
  <2>1. GET_PD_IDX(dir.pdt) \in Idx
    BY <1>1, AddressParts
  <2> QED
    BY <2>1, <1>1, Constants DEF Pages, Idx
<1>4. Entry(Now, dir.pdt).frame = pd
  BY <1>3 DEF ViewOf
<1> HIDE DEF pd, R, W
<1>5. ASSUME NEW d \in 0 .. KERNEL_PT_PDT_IDX - 1
      PROVE  /\ d \in Idx /\ mem[pd][d] = s.mem[pd][d]
             /\ mem[pd][d].present /\ mem[pd][d] # Junk => HasTable(s, pd, d)
  <2>1. d \in Idx /\ ~(d >= KERNEL_PT_PDT_IDX)
    BY Constants DEF Idx
  <2>2. ~AtCopied(s, pd, d)
    BY <2>1 DEF AtCopied
  <2>3. step \in {"load", "entered"} => ~AtProcess(s, pd, d)
    <3> SUFFICES ASSUME step \in {"load", "entered"}, AtProcess(s, pd, d) PROVE FALSE
      OBVIOUS
    <3>1. PICK q \in dirs : q.pdt = process.pdt
      BY DEF ViewOf
    <3>2. ProcessRoot(s) = Entry(s, q.pdt).frame /\ ProcessRoot(s) \in R
      BY <3>1 DEF ProcessRoot, R, RootsOf
    <3>3. GET_PD_IDX(process.at) \in Idx
      BY <1>1, AddressParts
    <3>4. s.mem[ProcessRoot(s)][GET_PD_IDX(process.at)].frame \notin R
      <4>1. HasTable(s, ProcessRoot(s), GET_PD_IDX(process.at))
        BY DEF AtProcess
      <4> QED
        BY <4>1, <3>2, <3>3, <1>1, TableFacts
    <3> QED
      BY <3>4, <1>2 DEF AtProcess
  <2>4. mem[pd][d] = s.mem[pd][d]
    BY <2>1, <2>2, <2>3, <1>2 DEF ViewOf
  <2>5. s.mem[pd][d].present /\ s.mem[pd][d].frame = KERNEL_PT => s.mem[pd][d] = Junk
    BY <2>1, <1>1, <1>2 DEF Directories
  <2> QED
    BY <2>1, <2>4, <2>5 DEF HasTable
<1> QED
  BY <1>2, <1>4, <1>5 DEF pd, R


(* A page below the kernel's half has its entry below that of the kernel image. *)
LEMMA LowerPage ==
  ASSUME NEW w \in Lower
  PROVE  w \in VPages /\ GET_PD_IDX(w) \in 0 .. KERNEL_PT_PDT_IDX - 1 /\ GET_PT_IDX(w) \in Idx
<1> DEFINE n == PT_ENTRIES
           K == KERNEL_PT_PDT_IDX
<1>1. n \in Nat \ {0} /\ K \in Nat /\ K <= n
  BY PagingAssumption
<1>2. K * n \in Nat /\ K * n <= n * n
  BY <1>1
<1>3. w \in VPages /\ w < K * n
  BY <1>1, <1>2 DEF VPages, Lower
<1>4. GET_PD_IDX(w) \in Nat /\ GET_PT_IDX(w) \in Nat /\ w = GET_PD_IDX(w) * n + GET_PT_IDX(w)
      /\ GET_PT_IDX(w) \in Idx
  BY <1>3, AddressParts DEF Idx
<1>5. GET_PD_IDX(w) < K
  <2>1. SUFFICES ASSUME GET_PD_IDX(w) >= K PROVE FALSE
    BY <1>1, <1>4
  <2>2. GET_PD_IDX(w) * n >= K * n
    BY <2>1, <1>1, <1>4
  <2> QED
    BY <2>2, <1>1, <1>2, <1>3, <1>4
<1> QED
  BY <1>1, <1>3, <1>4, <1>5

(* A place of directory pd with frame x *)
Places(s, pd, x, spots) ==
  \E d \in Idx, t \in spots : Used(s, pd, d, t) /\ At(s, pd, d, t) = x

(* A table of a process is at a place of its directory, *)
LEMMA TablePlace ==
  ASSUME NEW s, ViewOf(s), NEW dir \in dirs, NEW x \in TablesOf(dir)
  PROVE  Places(s, Entry(s, dir.pdt).frame, x, {Itself})
<1> DEFINE pd == Entry(s, dir.pdt).frame
<1>1. /\ Entry(Now, dir.pdt).frame = pd
      /\ \A d \in 0 .. KERNEL_PT_PDT_IDX - 1 :
           /\ d \in Idx /\ mem[pd][d] = s.mem[pd][d]
           /\ mem[pd][d].present /\ mem[pd][d] # Junk => HasTable(s, pd, d)
  BY OwnEntries
<1> HIDE DEF pd
<1>2. PICK d \in 0 .. KERNEL_PT_PDT_IDX - 1 :
        mem[pd][d].present /\ mem[pd][d] # Junk /\ x = mem[pd][d].frame
  BY <1>1 DEF TablesOf
<1>3. d \in Idx /\ Used(s, pd, d, Itself) /\ At(s, pd, d, Itself) = x
  BY <1>1, <1>2 DEF Used, At
<1> QED
  BY <1>3 DEF Places, pd

(* and so is a page, that of struct PROCESS excepted. *)
LEMMA PagePlace ==
  ASSUME NEW s, ViewOf(s), NEW dir \in dirs, NEW x \in PagesOf(dir)
  PROVE  Places(s, Entry(s, dir.pdt).frame, x, Idx)
<1> DEFINE pd == Entry(s, dir.pdt).frame
           R == RootsOf(s, dirs)
           W == InHand(s, i)
<1>1. /\ Entry(Now, dir.pdt).frame = pd /\ pd \in R \ {KERNEL_PD}
      /\ \A d \in 0 .. KERNEL_PT_PDT_IDX - 1 :
           /\ d \in Idx /\ mem[pd][d] = s.mem[pd][d]
           /\ mem[pd][d].present /\ mem[pd][d] # Junk => HasTable(s, pd, d)
  BY OwnEntries
<1>2. s \in State /\ Shape(s, R, W) /\ process.at \in VPages
  BY DEF ViewOf, FramesShapeOf
<1>3. PICK w \in Lower :
        /\ mem[pd][GET_PD_IDX(w)] # Junk /\ Walk(Now, pd, w).present
        /\ ~(step \in {"load", "entered"} /\ dir.pdt = process.pdt /\ w = process.at)
        /\ x = Walk(Now, pd, w).frame
  BY <1>1 DEF PagesOf
<1> DEFINE d == GET_PD_IDX(w)
           t == GET_PT_IDX(w)
           T == s.mem[pd][d].frame
<1>4. w \in VPages /\ d \in 0 .. KERNEL_PT_PDT_IDX - 1 /\ t \in Idx
  BY LowerPage
<1>5. Now.mem = mem /\ ~Empty.present
  BY DEF Now, Empty
<1>6. mem[pd][d].present
  BY <1>3, <1>5 DEF Walk
<1>7. Walk(Now, pd, w) = mem[mem[pd][d].frame][t]
  BY <1>5, <1>6 DEF Walk
<1>8. d \in Idx /\ HasTable(s, pd, d) /\ mem[pd][d].frame = T
  BY <1>1, <1>3, <1>4, <1>6
<1> HIDE DEF d, t, T, pd, R, W
<1>9. /\ T \in Frames /\ T # KERNEL_PT /\ T \notin R
      /\ \A q \in R, e \in Idx : HasTable(s, q, e) /\ s.mem[q][e].frame = T => q = pd /\ e = d
  BY <1>1, <1>2, <1>8, TableFacts DEF T
<1>10. step \in {"load", "entered"} => ~AtCopied(s, T, t) /\ ~AtProcess(s, T, t)
  <2> SUFFICES ASSUME step \in {"load", "entered"}
               PROVE  ~AtCopied(s, T, t) /\ ~AtProcess(s, T, t)
    OBVIOUS
  <2>1. PICK q \in dirs : q.pdt = process.pdt
    BY DEF ViewOf
  <2>2. ProcessRoot(s) = Entry(s, q.pdt).frame /\ ProcessRoot(s) \in R
    BY <2>1 DEF ProcessRoot, R, RootsOf
  <2>3. ~AtCopied(s, T, t)
    BY <2>2, <1>9 DEF AtCopied
  <2>4. ASSUME AtProcess(s, T, t) PROVE FALSE
    <3>1. GET_PD_IDX(process.at) \in Idx
      BY <1>2, AddressParts
    <3>2. /\ HasTable(s, ProcessRoot(s), GET_PD_IDX(process.at))
          /\ s.mem[ProcessRoot(s)][GET_PD_IDX(process.at)].frame = T
          /\ GET_PT_IDX(process.at) = t
      BY <2>4 DEF AtProcess
    <3>3. ProcessRoot(s) = pd /\ GET_PD_IDX(process.at) = d
      BY <3>1, <3>2, <2>2, <1>9
    <3>4. w = process.at
      BY <3>2, <3>3, <1>2, <1>4, PagesDiffer DEF d, t
    <3>5. q = dir
      BY <3>3, <2>2, RootsDiffer DEF pd
    <3> QED
      BY <3>4, <3>5, <2>1, <1>3
  <2> QED
    BY <2>3, <2>4
<1>11. mem[T][t] = s.mem[T][t]
  BY <1>4, <1>9, <1>10 DEF ViewOf
<1>12. s.mem[T][t].present /\ x = s.mem[T][t].frame
  BY <1>3, <1>7, <1>8, <1>11
<1>13. t # Itself
  BY <1>4, Constants DEF Itself, Idx
<1>14. Used(s, pd, d, t) /\ At(s, pd, d, t) = x
  BY <1>8, <1>12, <1>13 DEF Used, At, T
<1> QED
  BY <1>4, <1>8, <1>14 DEF Places, pd


(* A frame at a place of a process's directory is at no other, and is neither the kernel's
   nor free.  *)
LEMMA PlaceFacts ==
  ASSUME NEW s, ViewOf(s), NEW p \in RootsOf(s, dirs) \ {KERNEL_PD}, NEW x, NEW S, S \subseteq Spots,
         Places(s, p, x, S)
  PROVE  /\ x \notin Mapped \union Tables \union InPool
         /\ \A q \in RootsOf(s, dirs) : \A V \in SUBSET Spots :
              Places(s, q, x, V) => q = p /\ S \intersect V # {}
<1> DEFINE R == RootsOf(s, dirs)
           W == InHand(s, i)
<1>1. /\ s \in State /\ Shape(s, R, W) /\ Unique(s, R) /\ Taken(s, R, W) /\ KernelTables(s)
      /\ KERNEL_PD \in R
  BY DEF ViewOf, FramesShapeOf, Shape, RootsOf
<1> HIDE DEF R, W
<1>2. PICK d \in Idx, t \in S : Used(s, p, d, t) /\ At(s, p, d, t) = x
  BY DEF Places
<1>3. p \in R /\ t \in Spots /\ p # KERNEL_PD
  BY <1>2 DEF R
<1>4. ASSUME NEW q \in R, NEW e \in Idx, NEW u \in Spots, Used(s, q, e, u), At(s, q, e, u) = x
      PROVE  q = p /\ u = t
  BY <1>1, <1>2, <1>3, <1>4 DEF Unique
<1>5. x \in (START .. TOTAL_FRAMES - 1) \ (W \union Free(s))
  BY <1>1, <1>2, <1>3 DEF Taken
<1>6. x \notin Mapped
  <2> SUFFICES ASSUME x \in Mapped PROVE FALSE
    OBVIOUS
  <2>1. PICK v \in Pages : Mapping[v] = x /\ x # NoFrame
    BY DEF Mapped
  <2>2. Entry(Now, v).present /\ x = Entry(Now, v).frame
    BY <2>1 DEF Mapping
  <2>3. Entry(s, v).present /\ x = Entry(s, v).frame
    BY <2>2 DEF ViewOf
  <2> DEFINE e == GET_PD_IDX(v)
             u == GET_PT_IDX(v)
  <2>4. /\ e \in Idx /\ u \in Idx
        /\ Used(s, KERNEL_PD, e, u) /\ At(s, KERNEL_PD, e, u) = x
    BY <2>3, <1>1, PageEntry
  <2> QED
    BY <2>4, <1>1, <1>3, <1>4 DEF Spots
<1>7. x \notin Tables
  <2> SUFFICES ASSUME x \in Tables PROVE FALSE
    OBVIOUS
  <2>1. PICK e \in Idx : mem[KERNEL_PD][e].present /\ x = mem[KERNEL_PD][e].frame
    BY DEF Tables
  <2>2. mem[KERNEL_PD][e] = s.mem[KERNEL_PD][e]
    BY DEF ViewOf
  <2>3. x # KERNEL_PT
    BY <1>5, Constants
  <2>4. Used(s, KERNEL_PD, e, Itself) /\ At(s, KERNEL_PD, e, Itself) = x /\ Itself \in Spots
    BY <2>1, <2>2, <2>3 DEF Used, HasTable, At, Spots
  <2> QED
    BY <2>4, <1>1, <1>3, <1>4
<1>8. x \notin InPool
  <2>1. InPool = Free(s)
    BY DEF InPool, Free, ViewOf
  <2> QED
    BY <2>1, <1>5
<1>9. ASSUME NEW q \in R, NEW V \in SUBSET Spots, Places(s, q, x, V)
      PROVE  q = p /\ S \intersect V # {}
  <2>1. PICK e \in Idx, u \in V : Used(s, q, e, u) /\ At(s, q, e, u) = x
    BY <1>9 DEF Places
  <2> QED
    BY <2>1, <1>2, <1>4, <1>9
<1> QED
  BY <1>6, <1>7, <1>8, <1>9 DEF R

(* The pages of the processes are apart wherever the invariant holds. *)
LEMMA ProcessInvApart == ProcessInv => ProcessPagesApart
<1> SUFFICES ASSUME ProcessInv, seen = {}, ~broken
             PROVE  /\ \A dir \in dirs :
                         /\ TablesOf(dir) \intersect PagesOf(dir) = {}
                         /\ (TablesOf(dir) \union PagesOf(dir))
                              \intersect (Mapped \union Tables \union InPool) = {}
                    /\ \A d, e \in dirs : d # e =>
                         (TablesOf(d) \union PagesOf(d)) \intersect (TablesOf(e) \union PagesOf(e)) = {}
  BY DEF ProcessPagesApart
<1>1. PICK s : ViewOf(s)
  BY Views
<1> DEFINE Root(dir) == Entry(s, dir.pdt).frame
<1>2. {Itself} \subseteq Spots /\ Idx \subseteq Spots /\ Spots \subseteq Spots
      /\ {Itself} \intersect Idx = {}
  BY Constants DEF Spots, Itself, Idx
<1>3. \A dir \in dirs : Root(dir) \in RootsOf(s, dirs) \ {KERNEL_PD}
  BY <1>1, OwnEntries
<1>4. ASSUME NEW dir \in dirs, NEW x \in TablesOf(dir)
      PROVE  Places(s, Root(dir), x, {Itself})
  BY <1>1, TablePlace
<1>5. ASSUME NEW dir \in dirs, NEW x \in PagesOf(dir)
      PROVE  Places(s, Root(dir), x, Idx)
  BY <1>1, PagePlace
<1>6. ASSUME NEW dir \in dirs, NEW x \in TablesOf(dir) \union PagesOf(dir)
      PROVE  Places(s, Root(dir), x, Spots)
  <2> HIDE DEF Root
  <2>1. Places(s, Root(dir), x, {Itself}) \/ Places(s, Root(dir), x, Idx)
    BY <1>4, <1>5
  <2> QED
    BY <2>1, <1>2 DEF Places
<1> HIDE DEF Root
<1>7. ASSUME NEW dir \in dirs
      PROVE  TablesOf(dir) \intersect PagesOf(dir) = {}
  <2> SUFFICES ASSUME NEW x \in TablesOf(dir), x \in PagesOf(dir) PROVE FALSE
    OBVIOUS
  <2>1. Places(s, Root(dir), x, {Itself}) /\ Places(s, Root(dir), x, Idx)
    BY <1>4, <1>5
  <2>2. Root(dir) \in RootsOf(s, dirs) \ {KERNEL_PD}
    BY <1>3
  <2>3. {Itself} \intersect Idx # {}
    BY <2>1, <2>2, <1>1, <1>2, PlaceFacts
  <2> QED
    BY <2>3, <1>2
<1>8. ASSUME NEW dir \in dirs
      PROVE  (TablesOf(dir) \union PagesOf(dir)) \intersect (Mapped \union Tables \union InPool) = {}
  <2> SUFFICES ASSUME NEW x \in TablesOf(dir) \union PagesOf(dir)
               PROVE  x \notin Mapped \union Tables \union InPool
    OBVIOUS
  <2>1. Places(s, Root(dir), x, Spots) /\ Root(dir) \in RootsOf(s, dirs) \ {KERNEL_PD}
    BY <1>3, <1>6
  <2> QED
    BY <2>1, <1>1, <1>2, PlaceFacts
<1>9. ASSUME NEW d \in dirs, NEW e \in dirs, d # e
      PROVE  (TablesOf(d) \union PagesOf(d)) \intersect (TablesOf(e) \union PagesOf(e)) = {}
  <2> SUFFICES ASSUME NEW x \in TablesOf(d) \union PagesOf(d),
                      x \in TablesOf(e) \union PagesOf(e)
               PROVE  FALSE
    OBVIOUS
  <2>1. Places(s, Root(d), x, Spots) /\ Places(s, Root(e), x, Spots)
    BY <1>6
  <2>2. Root(d) \in RootsOf(s, dirs) \ {KERNEL_PD} /\ Root(e) \in RootsOf(s, dirs)
    BY <1>3
  <2>3. Root(e) = Root(d)
    BY <2>1, <2>2, <1>1, <1>2, PlaceFacts
  <2> QED
    BY <2>3, <1>1, <1>9, RootsDiffer DEF Root
<1> QED
  BY <1>7, <1>8, <1>9

(***************************************************************************)
(* The theorems.                                                           *)
(***************************************************************************)

(* No process has been created at first. *)
LEMMA InitProcessInv == ProcessInit => ProcessInv
<1> SUFFICES ASSUME ProcessInit PROVE ProcessInv
  OBVIOUS
<1>1. /\ Init /\ process = Blank(0, TRUE) /\ step = "none"
  BY DEF ProcessInit
<1>2. FramesInv
  BY <1>1, InitFrames
<1>3. DOMAIN process = Fields /\ process.at = 0 /\ process.pdt = 0
  BY <1>1 DEF Blank, Fields
<1>4. GET_PD_IDX(0) < KERNEL_PT_PDT_IDX
  BY CreationPages, Constants DEF Idx
<1> QED
  BY <1>1, <1>2, <1>3, <1>4, CreationPages DEF ProcessInv, CreationInv, Steps

(* The code and the stack of every process lie in frames of their own, also after creations
   that failed midway (process.c: process_set_stack, process_set_code and
   process_map_process through map_page), until a step is noted in seen.  *)
THEOREM ProcessPagesApartHolds == ProcessSpec => []ProcessPagesApart
<1>1. ProcessInv /\ [ProcessNext]_process_vars => ProcessInv'
  BY NextProcessInv
<1> QED
  BY <1>1, InitProcessInv, ProcessInvApart, PTL DEF ProcessSpec

(* No step of a creation takes a page from the kernel or moves it, until one is noted
   (create_process and sys_exec up to the jump).  *)
THEOREM KernelPagesKeptHolds == ProcessSpec => KernelPagesKept
<1>1. ProcessInv /\ [ProcessNext]_process_vars => ProcessInv'
  BY NextProcessInv
<1>2. ProcessInv /\ [ProcessNext]_process_vars =>
        [step # "none" /\ seen' = {} =>
           \A v \in Pages : Mapping[v] # NoFrame => Mapping'[v] = Mapping[v]]_process_vars
  BY NextProcessInv
<1> QED
  BY <1>1, <1>2, InitProcessInv, PTL DEF ProcessSpec, KernelPagesKept

(***************************************************************************)
(* Tables alone.  What was noted in seen says that some page leads where   *)
(* nobody mapped it, never that a table does: the tables and directories   *)
(* have their frames to themselves in every state.                         *)
(***************************************************************************)

(* The tables that map_page finds in a directory: of a process's, in the lower half only *)
Owns(s, p, d) == (p = KERNEL_PD \/ d < KERNEL_PT_PDT_IDX) /\ HasTable(s, p, d)

(* No table is at two places, free or a directory; free frames hold what they held at
   first.  R is the set of the directories' frames.  *)
TablesShape(s, R) ==
  /\ Untouched(s, {})
  /\ \A p \in R, d \in Idx : Owns(s, p, d) =>
       s.mem[p][d].frame \in (START .. TOTAL_FRAMES - 1) \ (R \union Free(s))
  /\ \A p, q \in R, d, e \in Idx :
       Owns(s, p, d) /\ Owns(s, q, e) /\ s.mem[p][d].frame = s.mem[q][e].frame => p = q /\ d = e
  /\ KernelTables(s)
  /\ KERNEL_PD \in R /\ R \ {KERNEL_PD} \subseteq (START .. TOTAL_FRAMES - 1) \ Free(s)

(* And the pages of F, above the kernel image, are mapped as F says. *)
Layout(s, R, F) ==
  /\ TablesShape(s, R)
  /\ \A w \in DOMAIN F :
       /\ w \in VPages /\ GET_PD_IDX(w) > KERNEL_PT_PDT_IDX
       /\ Entry(s, w).present /\ Entry(s, w).frame = F[w]

(* A directory is a frame of its own, neither the kernel's table nor free. *)
LEMMA LayoutRoot ==
  ASSUME NEW s \in State, NEW R, TablesShape(s, R), NEW p \in R
  PROVE  p \in Frames /\ p # KERNEL_PT /\ p # 0 /\ p \notin Free(s)
<1>1. p = KERNEL_PD \/ p \in (START .. TOTAL_FRAMES - 1) \ Free(s)
  BY DEF TablesShape
<1>2. KERNEL_PD \notin Free(s)
  <2>1. Free(s) \subseteq START .. TOTAL_FRAMES - 1
    BY DEF TablesShape, Untouched
  <2> QED
    BY <2>1, Constants
<1> QED
  BY <1>1, <1>2, Constants DEF Frames

(* A table is a frame of its own. *)
LEMMA LayoutTable ==
  ASSUME NEW s \in State, NEW R, TablesShape(s, R), NEW p \in R, NEW d \in Idx, Owns(s, p, d)
  PROVE  LET T == s.mem[p][d].frame IN
         /\ T \in START .. TOTAL_FRAMES - 1 /\ T \in Frames /\ T # KERNEL_PT /\ T # 0
         /\ T \notin R /\ T \notin Free(s)
         /\ \A q \in R, e \in Idx : Owns(s, q, e) /\ s.mem[q][e].frame = T => q = p /\ e = d
<1> DEFINE T == s.mem[p][d].frame
<1>1. T \in (START .. TOTAL_FRAMES - 1) \ (R \union Free(s))
  BY DEF TablesShape
<1>2. T \in Frames /\ T # KERNEL_PT /\ T # 0
  BY <1>1, Constants DEF Frames
<1>3. \A q \in R, e \in Idx : Owns(s, q, e) /\ s.mem[q][e].frame = T => q = p /\ e = d
  BY DEF TablesShape
<1> QED
  BY <1>1, <1>2, <1>3

(* An entry of the kernel's directory has a table of its own, or the kernel image's. *)
LEMMA LayoutKernel ==
  ASSUME NEW s \in State, NEW R, TablesShape(s, R), NEW d \in Idx
  PROVE  /\ KERNEL_PD \in R
         /\ d # KERNEL_PT_PDT_IDX /\ s.mem[KERNEL_PD][d].present => Owns(s, KERNEL_PD, d)
         /\ d # KERNEL_PT_PDT_IDX /\ ~s.mem[KERNEL_PD][d].present => s.mem[KERNEL_PD][d].frame = 0
         /\ d = KERNEL_PT_PDT_IDX => /\ s.mem[KERNEL_PD][d].present
                                     /\ s.mem[KERNEL_PD][d].frame = KERNEL_PT
BY DEF TablesShape, KernelTables, Owns, HasTable

(* The page of a directory lies in a table of its own. *)
LEMMA LayoutPage ==
  ASSUME NEW s \in State, NEW R, NEW F, Layout(s, R, F), NEW w \in DOMAIN F
  PROVE  LET d == GET_PD_IDX(w)
             t == GET_PT_IDX(w)
             T == s.mem[KERNEL_PD][d].frame
         IN /\ w \in VPages /\ d \in Idx /\ t \in Idx /\ d > KERNEL_PT_PDT_IDX
            /\ Owns(s, KERNEL_PD, d)
            /\ s.mem[T][t].present /\ s.mem[T][t].frame = F[w]
<1> DEFINE d == GET_PD_IDX(w)
           t == GET_PT_IDX(w)
           T == s.mem[KERNEL_PD][d].frame
<1>1. w \in VPages /\ d > KERNEL_PT_PDT_IDX /\ Entry(s, w).present /\ Entry(s, w).frame = F[w]
      /\ TablesShape(s, R)
  BY DEF Layout
<1>2. d \in Idx /\ t \in Idx
  BY <1>1, AddressParts
<1>3. Entry(s, w) = IF s.mem[KERNEL_PD][d].present THEN s.mem[T][t] ELSE Empty
  BY DEF Entry, Walk
<1> HIDE DEF d, t, T
<1>4. s.mem[KERNEL_PD][d].present /\ Entry(s, w) = s.mem[T][t]
  BY <1>1, <1>3 DEF Empty
<1>5. d # KERNEL_PT_PDT_IDX
  BY <1>1, <1>2, Constants DEF Idx
<1>6. Owns(s, KERNEL_PD, d)
  BY <1>1, <1>2, <1>4, <1>5, LayoutKernel
<1> QED
  BY <1>1, <1>2, <1>4, <1>6 DEF d, t, T

(* A change that leaves the directories' entries, the free frames and the pages of F as they
   are keeps the layout.  *)
LEMMA LayoutKept ==
  ASSUME NEW s \in State, NEW R, NEW F, Layout(s, R, F), NEW out, out.pool = s.pool,
         \A p \in R, d \in Idx : p = KERNEL_PD \/ d < KERNEL_PT_PDT_IDX =>
           out.mem[p][d].present = s.mem[p][d].present /\ out.mem[p][d].frame = s.mem[p][d].frame,
         \A f \in Free(s), x \in Idx : out.mem[f][x] = s.mem[f][x],
         \A t \in Idx \ {KERNEL_TMP_PT_IDX} : out.mem[KERNEL_PT][t].present,
         \A w \in DOMAIN F :
           LET T == s.mem[KERNEL_PD][GET_PD_IDX(w)].frame
               t == GET_PT_IDX(w)
           IN /\ s.mem[T][t].present => out.mem[T][t].present
              /\ out.mem[T][t].frame = s.mem[T][t].frame
  PROVE  Layout(out, R, F)
<1>1. TablesShape(s, R) /\ KERNEL_PD \in R
  BY DEF Layout, TablesShape
<1>2. Free(out) = Free(s)
  BY DEF Free
<1>3. \A p \in R, d \in Idx : /\ Owns(out, p, d) <=> Owns(s, p, d)
                              /\ Owns(s, p, d) => out.mem[p][d].frame = s.mem[p][d].frame
  BY DEF Owns, HasTable
<1>4. Untouched(out, {})
  BY <1>1, <1>2 DEF TablesShape, Untouched
<1>5. KernelTables(out)
  BY <1>1, Constants DEF TablesShape, KernelTables
<1>6. \A p \in R, d \in Idx : Owns(out, p, d) =>
        out.mem[p][d].frame \in (START .. TOTAL_FRAMES - 1) \ (R \union Free(out))
  BY <1>1, <1>2, <1>3 DEF TablesShape
<1>7. \A p, q \in R, d, e \in Idx :
        Owns(out, p, d) /\ Owns(out, q, e) /\ out.mem[p][d].frame = out.mem[q][e].frame => p = q /\ d = e
  <2>1. \A p, q \in R, d, e \in Idx :
          Owns(s, p, d) /\ Owns(s, q, e) /\ s.mem[p][d].frame = s.mem[q][e].frame => p = q /\ d = e
    BY <1>1 DEF TablesShape
  <2> QED
    BY <2>1, <1>3
<1>8. TablesShape(out, R)
  BY <1>1, <1>2, <1>4, <1>5, <1>6, <1>7 DEF TablesShape
<1>9. ASSUME NEW w \in DOMAIN F
      PROVE  /\ w \in VPages /\ GET_PD_IDX(w) > KERNEL_PT_PDT_IDX
             /\ Entry(out, w).present /\ Entry(out, w).frame = F[w]
  <2> DEFINE d == GET_PD_IDX(w)
             t == GET_PT_IDX(w)
             T == s.mem[KERNEL_PD][d].frame
  <2>1. /\ w \in VPages /\ d \in Idx /\ t \in Idx /\ d > KERNEL_PT_PDT_IDX
        /\ Owns(s, KERNEL_PD, d)
        /\ s.mem[T][t].present /\ s.mem[T][t].frame = F[w]
    BY LayoutPage
  <2>2. out.mem[KERNEL_PD][d].present /\ out.mem[KERNEL_PD][d].frame = T
    BY <2>1, <1>1 DEF Owns, HasTable
  <2>3. out.mem[T][t].present /\ out.mem[T][t].frame = F[w]
    BY <2>1
  <2>4. Entry(out, w) = out.mem[T][t]
    BY <2>2 DEF Entry, Walk
  <2> QED
    BY <2>1, <2>3, <2>4
<1> QED
  BY <1>8, <1>9 DEF Layout

(* Popping frames leaves the layout, and the frame popped alone may be a directory. *)
LEMMA LayoutRequest ==
  ASSUME NEW s \in State, NEW R, NEW F, Layout(s, R, F), NEW n \in 1 .. HEAP_PAGES
  PROVE  LET a == pf_allocate_frames(s, n)
             fr == a.array[0]
         IN
         /\ a \in State /\ a.mem = s.mem /\ Layout(a, R, F) /\ Free(a) \subseteq Free(s)
         /\ fr \in Frames
         /\ a.res # 0 => Layout(a, R \union {fr}, F) /\ fr \in Free(s) \ Free(a)
<1> DEFINE a == pf_allocate_frames(s, n)
           fr == a.array[0]
<1>1. /\ a \in State /\ a.mem = s.mem /\ Len(a.pool) <= Len(s.pool)
      /\ \A k \in 1 .. Len(a.pool) : a.pool[k] = s.pool[k]
      /\ a.res # 0 => /\ Len(s.pool) > n /\ Len(a.pool) = Len(s.pool) - n
                      /\ \A k \in 0 .. n - 1 : a.array[k] = s.pool[Len(s.pool) - k]
  BY PfAllocateProperties
<1> HIDE DEF a
<1>2. Len(s.pool) \in Nat /\ Len(a.pool) \in Nat /\ n \in Nat /\ n >= 1
  BY <1>1, Constants DEF State
<1>3. fr \in Frames
  <2>1. a.array \in [0 .. HEAP_PAGES - 1 -> Frames] /\ 0 \in 0 .. HEAP_PAGES - 1
    BY <1>1, Constants DEF State
  <2> QED
    BY <2>1
<1>4. Free(a) \subseteq Free(s)
  BY <1>1, <1>2 DEF Free
<1>5. TablesShape(s, R) /\ Untouched(s, {})
  BY DEF Layout, TablesShape
<1>6. \A j, k \in 1 .. Len(a.pool) : a.pool[j] = a.pool[k] => j = k
  BY <1>1, <1>2, <1>5 DEF Untouched
<1>7. Untouched(a, {})
  <2>1. \A f \in Free(a), x \in Idx : a.mem[f][x] \in {Empty, Junk}
    BY <1>1, <1>4, <1>5 DEF Untouched
  <2>2. Free(a) \subseteq START .. TOTAL_FRAMES - 1
    BY <1>4, <1>5 DEF Untouched
  <2> QED
    BY <2>1, <2>2, <1>6 DEF Untouched
<1>8. /\ \A p, d : Owns(a, p, d) <=> Owns(s, p, d)
      /\ KernelTables(a) <=> KernelTables(s)
      /\ \A w : Entry(a, w) = Entry(s, w)
  BY <1>1 DEF Owns, HasTable, KernelTables, Entry, Walk
<1>9. Layout(a, R, F)
  <2>1. TablesShape(a, R)
    BY <1>1, <1>4, <1>5, <1>7, <1>8 DEF TablesShape
  <2> QED
    BY <2>1, <1>8 DEF Layout
<1>10. ASSUME a.res # 0
       PROVE  Layout(a, R \union {fr}, F) /\ fr \in Free(s) \ Free(a)
  <2>1. fr = s.pool[Len(s.pool)] /\ Len(s.pool) > n /\ Len(a.pool) = Len(s.pool) - n
    <3>1. 0 \in 0 .. n - 1 /\ Len(s.pool) - 0 = Len(s.pool)
      BY <1>2
    <3> QED
      BY <3>1, <1>1, <1>10
  <2>2. fr \in Free(s)
    BY <2>1, <1>2 DEF Free
  <2>3. fr \notin Free(a)
    <3> SUFFICES ASSUME NEW k \in 1 .. Len(a.pool), a.pool[k] = fr PROVE FALSE
      BY DEF Free
    <3>1. k \in 1 .. Len(s.pool) /\ Len(s.pool) \in 1 .. Len(s.pool) /\ s.pool[k] = s.pool[Len(s.pool)]
      BY <2>1, <1>1, <1>2
    <3>2. k = Len(s.pool)
      BY <3>1, <1>5 DEF Untouched
    <3> QED
      BY <3>2, <2>1, <1>2
  <2>4. fr \in START .. TOTAL_FRAMES - 1 /\ \A x \in Idx : s.mem[fr][x] \in {Empty, Junk}
    BY <2>2, <1>5 DEF Untouched
  <2>5. \A d \in Idx : ~HasTable(s, fr, d)
    BY <2>4 DEF HasTable, Empty, Junk
  <2>6. fr # KERNEL_PD /\ KERNEL_PD \in R
    BY <2>4, <1>5, Constants DEF TablesShape
  <2>7. ASSUME NEW p \in R \union {fr}, NEW d \in Idx, Owns(a, p, d)
        PROVE  p \in R /\ Owns(s, p, d)
    BY <2>5, <2>7, <1>8 DEF Owns
  <2>8. \A p \in R \union {fr}, d \in Idx : Owns(a, p, d) =>
          a.mem[p][d].frame \in (START .. TOTAL_FRAMES - 1) \ ((R \union {fr}) \union Free(a))
    <3> SUFFICES ASSUME NEW p \in R \union {fr}, NEW d \in Idx, Owns(a, p, d)
                 PROVE  a.mem[p][d].frame \in (START .. TOTAL_FRAMES - 1) \ ((R \union {fr}) \union Free(a))
      OBVIOUS
    <3>1. p \in R /\ Owns(s, p, d)
      BY <2>7
    <3>2. s.mem[p][d].frame \in (START .. TOTAL_FRAMES - 1) \ (R \union Free(s))
      BY <3>1, <1>5 DEF TablesShape
    <3> QED
      BY <3>2, <2>2, <1>1, <1>4
  <2>9. \A p, q \in R \union {fr}, d, e \in Idx :
          Owns(a, p, d) /\ Owns(a, q, e) /\ a.mem[p][d].frame = a.mem[q][e].frame => p = q /\ d = e
    <3>1. \A p, q \in R, d, e \in Idx :
            Owns(s, p, d) /\ Owns(s, q, e) /\ s.mem[p][d].frame = s.mem[q][e].frame => p = q /\ d = e
      BY <1>5 DEF TablesShape
    <3> QED
      BY <3>1, <2>7, <1>1
  <2>10. (R \union {fr}) \ {KERNEL_PD} \subseteq (START .. TOTAL_FRAMES - 1) \ Free(a)
    BY <2>3, <2>4, <1>4, <1>5 DEF TablesShape
  <2>11. TablesShape(a, R \union {fr})
    BY <2>6, <2>8, <2>9, <2>10, <1>5, <1>7, <1>8 DEF TablesShape
  <2> QED
    BY <2>2, <2>3, <2>11, <1>9 DEF Layout
<1> QED
  BY <1>1, <1>3, <1>4, <1>9, <1>10 DEF a

(* map_page keeps the layout where it finds the table, *)
LEMMA LayoutOldTable ==
  ASSUME NEW s \in State, NEW R, NEW F, Layout(s, R, F), NEW pd \in R, NEW v \in VPages,
         NEW fr \in Frames, NEW out, s.mem[pd][GET_PD_IDX(v)].present,
         IF pd = KERNEL_PD THEN v \notin DOMAIN F ELSE GET_PD_IDX(v) < KERNEL_PT_PDT_IDX,
         MappedInOldTable(s, pd, fr, v, out)
  PROVE  /\ Layout(out, R, F)
         /\ pd = KERNEL_PD /\ GET_PD_IDX(v) # KERNEL_PT_PDT_IDX =>
              Entry(out, v).present /\ Entry(out, v).frame = fr
<1> DEFINE d == GET_PD_IDX(v)
           t == GET_PT_IDX(v)
           T == s.mem[pd][d].frame
<1>1. d \in Idx /\ t \in Idx /\ TablesShape(s, R) /\ KERNEL_PD \in R
  BY AddressParts DEF Layout, TablesShape
<1>2. \/ T = KERNEL_PT
      \/ Owns(s, pd, d)
  BY <1>1, LayoutKernel DEF Owns, HasTable
<1>3. T \notin R /\ T \notin Free(s) /\ T \in Frames
  <2>1. KERNEL_PT \notin R
    BY <1>1, LayoutRoot
  <2>2. Free(s) \subseteq START .. TOTAL_FRAMES - 1
    BY <1>1 DEF TablesShape, Untouched
  <2>3. KERNEL_PT \notin Free(s) /\ KERNEL_PT \in Frames
    BY <2>2, Constants
  <2> QED
    BY <2>1, <2>3, <1>1, <1>2, LayoutTable
<1>4. /\ out.pool = s.pool
      /\ \A f \in Frames, x \in Idx :
           ~(f = pd /\ x = d) /\ ~(f = T /\ x \in {0, t}) => out.mem[f][x] = s.mem[f][x]
      /\ out.mem[pd][d].present = s.mem[pd][d].present /\ out.mem[pd][d].frame = T
      /\ out.mem[T][0].present
      /\ ~IsSlot(T, t) => out.mem[T][t].present /\ out.mem[T][t].frame = fr
      /\ t # 0 => out.mem[T][0].frame = s.mem[T][0].frame
  BY <1>3 DEF MappedInOldTable
<1> HIDE DEF d, t, T
<1>5. \A p \in R, e \in Idx :
        out.mem[p][e].present = s.mem[p][e].present /\ out.mem[p][e].frame = s.mem[p][e].frame
  <2> SUFFICES ASSUME NEW p \in R, NEW e \in Idx
               PROVE  out.mem[p][e].present = s.mem[p][e].present /\ out.mem[p][e].frame = s.mem[p][e].frame
    OBVIOUS
  <2>1. p \in Frames
    BY <1>1, LayoutRoot
  <2>2. CASE p = pd /\ e = d
    BY <2>2, <1>4 DEF T
  <2>3. CASE ~(p = pd /\ e = d)
    BY <2>1, <2>3, <1>3, <1>4
  <2> QED
    BY <2>2, <2>3
<1>6. \A f \in Free(s), x \in Idx : out.mem[f][x] = s.mem[f][x]
  <2>1. \A f \in Free(s) : f \in Frames
    <3>1. Free(s) \subseteq START .. TOTAL_FRAMES - 1
      BY <1>1 DEF TablesShape, Untouched
    <3> QED
      BY <3>1, Constants DEF Frames
  <2>2. pd \notin Free(s)
    BY <1>1, LayoutRoot
  <2> QED
    BY <2>1, <2>2, <1>3, <1>4
<1>7. \A x \in Idx \ {KERNEL_TMP_PT_IDX} : out.mem[KERNEL_PT][x].present
  <2> SUFFICES ASSUME NEW x \in Idx \ {KERNEL_TMP_PT_IDX} PROVE out.mem[KERNEL_PT][x].present
    OBVIOUS
  <2>1. s.mem[KERNEL_PT][x].present /\ KERNEL_PT \in Frames /\ pd # KERNEL_PT
    BY <1>1, LayoutRoot, Constants DEF TablesShape, KernelTables
  <2>2. CASE T = KERNEL_PT /\ x = t
    BY <2>2, <1>4 DEF IsSlot
  <2>3. CASE ~(T = KERNEL_PT /\ x = t)
    BY <2>1, <2>3, <1>4
  <2> QED
    BY <2>2, <2>3
<1>8. ASSUME NEW w \in DOMAIN F
      PROVE  LET U == s.mem[KERNEL_PD][GET_PD_IDX(w)].frame
                 u == GET_PT_IDX(w)
             IN /\ s.mem[U][u].present => out.mem[U][u].present
                /\ out.mem[U][u].frame = s.mem[U][u].frame
  <2> DEFINE e == GET_PD_IDX(w)
             u == GET_PT_IDX(w)
             U == s.mem[KERNEL_PD][e].frame
  <2>1. /\ w \in VPages /\ e \in Idx /\ u \in Idx /\ e > KERNEL_PT_PDT_IDX
        /\ Owns(s, KERNEL_PD, e)
    BY LayoutPage
  <2>2. U \in Frames /\ U # KERNEL_PT /\ U \notin R
        /\ \A q \in R, g \in Idx : Owns(s, q, g) /\ s.mem[q][g].frame = U => q = KERNEL_PD /\ g = e
    BY <2>1, <1>1, LayoutTable
  <2>3. CASE U # T
    BY <2>1, <2>2, <2>3, <1>4
  <2>4. CASE U = T
    <3>1. pd = KERNEL_PD /\ d = e
      BY <2>2, <2>4, <1>1, <1>2 DEF T
    <3>2. u # t
      <4>1. v # w
        BY <3>1
      <4> QED
        BY <4>1, <3>1, <2>1, PagesDiffer DEF d, t
    <3>3. CASE u = 0
      BY <3>2, <3>3, <2>4, <1>4
    <3>4. CASE u # 0
      <4>1. out.mem[U][u] = s.mem[U][u]
        BY <3>2, <3>4, <2>1, <2>2, <1>4
      <4> QED
        BY <4>1
    <3> QED
      BY <3>3, <3>4
  <2> QED
    BY <2>3, <2>4
<1>9. Layout(out, R, F)
  BY <1>4, <1>5, <1>6, <1>7, <1>8, LayoutKept
<1>10. ASSUME pd = KERNEL_PD, d # KERNEL_PT_PDT_IDX
       PROVE  Entry(out, v).present /\ Entry(out, v).frame = fr
  <2>1. Owns(s, pd, d)
    BY <1>1, <1>10, LayoutKernel DEF d
  <2>2. T # KERNEL_PT
    BY <2>1 DEF Owns, HasTable, T
  <2>3. Entry(out, v) = out.mem[T][t]
    BY <1>4, <1>10 DEF Entry, Walk, d, t
  <2> QED
    BY <2>2, <2>3, <1>4 DEF IsSlot
<1> QED
  BY <1>9, <1>10 DEF d


(* With the same memory and the same pool the layout is the same. *)
LEMMA LayoutSame ==
  ASSUME NEW s, NEW R, NEW F, Layout(s, R, F), NEW out, out.mem = s.mem, out.pool = s.pool
  PROVE  Layout(out, R, F) /\ Free(out) = Free(s)
<1>1. Free(out) = Free(s)
  BY DEF Free
<1>2. /\ \A p, d : Owns(out, p, d) <=> Owns(s, p, d)
      /\ KernelTables(out) <=> KernelTables(s)
      /\ \A w : Entry(out, w) = Entry(s, w)
      /\ Untouched(out, {}) <=> Untouched(s, {})
  BY <1>1 DEF Owns, HasTable, KernelTables, Entry, Walk, Untouched
<1>3. TablesShape(out, R)
  BY <1>1, <1>2 DEF Layout, TablesShape
<1> QED
  BY <1>1, <1>2, <1>3 DEF Layout

(* A layout of more directories is one of fewer. *)
LEMMA LayoutSmaller ==
  ASSUME NEW s, NEW R, NEW F, Layout(s, R, F), NEW Q \in SUBSET R, KERNEL_PD \in Q
  PROVE  Layout(s, Q, F)
<1>1. TablesShape(s, Q)
  BY DEF Layout, TablesShape
<1> QED
  BY <1>1 DEF Layout

(* The entry of the slot is no part of it. *)
LEMMA LayoutSlot ==
  ASSUME NEW s \in State, NEW R, NEW F, Layout(s, R, F), NEW out, out.pool = s.pool,
         \A f \in Frames, x \in Idx : ~IsSlot(f, x) => out.mem[f][x] = s.mem[f][x]
  PROVE  Layout(out, R, F)
<1>1. TablesShape(s, R) /\ KERNEL_PD \in R
  BY DEF Layout, TablesShape
<1>2. \A f \in Frames \ {KERNEL_PT}, x \in Idx : out.mem[f][x] = s.mem[f][x]
  BY DEF IsSlot
<1>3. \A p \in R, d \in Idx : out.mem[p][d] = s.mem[p][d]
  BY <1>1, <1>2, LayoutRoot
<1>4. \A f \in Free(s), x \in Idx : out.mem[f][x] = s.mem[f][x]
  <2>1. Free(s) \subseteq START .. TOTAL_FRAMES - 1
    BY <1>1 DEF TablesShape, Untouched
  <2>2. \A f \in Free(s) : f \in Frames \ {KERNEL_PT}
    BY <2>1, Constants DEF Frames
  <2> QED
    BY <2>2, <1>2
<1>5. \A t \in Idx \ {KERNEL_TMP_PT_IDX} : out.mem[KERNEL_PT][t].present
  <2>1. \A t \in Idx \ {KERNEL_TMP_PT_IDX} : s.mem[KERNEL_PT][t].present
    BY <1>1 DEF TablesShape, KernelTables
  <2> QED
    BY <2>1, Constants DEF IsSlot
<1>6. ASSUME NEW w \in DOMAIN F
      PROVE  LET T == s.mem[KERNEL_PD][GET_PD_IDX(w)].frame
                 t == GET_PT_IDX(w)
             IN /\ s.mem[T][t].present => out.mem[T][t].present
                /\ out.mem[T][t].frame = s.mem[T][t].frame
  <2> DEFINE d == GET_PD_IDX(w)
             t == GET_PT_IDX(w)
             T == s.mem[KERNEL_PD][d].frame
  <2>1. d \in Idx /\ t \in Idx /\ Owns(s, KERNEL_PD, d)
    BY LayoutPage
  <2>2. T \in Frames /\ T # KERNEL_PT
    BY <2>1, <1>1, LayoutTable
  <2> QED
    BY <2>1, <2>2, <1>2
<1> QED
  BY <1>3, <1>4, <1>5, <1>6, LayoutKept

(* Nor is an entry of a page below the kernel image, of a table or, before there is one,
   of frame 0.  *)
LEMMA LayoutEdited ==
  ASSUME NEW s \in State, NEW R, NEW F, Layout(s, R, F), NEW d \in Idx,
         d < KERNEL_PT_PDT_IDX, NEW t \in Idx, NEW out, out.pool = s.pool,
         \A f \in Frames, x \in Idx :
           ~(f = s.mem[KERNEL_PD][d].frame /\ x = t) => out.mem[f][x] = s.mem[f][x]
  PROVE  Layout(out, R, F)
<1> DEFINE T == s.mem[KERNEL_PD][d].frame
<1>1. TablesShape(s, R) /\ KERNEL_PD \in R
  BY DEF Layout, TablesShape
<1>2. Free(s) \subseteq START .. TOTAL_FRAMES - 1
  BY <1>1 DEF TablesShape, Untouched
<1>3. d # KERNEL_PT_PDT_IDX
  BY Constants DEF Idx
<1>4. T = 0 \/ Owns(s, KERNEL_PD, d)
  BY <1>1, <1>3, LayoutKernel
<1>5. /\ T # KERNEL_PT /\ T \notin R /\ T \notin Free(s)
      /\ \A e \in Idx : Owns(s, KERNEL_PD, e) /\ s.mem[KERNEL_PD][e].frame = T => e = d
  <2>1. CASE T = 0
    <3>1. 0 # KERNEL_PT /\ 0 \notin Free(s)
      BY <1>2, Constants
    <3>2. \A e \in Idx : Owns(s, KERNEL_PD, e) => s.mem[KERNEL_PD][e].frame # 0
      BY <1>1, LayoutTable
    <3> QED
      BY <2>1, <3>1, <3>2, <1>1, LayoutRoot
  <2>2. CASE Owns(s, KERNEL_PD, d)
    BY <2>2, <1>1, LayoutTable
  <2> QED
    BY <2>1, <2>2, <1>4
<1> HIDE DEF T
<1>6. \A f \in Frames, x \in Idx : f # T => out.mem[f][x] = s.mem[f][x]
  BY DEF T
<1>7. \A p \in R, e \in Idx : out.mem[p][e] = s.mem[p][e]
  BY <1>1, <1>5, <1>6, LayoutRoot
<1>8. \A f \in Free(s), x \in Idx : out.mem[f][x] = s.mem[f][x]
  <2>1. \A f \in Free(s) : f \in Frames
    BY <1>2, Constants DEF Frames
  <2> QED
    BY <2>1, <1>5, <1>6
<1>9. \A x \in Idx \ {KERNEL_TMP_PT_IDX} : out.mem[KERNEL_PT][x].present
  <2>1. \A x \in Idx \ {KERNEL_TMP_PT_IDX} : s.mem[KERNEL_PT][x].present
    BY <1>1 DEF TablesShape, KernelTables
  <2> QED
    BY <2>1, <1>5, <1>6, Constants
<1>10. ASSUME NEW w \in DOMAIN F
       PROVE  LET U == s.mem[KERNEL_PD][GET_PD_IDX(w)].frame
                  u == GET_PT_IDX(w)
              IN /\ s.mem[U][u].present => out.mem[U][u].present
                 /\ out.mem[U][u].frame = s.mem[U][u].frame
  <2> DEFINE e == GET_PD_IDX(w)
             u == GET_PT_IDX(w)
             U == s.mem[KERNEL_PD][e].frame
  <2>1. e \in Idx /\ u \in Idx /\ e > KERNEL_PT_PDT_IDX /\ Owns(s, KERNEL_PD, e)
    BY LayoutPage
  <2>2. U \in Frames
    BY <2>1, <1>1, LayoutTable
  <2>3. e # d
    BY <2>1, Constants DEF Idx
  <2>4. U # T
    BY <2>1, <2>3, <1>5
  <2> QED
    BY <2>1, <2>2, <2>4, <1>6
<1> QED
  BY <1>7, <1>8, <1>9, <1>10, LayoutKept

(* and where it adds one, from a frame that was free. *)
LEMMA LayoutNewTable ==
  ASSUME NEW s \in State, NEW R, NEW F, Layout(s, R, F), NEW pd \in R, NEW v \in VPages,
         NEW fr \in Frames, NEW out, ~s.mem[pd][GET_PD_IDX(v)].present,
         pd = KERNEL_PD \/ GET_PD_IDX(v) < KERNEL_PT_PDT_IDX,
         MappedInNewTable(s, pd, fr, v, out)
  PROVE  /\ Layout(out, R, F)
         /\ out.res # 0 =>
              LET d == GET_PD_IDX(v)
                  T == out.array[0]
              IN /\ T \in Free(s) /\ out.mem[pd][d].present /\ out.mem[pd][d].frame = T
                 /\ pd = KERNEL_PD => Entry(out, v).present /\ Entry(out, v).frame = fr
<1> DEFINE d == GET_PD_IDX(v)
           t == GET_PT_IDX(v)
           a == pf_allocate_frames(s, 1)
           T == a.array[0]
<1>1. d \in Idx /\ t \in Idx /\ 1 \in 1 .. HEAP_PAGES
  BY AddressParts, Constants
<1>2. /\ a \in State /\ a.mem = s.mem /\ Layout(a, R, F) /\ T \in Frames
      /\ a.res # 0 => T \in Free(s) \ Free(a)
  BY <1>1, LayoutRequest
<1>3. /\ out.pool = a.pool /\ out.array = a.array /\ out.res = a.res
      /\ out.res = 0 => out.mem = s.mem
      /\ out.res # 0 /\ T # pd =>
           /\ \A f \in Frames \ {T}, x \in Idx :
                ~(f = pd /\ x = d) => out.mem[f][x] = s.mem[f][x]
           /\ out.mem[pd][d].present /\ out.mem[pd][d].frame = T
           /\ out.mem[T][t].present /\ out.mem[T][t].frame = fr
  BY DEF MappedInNewTable
<1> HIDE DEF a, d, t
<1>4. CASE out.res = 0
  <2>1. Layout(out, R, F)
    BY <1>2, <1>3, <1>4, LayoutSame
  <2> QED
    BY <2>1, <1>4
<1>5. CASE out.res # 0
  <2>1. /\ TablesShape(s, R) /\ TablesShape(a, R) /\ KERNEL_PD \in R
        /\ Free(s) \subseteq START .. TOTAL_FRAMES - 1
        /\ Free(a) \subseteq START .. TOTAL_FRAMES - 1
    BY <1>2 DEF Layout, TablesShape, Untouched
  <2>2. T \in Free(s) /\ T \notin Free(a)
    BY <1>2, <1>3, <1>5
  <2>3. \A p \in R : p \in Frames /\ p # KERNEL_PT /\ p # T /\ p \notin Free(a)
    BY <2>1, <2>2, <1>2, LayoutRoot
  <2>4. T \in START .. TOTAL_FRAMES - 1 /\ T # KERNEL_PT
    BY <2>1, <2>2, Constants
  <2> HIDE DEF T
  <2>5. /\ \A f \in Frames \ {T}, x \in Idx : ~(f = pd /\ x = d) => out.mem[f][x] = a.mem[f][x]
        /\ out.mem[pd][d].present /\ out.mem[pd][d].frame = T
        /\ out.mem[T][t].present /\ out.mem[T][t].frame = fr
    <3>1. T # pd
      BY <2>3
    <3> QED
      BY <3>1, <1>2, <1>3, <1>5 DEF T
  <2>6. Free(out) = Free(a)
    BY <1>3 DEF Free
  <2>7. ~a.mem[pd][d].present
    BY <1>2 DEF d
  <2>8. \A p \in R, e \in Idx : ~(p = pd /\ e = d) => out.mem[p][e] = a.mem[p][e]
    BY <2>3, <2>5
  <2>9. Untouched(out, {})
    <3>1. \A f \in Free(a), x \in Idx : out.mem[f][x] = a.mem[f][x]
      <4>1. \A f \in Free(a) : f \in Frames \ {T} /\ f # pd
        BY <2>1, <2>2, <2>3, Constants DEF Frames
      <4> QED
        BY <4>1, <2>5
    <3> QED
      BY <3>1, <2>1, <2>6, <1>3 DEF TablesShape, Untouched
  <2>10. ASSUME NEW p \in R, NEW e \in Idx, Owns(out, p, e)
         PROVE  \/ p = pd /\ e = d /\ out.mem[p][e].frame = T
                \/ Owns(a, p, e) /\ Owns(s, p, e) /\ out.mem[p][e].frame = a.mem[p][e].frame
    <3>1. CASE p = pd /\ e = d
      BY <3>1, <2>5
    <3>2. CASE ~(p = pd /\ e = d)
      BY <3>2, <2>8, <2>10, <1>2 DEF Owns, HasTable
    <3> QED
      BY <3>1, <3>2
  <2>11. ASSUME NEW p \in R, NEW e \in Idx, Owns(a, p, e)
         PROVE  a.mem[p][e].frame # T
    <3>1. Owns(s, p, e) /\ a.mem[p][e] = s.mem[p][e]
      BY <2>11, <1>2 DEF Owns, HasTable
    <3> QED
      BY <3>1, <2>1, <2>2, LayoutTable
  <2>12. \A p \in R, e \in Idx : Owns(out, p, e) =>
           out.mem[p][e].frame \in (START .. TOTAL_FRAMES - 1) \ (R \union Free(out))
    <3> SUFFICES ASSUME NEW p \in R, NEW e \in Idx, Owns(out, p, e)
                 PROVE  out.mem[p][e].frame \in (START .. TOTAL_FRAMES - 1) \ (R \union Free(out))
      OBVIOUS
    <3>1. CASE out.mem[p][e].frame = T
      BY <3>1, <2>2, <2>3, <2>4, <2>6
    <3>2. CASE Owns(a, p, e) /\ out.mem[p][e].frame = a.mem[p][e].frame
      BY <3>2, <2>1, <2>6 DEF TablesShape
    <3> QED
      BY <3>1, <3>2, <2>10
  <2>13. \A p, q \in R, e, g \in Idx :
           Owns(out, p, e) /\ Owns(out, q, g) /\ out.mem[p][e].frame = out.mem[q][g].frame =>
             p = q /\ e = g
    <3>1. \A p, q \in R, e, g \in Idx :
            Owns(a, p, e) /\ Owns(a, q, g) /\ a.mem[p][e].frame = a.mem[q][g].frame => p = q /\ e = g
      BY <2>1 DEF TablesShape
    <3> SUFFICES ASSUME NEW p \in R, NEW q \in R, NEW e \in Idx, NEW g \in Idx,
                        Owns(out, p, e), Owns(out, q, g),
                        out.mem[p][e].frame = out.mem[q][g].frame
                 PROVE  p = q /\ e = g
      OBVIOUS
    <3>2. \/ p = pd /\ e = d /\ out.mem[p][e].frame = T
          \/ Owns(a, p, e) /\ out.mem[p][e].frame = a.mem[p][e].frame
      BY <2>10
    <3>3. \/ q = pd /\ g = d /\ out.mem[q][g].frame = T
          \/ Owns(a, q, g) /\ out.mem[q][g].frame = a.mem[q][g].frame
      BY <2>10
    <3> QED
      BY <3>1, <3>2, <3>3, <2>11
  <2>14. KernelTables(out)
    <3>1. KernelTables(a) /\ KERNEL_PT_PDT_IDX \in Idx /\ KERNEL_PT \in Frames \ {T}
      BY <2>1, <2>4, Constants DEF TablesShape
    <3>2. ~(KERNEL_PD = pd /\ KERNEL_PT_PDT_IDX = d)
      BY <3>1, <2>7 DEF KernelTables
    <3>3. \A x \in Idx : out.mem[KERNEL_PT][x] = a.mem[KERNEL_PT][x]
      BY <3>1, <2>3, <2>5
    <3>4. \A x \in Idx : \/ out.mem[KERNEL_PD][x] = a.mem[KERNEL_PD][x]
                         \/ out.mem[KERNEL_PD][x].present /\ out.mem[KERNEL_PD][x].frame = T
      BY <2>1, <2>5, <2>8
    <3>5. out.mem[KERNEL_PD][KERNEL_PT_PDT_IDX] = a.mem[KERNEL_PD][KERNEL_PT_PDT_IDX]
      BY <3>1, <3>2, <2>1, <2>8
    <3> QED
      BY <3>1, <3>3, <3>4, <3>5, <2>4 DEF KernelTables
  <2>15. TablesShape(out, R)
    BY <2>1, <2>6, <2>9, <2>12, <2>13, <2>14 DEF TablesShape
  <2>16. ASSUME NEW w \in DOMAIN F
         PROVE  /\ w \in VPages /\ GET_PD_IDX(w) > KERNEL_PT_PDT_IDX
                /\ Entry(out, w).present /\ Entry(out, w).frame = F[w]
    <3> DEFINE e == GET_PD_IDX(w)
               u == GET_PT_IDX(w)
               U == a.mem[KERNEL_PD][e].frame
    <3>1. /\ w \in VPages /\ e \in Idx /\ u \in Idx /\ e > KERNEL_PT_PDT_IDX
          /\ Owns(a, KERNEL_PD, e) /\ a.mem[U][u].present /\ a.mem[U][u].frame = F[w]
      BY <1>2, LayoutPage
    <3> HIDE DEF u, e
    <3>2. U \in Frames /\ U \notin R /\ U # T
      BY <3>1, <2>1, <2>11, <1>2, LayoutTable
    <3>3. ~(KERNEL_PD = pd /\ e = d)
      BY <3>1, <2>7 DEF Owns, HasTable
    <3>4. out.mem[KERNEL_PD][e] = a.mem[KERNEL_PD][e]
      BY <3>1, <3>3, <2>1, <2>8
    <3>5. out.mem[U][u] = a.mem[U][u]
      <4>1. U \in Frames \ {T} /\ U # pd
        BY <3>2
      <4> QED
        BY <4>1, <3>1, <2>5
    <3>6. out.mem[KERNEL_PD][e].present /\ out.mem[KERNEL_PD][e].frame = U
      BY <3>1, <3>4 DEF Owns, HasTable
    <3>7. Entry(out, w) = out.mem[U][u]
      BY <3>6 DEF Entry, Walk, e, u
    <3> QED
      BY <3>1, <3>5, <3>7 DEF e
  <2>17. Layout(out, R, F)
    BY <2>15, <2>16 DEF Layout
  <2>18. pd = KERNEL_PD => Entry(out, v) = out.mem[T][t]
    BY <2>5 DEF Entry, Walk, d, t
  <2> QED
    BY <2>2, <2>5, <2>17, <2>18, <1>3 DEF T, d
<1> QED
  BY <1>4, <1>5

(* map_page keeps the layout, maps the page and, if it took a table, left its frame in
   the static array.  *)
LEMMA LayoutMapped ==
  ASSUME NEW s \in State, Coherent(s), NEW R, NEW F, Layout(s, R, F), NEW pd \in R,
         NEW v \in VPages, NEW fr \in Frames,
         IF pd = KERNEL_PD THEN v \notin DOMAIN F ELSE GET_PD_IDX(v) < KERNEL_PT_PDT_IDX
  PROVE  LET out == map_page(s, pd, fr, v, TRUE)
             d == GET_PD_IDX(v)
             T == out.array[0]
         IN
         /\ Keeps(s, out) /\ out.res \in {0, 1} /\ Layout(out, R, F)
         /\ out.res # 0 =>
              /\ pd = KERNEL_PD /\ d # KERNEL_PT_PDT_IDX =>
                   Entry(out, v).present /\ Entry(out, v).frame = fr
              /\ \/ T = s.array[0]
                 \/ T \in Free(s) /\ out.mem[pd][d].present /\ out.mem[pd][d].frame = T
<1> DEFINE out == map_page(s, pd, fr, v, TRUE)
           d == GET_PD_IDX(v)
<1>1. TRUE \in BOOLEAN /\ pd \in Frames /\ pd # KERNEL_PT /\ ~IsSlot(pd, d)
  BY LayoutRoot DEF Layout, IsSlot
<1>2. Keeps(s, out) /\ out.res \in {0, 1}
  BY <1>1, MapPageKeeps
<1>3. CASE s.mem[pd][d].present
  <2>1. out = MapInOldTable(s, pd, fr, v, TRUE)
    BY <1>3 DEF map_page
  <2>2. MappedInOldTable(s, pd, fr, v, out)
    BY <2>1, <1>1, MapInOldTableEffect
  <2> HIDE DEF out
  <2>3. /\ Layout(out, R, F)
        /\ pd = KERNEL_PD /\ d # KERNEL_PT_PDT_IDX => Entry(out, v).present /\ Entry(out, v).frame = fr
    BY <2>2, <1>3, LayoutOldTable
  <2>4. out.array = s.array
    BY <2>2, Zenon DEF MappedInOldTable
  <2> QED
    BY <2>3, <2>4, <1>2 DEF out
<1>4. CASE ~s.mem[pd][d].present
  <2>1. out = MapInNewTable(s, pd, fr, v, TRUE)
    BY <1>4 DEF map_page
  <2>2. MappedInNewTable(s, pd, fr, v, out)
    BY <2>1, <1>1, MapInNewTableEffect
  <2> HIDE DEF out
  <2>3. /\ Layout(out, R, F)
        /\ out.res # 0 =>
             LET T == out.array[0]
             IN /\ T \in Free(s) /\ out.mem[pd][d].present /\ out.mem[pd][d].frame = T
                /\ pd = KERNEL_PD => Entry(out, v).present /\ Entry(out, v).frame = fr
    BY <2>2, <1>4, LayoutNewTable
  <2> QED
    BY <2>3, <1>2 DEF out
<1> QED
  BY <1>3, <1>4

(* So does malloc's loop. *)
LEMMA LayoutGrown ==
  ASSUME NEW s \in State, Coherent(s), NEW R, NEW F, Layout(s, R, F), NEW v \in VPages,
         GET_PD_IDX(v) < KERNEL_PT_PDT_IDX, NEW fr \in Frames
  PROVE  Layout(GrownBy(s, fr, v), R, F)
<1> DEFINE a == kernel_map_page(s, fr, v, TRUE)
           b == get_page(a, v)
           e == [ReadTemp(b)[GET_PT_IDX(v)] EXCEPT !.rw = TRUE, !.present = TRUE]
           out == kernel_set_temporary_entry(SetEntry(b, v, e), kernel_get_temporary_entry(a))
<1>1. KERNEL_PD \in R /\ v \notin DOMAIN F /\ GET_PD_IDX(v) \in Idx /\ GET_PT_IDX(v) \in Idx
  <2>1. GET_PD_IDX(v) \in Idx /\ GET_PT_IDX(v) \in Idx
    BY AddressParts
  <2>2. ~(GET_PD_IDX(v) > KERNEL_PT_PDT_IDX)
    BY <2>1, Constants DEF Idx
  <2> QED
    BY <2>1, <2>2 DEF Layout, TablesShape
<1>2. a \in State /\ Coherent(a) /\ Layout(a, R, F)
  BY <1>1, LayoutMapped DEF Keeps, kernel_map_page
<1> HIDE DEF a
<1>3. e \in PTE
  <2>1. Empty \in PTE
    BY Constants DEF Empty, PTE
  <2>2. ReadTemp(b) \in [Idx -> PTE]
    BY <1>2, <2>1, EntryEdited
  <2> QED
    BY <1>1, <2>2, ChangedEntry
<1> HIDE DEF e
<1>4. /\ out.pool = a.pool
      /\ \A f \in Frames, x \in Idx :
           ~(f = a.mem[KERNEL_PD][GET_PD_IDX(v)].frame /\ x = GET_PT_IDX(v)) =>
             out.mem[f][x] = a.mem[f][x]
  BY <1>2, <1>3, EntryEdited
<1> HIDE DEF out
<1>5. Layout(out, R, F)
  BY <1>1, <1>2, <1>4, LayoutEdited
<1> QED
  BY <1>5 DEF GrownBy, out, a, e

(* The search finds a page above the kernel image that is not mapped, or none. *)
LEMMA LayoutSearch ==
  ASSUME NEW s \in State, Coherent(s), NEW R, NEW F, Layout(s, R, F)
  PROVE  LET out == pdt_kernel_find_next_vaddr(s, 1) IN
         /\ Keeps(s, out) /\ out.mem = s.mem /\ out.pool = s.pool /\ out.array = s.array
         /\ out.res \in VPages /\ out.res \notin DOMAIN F
         /\ out.res # 0 => GET_PD_IDX(out.res) > KERNEL_PT_PDT_IDX
<1> DEFINE out == pdt_kernel_find_next_vaddr(s, 1)
           d == GET_PD_IDX(out.res)
           t == GET_PT_IDX(out.res)
           T == s.mem[KERNEL_PD][d].frame
<1>1. /\ Keeps(s, out) /\ out.mem = s.mem /\ out.pool = s.pool /\ out.array = s.array
      /\ out.res \in VPages
      /\ out.res # 0 =>
           /\ d \in KERNEL_PT_PDT_IDX .. PT_ENTRIES - 1
           /\ s.mem[KERNEL_PD][d].present => ~IsSlot(T, t) /\ ~s.mem[T][t].present
  BY SearchEffect
<1> HIDE DEF out
<1>2. d \in Idx /\ t \in Idx
  BY <1>1, AddressParts
<1>3. out.res # 0 => d > KERNEL_PT_PDT_IDX
  <2> SUFFICES ASSUME out.res # 0, d = KERNEL_PT_PDT_IDX PROVE FALSE
    BY <1>1, <1>2, Constants DEF Idx
  <2>1. s.mem[KERNEL_PD][d].present /\ T = KERNEL_PT
    BY DEF Layout, TablesShape, KernelTables
  <2>2. ~s.mem[KERNEL_PT][t].present /\ t # KERNEL_TMP_PT_IDX
    BY <2>1, <1>1 DEF IsSlot
  <2> QED
    BY <2>2, <1>2 DEF Layout, TablesShape, KernelTables
<1>4. out.res \notin DOMAIN F
  <2> SUFFICES ASSUME out.res \in DOMAIN F PROVE FALSE
    OBVIOUS
  <2>1. d > KERNEL_PT_PDT_IDX /\ Owns(s, KERNEL_PD, d) /\ s.mem[T][t].present
    BY LayoutPage
  <2>2. out.res # 0
    <3>1. 0 \in VPages /\ GET_PD_IDX(0) = 0
      BY CreationPages
    <3> QED
      BY <3>1, <2>1, Constants DEF Idx
  <2> QED
    BY <2>1, <2>2, <1>1 DEF Owns, HasTable
<1> QED
  BY <1>1, <1>3, <1>4 DEF out

(* The pages of the directories ds, and the layout with those *)
PagesAt(s, ds) == [v \in {dir.pdt : dir \in ds} |-> Entry(s, v).frame]
LaidOut(s, ds) == Layout(s, RootsOf(s, ds), PagesAt(s, ds))

(* After a step it is that of the new state. *)
LEMMA LaidOutNow == LaidOut(Now, dirs)' <=> LaidOut(Now', dirs')
BY DEF LaidOut, Layout, TablesShape, Owns, RootsOf, PagesAt, KernelTables, Untouched, HasTable,
       Free, Entry, Walk, Now

(* The directory and the page of every process belong to it. *)
LEMMA LaidOutParts ==
  ASSUME NEW s \in State, NEW ds, LaidOut(s, ds)
  PROVE  /\ KERNEL_PD \in RootsOf(s, ds) /\ DOMAIN PagesAt(s, ds) = {dir.pdt : dir \in ds}
         /\ \A dir \in ds : Entry(s, dir.pdt).frame \in RootsOf(s, ds) /\ Entry(s, dir.pdt).present
BY DEF LaidOut, Layout, RootsOf, PagesAt

(* Where the pages of the directories stay, the directories do. *)
LEMMA LaidOutKept ==
  ASSUME NEW s \in State, NEW out, NEW ds, Layout(out, RootsOf(s, ds), PagesAt(s, ds))
  PROVE  LaidOut(out, ds) /\ \A dir \in ds : Entry(out, dir.pdt).frame = Entry(s, dir.pdt).frame
<1>1. ASSUME NEW dir \in ds PROVE Entry(out, dir.pdt).frame = Entry(s, dir.pdt).frame
  <2>1. dir.pdt \in DOMAIN PagesAt(s, ds) /\ PagesAt(s, ds)[dir.pdt] = Entry(s, dir.pdt).frame
    BY DEF PagesAt
  <2> QED
    BY <2>1 DEF Layout
<1>2. RootsOf(out, ds) = RootsOf(s, ds)
  BY <1>1 DEF RootsOf
<1>3. PagesAt(out, ds) = PagesAt(s, ds)
  BY <1>1 DEF PagesAt
<1> QED
  BY <1>1, <1>2, <1>3 DEF LaidOut

(* A new directory joins them with a page above the kernel image. *)
LEMMA LaidOutAdded ==
  ASSUME NEW s \in State, NEW out, NEW ds, NEW dir, dir.pdt \in VPages,
         GET_PD_IDX(dir.pdt) > KERNEL_PT_PDT_IDX, Entry(out, dir.pdt).present,
         Layout(out, RootsOf(s, ds) \union {Entry(out, dir.pdt).frame}, PagesAt(s, ds))
  PROVE  LaidOut(out, ds \union {dir})
<1> DEFINE es == ds \union {dir}
           F == PagesAt(out, es)
<1>1. ASSUME NEW x \in ds
      PROVE  /\ x.pdt \in VPages /\ GET_PD_IDX(x.pdt) > KERNEL_PT_PDT_IDX
             /\ Entry(out, x.pdt).present /\ Entry(out, x.pdt).frame = Entry(s, x.pdt).frame
  <2>1. x.pdt \in DOMAIN PagesAt(s, ds) /\ PagesAt(s, ds)[x.pdt] = Entry(s, x.pdt).frame
    BY DEF PagesAt
  <2> QED
    BY <2>1 DEF Layout
<1>2. RootsOf(out, es) = RootsOf(s, ds) \union {Entry(out, dir.pdt).frame}
  BY <1>1 DEF RootsOf
<1>3. ASSUME NEW w \in DOMAIN F
      PROVE  /\ w \in VPages /\ GET_PD_IDX(w) > KERNEL_PT_PDT_IDX
             /\ Entry(out, w).present /\ Entry(out, w).frame = F[w]
  <2>1. F[w] = Entry(out, w).frame /\ \E x \in es : w = x.pdt
    BY DEF PagesAt
  <2> QED
    BY <2>1, <1>1
<1> HIDE DEF F
<1>4. TablesShape(out, RootsOf(out, es))
  BY <1>2 DEF Layout
<1>5. Layout(out, RootsOf(out, es), F)
  BY <1>3, <1>4 DEF Layout
<1> QED
  BY <1>5 DEF LaidOut, F

(* The frame of a directory created is the one recorded, or a page table's since then. *)
Recorded(s, out, dir) ==
  \/ dir.pdt_paddr = Entry(out, dir.pdt).frame
  \/ /\ dir.pdt_paddr \in Free(s)
     /\ \E d \in Idx : out.mem[KERNEL_PD][d].present /\ out.mem[KERNEL_PD][d].frame = dir.pdt_paddr

(* The steps of malloc keep the layout, *)
LEMMA MallocLayout ==
  ASSUME SlotInv, LaidOut(Now, dirs), GrowHeap \/ GrowPage
  PROVE  LaidOut(Now', dirs') /\ dirs' = dirs
<1> DEFINE R == RootsOf(Now, dirs)
           F == PagesAt(Now, dirs)
<1>1. /\ Now \in State /\ Coherent(Now) /\ Layout(Now, R, F)
      /\ i \in 0 .. HEAP_PAGES /\ total_malloc_pages \in Nat /\ total_malloc_pages <= HeapLimit
      /\ i < HEAP_PAGES => HEAP_PAGES <= total_malloc_pages
      /\ HEAP_PAGES \in Nat \ {0} /\ HEAP_PAGES \in 1 .. HEAP_PAGES
  BY Constants DEF SlotInv, LaidOut
<1> HIDE DEF R, F
<1>2. CASE GrowHeap
  <2> DEFINE a == pf_allocate_frames(Now, HEAP_PAGES)
  <2>1. Becomes(a) /\ dirs' = dirs
    BY <1>2 DEF GrowHeap
  <2>2. a \in State /\ Layout(a, R, F)
    BY <1>1, LayoutRequest
  <2> HIDE DEF a
  <2>3. Now' = a
    BY <2>1, <2>2, BecomesNow
  <2> QED
    BY <2>1, <2>2, <2>3, <1>1, LaidOutKept DEF R, F
<1>3. CASE GrowPage
  <2> DEFINE virt == total_malloc_pages - HEAP_PAGES + i
             s == GrownBy(Now, HeapFrame(i), virt)
  <2>1. i < HEAP_PAGES /\ Becomes(s) /\ dirs' = dirs
    BY <1>3 DEF GrowPage, GrownBy
  <2>2. virt \in VPages /\ GET_PD_IDX(virt) < KERNEL_PT_PDT_IDX
    <3>1. virt \in Nat /\ virt < total_malloc_pages
      BY <2>1, <1>1
    <3> HIDE DEF virt
    <3> QED
      BY <3>1, <1>1, HeapPage
  <2>3. HeapFrame(i) \in Frames
    <3>1. array \in [0 .. HEAP_PAGES - 1 -> Frames]
      BY <1>1, StateParts DEF Now
    <3> QED
      BY <3>1, <2>1, <1>1 DEF HeapFrame
  <2> HIDE DEF virt
  <2>4. s \in State /\ Layout(s, R, F)
    <3>1. Keeps(Now, s)
      BY <2>2, <2>3, <1>1, GrowPageKeeps
    <3>2. Layout(s, R, F)
      BY <2>2, <2>3, <1>1, LayoutGrown
    <3> QED
      BY <3>1, <3>2 DEF Keeps
  <2> HIDE DEF s
  <2>5. Now' = s
    BY <2>1, <2>4, BecomesNow
  <2> QED
    BY <2>1, <2>4, <2>5, <1>1, LaidOutKept DEF R, F
<1> QED
  BY <1>2, <1>3

(* create_pdt adds a directory at a page of its own above the kernel image, *)
LEMMA CreateLayout ==
  ASSUME SlotInv, LaidOut(Now, dirs), create_pdt
  PROVE  LaidOut(Now', dirs') /\ \A dir \in dirs' \ dirs : Recorded(Now, Now', dir)
<1> DEFINE R == RootsOf(Now, dirs)
           F == PagesAt(Now, dirs)
           a == pf_allocate_frames(Now, 1)
           fr == a.array[0]
           b == pdt_kernel_find_next_vaddr(a, 1)
           c == kernel_map_page(b, b.array[0], b.res, TRUE)
           e == [c EXCEPT !.res = b.res]
           new == [pdt |-> b.res, pdt_paddr |-> DirectoryFrame(c)]
<1>1. /\ Now \in State /\ Coherent(Now) /\ Layout(Now, R, F) /\ 1 \in 1 .. HEAP_PAGES
      /\ KERNEL_PD \in R
  <2>1. Now \in State /\ Coherent(Now) /\ 1 \in 1 .. HEAP_PAGES
    BY Constants DEF SlotInv
  <2>2. Layout(Now, R, F)
    BY DEF LaidOut
  <2>3. KERNEL_PD \in R
    BY DEF RootsOf
  <2> QED
    BY <2>1, <2>2, <2>3
<1>2. \/ Becomes(a) /\ dirs' = dirs
      \/ a.res # 0 /\ Becomes(b) /\ dirs' = dirs
      \/ a.res # 0 /\ b.res # 0 /\ Becomes(c) /\ dirs' = dirs
      \/ a.res # 0 /\ b.res # 0 /\ c.res # 0 /\ Becomes(e) /\ dirs' = dirs \union {new}
  BY Zenon DEF create_pdt
<1> HIDE DEF R, F
<1>3. /\ a \in State /\ Coherent(a) /\ a.mem = Now.mem /\ Layout(a, R, F) /\ fr \in Frames
      /\ Free(a) \subseteq Free(Now)
      /\ a.res # 0 => Layout(a, R \union {fr}, F)
  <2>1. Keeps(Now, a)
    BY <1>1, PfAllocateKeeps
  <2> QED
    BY <2>1, <1>1, LayoutRequest DEF Keeps
<1> HIDE DEF a
<1>4. /\ b \in State /\ Coherent(b) /\ b.mem = a.mem /\ b.pool = a.pool /\ b.array = a.array
      /\ b.res \in VPages /\ b.res \notin DOMAIN F
      /\ b.res # 0 => GET_PD_IDX(b.res) > KERNEL_PT_PDT_IDX
  BY <1>3, LayoutSearch DEF Keeps
<1>5. /\ Layout(b, R, F) /\ Free(b) = Free(a)
      /\ a.res # 0 => Layout(b, R \union {fr}, F)
  <2> HIDE DEF b, fr
  <2> QED
    BY <1>3, <1>4, LayoutSame
<1>6. b.array[0] = fr
  BY <1>4
<1> HIDE DEF b, fr
<1>7. a.res # 0 =>
        /\ c \in State /\ Layout(c, R \union {fr}, F)
        /\ b.res # 0 /\ c.res # 0 =>
             /\ Entry(c, b.res).present /\ Entry(c, b.res).frame = fr
             /\ \/ c.array[0] = fr
                \/ /\ c.array[0] \in Free(b) /\ c.mem[KERNEL_PD][GET_PD_IDX(b.res)].present
                   /\ c.mem[KERNEL_PD][GET_PD_IDX(b.res)].frame = c.array[0]
  <2> SUFFICES ASSUME a.res # 0
               PROVE  /\ c \in State /\ Layout(c, R \union {fr}, F)
                      /\ b.res # 0 /\ c.res # 0 =>
                           /\ Entry(c, b.res).present /\ Entry(c, b.res).frame = fr
                           /\ \/ c.array[0] = fr
                              \/ /\ c.array[0] \in Free(b)
                                 /\ c.mem[KERNEL_PD][GET_PD_IDX(b.res)].present
                                 /\ c.mem[KERNEL_PD][GET_PD_IDX(b.res)].frame = c.array[0]
    OBVIOUS
  <2> DEFINE Q == R \union {fr}
  <2>1. KERNEL_PD \in Q /\ Layout(b, Q, F) /\ b \in State /\ Coherent(b) /\ b.res \in VPages
        /\ b.res \notin DOMAIN F /\ fr \in Frames
    BY <1>1, <1>3, <1>4, <1>5
  <2>2. c = map_page(b, KERNEL_PD, fr, b.res, TRUE)
    BY <1>6 DEF kernel_map_page
  <2> HIDE DEF Q, c
  <2>3. /\ Keeps(b, c) /\ Layout(c, Q, F)
        /\ c.res # 0 =>
             /\ GET_PD_IDX(b.res) # KERNEL_PT_PDT_IDX =>
                  Entry(c, b.res).present /\ Entry(c, b.res).frame = fr
             /\ \/ c.array[0] = b.array[0]
                \/ /\ c.array[0] \in Free(b) /\ c.mem[KERNEL_PD][GET_PD_IDX(b.res)].present
                   /\ c.mem[KERNEL_PD][GET_PD_IDX(b.res)].frame = c.array[0]
    BY <2>1, <2>2, LayoutMapped
  <2>4. b.res # 0 => GET_PD_IDX(b.res) # KERNEL_PT_PDT_IDX
    BY <1>4, Constants DEF Idx
  <2> QED
    BY <2>3, <2>4, <1>6 DEF Q, Keeps
<1> HIDE DEF c
<1>8. CASE Becomes(a) /\ dirs' = dirs
  <2>1. Now' = a
    BY <1>3, <1>8, BecomesNow
  <2> QED
    BY <2>1, <1>1, <1>3, <1>8, LaidOutKept DEF R, F
<1>9. CASE a.res # 0 /\ Becomes(b) /\ dirs' = dirs
  <2>1. Now' = b
    BY <1>4, <1>9, BecomesNow
  <2> QED
    BY <2>1, <1>1, <1>5, <1>9, LaidOutKept DEF R, F
<1>10. CASE a.res # 0 /\ b.res # 0 /\ Becomes(c) /\ dirs' = dirs
  <2>1. Now' = c
    BY <1>7, <1>10, BecomesNow
  <2>2. Layout(c, R, F)
    <3>1. R \in SUBSET (R \union {fr})
      OBVIOUS
    <3> QED
      BY <3>1, <1>1, <1>7, <1>10, LayoutSmaller
  <2> QED
    BY <2>1, <2>2, <1>1, <1>10, LaidOutKept DEF R, F
<1>11. CASE a.res # 0 /\ b.res # 0 /\ c.res # 0 /\ Becomes(e) /\ dirs' = dirs \union {new}
  <2>1. c \in State /\ b.res \in Nat
    BY <1>4, <1>7, <1>11 DEF VPages
  <2>2. e \in State /\ e.mem = c.mem /\ e.pool = c.pool
    BY <2>1, ResState
  <2>3. Layout(e, R \union {fr}, F)
    <3> HIDE DEF e
    <3> QED
      BY <2>2, <1>7, <1>11, LayoutSame
  <2>4. Now' = e
    <3> HIDE DEF e
    <3> QED
      BY <2>2, <1>11, BecomesNow
  <2>5. \A w : Entry(e, w) = Entry(c, w)
    BY <2>2 DEF Entry, Walk
  <2>6. new.pdt = b.res /\ new.pdt_paddr = c.array[0]
    BY DEF DirectoryFrame
  <2> HIDE DEF e, new
  <2>7. LaidOut(e, dirs \union {new})
    <3>1. Entry(e, new.pdt).present /\ Entry(e, new.pdt).frame = fr
          /\ new.pdt \in VPages /\ GET_PD_IDX(new.pdt) > KERNEL_PT_PDT_IDX
      BY <2>5, <2>6, <1>4, <1>7, <1>11
    <3>2. Layout(e, RootsOf(Now, dirs) \union {Entry(e, new.pdt).frame}, PagesAt(Now, dirs))
      BY <2>3, <3>1 DEF R, F
    <3> QED
      BY <3>1, <3>2, <1>1, LaidOutAdded
  <2>8. Recorded(Now, e, new)
    <3>1. CASE c.array[0] = fr
      BY <3>1, <2>5, <2>6, <1>7, <1>11 DEF Recorded
    <3>2. CASE c.array[0] # fr
      <4>1. /\ c.array[0] \in Free(b) /\ c.mem[KERNEL_PD][GET_PD_IDX(b.res)].present
            /\ c.mem[KERNEL_PD][GET_PD_IDX(b.res)].frame = c.array[0]
        BY <3>2, <1>7, <1>11
      <4>2. GET_PD_IDX(b.res) \in Idx /\ c.array[0] \in Free(Now)
        BY <4>1, <1>3, <1>4, <1>5, AddressParts
      <4> QED
        BY <4>1, <4>2, <2>2, <2>6 DEF Recorded
    <3> QED
      BY <3>1, <3>2
  <2>9. \A dir \in dirs' \ dirs : dir = new
    BY <1>11
  <2> QED
    BY <2>4, <2>7, <2>8, <2>9, <1>11
<1> QED
  BY <1>2, <1>8, <1>9, <1>10, <1>11

(* the stacks and the code of a process keep it, whether they are mapped or not, *)
LEMMA StackLayout ==
  ASSUME SlotInv, LaidOut(Now, dirs), NEW dir \in dirs, process_set_stack(dir)
  PROVE  LaidOut(Now', dirs') /\ dirs' = dirs
<1> DEFINE R == RootsOf(Now, dirs)
           F == PagesAt(Now, dirs)
           a == pf_allocate_frames(Now, 1)
           fr == a.array[0]
           pd == Entry(Now, dir.pdt).frame
           c == map_page(a, pd, fr, PROCESS_INIT_STACK_VADDR, TRUE)
<1>1. Now \in State /\ Coherent(Now) /\ 1 \in 1 .. HEAP_PAGES
  BY Constants DEF SlotInv
<1>2. Layout(Now, R, F)
  BY DEF LaidOut
<1>3. pd \in R
  BY DEF RootsOf
<1>4. dirs' = dirs /\ (Becomes(a) \/ Becomes(c))
  BY Zenon DEF process_set_stack
<1> HIDE DEF R, F, pd
<1>5. a \in State /\ Coherent(a) /\ Layout(a, R, F) /\ fr \in Frames
  <2>1. Keeps(Now, a)
    BY <1>1, PfAllocateKeeps
  <2> QED
    BY <2>1, <1>1, <1>2, LayoutRequest DEF Keeps
<1> HIDE DEF a, fr
<1>6. c \in State /\ Layout(c, R, F)
  <2> DEFINE v == PROCESS_INIT_STACK_VADDR
  <2>1. v \in VPages /\ GET_PD_IDX(v) < KERNEL_PT_PDT_IDX /\ ~(GET_PD_IDX(v) > KERNEL_PT_PDT_IDX)
    BY StackPage, Constants DEF Idx
  <2> HIDE DEF v
  <2>2. v \notin DOMAIN F
    BY <2>1, <1>2 DEF Layout
  <2>3. LET m == map_page(a, pd, fr, v, TRUE) IN Keeps(a, m) /\ Layout(m, R, F)
    BY <2>1, <2>2, <1>3, <1>5, LayoutMapped
  <2> QED
    BY <2>3 DEF Keeps, v
<1> HIDE DEF c
<1>7. Now' = a \/ Now' = c
  BY <1>4, <1>5, <1>6, BecomesNow
<1> QED
  BY <1>1, <1>4, <1>5, <1>6, <1>7, LaidOutKept DEF R, F

(* The kernel stack is mapped where the search found a page. *)
LEMMA KernelStackLayout ==
  ASSUME SlotInv, LaidOut(Now, dirs), process_set_kernel_stack
  PROVE  LaidOut(Now', dirs') /\ dirs' = dirs
<1> DEFINE R == RootsOf(Now, dirs)
           F == PagesAt(Now, dirs)
           a == pf_allocate_frames(Now, 1)
           b == pdt_kernel_find_next_vaddr(a, 1)
           fr == b.array[0]
           c == kernel_map_page(b, fr, b.res, TRUE)
           e == [b EXCEPT !.res = 0]
<1>1. Now \in State /\ Coherent(Now) /\ 1 \in 1 .. HEAP_PAGES
  BY Constants DEF SlotInv
<1>2. Layout(Now, R, F)
  BY DEF LaidOut
<1>3. KERNEL_PD \in R
  BY DEF RootsOf
<1>4. dirs' = dirs /\ (Becomes(c) \/ Becomes(e))
  BY Zenon DEF process_set_kernel_stack, KernelStackSearch
<1> HIDE DEF R, F
<1>5. a \in State /\ Coherent(a) /\ Layout(a, R, F)
  <2>1. Keeps(Now, a)
    BY <1>1, PfAllocateKeeps
  <2> QED
    BY <2>1, <1>1, <1>2, LayoutRequest DEF Keeps
<1> HIDE DEF a
<1>6. /\ b \in State /\ Coherent(b) /\ b.mem = a.mem /\ b.pool = a.pool
      /\ b.res \in VPages /\ b.res \notin DOMAIN F
  BY <1>5, LayoutSearch DEF Keeps
<1> HIDE DEF b
<1>7. Layout(b, R, F) /\ fr \in Frames
  <2>1. b.array \in [0 .. HEAP_PAGES - 1 -> Frames]
    BY <1>6, StateParts
  <2>2. 0 \in 0 .. HEAP_PAGES - 1
    BY Constants
  <2> QED
    BY <2>1, <2>2, <1>5, <1>6, LayoutSame
<1> HIDE DEF fr
<1>8. c \in State /\ Layout(c, R, F)
  <2>1. LET m == map_page(b, KERNEL_PD, fr, b.res, TRUE) IN Keeps(b, m) /\ Layout(m, R, F)
    BY <1>3, <1>6, <1>7, LayoutMapped
  <2> QED
    BY <2>1 DEF Keeps, kernel_map_page
<1>9. e \in State /\ Layout(e, R, F)
  <2>1. e \in State /\ e.mem = b.mem /\ e.pool = b.pool
    BY <1>6, ResState
  <2> HIDE DEF e
  <2> QED
    BY <2>1, <1>7, LayoutSame
<1> HIDE DEF c, e
<1>10. Now' = c \/ Now' = e
  BY <1>4, <1>8, <1>9, BecomesNow
<1> QED
  BY <1>1, <1>4, <1>8, <1>9, <1>10, LaidOutKept DEF R, F

(* The frame of the code is mapped at the program's page and at page 0 of the process. *)
LEMMA CodeLayout ==
  ASSUME SlotInv, LaidOut(Now, dirs), NEW dir \in dirs, process.pdt = dir.pdt, process_set_code
  PROVE  LaidOut(Now', dirs') /\ dirs' = dirs
<1> DEFINE R == RootsOf(Now, dirs)
           F == PagesAt(Now, dirs)
           a == CodeFrame
           fr == a.array[0]
           b == CodeProgram
           c == CodeMapped(b)
<1>1. Now \in State /\ Coherent(Now) /\ 1 \in 1 .. HEAP_PAGES
  BY Constants DEF SlotInv
<1>2. Layout(Now, R, F)
  BY DEF LaidOut
<1>3. KERNEL_PD \in R /\ PD \in R
  BY DEF RootsOf, PD
<1>4. dirs' = dirs /\ (Becomes(a) \/ Becomes(c))
  BY CodeCalls
<1>5. GET_PD_IDX(0) < KERNEL_PT_PDT_IDX
  BY CreationPages, Constants DEF Idx
<1> HIDE DEF R, F
<1>6. 0 \notin DOMAIN F /\ PROGRAM \notin DOMAIN F
  <2>1. ~(GET_PD_IDX(0) > KERNEL_PT_PDT_IDX) /\ ~(GET_PD_IDX(PROGRAM) > KERNEL_PT_PDT_IDX)
    BY CreationPages, Constants DEF Idx
  <2> QED
    BY <2>1, <1>2 DEF Layout
<1>7. a \in State /\ Coherent(a) /\ Layout(a, R, F) /\ fr \in Frames
  <2>1. Keeps(Now, a)
    BY <1>1, PfAllocateKeeps DEF CodeFrame
  <2> QED
    BY <2>1, <1>1, <1>2, LayoutRequest DEF Keeps, CodeFrame
<1>8. b = map_page(a, KERNEL_PD, fr, PROGRAM, TRUE)
  BY DEF CodeProgram, kernel_map_page
<1> HIDE DEF a, fr, b
<1>9. b \in State /\ Coherent(b) /\ Layout(b, R, F)
  <2>1. LET m == map_page(a, KERNEL_PD, fr, PROGRAM, TRUE) IN Keeps(a, m) /\ Layout(m, R, F)
    BY <1>3, <1>6, <1>7, CreationPages, LayoutMapped
  <2> QED
    BY <2>1, <1>8 DEF Keeps
<1>10. b.array[0] \in Frames
  <2>1. b.array \in [0 .. HEAP_PAGES - 1 -> Frames]
    BY <1>9, StateParts
  <2>2. 0 \in 0 .. HEAP_PAGES - 1
    BY Constants
  <2> QED
    BY <2>1, <2>2
<1>11. c \in State /\ Layout(c, R, F)
  <2> DEFINE g == b.array[0]
  <2> HIDE DEF g
  <2>1. LET m == map_page(b, PD, g, 0, TRUE) IN Keeps(b, m) /\ Layout(m, R, F)
    BY <1>3, <1>5, <1>6, <1>9, <1>10, CreationPages, LayoutMapped DEF g
  <2> QED
    BY <2>1 DEF Keeps, CodeMapped, g
<1> HIDE DEF c
<1>12. Now' = a \/ Now' = c
  BY <1>4, <1>7, <1>11, BecomesNow
<1> QED
  BY <1>1, <1>4, <1>7, <1>11, <1>12, LaidOutKept DEF R, F

(* The page of struct PROCESS is mapped with the slot in use. *)
LEMMA MapLayout ==
  ASSUME SlotInv, LaidOut(Now, dirs), NEW dir \in dirs, process.pdt = dir.pdt,
         dir.pdt \in VPages, process.at \in VPages,
         GET_PD_IDX(process.at) < KERNEL_PT_PDT_IDX, process_map_process
  PROVE  LaidOut(Now', dirs') /\ dirs' = dirs
<1> DEFINE R == RootsOf(Now, dirs)
           F == PagesAt(Now, dirs)
           v == process.at
<1>1. Now \in State /\ Now.mem = mem /\ Now.pool = pool
  BY DEF SlotInv, Now
<1>2. Layout(Now, R, F)
  BY DEF LaidOut
<1>3. PD \in R
  BY DEF RootsOf, PD
<1>4. /\ PageHeld \in State /\ Coherent(PageHeld) /\ PageHeld.res = KERNEL_TEMP_VADDR
      /\ PageHeld.pool = pool
      /\ \A g \in Frames, y \in Idx : ~IsSlot(g, y) => PageHeld.mem[g][y] = mem[g][y]
      /\ PageMapped \in State
      /\ Keeps(Now, PageReleased) /\ PageReleased.pool = PageMapped.pool
      /\ \A g \in Frames, y \in Idx :
           ~IsSlot(g, y) => PageReleased.mem[g][y] = PageMapped.mem[g][y]
  BY MapKeeps
<1> HIDE DEF R, F
<1>5. Layout(PageHeld, R, F)
  BY <1>1, <1>2, <1>4, LayoutSlot
<1>6. v \notin DOMAIN F /\ v \in VPages /\ GET_PD_IDX(v) < KERNEL_PT_PDT_IDX
  <2>1. GET_PD_IDX(v) \in Int /\ KERNEL_PT_PDT_IDX \in Int
    <3>1. GET_PD_IDX(v) \in Idx
      BY AddressParts
    <3>2. Idx \subseteq Int /\ KERNEL_PT_PDT_IDX \in Idx
      BY Constants DEF Idx
    <3> QED
      BY <3>1, <3>2
  <2>2. ~(GET_PD_IDX(v) > KERNEL_PT_PDT_IDX)
    BY <2>1
  <2> QED
    BY <2>2, <1>2 DEF Layout
<1> HIDE DEF v
<1>7. Layout(PageMapped, R, F)
  <2> DEFINE fr == PageHeld.res
  <2>1. fr \in Frames
    BY <1>4, Constants DEF Allocatable
  <2> HIDE DEF fr
  <2>2. LET m == map_page(PageHeld, PD, fr, v, TRUE) IN Layout(m, R, F)
    BY <2>1, <1>3, <1>4, <1>5, <1>6, LayoutMapped
  <2> QED
    BY <2>2, <1>5 DEF PageMapped, fr, v
<1>8. Layout(PageReleased, R, F)
  BY <1>4, <1>7, LayoutSlot
<1>9. Now' = PageReleased /\ dirs' = dirs
  BY <1>4, MapCalls, BecomesNow DEF Keeps
<1> QED
  BY <1>1, <1>8, <1>9, LaidOutKept DEF R, F

(* load_process_pdt writes past the kernel image's entry of a directory, and leaves there
   what the kernel's has.  *)
LEMMA LoadLayout ==
  ASSUME SlotInv, LaidOut(Now, dirs), NEW dir \in dirs, process.pdt = dir.pdt,
         dir.pdt \in VPages, load_process_pdt
  PROVE  /\ LaidOut(Now', dirs') /\ dirs' = dirs /\ Keeps(Now, Now')
         /\ PD' = PD
         /\ \A d \in Idx : Copied(d)' => mem'[PD][d] = mem'[KERNEL_PD][d]
<1> DEFINE R == RootsOf(Now, dirs)
           F == PagesAt(Now, dirs)
           table == [d \in Idx |-> IF Copied(d) THEN mem[KERNEL_PD][d] ELSE mem[PD][d]]
<1>1. Now \in State /\ Now.mem = mem /\ Now.pool = pool /\ Now.tlb = tlb /\ Coherent(Now)
  BY DEF SlotInv, Now
<1>2. Layout(Now, R, F) /\ TablesShape(Now, R) /\ KERNEL_PD \in R
  BY DEF LaidOut, Layout, TablesShape
<1>3. PD \in R
  BY DEF RootsOf, PD
<1>4. /\ Loaded \in State /\ PD \in Frames /\ Loaded.pool = pool /\ Loaded.seen = seen
      /\ \A f \in Frames, x \in Idx :
           f # PD \/ x < KERNEL_PT_PDT_IDX => Loaded.mem[f][x] = mem[f][x]
  BY <1>1, LoadedState
<1>5. Loaded.mem[PD] = table /\ Loaded.tlb = tlb
  <2>1. mem \in Memory
    BY <1>1, StateParts
  <2> HIDE DEF table
  <2>2. [mem EXCEPT ![PD] = table][PD] = table
    BY <2>1, <1>4 DEF Memory
  <2>3. Loaded.mem = [mem EXCEPT ![PD] = table] /\ Loaded.tlb = tlb
    BY DEF Loaded, Now, table
  <2> QED
    BY <2>2, <2>3
<1> HIDE DEF R, F
<1>6. PD # KERNEL_PT /\ PD # 0 /\ PD \notin Free(Now)
  BY <1>1, <1>2, <1>3, LayoutRoot
<1>7. \A d \in Idx : Loaded.mem[KERNEL_PD][d] = mem[KERNEL_PD][d]
  <2>1. CASE PD = KERNEL_PD
    BY <2>1, <1>5
  <2>2. CASE PD # KERNEL_PD
    BY <2>2, <1>4, Constants
  <2> QED
    BY <2>1, <2>2
<1> HIDE DEF table
<1>8. \A p \in R, d \in Idx : p = KERNEL_PD \/ d < KERNEL_PT_PDT_IDX =>
        Loaded.mem[p][d] = mem[p][d]
  BY <1>1, <1>2, <1>4, <1>7, LayoutRoot
<1>9. \A f \in Free(Now), x \in Idx : Loaded.mem[f][x] = mem[f][x]
  <2>1. Free(Now) \subseteq START .. TOTAL_FRAMES - 1
    BY <1>2 DEF TablesShape, Untouched
  <2>2. \A f \in Free(Now) : f \in Frames /\ f # PD
    BY <2>1, <1>6, Constants DEF Frames
  <2> QED
    BY <2>2, <1>4
<1>10. \A t \in Idx : Loaded.mem[KERNEL_PT][t] = mem[KERNEL_PT][t]
  BY <1>4, <1>6, Constants
<1>11. ASSUME NEW w \in DOMAIN F
       PROVE  LET T == mem[KERNEL_PD][GET_PD_IDX(w)].frame
                  t == GET_PT_IDX(w)
              IN Loaded.mem[T][t] = mem[T][t]
  <2>1. /\ GET_PD_IDX(w) \in Idx /\ GET_PT_IDX(w) \in Idx
        /\ Owns(Now, KERNEL_PD, GET_PD_IDX(w))
    BY <1>1, <1>2, LayoutPage
  <2>2. /\ mem[KERNEL_PD][GET_PD_IDX(w)].frame \in Frames
        /\ mem[KERNEL_PD][GET_PD_IDX(w)].frame \notin R
    BY <2>1, <1>1, <1>2, LayoutTable
  <2> QED
    BY <2>1, <2>2, <1>3, <1>4
<1>12. Layout(Loaded, R, F)
  <2>1. \A t \in Idx \ {KERNEL_TMP_PT_IDX} : Now.mem[KERNEL_PT][t].present
    BY <1>2 DEF TablesShape, KernelTables
  <2>2. Loaded.pool = Now.pool
    BY <1>1, <1>4
  <2> QED
    BY <2>1, <2>2, <1>1, <1>2, <1>8, <1>9, <1>10, <1>11, LayoutKept
<1>13. Now' = Loaded /\ dirs' = dirs /\ process' = process
  BY <1>4, LoadCalls, BecomesNow
<1>14. LaidOut(Now', dirs') /\ Entry(Now', dir.pdt).frame = Entry(Now, dir.pdt).frame
  BY <1>1, <1>12, <1>13, LaidOutKept DEF R, F
<1>15. Keeps(Now, Now')
  <2>1. Slot(Loaded) = Slot(Now)
    BY <1>1, <1>10, Constants DEF Slot, kernel_get_temporary_entry
  <2>2. Coherent(Loaded)
    BY <2>1, <1>1, <1>5 DEF Coherent
  <2>3. Loaded.seen = Now.seen
    BY <1>4 DEF Now
  <2> QED
    BY <2>1, <2>2, <2>3, <1>4, <1>13 DEF Keeps
<1>16. PD' = PD
  BY <1>13, <1>14 DEF PD, Entry, Walk, Now
<1>17. ASSUME NEW d \in Idx, Copied(d)' PROVE mem'[PD][d] = mem'[KERNEL_PD][d]
  <2>1. mem' = Loaded.mem
    BY <1>13 DEF Now
  <2>2. d >= KERNEL_PT_PDT_IDX /\ mem'[KERNEL_PD][d].present
    BY <1>17 DEF Copied
  <2>3. mem'[KERNEL_PD][d] = mem[KERNEL_PD][d]
    BY <2>1, <1>7
  <2>4. Copied(d)
    BY <2>2, <2>3 DEF Copied
  <2>5. Loaded.mem[PD][d] = mem[KERNEL_PD][d]
    BY <2>4, <1>5 DEF table
  <2> QED
    BY <2>1, <2>3, <2>5
<1> QED
  BY <1>13, <1>14, <1>15, <1>16, <1>17

(* The layout holds in every state, and with the switch the directory has what the
   kernel's had.  *)
TablesInv ==
  /\ SlotInv /\ CreationInv /\ LaidOut(Now, dirs)
  /\ step = "entered" =>
       /\ cr3 = process.pdt_paddr
       /\ \A d \in Idx : Copied(d) => mem[PD][d] = mem[KERNEL_PD][d]

(* At first there is one table, the kernel image's. *)
LEMMA InitTablesInv == ProcessInit => TablesInv
<1> SUFFICES ASSUME ProcessInit PROVE TablesInv
  OBVIOUS
<1>1. Init /\ step = "none"
  BY DEF ProcessInit
<1>2. ProcessInv
  BY InitProcessInv
<1>3. SlotInv /\ CreationInv /\ FramesShape /\ dirs = {} /\ i = HEAP_PAGES
  BY <1>1, <1>2 DEF ProcessInv, FramesInv, Init
<1>4. Shape(Now, {KERNEL_PD}, {}) /\ RootsOf(Now, dirs) = {KERNEL_PD}
  <2>1. RootsOf(Now, dirs) = {KERNEL_PD}
    BY <1>3 DEF RootsOf
  <2>2. InHand(Now, HEAP_PAGES) = {}
    BY Constants DEF InHand
  <2>3. Shape(Now, RootsOf(Now, dirs), InHand(Now, i))
    BY <1>3 DEF FramesShape, FramesShapeOf
  <2> QED
    BY <2>1, <2>2, <2>3, <1>3
<1>5. \A d \in Idx : ~(d # KERNEL_PT_PDT_IDX /\ mem[KERNEL_PD][d].present)
  BY <1>1, Constants DEF Init, BootMem, Empty
<1>6. \A d \in Idx : ~Owns(Now, KERNEL_PD, d)
  BY <1>4, <1>5 DEF Owns, HasTable, Shape, KernelTables, Now
<1>7. TablesShape(Now, {KERNEL_PD})
  BY <1>4, <1>6 DEF TablesShape, Shape
<1>8. LaidOut(Now, dirs)
  <2>1. DOMAIN PagesAt(Now, dirs) = {}
    BY <1>3 DEF PagesAt
  <2> QED
    BY <2>1, <1>4, <1>7 DEF LaidOut, Layout
<1> QED
  BY <1>1, <1>3, <1>8 DEF TablesInv

(* Every step keeps the layout and gives the slot back, and what create_pdt records of a
   directory is its frame or that of a new table.  *)
LEMMA StepTables ==
  ASSUME TablesInv, [ProcessNext]_process_vars
  PROVE  /\ TablesInv' /\ Keeps(Now, Now')
         /\ \A dir \in dirs' \ dirs : Recorded(Now, Now', dir)
<1>1. /\ SlotInv /\ CreationInv /\ LaidOut(Now, dirs) /\ Keeps(Now, Now)
      /\ \A dir \in dirs : dir.pdt \in VPages
  BY DEF TablesInv, SlotInv, Keeps
<1>2. CreationInv'
  BY <1>1, CreationSteps
<1>3. ASSUME SlotInv', LaidOut(Now', dirs'), step' # "entered"
      PROVE  TablesInv'
  BY <1>2, <1>3, LaidOutNow DEF TablesInv
<1>4. CASE UNCHANGED process_vars
  <2>1. /\ UNCHANGED vars /\ UNCHANGED <<step, cr3, process>> /\ UNCHANGED <<mem, dirs>>
        /\ Now' = Now
    BY <1>4 DEF process_vars, vars, exec_vars, machine, Now
  <2>2. SlotInv'
    BY <2>1, <1>1, NextSlotInv
  <2>3. LaidOut(Now, dirs)'
    BY <2>1, <1>1, LaidOutNow
  <2>4. PD' = PD /\ \A d \in Idx : Copied(d)' <=> Copied(d)
    BY <2>1 DEF PD, Entry, Walk, Copied, Now
  <2> QED
    BY <2>1, <2>2, <2>3, <2>4, <1>1, <1>2 DEF TablesInv
<1>5. CASE PagingStep
  <2>1. /\ Next /\ step \in {"none", "pdt", "stack", "kernel_stack"}
        /\ step' \in {"none", "stack", "kernel_stack", "code"}
    BY <1>1, <1>5, PagingSteps
  <2>2. [NextExported]_vars
    BY <2>1 DEF NextExported
  <2>3. SlotInv' /\ Keeps(Now, Now')
    BY <2>2, <1>1, NextSlotInv, StepKeeps
  <2>4. LaidOut(Now', dirs') /\ \A dir \in dirs' \ dirs : Recorded(Now, Now', dir)
    <3>1. CASE Malloc
      <4>1. GrowHeap \/ GrowPage
        BY <3>1 DEF Malloc
      <4> QED
        BY <4>1, <1>1, MallocLayout
    <3>2. CASE process_set_pdt
      <4>1. create_pdt
        BY <3>2 DEF process_set_pdt
      <4> QED
        BY <4>1, <1>1, CreateLayout
    <3>3. CASE SetStack
      <4>1. process_set_stack(process) /\ step = "stack"
        BY <3>3 DEF SetStack
      <4>2. PICK dir \in dirs : dir.pdt = process.pdt
        BY <4>1, <1>1 DEF CreationInv
      <4>3. process_set_stack(dir)
        BY <4>1, <4>2 DEF process_set_stack
      <4> QED
        BY <4>3, <1>1, StackLayout
    <3>4. CASE SetKernelStack
      <4>1. process_set_kernel_stack
        BY <3>4 DEF SetKernelStack
      <4> QED
        BY <4>1, <1>1, KernelStackLayout
    <3> QED
      BY <3>1, <3>2, <3>3, <3>4, <1>5 DEF PagingStep
  <2>5. step' # "entered"
    BY <2>1
  <2> QED
    BY <2>3, <2>4, <2>5, <1>3
<1>6. CASE sys_exec
  <2>1. UNCHANGED <<machine, dirs, total_malloc_pages, i>> /\ step' = "pdt"
    BY <1>6 DEF sys_exec
  <2>2. Now' = Now /\ dirs' = dirs
    BY <2>1 DEF machine, Now
  <2>3. SlotInv'
    BY <2>1, <2>2, <1>1, SlotKept
  <2> QED
    BY <2>1, <2>2, <2>3, <1>1, <1>3
<1>7. ASSUME step \in {"code", "map", "load"}
      PROVE  /\ \E dir \in dirs : process.pdt = dir.pdt /\ dir.pdt \in VPages
             /\ process.at \in VPages /\ GET_PD_IDX(process.at) < KERNEL_PT_PDT_IDX
  BY <1>1, <1>7 DEF CreationInv
<1>8. CASE process_set_code
  <2>1. step = "code" /\ UNCHANGED <<i, total_malloc_pages, dirs>> /\ step' # "entered"
    BY <1>8, CodeCalls DEF Idle
  <2>2. LaidOut(Now', dirs') /\ process.pdt \in VPages
    BY <2>1, <1>1, <1>7, <1>8, CodeLayout
  <2>3. Keeps(Now, Now')
    BY <2>2, <1>1, <1>8, CodeKeeps
  <2>4. SlotInv'
    BY <2>1, <2>3, <1>1, SlotKept
  <2> QED
    BY <2>1, <2>2, <2>3, <2>4, <1>3
<1>9. CASE process_map_process
  <2>1. /\ step = "map" /\ UNCHANGED <<i, total_malloc_pages, dirs>> /\ step' # "entered"
        /\ Becomes(PageReleased)
    BY <1>9, MapCalls
  <2>2. LaidOut(Now', dirs') /\ process.pdt \in VPages
    BY <2>1, <1>1, <1>7, <1>9, MapLayout
  <2>3. Keeps(Now, PageReleased)
    BY <2>1, <2>2, <1>1, <1>7, MapKeeps
  <2>4. Keeps(Now, Now')
    BY <2>1, <2>3, BecomesNow DEF Keeps
  <2>5. SlotInv'
    BY <2>1, <2>4, <1>1, SlotKept
  <2> QED
    BY <2>1, <2>2, <2>4, <2>5, <1>3
<1>10. CASE load_process_pdt
  <2>1. /\ step = "load" /\ UNCHANGED <<i, total_malloc_pages, dirs, process>>
        /\ cr3' = process.pdt_paddr
    BY <1>10, LoadCalls DEF load_process_pdt
  <2>2. /\ LaidOut(Now', dirs') /\ Keeps(Now, Now') /\ PD' = PD
        /\ \A d \in Idx : Copied(d)' => mem'[PD][d] = mem'[KERNEL_PD][d]
    BY <2>1, <1>1, <1>7, <1>10, LoadLayout
  <2>3. SlotInv'
    BY <2>1, <2>2, <1>1, SlotKept
  <2>4. cr3' = process'.pdt_paddr /\ \A d \in Idx : Copied(d)' => mem'[PD'][d] = mem'[KERNEL_PD][d]
    BY <2>1, <2>2
  <2>5. TablesInv'
    BY <2>2, <2>3, <2>4, <1>2, LaidOutNow DEF TablesInv
  <2> QED
    BY <2>1, <2>2, <2>5
<1> QED
  BY <1>4, <1>5, <1>6, <1>8, <1>9, <1>10 DEF ProcessNext, PagingStep

(* A page of the kernel's half has an entry of a directory there. *)
LEMMA UpperPage ==
  ASSUME NEW v \in VPages \ Lower
  PROVE  GET_PD_IDX(v) \in Idx /\ GET_PD_IDX(v) >= KERNEL_PT_PDT_IDX
<1> DEFINE n == PT_ENTRIES
           K == KERNEL_PT_PDT_IDX
           d == GET_PD_IDX(v)
           t == GET_PT_IDX(v)
<1>1. n \in Nat \ {0} /\ K \in Nat /\ K * n \in Nat
  BY PagingAssumption
<1>2. d \in Idx /\ t \in Idx /\ v = d * n + t
  BY AddressParts
<1>3. v \in Nat /\ v >= K * n
  BY <1>1 DEF VPages, Lower
<1> HIDE DEF d, t
<1>4. d >= K
  <2>1. SUFFICES ASSUME d + 1 <= K PROVE FALSE
    BY <1>1, <1>2 DEF Idx
  <2>2. (d + 1) * n <= K * n
    BY <2>1, <1>1, <1>2 DEF Idx
  <2>3. (d + 1) * n = d * n + n
    BY <1>1, <1>2 DEF Idx
  <2> QED
    BY <2>2, <2>3, <1>1, <1>2, <1>3 DEF Idx
<1> QED
  BY <1>2, <1>4 DEF d

(* With its own directory recorded, the one that is loaded has the kernel's half. *)
LEMMA TablesInvSwitch == TablesInv => SwitchKeepsKernel
<1> SUFFICES ASSUME TablesInv, step = "entered", process.pdt_paddr = PD,
                    NEW v \in VPages \ Lower, Entry(Now, v).present
             PROVE  Walk(Now, cr3, v) = Entry(Now, v)
  BY DEF SwitchKeepsKernel
<1> DEFINE d == GET_PD_IDX(v)
<1>1. d \in Idx /\ d >= KERNEL_PT_PDT_IDX
  BY UpperPage
<1>2. mem[KERNEL_PD][d].present
  BY DEF Entry, Walk, Now, Empty
<1>3. Copied(d)
  BY <1>1, <1>2 DEF Copied
<1>4. cr3 = PD /\ mem[PD][d] = mem[KERNEL_PD][d]
  BY <1>1, <1>3 DEF TablesInv
<1> QED
  BY <1>4 DEF Entry, Walk, Now

(* A frame that was free was no table's. *)
LEMMA RecordedFrame ==
  ASSUME SlotInv, LaidOut(Now, dirs), NEW dir, Recorded(Now, Now', dir)
  PROVE  dir.pdt_paddr = Entry(Now, dir.pdt)'.frame \/ dir.pdt_paddr \in Tables' \ Tables
<1>2. CASE dir.pdt_paddr = Entry(Now', dir.pdt).frame
  BY <1>2 DEF Entry, Walk, Now
<1>3. CASE /\ dir.pdt_paddr \in Free(Now)
           /\ \E d \in Idx : /\ Now'.mem[KERNEL_PD][d].present
                             /\ Now'.mem[KERNEL_PD][d].frame = dir.pdt_paddr
  <2>1. dir.pdt_paddr \in Tables'
    BY <1>3 DEF Tables, Now
  <2>2. ASSUME NEW d \in Idx, mem[KERNEL_PD][d].present, mem[KERNEL_PD][d].frame \in Free(Now)
        PROVE  FALSE
    <3> DEFINE R == RootsOf(Now, dirs)
    <3>1. Now \in State /\ Now.mem = mem /\ TablesShape(Now, R) /\ KERNEL_PD \in R
      BY DEF SlotInv, LaidOut, Layout, TablesShape, Now
    <3> HIDE DEF R
    <3>2. KERNEL_PT \notin Free(Now)
      <4>1. Free(Now) \subseteq START .. TOTAL_FRAMES - 1
        BY <3>1 DEF TablesShape, Untouched
      <4> QED
        BY <4>1, Constants
    <3>3. d # KERNEL_PT_PDT_IDX
      BY <2>2, <3>1, <3>2, LayoutKernel
    <3>4. Owns(Now, KERNEL_PD, d)
      BY <2>2, <3>1, <3>3, LayoutKernel
    <3> QED
      BY <2>2, <3>1, <3>4, LayoutTable
  <2>3. dir.pdt_paddr \notin Tables
    BY <2>2, <1>3 DEF Tables
  <2> QED
    BY <2>1, <2>3
<1> QED
  BY <1>2, <1>3 DEF Recorded

(* When CR3 is loaded with the directory created for the process, every page of the
   kernel's half is where it was (load_process_pdt copies the kernel's entries after
   create_process), whatever was noted before.  *)
THEOREM SwitchKeepsKernelHolds == ProcessSpec => []SwitchKeepsKernel
<1>1. TablesInv /\ [ProcessNext]_process_vars => TablesInv'
  BY StepTables
<1> QED
  BY <1>1, InitTablesInv, TablesInvSwitch, PTL DEF ProcessSpec

(* create_pdt records the frame of the directory, or that of a page table allocated to map
   it, which takes its place in the static array; whatever was noted before.  *)
THEOREM DirectoryFrameRecordedHolds == ProcessSpec => DirectoryFrameRecorded
<1>1. TablesInv /\ [ProcessNext]_process_vars => TablesInv'
  BY StepTables
<1>2. TablesInv /\ [ProcessNext]_process_vars =>
        [\A dir \in dirs' \ dirs :
           dir.pdt_paddr = Entry(Now, dir.pdt)'.frame \/ dir.pdt_paddr \in Tables' \ Tables]_process_vars
  <2> SUFFICES ASSUME TablesInv, [ProcessNext]_process_vars, NEW dir \in dirs' \ dirs
               PROVE  \/ dir.pdt_paddr = Entry(Now, dir.pdt)'.frame
                      \/ dir.pdt_paddr \in Tables' \ Tables
    OBVIOUS
  <2>1. Recorded(Now, Now', dir) /\ SlotInv /\ LaidOut(Now, dirs)
    BY StepTables DEF TablesInv
  <2> QED
    BY <2>1, RecordedFrame
<1> QED
  BY <1>1, <1>2, InitTablesInv, PTL DEF ProcessSpec, DirectoryFrameRecorded

(* Every step of a creation and the switch after it gives the temporary slot back as it
   found it, and none reads through an old translation of it: get_page in
   process_map_process, with map_page inside, and the entries load_process_pdt writes
   included, whatever was noted before.  *)
THEOREM CreationKeepsSlot == ProcessSpec => []NoStaleAccess /\ TempSlotRestored
<1>1. TablesInv /\ [ProcessNext]_process_vars => TablesInv'
  BY StepTables
<1>2. TablesInv => NoStaleAccess
  BY DEF TablesInv, SlotInv
<1>3. TablesInv /\ [ProcessNext]_process_vars =>
        [kernel_get_temporary_entry(Now)' = kernel_get_temporary_entry(Now)]_vars
  <2> SUFFICES ASSUME TablesInv, [ProcessNext]_process_vars
               PROVE  kernel_get_temporary_entry(Now)' = kernel_get_temporary_entry(Now)
    OBVIOUS
  <2>1. Slot(Now') = Slot(Now)
    BY StepTables DEF Keeps
  <2> QED
    BY <2>1 DEF Slot, kernel_get_temporary_entry
<1> QED
  BY <1>1, <1>2, <1>3, InitTablesInv, PTL DEF ProcessSpec, TempSlotRestored

===============================================================================
