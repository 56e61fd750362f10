--------------------------- MODULE ArcCoreProofs ---------------------------
(***************************************************************************)
(* Proofs about ArcCore, for any number of objects and any generation a    *)
(* core starts at.  The properties are not inductive: an id is only known  *)
(* to be dead because every slot has moved on from the generations of its  *)
(* earlier objects, and a destruction is only known to be the first of its *)
(* object because the slot of a live object still names it.  Table states  *)
(* the first, Lifetimes the second.  Counted, the third layer, says which  *)
(* references there are: an operation is only known not to be refused      *)
(* because whatever is referenced is live or in a destructor that copied   *)
(* it.                                                                     *)
(***************************************************************************)
EXTENDS ArcCore, Integers, FiniteSetTheorems, TLAPS

(* Generations recur after GenMod - 1 of them, zero being skipped: a core  *)
(* makes fewer objects than that.                                          *)
EnoughGenerations == MaxObjects < GenMod - 1

SlotRec == [generation : Generations, strong : Nat,
            destroying : BOOLEAN, address : Objects]

(* A slot without an object: neither held nor being destroyed.             *)
Dead(s) == s.strong = 0 /\ ~s.destroying

(* How many generations lie between a core's first one and g.              *)
Rank(g) == IF g >= first_generation THEN g - first_generation
           ELSE g + GenMod - 1 - first_generation

-----------------------------------------------------------------------------
(* The inductive invariant about the slot table.                           *)

(* A slot remembers its last object, under that object's generation or,    *)
(* once the object is gone, under the next.                                *)
SlotsKnown ==
    \A i \in 1 .. Len(slots) :
        /\ slots[i].address \in Made
        /\ made[slots[i].address].index = i
        /\ slots[i].destroying => slots[i].strong = 0
        /\ slots[i].generation # 0
        /\ ~Dead(slots[i]) => slots[i].generation = made[slots[i].address].generation
        /\ Dead(slots[i]) =>
              Rank(slots[i].generation) = Rank(made[slots[i].address].generation) + 1

(* The objects of one slot have increasing ranks, the last one the largest.*)
IdsInOrder ==
    \A o \in Made :
        /\ made[o].generation # 0
        /\ Rank(made[o].generation) < o
        /\ o <= slots[made[o].index].address
        /\ o < slots[made[o].index].address =>
              Rank(made[o].generation) < Rank(made[slots[made[o].index].address].generation)

(* Fields and destructions name objects that were made.                    *)
ReferencesMade ==
    /\ \A o \in Objects : field[o] \in Made \cup {0}
    /\ \A k \in 1 .. Len(frames) : frames[k].obj \in Made

Table == FreeIsDead /\ SlotsKnown /\ IdsInOrder

TableInv == TypeOK /\ Table /\ ReferencesMade

-----------------------------------------------------------------------------
(* Facts about generations and operations.                                 *)

(* The first generation is a generation, and not zero.                     *)
LEMMA FirstGeneration == first_generation \in 1 .. GenMod - 1
  BY ArcConstants DEF first_generation

(* NextGeneration moves one rank on, if generations are left, and never    *)
(* gives zero.                                                             *)
LEMMA NextRank ==
    ASSUME NEW g \in Generations, g # 0
    PROVE  /\ NextGeneration(g) \in Generations /\ NextGeneration(g) # 0
           /\ Rank(g) < GenMod - 2 => Rank(NextGeneration(g)) = Rank(g) + 1
  <1>1. g + 1 \in 1 .. GenMod /\ GenMod \in Nat /\ GenMod >= 2
    BY ArcConstants DEF Generations
  <1>2. CASE g + 1 < GenMod
    <2>1. (g + 1) % GenMod = g + 1
      BY <1>1, <1>2
    <2> QED BY <2>1, <1>1, <1>2, FirstGeneration DEF NextGeneration, Rank, Generations
  <1>3. CASE g + 1 = GenMod
    <2>1. (g + 1) % GenMod = 0
      BY <1>1, <1>3
    <2> QED BY <2>1, <1>1, <1>3, FirstGeneration DEF NextGeneration, Rank, Generations
  <1> QED BY <1>1, <1>2, <1>3

(* Different generations other than zero have different ranks.             *)
LEMMA RankInjective ==
    ASSUME NEW g \in Generations, NEW h \in Generations, g # 0, h # 0, Rank(g) = Rank(h)
    PROVE  g = h
  BY FirstGeneration, ArcConstants DEF Rank, Generations

(* A slot's parts, and what retain and release make of one.                *)
LEMMA SlotParts ==
    ASSUME NEW r \in SlotRec
    PROVE  /\ r.generation \in Generations /\ r.strong \in Nat
           /\ r.destroying \in BOOLEAN /\ r.address \in Objects
  BY DEF SlotRec

LEMMA SlotUpdate ==
    ASSUME NEW r \in SlotRec, NEW n \in Nat, NEW b \in BOOLEAN
    PROVE  /\ [r EXCEPT !.strong = n] \in SlotRec
           /\ [r EXCEPT !.strong = n, !.destroying = b] \in SlotRec
  BY DEF SlotRec

(* What TypeOK says of one slot, and of one object's id.                   *)
LEMMA SlotTypes ==
    ASSUME TypeOK, NEW i \in 1 .. Len(slots)
    PROVE  /\ slots[i] \in SlotRec
           /\ slots[i].generation \in Generations /\ slots[i].strong \in Nat
           /\ slots[i].destroying \in BOOLEAN /\ slots[i].address \in Objects
  <1>1. slots \in Seq(SlotRec)
    BY DEF TypeOK, SlotRec
  <1>2. slots[i] \in SlotRec
    BY <1>1
  <1> QED BY <1>2, SlotParts

LEMMA IdTypes ==
    ASSUME TypeOK, NEW o \in Made
    PROVE  /\ made[o] \in [index : 1 .. Len(slots), generation : Generations]
           /\ made[o].index \in 1 .. Len(slots) /\ made[o].generation \in Generations
           /\ o \in Objects
  <1> DEFINE Ids == [index : 1 .. Len(slots), generation : Generations]
  <1>1. made \in Seq(Ids) /\ Len(made) <= MaxObjects
    BY DEF TypeOK
  <1> HIDE DEF Ids
  <1>2. made[o] \in Ids /\ o \in Objects
    BY <1>1, ArcConstants DEF Made, Objects
  <1> QED BY <1>2 DEF Ids

(* Ranks are natural numbers.                                              *)
LEMMA RankIsNat ==
    ASSUME NEW g \in Generations, g # 0
    PROVE  Rank(g) \in 0 .. GenMod - 2
  BY FirstGeneration, ArcConstants DEF Rank, Generations

(* Table with the slots it is about as a parameter: what an operation on   *)
(* one object may change.                                                  *)
Reshaped(t) ==
    /\ t \in Seq(SlotRec) /\ Len(t) = Len(slots)
    /\ \A i \in 1 .. Len(slots) :
          /\ t[i].generation = slots[i].generation
          /\ t[i].address = slots[i].address
          /\ Dead(t[i]) <=> Dead(slots[i])
          /\ t[i].destroying => t[i].strong = 0

(* An id that names a slot in use names the object of that slot.           *)
LEMMA LiveIdNamesItsObject ==
    ASSUME TableInv, NEW o \in Made, Slot(made[o])
    PROVE  /\ made[o].index \in 1 .. Len(slots)
           /\ slots[made[o].index].address = o
           /\ ~Dead(slots[made[o].index])
  <1> DEFINE i == made[o].index
             a == slots[i].address
  <1>1. i \in 1 .. Len(slots) /\ ~Dead(slots[i]) /\ slots[i].generation = made[o].generation
    <2>1. TypeOK /\ i \in 1 .. Len(slots) /\ slots[i].generation = made[o].generation
      BY DEF Slot, TableInv
    <2>2. slots[i].strong \in Nat
      BY <2>1, SlotTypes
    <2> QED BY <2>1, <2>2 DEF Slot, Dead
  <1>2. a \in Made /\ slots[i].generation = made[a].generation
    BY <1>1 DEF TableInv, Table, SlotsKnown
  <1>3. ~(o < a)
    <2> SUFFICES ASSUME o < a PROVE FALSE
      OBVIOUS
    <2>1. Rank(made[o].generation) < Rank(made[a].generation)
      BY DEF TableInv, Table, IdsInOrder
    <2>2. made[o].generation = made[a].generation
      BY <1>1, <1>2
    <2>3. Rank(made[a].generation) \in Nat
      BY <1>2, IdTypes, RankIsNat, ArcConstants DEF TableInv, Table, IdsInOrder
    <2> QED BY <2>1, <2>2, <2>3
  <1>4. o <= a /\ a \in Nat /\ o \in Nat
    BY <1>2 DEF TableInv, Table, IdsInOrder, Made
  <1> QED BY <1>1, <1>3, <1>4

(* retain and release keep the shape of the table.                         *)
LEMMA RetainReshapes ==
    ASSUME TableInv, NEW o \in Made, Slot(made[o])
    PROVE  Reshaped(retain(slots, made[o]))
  <1> DEFINE i == made[o].index
  <1>1. i \in 1 .. Len(slots) /\ slots \in Seq(SlotRec) /\ ~Dead(slots[i])
    BY LiveIdNamesItsObject DEF TableInv, TypeOK, SlotRec
  <1>2. \A j \in 1 .. Len(slots) : slots[j] \in SlotRec /\ (slots[j].destroying => slots[j].strong = 0)
    BY <1>1 DEF TableInv, Table, SlotsKnown
  <1>3. CASE slots[i].destroying
    BY <1>1, <1>2, <1>3 DEF retain, Reshaped
  <1>4. CASE ~slots[i].destroying
    <2> DEFINE t == [slots EXCEPT ![i].strong = @ + 1]
    <2>1. t = retain(slots, made[o])
      BY <1>4 DEF retain
    <2>a. [slots[i] EXCEPT !.strong = @ + 1] \in SlotRec
      <3>1. slots[i] \in SlotRec /\ slots[i].strong + 1 \in Nat
        BY <1>1, SlotTypes DEF TableInv
      <3> QED BY <3>1, SlotUpdate
    <2>2. t \in Seq(SlotRec) /\ Len(t) = Len(slots)
      BY <1>1, <2>a
    <2>3. \A j \in 1 .. Len(slots) : j # i => t[j] = slots[j]
      BY <1>1
    <2>4. /\ t[i].generation = slots[i].generation /\ t[i].address = slots[i].address
          /\ t[i].destroying = slots[i].destroying /\ t[i].strong = slots[i].strong + 1
      BY <1>1, <1>2 DEF SlotRec
    <2>5. slots[i].strong \in Nat /\ slots[i].strong # 0
      BY <1>1, <1>2, <1>4 DEF SlotRec, Dead
    <2>6. Dead(t[i]) <=> Dead(slots[i])
      BY <2>4, <2>5 DEF Dead
    <2>7. t[i].destroying => t[i].strong = 0
      BY <2>4, <1>4
    <2> HIDE DEF t
    <2> QED BY <1>2, <2>1, <2>2, <2>3, <2>4, <2>6, <2>7 DEF Reshaped
  <1> QED BY <1>3, <1>4

LEMMA ReleaseReshapes ==
    ASSUME TableInv, NEW o \in Made, Slot(made[o])
    PROVE  Reshaped(release(slots, made[o]))
  <1> DEFINE i == made[o].index
  <1>1. i \in 1 .. Len(slots) /\ slots \in Seq(SlotRec) /\ ~Dead(slots[i])
    BY LiveIdNamesItsObject DEF TableInv, TypeOK, SlotRec
  <1>2. \A j \in 1 .. Len(slots) : slots[j] \in SlotRec /\ (slots[j].destroying => slots[j].strong = 0)
    BY <1>1 DEF TableInv, Table, SlotsKnown
  <1>3. CASE slots[i].destroying
    BY <1>1, <1>2, <1>3 DEF release, Reshaped
  <1>4. CASE ~slots[i].destroying
    <2> DEFINE t == release(slots, made[o])
    <2>1. slots[i].strong \in Nat /\ slots[i].strong # 0
      BY <1>1, <1>2, <1>4 DEF SlotRec, Dead
    <2> DEFINE r == [slots[i] EXCEPT !.strong = @ - 1, !.destroying = (slots[i].strong = 1)]
    <2>a. r \in SlotRec
      <3>1. slots[i] \in SlotRec /\ slots[i].strong - 1 \in Nat /\ (slots[i].strong = 1) \in BOOLEAN
        BY <1>1, <2>1, SlotTypes DEF TableInv
      <3> QED BY <3>1, SlotUpdate
    <2>b. t = [slots EXCEPT ![i] = r]
      BY <1>1, <1>2, <1>4 DEF release, last
    <2>2. t \in Seq(SlotRec) /\ Len(t) = Len(slots)
      BY <1>1, <2>a, <2>b
    <2>3. \A j \in 1 .. Len(slots) : j # i => t[j] = slots[j]
      BY <1>1, <1>4 DEF release
    <2>4. /\ t[i].generation = slots[i].generation /\ t[i].address = slots[i].address
          /\ (t[i].destroying <=> slots[i].strong = 1) /\ t[i].strong = slots[i].strong - 1
      <3> HIDE DEF t, r
      <3>1. t[i] = r
        BY <1>1, <2>b
      <3>2. slots[i] \in SlotRec
        BY <1>1
      <3>3. (slots[i].strong = 1) \in BOOLEAN
        OBVIOUS
      <3> QED BY <3>1, <3>2, <3>3 DEF SlotRec, r
    <2> HIDE DEF t
    <2>6. Dead(t[i]) <=> Dead(slots[i])
      BY <1>4, <2>1, <2>4 DEF Dead
    <2>7. t[i].destroying => t[i].strong = 0
      BY <2>1, <2>4
    <2>8. Reshaped(t)
      BY <1>2, <2>2, <2>3, <2>4, <2>6, <2>7 DEF Reshaped
    <2> QED BY <2>8 DEF t
  <1> QED BY <1>3, <1>4

(* What keeps the shape keeps Table.                                       *)
LEMMA ReshapedKeepsTable ==
    ASSUME TableInv, Reshaped(slots'), UNCHANGED <<free, made>>
    PROVE  Table'
  <1>1. FreeIsDead'
    BY DEF TableInv, Table, FreeIsDead, Reshaped, Dead
  <1>2. SlotsKnown'
    BY DEF TableInv, Table, SlotsKnown, Reshaped, Made
  <1>3. IdsInOrder'
    <2>1. \A o \in Made : slots'[made[o].index].address = slots[made[o].index].address
      BY IdTypes DEF TableInv, Reshaped
    <2> QED BY <2>1 DEF TableInv, Table, IdsInOrder, Made, Rank
  <1> QED BY <1>1, <1>2, <1>3 DEF Table

-----------------------------------------------------------------------------
(* The rest of the state: what an action that leaves the table's shape     *)
(* alone has to keep.                                                      *)
FrameRec == [obj : Objects, phase : Phases, copied : BOOLEAN]

FramesOK == frames \in Seq(FrameRec) /\ \A k \in 1 .. Len(frames) : frames[k].obj \in Made

Bindings ==
    /\ held \in [Objects -> Nat]
    /\ field \in [Objects -> Objects \cup {0}]
    /\ \A o \in Objects : field[o] \in Made \cup {0}

Counters ==
    /\ ran \in [Objects -> Nat]
    /\ freed \in [Objects -> Nat]
    /\ escaped \in BOOLEAN /\ invalid \in BOOLEAN /\ ended \in BOOLEAN

TableTypes ==
    /\ slots \in Seq(SlotRec)
    /\ free \in Seq(1 .. Len(slots))
    /\ made \in Seq([index : 1 .. Len(slots), generation : Generations])
    /\ Len(made) <= MaxObjects

(* TableInv in those parts.                                                *)
LEMMA Parts == TableInv <=> TableTypes /\ Table /\ FramesOK /\ Bindings /\ Counters
  BY DEF TableInv, TypeOK, TableTypes, FramesOK, Bindings, Counters, ReferencesMade,
         SlotRec, FrameRec

(* No operation on the table keeps its shape as it is.                     *)
LEMMA SameShape ==
    ASSUME TableInv
    PROVE  Reshaped(slots)
  <1>1. slots \in Seq(SlotRec)
    BY DEF TableInv, TypeOK, SlotRec
  <1> QED BY <1>1 DEF TableInv, Table, SlotsKnown, Reshaped

(* The invariant after an action that only reshapes the table.             *)
LEMMA Reshaping ==
    ASSUME TableInv, Reshaped(slots'), UNCHANGED <<free, made>>,
           FramesOK', Bindings', Counters'
    PROVE  TableInv'
  <1>1. Table'
    BY ReshapedKeepsTable
  <1>2. TableTypes'
    BY Parts DEF TableTypes, Reshaped
  <1>3. TableInv' <=> TableTypes' /\ Table' /\ FramesOK' /\ Bindings' /\ Counters'
    BY Parts, PTL
  <1> QED BY <1>1, <1>2, <1>3

(* The innermost destruction, and the ways the stack changes.              *)
LEMMA TopFrame ==
    ASSUME FramesOK, frames # <<>>
    PROVE  /\ Len(frames) \in 1 .. Len(frames) /\ Top \in FrameRec /\ Top.obj \in Made
  BY DEF FramesOK, Top

LEMMA FrameParts ==
    ASSUME NEW f \in FrameRec, NEW ph \in Phases
    PROVE  /\ [f EXCEPT !.phase = ph] \in FrameRec /\ [f EXCEPT !.phase = ph].obj = f.obj
           /\ [f EXCEPT !.copied = TRUE] \in FrameRec /\ [f EXCEPT !.copied = TRUE].obj = f.obj
  BY DEF FrameRec

(* Replacing the innermost destruction by another state of the same one.   *)
LEMMA TopChanges ==
    ASSUME FramesOK, frames # <<>>, UNCHANGED made,
           NEW f \in FrameRec, f.obj = Top.obj,
           frames' = [frames EXCEPT ![Len(frames)] = f]
    PROVE  FramesOK'
  BY TopFrame DEF FramesOK, Made

(* Starting one.                                                           *)
LEMMA FrameIsFrame ==
    ASSUME NEW o \in Objects
    PROVE  Frame(o) \in FrameRec /\ Frame(o).obj = o
  BY DEF Frame, FrameRec, Phases

LEMMA FramePushed ==
    ASSUME NEW fs \in Seq(FrameRec), \A k \in 1 .. Len(fs) : fs[k].obj \in Made,
           NEW o \in Made, o \in Objects, UNCHANGED made,
           frames' = Append(fs, Frame(o))
    PROVE  FramesOK'
  <1>1. Frame(o) \in FrameRec /\ Frame(o).obj \in Made
    BY FrameIsFrame
  <1> QED BY <1>1 DEF FramesOK, Made

(* The release of one reference reshapes the table and keeps the rest.     *)
LEMMA ReleaseRefKeeps ==
    ASSUME TableInv, NEW o \in Made, ReleaseRef(o), UNCHANGED made
    PROVE  /\ Reshaped(slots') /\ FramesOK'
           /\ ran' \in [Objects -> Nat] /\ invalid' \in BOOLEAN
  <1>0. o \in Objects /\ FramesOK /\ ran \in [Objects -> Nat] /\ invalid \in BOOLEAN
    BY IdTypes, Parts DEF TableInv, Counters
  <1>1. CASE ~Slot(made[o])
    <2>1. UNCHANGED <<slots, frames, ran>> /\ invalid' = TRUE
      BY <1>1 DEF ReleaseRef
    <2> QED BY <1>0, <2>1, SameShape DEF FramesOK, Made
  <1>2. CASE Slot(made[o])
    <2>1. slots' = release(slots, made[o]) /\ UNCHANGED invalid
      BY <1>2 DEF ReleaseRef
    <2>2. Reshaped(slots')
      BY <1>2, <2>1, ReleaseReshapes
    <2>3. CASE last(slots, made[o])
      <3>1. frames' = Append(frames, Frame(o)) /\ ran' = [ran EXCEPT ![o] = @ + 1]
        BY <1>2, <2>3 DEF ReleaseRef, Destroy
      <3>2. FramesOK'
        BY <1>0, <3>1, FramePushed DEF FramesOK
      <3> QED BY <1>0, <2>1, <2>2, <3>1, <3>2
    <2>4. CASE ~last(slots, made[o])
      <3>1. UNCHANGED <<frames, ran>>
        BY <1>2, <2>4 DEF ReleaseRef
      <3> QED BY <1>0, <2>1, <2>2, <3>1 DEF FramesOK, Made
    <2> QED BY <2>3, <2>4
  <1> QED BY <1>1, <1>2

-----------------------------------------------------------------------------
(* Every step keeps the invariant, action by action.                       *)

LEMMA CopyKeeps ==
    ASSUME TableInv, NEW o \in Objects, Copy(o)
    PROVE  TableInv'
  <1>0. FramesOK /\ Bindings /\ Counters
    BY Parts
  <1>1. o \in Made /\ UNCHANGED <<free, made, field, ran, freed, escaped, ended>>
    BY DEF Copy, Reach
  <1>2. /\ Reshaped(slots') /\ held' \in [Objects -> Nat] /\ invalid' \in BOOLEAN
    <2>1. CASE Slot(made[o])
      <3>1. slots' = retain(slots, made[o]) /\ UNCHANGED invalid
        BY <2>1 DEF Copy
      <3>2. held' = [held EXCEPT ![o] = @ + 1]
        BY <2>1 DEF Copy
      <3>3. held' \in [Objects -> Nat]
        BY <1>0, <3>2 DEF Bindings
      <3>4. Reshaped(slots')
        BY <1>1, <2>1, <3>1, RetainReshapes
      <3> QED BY <1>0, <3>1, <3>3, <3>4 DEF Counters
    <2>2. CASE ~Slot(made[o])
      BY <1>0, <1>1, <2>2, SameShape DEF Copy, Bindings
    <2> QED BY <2>1, <2>2
  <1>3. FramesOK'
    <2>1. CASE Self(o)
      <3>1. frames # <<>> /\ frames' = [frames EXCEPT ![Len(frames)] = [Top EXCEPT !.copied = TRUE]]
        BY <2>1 DEF Copy, Self, Top
      <3>2. [Top EXCEPT !.copied = TRUE] \in FrameRec /\ [Top EXCEPT !.copied = TRUE].obj = Top.obj
        BY <1>0, <3>1, TopFrame, FrameParts DEF Phases
      <3> QED BY <1>0, <1>1, <3>1, <3>2, TopChanges
    <2>2. CASE ~Self(o)
      BY <1>0, <1>1, <2>2 DEF Copy, FramesOK, Made
    <2> QED BY <2>1, <2>2
  <1>4. Bindings' /\ Counters'
    BY <1>0, <1>1, <1>2 DEF Bindings, Counters, Made
  <1> QED BY <1>1, <1>2, <1>3, <1>4, Reshaping

LEMMA DropKeeps ==
    ASSUME TableInv, NEW o \in Objects, Drop(o)
    PROVE  TableInv'
  <1>0. FramesOK /\ Bindings /\ Counters
    BY Parts
  <1>1. /\ o \in Made /\ ReleaseRef(o) /\ UNCHANGED <<free, made, field, freed, escaped, ended>>
        /\ held[o] > 0 /\ held' = [held EXCEPT ![o] = @ - 1]
    BY DEF Drop
  <1>2. /\ Reshaped(slots') /\ FramesOK'
        /\ ran' \in [Objects -> Nat] /\ invalid' \in BOOLEAN
    BY <1>1, ReleaseRefKeeps
  <1>3. Bindings'
    <2>1. held' \in [Objects -> Nat]
      BY <1>0, <1>1 DEF Bindings
    <2> QED BY <1>0, <1>1, <2>1 DEF Bindings, Made
  <1>4. Counters'
    BY <1>0, <1>1, <1>2 DEF Counters
  <1> QED BY <1>1, <1>2, <1>3, <1>4, Reshaping

LEMMA AssignKeeps ==
    ASSUME TableInv, NEW p \in Objects, NEW o \in Objects \cup {0}, assign_place(p, o)
    PROVE  TableInv'
  <1>0. FramesOK /\ Bindings /\ Counters
    BY Parts
  <1>1. /\ UNCHANGED <<free, made, freed, escaped, ended>>
        /\ o # 0 => o \in Made /\ held[o] > (IF p = o /\ ~Self(p) THEN 1 ELSE 0)
        /\ field' = [field EXCEPT ![p] = o]
        /\ held' = IF o = 0 THEN held ELSE [held EXCEPT ![o] = @ - 1]
    BY DEF assign_place
  <1>2. /\ Reshaped(slots') /\ FramesOK'
        /\ ran' \in [Objects -> Nat] /\ invalid' \in BOOLEAN
    <2>1. CASE field[p] = 0
      <3>1. UNCHANGED <<slots, frames, ran, invalid>>
        BY <2>1 DEF assign_place
      <3> QED BY <1>0, <1>1, <3>1, SameShape DEF FramesOK, Counters, Made
    <2>2. CASE field[p] # 0
      <3>1. ReleaseRef(field[p]) /\ field[p] \in Made
        BY <1>0, <2>2 DEF assign_place, Bindings
      <3> QED BY <1>1, <3>1, ReleaseRefKeeps
    <2> QED BY <2>1, <2>2
  <1>3. Bindings'
    <2>1. held' \in [Objects -> Nat]
      <3>1. CASE o = 0
        BY <1>0, <1>1, <3>1 DEF Bindings
      <3>2. CASE o # 0
        <4>1. o \in Objects /\ held[o] \in Nat /\ held[o] > 0
          BY <1>0, <1>1, <3>2 DEF Bindings
        <4> QED BY <1>0, <1>1, <3>2, <4>1 DEF Bindings
      <3> QED BY <3>1, <3>2
    <2>2. field' \in [Objects -> Objects \cup {0}] /\ \A q \in Objects : field'[q] \in Made \cup {0}
      BY <1>0, <1>1 DEF Bindings
    <2> QED BY <1>1, <2>1, <2>2 DEF Bindings, Made
  <1>4. Counters'
    BY <1>0, <1>1, <1>2 DEF Counters
  <1> QED BY <1>1, <1>2, <1>3, <1>4, Reshaping

LEMMA EndDestructorKeeps ==
    ASSUME TableInv, EndDestructor
    PROVE  TableInv'
  <1>0. FramesOK /\ Bindings /\ Counters
    BY Parts
  <1>1. /\ frames # <<>> /\ UNCHANGED <<slots, free, made, held, field, ran, freed, invalid, ended>>
        /\ frames' = [frames EXCEPT ![Len(frames)] = [Top EXCEPT !.phase = "fields"]]
    BY DEF EndDestructor, SetPhase, Top
  <1>2. Reshaped(slots')
    BY <1>1, SameShape
  <1>3. FramesOK'
    <2>1. /\ [Top EXCEPT !.phase = "fields"] \in FrameRec
          /\ [Top EXCEPT !.phase = "fields"].obj = Top.obj
      BY <1>0, <1>1, TopFrame, FrameParts DEF Phases
    <2> QED BY <1>0, <1>1, <2>1, TopChanges
  <1>4. Bindings'
    BY <1>0, <1>1 DEF Bindings, Made
  <1>5. escaped' \in BOOLEAN
    BY DEF EndDestructor
  <1>6. Counters'
    BY <1>0, <1>1, <1>5 DEF Counters
  <1> QED BY <1>1, <1>2, <1>3, <1>4, <1>6, Reshaping

LEMMA ReleaseFieldsKeeps ==
    ASSUME TableInv, ReleaseFields
    PROVE  TableInv'
  <1> DEFINE o == Top.obj
             f == [Top EXCEPT !.phase = "free"]
             below == [frames EXCEPT ![Len(frames)] = f]
             c == field[o]
  <1>0. FramesOK /\ Bindings /\ Counters
    BY Parts
  <1>1. /\ frames # <<>> /\ UNCHANGED <<free, made, held, freed, escaped, ended>>
        /\ field' = [field EXCEPT ![o] = 0]
    BY DEF ReleaseFields
  <1>2. below = [frames EXCEPT ![Len(frames)].phase = "free"]
    BY DEF Top
  <1>3. /\ f \in FrameRec /\ f.obj = o /\ o \in Made /\ o \in Objects
        /\ Len(frames) \in 1 .. Len(frames) /\ frames \in Seq(FrameRec)
    BY <1>0, <1>1, TopFrame, FrameParts, IdTypes DEF Phases, TableInv, FramesOK
  <1>4. below \in Seq(FrameRec) /\ \A k \in 1 .. Len(below) : below[k].obj \in Made
    <2> HIDE DEF f
    <2> QED BY <1>0, <1>3 DEF FramesOK
  <1>5. c \in Made \cup {0} /\ c \in Objects \cup {0}
    BY <1>0, <1>3 DEF Bindings
  <1>6. /\ Reshaped(slots') /\ FramesOK'
        /\ ran' \in [Objects -> Nat] /\ invalid' \in BOOLEAN
    <2>1. CASE c = 0
      <3>1. frames' = below /\ UNCHANGED <<slots, ran, invalid>>
        BY <2>1, <1>2 DEF ReleaseFields
      <3> QED BY <1>0, <1>1, <1>4, <3>1, SameShape DEF FramesOK, Counters, Made
    <2>2. CASE c # 0 /\ ~Slot(made[c])
      <3>1. invalid' = TRUE /\ UNCHANGED <<slots, frames, ran>>
        BY <2>2 DEF ReleaseFields
      <3> QED BY <1>0, <1>1, <3>1, SameShape DEF FramesOK, Counters, Made
    <2>3. CASE c # 0 /\ Slot(made[c])
      <3>1. /\ slots' = release(slots, made[c]) /\ UNCHANGED invalid
            /\ frames' = IF last(slots, made[c]) THEN Append(below, Frame(c)) ELSE below
            /\ ran' = IF last(slots, made[c]) THEN [ran EXCEPT ![c] = @ + 1] ELSE ran
        BY <2>3, <1>2 DEF ReleaseFields
      <3>2. Reshaped(slots')
        BY <1>5, <2>3, <3>1, ReleaseReshapes
      <3>3. ran' \in [Objects -> Nat] /\ invalid' \in BOOLEAN
        BY <1>0, <1>5, <2>3, <3>1 DEF Counters
      <3>4. FramesOK'
        <4>1. CASE last(slots, made[c])
          <5> HIDE DEF below, c
          <5> QED BY <1>1, <1>4, <1>5, <2>3, <3>1, <4>1, FramePushed
        <4>2. CASE ~last(slots, made[c])
          BY <1>1, <1>4, <3>1, <4>2 DEF FramesOK, Made
        <4> QED BY <4>1, <4>2
      <3> QED BY <3>2, <3>3, <3>4
    <2> QED BY <2>1, <2>2, <2>3
  <1>7. Bindings'
    BY <1>0, <1>1, <1>3 DEF Bindings, Made
  <1>8. Counters'
    BY <1>0, <1>1, <1>6 DEF Counters
  <1> QED BY <1>1, <1>6, <1>7, <1>8, Reshaping

LEMMA EndKeeps ==
    ASSUME TableInv, run_in_fresh_core
    PROVE  TableInv'
  <1>0. FramesOK /\ Bindings /\ Counters
    BY Parts
  <1>1. UNCHANGED <<slots, free, made, held, field, frames, ran, escaped, invalid>>
    BY DEF run_in_fresh_core
  <1>2. freed' \in [Objects -> Nat] /\ ended' = TRUE
    BY <1>0 DEF run_in_fresh_core, Counters
  <1>3. Reshaped(slots')
    BY <1>1, SameShape
  <1>4. FramesOK' /\ Bindings' /\ Counters'
    BY <1>0, <1>1, <1>2 DEF FramesOK, Bindings, Counters, Made
  <1> QED BY <1>1, <1>3, <1>4, Reshaping

(* Removing the last element of a sequence.                                *)
LEMMA Pop ==
    ASSUME NEW T, NEW s \in Seq(T), s # <<>>
    PROVE  LET n == Len(s)
               t == SubSeq(s, 1, n - 1)
           IN  /\ n \in Nat /\ n >= 1 /\ s[n] \in T
               /\ t \in Seq(T) /\ Len(t) = n - 1 /\ \A j \in 1 .. n - 1 : t[j] = s[j]
  <1> DEFINE m == Len(s) - 1
             u == SubSeq(s, 1, m)
  <1>1. Len(s) \in Nat /\ Len(s) >= 1 /\ s[Len(s)] \in T /\ m \in Nat
    OBVIOUS
  <1>2. \A j \in 1 .. m : s[j] \in T
    BY <1>1
  <1>3. u = [j \in 1 .. m |-> s[j]]
    BY <1>1
  <1>4. u \in Seq(T) /\ Len(u) = m /\ \A j \in 1 .. m : u[j] = s[j]
    <2> HIDE DEF m, u
    <2> QED BY <1>1, <1>2, <1>3
  <1> QED BY <1>1, <1>4

(* NEW, on a free slot.  The slot's generation lies one rank past that of  *)
(* its last object, so it lies past those of all its objects.              *)
LEMMA ReuseKeeps ==
    ASSUME TableInv, New, free # <<>>
    PROVE  TableTypes' /\ Table'
  <1> DEFINE o == Len(made) + 1
             i == free[Len(free)]
             g == slots[i].generation
             r == [generation |-> g, strong |-> 1, destroying |-> FALSE, address |-> o]
             id == Id(i, g)
  <1>0. TableTypes /\ FreeIsDead /\ SlotsKnown /\ IdsInOrder /\ TypeOK
    BY Parts DEF Table, TableInv
  <1>1. /\ slots' = [slots EXCEPT ![i] = r]
        /\ made' = Append(made, id)
        /\ free' = SubSeq(free, 1, Len(free) - 1)
        /\ Len(made) < MaxObjects
    BY DEF New
  <1>2. /\ i \in 1 .. Len(slots) /\ Len(free) \in 1 .. Len(free)
        /\ Len(made) \in Nat /\ o \in Objects /\ o \in Nat
    BY <1>0, <1>1, ArcConstants DEF TableTypes, Objects
  <1>3. g \in Generations /\ g # 0 /\ slots[i].address \in Made /\ Dead(slots[i])
    <2>1. Dead(slots[i])
      BY <1>0, <1>2 DEF FreeIsDead, Dead
    <2> QED BY <1>0, <1>2, <2>1, SlotTypes DEF SlotsKnown
  <1>4. r \in SlotRec /\ id \in [index : 1 .. Len(slots), generation : Generations]
    BY <1>2, <1>3 DEF SlotRec, Id
  <1>5. r.address = o /\ r.strong = 1 /\ ~r.destroying /\ r.generation = g /\ ~Dead(r)
    BY DEF Dead
  <1>6. id.index = i /\ id.generation = g
    BY DEF Id
  <1> HIDE DEF r, id
  <1>7. /\ slots' \in Seq(SlotRec) /\ Len(slots') = Len(slots)
        /\ slots'[i] = r /\ \A j \in 1 .. Len(slots) : j # i => slots'[j] = slots[j]
    BY <1>0, <1>1, <1>2, <1>4 DEF TableTypes
  <1>8. /\ made' \in Seq([index : 1 .. Len(slots), generation : Generations])
        /\ Len(made') = o /\ made'[o] = id /\ \A q \in Made : made'[q] = made[q]
        /\ Made' = Made \cup {o} /\ o \notin Made
    BY <1>0, <1>1, <1>2, <1>4 DEF TableTypes, Made
  <1> DEFINE n == Len(free)
  <1>9. /\ free' \in Seq(1 .. Len(slots)) /\ Len(free') = n - 1
        /\ \A j \in 1 .. n - 1 : free'[j] = free[j]
        /\ n \in Nat /\ n >= 1 /\ i = free[n]
    BY <1>0, <1>1, Pop DEF TableTypes
  <1> HIDE DEF n
  <1>10. TableTypes'
    <2>1. o <= MaxObjects
      BY <1>2 DEF Objects
    <2> QED BY <1>7, <1>8, <1>9, <2>1 DEF TableTypes
  <1>11. FreeIsDead'
    <2>0. \A j, k \in 1 .. n : free[j] = free[k] => j = k
      BY <1>0 DEF FreeIsDead, n
    <2>1. \A j, k \in 1 .. Len(free') : free'[j] = free'[k] => j = k
      BY <1>9, <2>0
    <2>2. \A j \in 1 .. n - 1 : free[j] # i
      BY <1>9, <2>0
    <2>3. ASSUME NEW k \in 1 .. Len(slots)
          PROVE  (\E j \in 1 .. Len(free') : free'[j] = k) <=> Dead(slots'[k])
      <3>1. CASE k = i
        BY <1>2, <1>5, <1>7, <1>9, <2>2, <3>1
      <3>2. CASE k # i
        <4>1. (\E j \in 1 .. n : free[j] = k) <=> Dead(slots[k])
          BY <1>0 DEF FreeIsDead, Dead, n
        <4>2. (\E j \in 1 .. Len(free') : free'[j] = k) <=> (\E j \in 1 .. n : free[j] = k)
          <5> HIDE DEF i
          <5>1. \A j \in 1 .. n : j \in 1 .. n - 1 \/ j = n
            BY <1>9
          <5>2. \A j \in 1 .. n - 1 : j \in 1 .. n
            BY <1>9
          <5> QED BY <1>9, <3>2, <5>1, <5>2
        <4> QED BY <1>7, <3>2, <4>1, <4>2
      <3> QED BY <3>1, <3>2
    <2> QED BY <1>7, <2>1, <2>3 DEF FreeIsDead, Dead
  <1>12. SlotsKnown'
    <2>1. ASSUME NEW k \in 1 .. Len(slots), k # i
          PROVE  /\ slots'[k] = slots[k] /\ slots[k].address \in Made
                 /\ made'[slots[k].address] = made[slots[k].address]
      BY <1>0, <1>7, <1>8, <2>1 DEF SlotsKnown
    <2>2. ASSUME NEW k \in 1 .. Len(slots)
          PROVE  /\ slots'[k].address \in Made'
                 /\ made'[slots'[k].address].index = k
                 /\ slots'[k].destroying => slots'[k].strong = 0
                 /\ slots'[k].generation # 0
                 /\ ~Dead(slots'[k]) => slots'[k].generation = made'[slots'[k].address].generation
                 /\ Dead(slots'[k]) =>
                       Rank(slots'[k].generation) = Rank(made'[slots'[k].address].generation) + 1
      <3>1. CASE k = i
        BY <1>3, <1>5, <1>6, <1>7, <1>8, <3>1
      <3>2. CASE k # i
        BY <1>0, <1>8, <2>1, <3>2 DEF SlotsKnown
      <3> QED BY <3>1, <3>2
    <2> QED BY <1>7, <2>2 DEF SlotsKnown, Rank, Dead, first_generation
  <1>13. Rank(g) \in Nat /\ Rank(g) = Rank(made[slots[i].address].generation) + 1
    BY <1>0, <1>2, <1>3, RankIsNat DEF SlotsKnown
  <1>14. \A q \in Made : q \in Nat /\ q <= Len(made) /\ Rank(made[q].generation) \in Nat
    BY <1>0, IdTypes, RankIsNat, ArcConstants DEF Made, IdsInOrder
  <1>15. IdsInOrder'
    <2>1. Rank(g) < o
      BY <1>0, <1>2, <1>3, <1>13, <1>14 DEF IdsInOrder
    <2>2. ASSUME NEW q \in Made, made[q].index = i
          PROVE  q < o /\ Rank(made[q].generation) < Rank(g)
      <3> DEFINE a == slots[i].address
      <3>1. q <= a /\ (q < a => Rank(made[q].generation) < Rank(made[a].generation))
        BY <1>0, <2>2 DEF IdsInOrder
      <3>2. a \in Made /\ a <= Len(made) /\ a \in Nat /\ q \in Nat
        BY <1>3, <1>14
      <3>3. /\ Rank(g) = Rank(made[a].generation) + 1 /\ Rank(made[a].generation) \in Nat
            /\ Rank(made[q].generation) \in Nat
        BY <1>3, <1>13, <1>14
      <3>4. q < o
        BY <1>2, <3>1, <3>2
      <3>5. CASE q = a
        BY <3>3, <3>4, <3>5
      <3>6. CASE q < a
        <4> HIDE DEF a, g
        <4> QED BY <3>1, <3>3, <3>4, <3>6
      <3> QED BY <3>1, <3>2, <3>5, <3>6
    <2>3. ASSUME NEW q \in Made
          PROVE  /\ made'[q].generation # 0 /\ Rank(made'[q].generation) < q
                 /\ q <= slots'[made'[q].index].address
                 /\ q < slots'[made'[q].index].address =>
                       Rank(made'[q].generation)
                           < Rank(made'[slots'[made'[q].index].address].generation)
      <3>1. made'[q] = made[q] /\ made[q].index \in 1 .. Len(slots)
        BY <1>0, <1>8, IdTypes
      <3>2. CASE made[q].index = i
        BY <1>0, <1>2, <1>5, <1>6, <1>7, <1>8, <1>14, <2>2, <3>1, <3>2 DEF IdsInOrder
      <3>3. CASE made[q].index # i
        <4>1. /\ slots'[made[q].index] = slots[made[q].index]
              /\ slots[made[q].index].address \in Made
          BY <1>0, <1>7, <3>1, <3>3 DEF SlotsKnown
        <4> QED BY <1>0, <1>8, <3>1, <4>1 DEF IdsInOrder
      <3> QED BY <3>2, <3>3
    <2>4. /\ made'[o].generation # 0 /\ Rank(made'[o].generation) < o
          /\ slots'[made'[o].index].address = o
      BY <1>3, <1>5, <1>6, <1>7, <1>8, <2>1
    <2>5. \A q \in Made' : q \in Made \/ q = o
      BY <1>8
    <2> QED BY <1>2, <2>3, <2>4, <2>5 DEF IdsInOrder, Rank
  <1> QED BY <1>10, <1>11, <1>12, <1>15 DEF Table

(* NEW, on a slot of its own.                                              *)
LEMMA GrowKeeps ==
    ASSUME TableInv, New, free = <<>>
    PROVE  TableTypes' /\ Table'
  <1> DEFINE o == Len(made) + 1
             i == Len(slots) + 1
             g == first_generation
             r == [generation |-> g, strong |-> 1, destroying |-> FALSE, address |-> o]
             id == Id(i, g)
  <1>0. TableTypes /\ FreeIsDead /\ SlotsKnown /\ IdsInOrder /\ TypeOK
    BY Parts DEF Table, TableInv
  <1>1. /\ slots' = Append(slots, r)
        /\ made' = Append(made, id)
        /\ free' = <<>>
        /\ Len(made) < MaxObjects
    BY DEF New
  <1>2. /\ Len(slots) \in Nat /\ i \in Nat
        /\ Len(made) \in Nat /\ o \in Objects /\ o \in Nat /\ o >= 1
    BY <1>0, <1>1, ArcConstants DEF TableTypes, Objects
  <1>3. g \in Generations /\ g # 0 /\ Rank(g) = 0
    BY FirstGeneration, ArcConstants DEF Generations, Rank
  <1>4. r \in SlotRec /\ id \in [index : 1 .. i, generation : Generations]
    BY <1>2, <1>3 DEF SlotRec, Id
  <1>5. r.address = o /\ r.strong = 1 /\ ~r.destroying /\ r.generation = g /\ ~Dead(r)
    BY DEF Dead
  <1>6. id.index = i /\ id.generation = g
    BY DEF Id
  <1> HIDE DEF r, id, g
  <1>7. /\ slots' \in Seq(SlotRec) /\ Len(slots') = i
        /\ slots'[i] = r /\ \A j \in 1 .. Len(slots) : slots'[j] = slots[j]
        /\ \A j \in 1 .. i : j \in 1 .. Len(slots) \/ j = i
    BY <1>0, <1>1, <1>2, <1>4 DEF TableTypes
  <1>8. /\ made' \in Seq([index : 1 .. i, generation : Generations])
        /\ Len(made') = o /\ made'[o] = id /\ \A q \in Made : made'[q] = made[q]
        /\ Made' = Made \cup {o} /\ o \notin Made
    <2> DEFINE Old == [index : 1 .. Len(slots), generation : Generations]
               Ids == [index : 1 .. i, generation : Generations]
    <2>1. \A x \in Old : x \in Ids
      BY <1>2
    <2>2. made \in Seq(Old)
      BY <1>0 DEF TableTypes
    <2>3. id \in Ids
      BY <1>4
    <2> HIDE DEF Old, Ids
    <2>4. made \in Seq(Ids)
      BY <2>1, <2>2
    <2>5. made' \in Seq(Ids) /\ Len(made') = o /\ made'[o] = id
      BY <1>1, <2>3, <2>4
    <2>6. \A q \in Made : made'[q] = made[q]
      BY <1>1, <2>3, <2>4 DEF Made
    <2>7. Made' = Made \cup {o} /\ o \notin Made
      BY <1>2, <2>5 DEF Made
    <2> QED BY <2>5, <2>6, <2>7 DEF Ids
  <1>10. TableTypes'
    <2>1. o <= MaxObjects
      BY <1>2 DEF Objects
    <2>2. free' \in Seq(1 .. i)
      BY <1>1
    <2> QED BY <1>7, <1>8, <2>1, <2>2 DEF TableTypes
  <1>11. FreeIsDead'
    <2>1. Len(free') = 0 /\ Len(free) = 0
      BY <1>1
    <2>2. \A k \in 1 .. Len(slots) : ~Dead(slots[k])
      BY <1>0, <2>1 DEF FreeIsDead, Dead
    <2>3. \A k \in 1 .. i : ~Dead(slots'[k])
      BY <1>5, <1>7, <2>2
    <2> QED BY <1>7, <2>1, <2>3 DEF FreeIsDead, Dead
  <1>12. SlotsKnown'
    <2>1. ASSUME NEW k \in 1 .. Len(slots)
          PROVE  /\ slots'[k] = slots[k] /\ slots[k].address \in Made
                 /\ made'[slots[k].address] = made[slots[k].address]
      BY <1>0, <1>7, <1>8 DEF SlotsKnown
    <2>2. ASSUME NEW k \in 1 .. i
          PROVE  /\ slots'[k].address \in Made'
                 /\ made'[slots'[k].address].index = k
                 /\ slots'[k].destroying => slots'[k].strong = 0
                 /\ slots'[k].generation # 0
                 /\ ~Dead(slots'[k]) => slots'[k].generation = made'[slots'[k].address].generation
                 /\ Dead(slots'[k]) =>
                       Rank(slots'[k].generation) = Rank(made'[slots'[k].address].generation) + 1
      <3>1. CASE k = i
        BY <1>3, <1>5, <1>6, <1>7, <1>8, <3>1
      <3>2. CASE k # i
        <4>1. k \in 1 .. Len(slots)
          BY <1>7, <3>2
        <4> QED BY <1>0, <1>8, <2>1, <4>1 DEF SlotsKnown
      <3> QED BY <3>1, <3>2
    <2> QED BY <1>7, <2>2 DEF SlotsKnown, Rank, Dead, first_generation
  <1>15. IdsInOrder'
    <2>3. ASSUME NEW q \in Made
          PROVE  /\ made'[q].generation # 0 /\ Rank(made'[q].generation) < q
                 /\ q <= slots'[made'[q].index].address
                 /\ q < slots'[made'[q].index].address =>
                       Rank(made'[q].generation)
                           < Rank(made'[slots'[made'[q].index].address].generation)
      <3>1. made'[q] = made[q] /\ made[q].index \in 1 .. Len(slots)
        BY <1>0, <1>8, IdTypes
      <3>2. /\ slots'[made[q].index] = slots[made[q].index]
            /\ slots[made[q].index].address \in Made
        BY <1>0, <1>7, <3>1 DEF SlotsKnown
      <3> QED BY <1>0, <1>8, <3>1, <3>2 DEF IdsInOrder
    <2>4. /\ made'[o].generation # 0 /\ Rank(made'[o].generation) < o
          /\ slots'[made'[o].index].address = o
      BY <1>2, <1>3, <1>5, <1>6, <1>7, <1>8
    <2>5. \A q \in Made' : q \in Made \/ q = o
      BY <1>8
    <2> QED BY <1>2, <2>3, <2>4, <2>5 DEF IdsInOrder, Rank
  <1> QED BY <1>10, <1>11, <1>12, <1>15 DEF Table

LEMMA NewKeeps ==
    ASSUME TableInv, New
    PROVE  TableInv'
  <1>0. FramesOK /\ Bindings /\ Counters /\ TableTypes
    BY Parts
  <1>1. TableTypes' /\ Table'
    BY ReuseKeeps, GrowKeeps
  <1>2. /\ UNCHANGED <<field, frames, ran, freed, escaped, invalid, ended>>
        /\ held' = [held EXCEPT ![Len(made) + 1] = 1]
        /\ \E x : made' = Append(made, x)
    BY DEF New
  <1>3. Made \subseteq Made'
    <2>1. PICK x : made' = Append(made, x)
      BY <1>2
    <2>2. Len(made') = Len(made) + 1 /\ Len(made) \in Nat
      BY <1>0, <2>1 DEF TableTypes
    <2> QED BY <2>2 DEF Made
  <1>4. held' \in [Objects -> Nat]
    BY <1>0, <1>2 DEF Bindings
  <1>5. FramesOK' /\ Bindings'
    BY <1>0, <1>2, <1>3, <1>4 DEF FramesOK, Bindings
  <1>6. Counters'
    BY <1>0, <1>2 DEF Counters
  <1>7. TableInv' <=> TableTypes' /\ Table' /\ FramesOK' /\ Bindings' /\ Counters'
    BY Parts, PTL
  <1> QED BY <1>1, <1>5, <1>6, <1>7

(* finish_destroy: the slot of the destroyed object moves one rank on.     *)
LEMMA SlotFreed ==
    ASSUME NEW x \in SlotRec, NEW h \in Generations
    PROVE  LET r == [x EXCEPT !.destroying = FALSE, !.generation = h]
           IN  /\ r \in SlotRec /\ r.generation = h /\ r.strong = x.strong
               /\ ~r.destroying /\ r.address = x.address
  BY DEF SlotRec

LEMMA FinishKeepsTable ==
    ASSUME EnoughGenerations, TableInv, NEW o \in Made,
           Slot(made[o]), slots[made[o].index].destroying,
           NEW r \in SlotRec, ~r.destroying, r.address = o, r.strong = 0,
           r.generation = NextGeneration(slots[made[o].index].generation),
           slots' = [slots EXCEPT ![made[o].index] = r],
           free' = Append(free, made[o].index), UNCHANGED made
    PROVE  TableTypes' /\ Table'
  <1> DEFINE i == made[o].index
             g == slots[i].generation
             n == Len(free)
  <1>0. TableTypes /\ FreeIsDead /\ SlotsKnown /\ IdsInOrder /\ TypeOK
    BY Parts DEF Table, TableInv
  <1>1. i \in 1 .. Len(slots) /\ slots[i].address = o /\ ~Dead(slots[i])
    BY LiveIdNamesItsObject
  <1>2. slots[i] \in SlotRec /\ g \in Generations /\ g # 0 /\ g = made[o].generation
    BY <1>0, <1>1, SlotTypes DEF SlotsKnown
  <1>3. Rank(g) < GenMod - 2
    <2>1. Rank(g) < o /\ o \in Nat /\ o <= MaxObjects /\ Rank(g) \in Nat
      BY <1>0, <1>2, IdTypes, RankIsNat, ArcConstants DEF IdsInOrder, Objects
    <2> QED BY <2>1, ArcConstants DEF EnoughGenerations
  <1>4. /\ NextGeneration(g) \in Generations /\ NextGeneration(g) # 0
        /\ Rank(NextGeneration(g)) = Rank(g) + 1
    BY <1>2, <1>3, NextRank
  <1>5. /\ r \in SlotRec /\ r.generation = NextGeneration(g) /\ r.strong = 0
        /\ ~r.destroying /\ r.address = o /\ Dead(r)
    BY DEF Dead
  <1>7. /\ slots' \in Seq(SlotRec) /\ Len(slots') = Len(slots)
        /\ slots'[i] = r /\ \A j \in 1 .. Len(slots) : j # i => slots'[j] = slots[j]
    BY <1>0, <1>1 DEF TableTypes
  <1>8. /\ free' \in Seq(1 .. Len(slots)) /\ Len(free') = n + 1 /\ n \in Nat
        /\ free'[n + 1] = i /\ \A j \in 1 .. n : free'[j] = free[j]
    BY <1>0, <1>1 DEF TableTypes
  <1> HIDE DEF n
  <1>9. TableTypes'
    BY <1>0, <1>7, <1>8 DEF TableTypes
  <1>10. FreeIsDead'
    <2>1. \A j, k \in 1 .. n : free[j] = free[k] => j = k
      BY <1>0 DEF FreeIsDead, n
    <2>2. \A j \in 1 .. n : free[j] # i
      BY <1>0, <1>1 DEF FreeIsDead, Dead, n
    <2> HIDE DEF i
    <2>3. \A j \in 1 .. n + 1 : j \in 1 .. n \/ j = n + 1
      BY <1>8
    <2>4. \A j, k \in 1 .. n + 1 : free'[j] = free'[k] => j = k
      BY <1>8, <2>1, <2>2, <2>3
    <2>5. ASSUME NEW k \in 1 .. Len(slots)
          PROVE  (\E j \in 1 .. n + 1 : free'[j] = k) <=> Dead(slots'[k])
      <3>1. CASE k = i
        BY <1>5, <1>7, <1>8, <3>1
      <3>2. CASE k # i
        <4>1. (\E j \in 1 .. n : free[j] = k) <=> Dead(slots[k])
          BY <1>0 DEF FreeIsDead, Dead, n
        <4>2. (\E j \in 1 .. n + 1 : free'[j] = k) <=> (\E j \in 1 .. n : free[j] = k)
          BY <1>8, <2>3, <3>2
        <4> QED BY <1>7, <3>2, <4>1, <4>2
      <3> QED BY <3>1, <3>2
    <2>6. Len(free') = n + 1 /\ Len(slots') = Len(slots)
      BY <1>7, <1>8
    <2>7. \A k \in 1 .. Len(slots') : (\E j \in 1 .. Len(free') : free'[j] = k) <=> Dead(slots'[k])
      BY <2>5, <2>6
    <2> QED BY <2>4, <2>6, <2>7 DEF FreeIsDead, Dead
  <1>11. SlotsKnown'
    <2>1. ASSUME NEW k \in 1 .. Len(slots)
          PROVE  /\ slots'[k].address \in Made
                 /\ made[slots'[k].address].index = k
                 /\ slots'[k].destroying => slots'[k].strong = 0
                 /\ slots'[k].generation # 0
                 /\ ~Dead(slots'[k]) => slots'[k].generation = made[slots'[k].address].generation
                 /\ Dead(slots'[k]) =>
                       Rank(slots'[k].generation) = Rank(made[slots'[k].address].generation) + 1
      <3>1. CASE k = i
        BY <1>2, <1>4, <1>5, <1>7, <3>1
      <3>2. CASE k # i
        BY <1>0, <1>7, <3>2 DEF SlotsKnown
      <3> QED BY <3>1, <3>2
    <2> QED BY <1>7, <2>1 DEF SlotsKnown, Rank, Dead, first_generation, Made
  <1>12. IdsInOrder'
    <2>1. \A q \in Made : slots'[made[q].index].address = slots[made[q].index].address
      BY <1>0, <1>1, <1>5, <1>7, IdTypes
    <2> QED BY <1>0, <2>1 DEF IdsInOrder, Made, Rank
  <1> QED BY <1>9, <1>10, <1>11, <1>12 DEF Table

LEMMA FinishKeeps ==
    ASSUME EnoughGenerations, TableInv, finish_destroy
    PROVE  TableInv'
  <1> DEFINE o == Top.obj
             id == made[o]
  <1>0. FramesOK /\ Bindings /\ Counters /\ TableTypes /\ Table
    BY Parts
  <1>1. /\ frames # <<>> /\ UNCHANGED <<made, held, field, ran, escaped, ended>>
        /\ freed' = [freed EXCEPT ![o] = @ + 1]
        /\ frames' = SubSeq(frames, 1, Len(frames) - 1)
    BY DEF finish_destroy
  <1>2. o \in Made /\ o \in Objects
    BY <1>0, <1>1, TopFrame, IdTypes DEF TableInv
  <1>3. FramesOK'
    <2>1. /\ frames' \in Seq(FrameRec) /\ Len(frames') = Len(frames) - 1 /\ Len(frames) \in Nat
          /\ \A j \in 1 .. Len(frames) - 1 : frames'[j] = frames[j]
      BY <1>0, <1>1, Pop DEF FramesOK
    <2>2. \A j \in 1 .. Len(frames) - 1 : frames[j].obj \in Made
      BY <1>0, <2>1 DEF FramesOK
    <2> QED BY <1>1, <2>1, <2>2 DEF FramesOK, Made
  <1>4. Bindings'
    BY <1>0, <1>1 DEF Bindings, Made
  <1>5. freed' \in [Objects -> Nat]
    <2> HIDE DEF o
    <2> QED BY <1>0, <1>1, <1>2 DEF Counters
  <1>6. TableTypes' /\ Table' /\ invalid' \in BOOLEAN
    <2>1. CASE Slot(id) /\ slots[id.index].destroying
      <3> DEFINE x == slots[id.index]
                 r == [x EXCEPT !.destroying = FALSE, !.generation = NextGeneration(x.generation)]
      <3>1. /\ free' = Append(free, id.index)
            /\ UNCHANGED invalid
            /\ slots' = [slots EXCEPT ![id.index] = r]
        BY <2>1 DEF finish_destroy
      <3>2. /\ x \in SlotRec /\ x.address = o /\ x.strong = 0
            /\ NextGeneration(x.generation) \in Generations
        BY <1>0, <1>2, <2>1, LiveIdNamesItsObject, SlotTypes, NextRank
           DEF TableInv, Table, SlotsKnown
      <3>3. /\ r \in SlotRec /\ r.generation = NextGeneration(x.generation) /\ r.strong = 0
            /\ ~r.destroying /\ r.address = o
        BY <3>2, SlotFreed
      <3> HIDE DEF r
      <3>4. TableTypes' /\ Table'
        BY <1>1, <1>2, <2>1, <3>1, <3>3, FinishKeepsTable
      <3> QED BY <1>0, <3>1, <3>4 DEF Counters
    <2>2. CASE ~(Slot(id) /\ slots[id.index].destroying)
      <3>1. invalid' = TRUE /\ UNCHANGED <<slots, free>>
        BY <2>2 DEF finish_destroy
      <3>2. Table'
        BY <1>1, <3>1, SameShape, ReshapedKeepsTable
      <3> QED BY <1>0, <1>1, <3>1, <3>2 DEF TableTypes
    <2> QED BY <2>1, <2>2
  <1>7. Counters'
    BY <1>0, <1>1, <1>5, <1>6 DEF Counters
  <1>8. TableInv' <=> TableTypes' /\ Table' /\ FramesOK' /\ Bindings' /\ Counters'
    BY Parts, PTL
  <1> QED BY <1>3, <1>4, <1>6, <1>7, <1>8

-----------------------------------------------------------------------------
(* Init, and a step of any kind.                                           *)
LEMMA InitTable ==
    ASSUME Init
    PROVE  TableInv
  <1>1. TypeOK
    <2>1. slots = <<>> /\ free = <<>> /\ made = <<>> /\ frames = <<>> /\ 0 <= MaxObjects
      BY ArcConstants DEF Init
    <2>2. /\ held \in [Objects -> Nat] /\ field \in [Objects -> Objects \cup {0}]
          /\ ran \in [Objects -> Nat] /\ freed \in [Objects -> Nat]
      BY DEF Init
    <2>3. escaped \in BOOLEAN /\ invalid \in BOOLEAN /\ ended \in BOOLEAN
      BY DEF Init
    <2> QED BY <2>1, <2>2, <2>3 DEF TypeOK
  <1>2. Len(slots) = 0 /\ Len(free) = 0 /\ Len(made) = 0 /\ Len(frames) = 0
    BY DEF Init
  <1>3. Table
    BY <1>2 DEF Table, FreeIsDead, SlotsKnown, IdsInOrder, Made
  <1>4. ReferencesMade
    BY <1>2 DEF ReferencesMade, Init
  <1> QED BY <1>1, <1>3, <1>4 DEF TableInv

LEMMA TableStep ==
    ASSUME EnoughGenerations, TableInv, [Next]_vars
    PROVE  TableInv'
  <1>1. CASE New
    BY <1>1, NewKeeps
  <1>2. ASSUME NEW o \in Objects, Copy(o) \/ Drop(o)
        PROVE  TableInv'
    BY <1>2, CopyKeeps, DropKeeps
  <1>3. ASSUME NEW p \in Objects, NEW o \in Objects \cup {0}, assign_place(p, o)
        PROVE  TableInv'
    BY <1>3, AssignKeeps
  <1>4. CASE EndDestructor
    BY <1>4, EndDestructorKeeps
  <1>5. CASE ReleaseFields
    BY <1>5, ReleaseFieldsKeeps
  <1>6. CASE finish_destroy
    BY <1>6, FinishKeeps
  <1>7. CASE run_in_fresh_core
    BY <1>7, EndKeeps
  <1>8. CASE UNCHANGED vars
    BY <1>8 DEF vars, TableInv, TypeOK, Table, FreeIsDead, SlotsKnown, IdsInOrder,
                ReferencesMade, Made, Rank, Dead
  <1> QED BY <1>1, <1>2, <1>3, <1>4, <1>5, <1>6, <1>7, <1>8 DEF Next

(* The inductive invariant holds throughout.                               *)
THEOREM TableHolds ==
    ASSUME EnoughGenerations
    PROVE  Spec => []TableInv
  <1>1. Init => TableInv
    BY InitTable
  <1>2. TableInv /\ [Next]_vars => TableInv'
    BY TableStep
  <1> QED BY <1>1, <1>2, PTL DEF Spec

(* The table's own properties.                                             *)

(* Every field of the core keeps its type, whatever the program does.      *)
THEOREM TypesHold ==
    ASSUME EnoughGenerations
    PROVE  Spec => []TypeOK
  <1>1. TableInv => TypeOK
    BY DEF TableInv
  <1> QED BY <1>1, TableHolds, PTL

(* The free stack never names a slot in use (register).                    *)
THEOREM FreeSlotsAreDead ==
    ASSUME EnoughGenerations
    PROVE  Spec => []FreeIsDead
  <1>1. TableInv => FreeIsDead
    BY DEF TableInv, Table
  <1> QED BY <1>1, TableHolds, PTL

(* An id read through alive names its own object, never a later one.       *)
THEOREM OldIdsNeverRevive ==
    ASSUME EnoughGenerations
    PROVE  Spec => []OldIdsStayDead
  <1>1. TableInv => OldIdsStayDead
    <2> SUFFICES ASSUME TableInv, NEW o \in Made, Alive(made[o])
                 PROVE  slots[made[o].index].address = o
      BY DEF OldIdsStayDead
    <2>1. Slot(made[o])
      BY DEF Alive, Slot
    <2> QED BY <2>1, LiveIdNamesItsObject
  <1> QED BY <1>1, TableHolds, PTL

-----------------------------------------------------------------------------
(* The second layer: how often an object is destroyed and freed.           *)

SlotOf(o) == slots[made[o].index]

BeingDestroyed(o) == \E k \in 1 .. Len(frames) : frames[k].obj = o

(* An object is destroyed once it is no longer the one its slot holds.     *)
RanOnce ==
    /\ \A o \in Objects \ Made : ran[o] = 0 /\ freed[o] = 0
    /\ \A o \in Made :
          /\ ran[o] \in {0, 1}
          /\ ran[o] = 0 <=> (SlotOf(o).address = o /\ SlotOf(o).strong > 0)

(* A destruction under way is the only one of its object, whose slot waits *)
(* for finish_destroy.                                                     *)
FramesOwnSlots ==
    /\ \A j, k \in 1 .. Len(frames) : frames[j].obj = frames[k].obj => j = k
    /\ \A o \in Made : BeingDestroyed(o) => SlotOf(o).address = o /\ SlotOf(o).destroying

(* Memory is released by the end of a destruction, or of the program.      *)
FreedWhenDone ==
    /\ ~ended => \A o \in Made :
                    freed[o] = IF ran[o] = 1 /\ ~BeingDestroyed(o) THEN 1 ELSE 0
    /\ ended => frames = <<>> /\ \A o \in Made : freed[o] = 1

Lifetimes == RanOnce /\ FramesOwnSlots /\ FreedWhenDone

LifeInv == TableInv /\ Lifetimes

(* Slots that hold, and destroy, the same objects as before.               *)
StillHeld(t) ==
    \A i \in 1 .. Len(slots) :
        /\ t[i].address = slots[i].address
        /\ t[i].strong > 0 <=> slots[i].strong > 0
        /\ t[i].destroying <=> slots[i].destroying

(* A stack of the same destructions, each in any phase.                    *)
SameFrames(fs) ==
    fs \in Seq(FrameRec) /\ Len(fs) = Len(frames) /\ \A k \in 1 .. Len(frames) : fs[k].obj = frames[k].obj

LEMMA QuietStep ==
    ASSUME LifeInv, StillHeld(slots'), SameFrames(frames'), UNCHANGED <<made, ran, freed, ended>>
    PROVE  Lifetimes'
  <1>0. TypeOK /\ RanOnce /\ FramesOwnSlots /\ FreedWhenDone /\ FramesOK
    BY Parts DEF LifeInv, TableInv, Lifetimes
  <1>1. \A o : BeingDestroyed(o)' <=> BeingDestroyed(o)
    BY DEF BeingDestroyed, SameFrames
  <1>2. ASSUME NEW o \in Made
        PROVE  /\ SlotOf(o)'.address = SlotOf(o).address
               /\ SlotOf(o)'.strong > 0 <=> SlotOf(o).strong > 0
               /\ SlotOf(o)'.destroying <=> SlotOf(o).destroying
    BY <1>0, IdTypes DEF StillHeld, SlotOf
  <1>3. RanOnce'
    BY <1>0, <1>2 DEF RanOnce, Made
  <1>4. FramesOwnSlots'
    <2>1. \A j, k \in 1 .. Len(frames') : frames'[j].obj = frames'[k].obj => j = k
      BY <1>0 DEF FramesOwnSlots, SameFrames
    <2> QED BY <1>0, <1>1, <1>2, <2>1 DEF FramesOwnSlots, Made
  <1>5. FreedWhenDone'
    <2>1. frames = <<>> => frames' = <<>>
      BY <1>0 DEF FramesOK, SameFrames
    <2> QED BY <1>0, <1>1, <2>1 DEF FreedWhenDone, Made
  <1> QED BY <1>3, <1>4, <1>5 DEF Lifetimes

(* retain, and a release that is not the last, keep what is held.          *)
LEMMA RetainHolds ==
    ASSUME LifeInv, NEW o \in Made, Slot(made[o])
    PROVE  StillHeld(retain(slots, made[o]))
  <1> DEFINE i == made[o].index
             t == [slots EXCEPT ![i].strong = @ + 1]
  <1>1. /\ TypeOK /\ i \in 1 .. Len(slots) /\ slots \in Seq(SlotRec)
        /\ slots[i] \in SlotRec /\ slots[i].strong \in Nat /\ ~Dead(slots[i])
    BY LiveIdNamesItsObject, SlotTypes DEF LifeInv, TableInv, TypeOK, SlotRec
  <1>2. CASE slots[i].destroying
    BY <1>2 DEF retain, StillHeld
  <1>3. CASE ~slots[i].destroying
    <2>1. retain(slots, made[o]) = t
      BY <1>3 DEF retain
    <2>2. \A j \in 1 .. Len(slots) : j # i => t[j] = slots[j]
      BY <1>1
    <2>3. /\ t[i].address = slots[i].address /\ t[i].strong = slots[i].strong + 1
          /\ t[i].destroying = slots[i].destroying
      BY <1>1 DEF SlotRec
    <2>4. slots[i].strong > 0
      BY <1>1, <1>3 DEF Dead
    <2> HIDE DEF t
    <2>5. StillHeld(t)
      BY <1>1, <2>2, <2>3, <2>4 DEF StillHeld
    <2> QED BY <2>1, <2>5
  <1> QED BY <1>2, <1>3

(* The effects of a release, by whether it is the last one.                *)
LEMMA ReleaseEffect ==
    ASSUME LifeInv, NEW o \in Made, Slot(made[o])
    PROVE  LET i == made[o].index
               t == release(slots, made[o])
           IN  /\ i \in 1 .. Len(slots) /\ slots[i].address = o
               /\ ~last(slots, made[o]) => StillHeld(t)
               /\ last(slots, made[o]) =>
                     /\ slots[i].strong > 0 /\ ~slots[i].destroying
                     /\ t[i].address = o /\ t[i].strong = 0 /\ t[i].destroying
                     /\ \A j \in 1 .. Len(slots) : j # i => t[j] = slots[j]
  <1> DEFINE i == made[o].index
             t == release(slots, made[o])
             l == last(slots, made[o])
             r == [slots[i] EXCEPT !.strong = @ - 1, !.destroying = l]
  <1>1. /\ TypeOK /\ i \in 1 .. Len(slots) /\ slots \in Seq(SlotRec) /\ slots[i].address = o
        /\ slots[i] \in SlotRec /\ slots[i].strong \in Nat /\ ~Dead(slots[i])
    BY LiveIdNamesItsObject, SlotTypes DEF LifeInv, TableInv, TypeOK, SlotRec
  <1>2. CASE slots[i].destroying
    <2>1. t = slots /\ ~l
      BY <1>2 DEF release, last
    <2> QED BY <1>1, <2>1 DEF StillHeld
  <1>3. CASE ~slots[i].destroying
    <2>1. t = [slots EXCEPT ![i] = r]
      BY <1>1, <1>3 DEF release
    <2>2. slots[i].strong > 0 /\ (l <=> slots[i].strong = 1) /\ l \in BOOLEAN
      BY <1>1, <1>3 DEF Dead, last
    <2> HIDE DEF l
    <2>3. r.address = o /\ r.strong = slots[i].strong - 1 /\ (r.destroying <=> l)
      BY <1>1, <2>2 DEF SlotRec
    <2> HIDE DEF r, t
    <2>4. t[i] = r /\ \A j \in 1 .. Len(slots) : j # i => t[j] = slots[j]
      BY <1>1, <2>1
    <2>5. CASE l
      <3>1. t[i].address = o /\ t[i].strong = 0 /\ t[i].destroying
        BY <1>1, <2>2, <2>3, <2>4, <2>5
      <3> QED BY <1>1, <1>3, <2>2, <2>4, <2>5, <3>1 DEF l, t
    <2>6. CASE ~l
      <3>1. slots[i].strong - 1 > 0
        BY <1>1, <2>2, <2>6
      <3>2. StillHeld(t)
        BY <1>1, <1>3, <2>2, <2>3, <2>4, <2>6, <3>1 DEF StillHeld
      <3> QED BY <1>1, <2>6, <3>2 DEF l, t
    <2> QED BY <2>5, <2>6
  <1> QED BY <1>2, <1>3

(* The release of one reference, with the destruction it may start.        *)
LEMMA ReleaseLife ==
    ASSUME LifeInv, ~ended, NEW o \in Made, Slot(made[o]),
           slots' = release(slots, made[o]),
           NEW fs, SameFrames(fs),
           frames' = IF last(slots, made[o]) THEN Append(fs, Frame(o)) ELSE fs,
           ran' = IF last(slots, made[o]) THEN [ran EXCEPT ![o] = @ + 1] ELSE ran,
           UNCHANGED <<made, freed, ended>>
    PROVE  Lifetimes'
  <1> DEFINE i == made[o].index
             n == Len(frames)
  <1>0. TypeOK /\ RanOnce /\ FramesOwnSlots /\ FreedWhenDone /\ FramesOK /\ o \in Objects
    BY Parts, IdTypes DEF LifeInv, TableInv, Lifetimes
  <1>1. CASE ~last(slots, made[o])
    BY <1>1, ReleaseEffect, QuietStep
  <1>2. CASE last(slots, made[o])
    <2>1. /\ i \in 1 .. Len(slots) /\ slots[i].address = o
          /\ slots[i].strong > 0 /\ ~slots[i].destroying
          /\ slots'[i].address = o /\ slots'[i].strong = 0 /\ slots'[i].destroying
          /\ \A j \in 1 .. Len(slots) : j # i => slots'[j] = slots[j]
      BY <1>2, ReleaseEffect
    <2>2. ran[o] = 0 /\ ~BeingDestroyed(o)
      BY <1>0, <2>1 DEF RanOnce, FramesOwnSlots, SlotOf
    <2>3. ran' = [ran EXCEPT ![o] = 1]
      BY <1>2, <2>2, <1>0 DEF TypeOK
    <2>4. ran'[o] = 1 /\ \A q \in Objects : q # o => ran'[q] = ran[q]
      BY <1>0, <2>3 DEF TypeOK
    <2>5. /\ Len(frames') = n + 1 /\ n \in Nat /\ frames'[n + 1].obj = o
          /\ \A k \in 1 .. n : frames'[k].obj = frames[k].obj
          /\ \A k \in 1 .. n + 1 : k \in 1 .. n \/ k = n + 1
      <3>1. Frame(o) \in FrameRec /\ Frame(o).obj = o
        BY <1>0, FrameIsFrame
      <3>2. fs \in Seq(FrameRec) /\ Len(fs) = n /\ frames' = Append(fs, Frame(o)) /\ n \in Nat
        BY <1>0, <1>2 DEF SameFrames, FramesOK
      <3>3. /\ Len(frames') = n + 1 /\ frames'[n + 1] = Frame(o)
            /\ \A k \in 1 .. n : frames'[k] = fs[k]
        BY <3>1, <3>2
      <3> QED BY <3>1, <3>2, <3>3 DEF SameFrames
    <2>6. \A q : BeingDestroyed(q)' <=> BeingDestroyed(q) \/ q = o
      <3> HIDE DEF n
      <3>1. \A q : BeingDestroyed(q) <=> \E k \in 1 .. n : frames[k].obj = q
        BY DEF BeingDestroyed, n
      <3>2. \A q : BeingDestroyed(q)' <=> \E k \in 1 .. n + 1 : frames'[k].obj = q
        BY <2>5 DEF BeingDestroyed
      <3>3. \A k \in 1 .. n : k \in 1 .. n + 1
        BY <2>5
      <3>4. n + 1 \in 1 .. n + 1
        BY <2>5
      <3> QED BY <2>5, <3>1, <3>2, <3>3, <3>4
    <2>7. ASSUME NEW q \in Made, q # o
          PROVE  SlotOf(q)' = SlotOf(q) \/ (SlotOf(q).address # q /\ SlotOf(q)'.address # q)
      <3>1. made[q].index \in 1 .. Len(slots) /\ made'[q] = made[q]
        BY <1>0, IdTypes
      <3>2. CASE made[q].index = i
        <4>1. SlotOf(q) = slots[i] /\ SlotOf(q)' = slots'[i]
          BY <3>1, <3>2 DEF SlotOf
        <4>2. slots[i].address # q /\ slots'[i].address # q
          BY <2>1, <2>7
        <4> QED BY <4>1, <4>2
      <3>3. CASE made[q].index # i
        <4>1. SlotOf(q)' = slots'[made[q].index] /\ slots'[made[q].index] = slots[made[q].index]
          BY <2>1, <3>1, <3>3 DEF SlotOf
        <4>2. SlotOf(q) = slots[made[q].index]
          BY DEF SlotOf
        <4> QED BY <4>1, <4>2
      <3> QED BY <3>2, <3>3
    <2>8. RanOnce'
      <3>1. \A q \in Objects \ Made : ran'[q] = 0 /\ freed'[q] = 0
        BY <1>0, <2>4 DEF RanOnce
      <3>2. ASSUME NEW q \in Made
            PROVE  /\ ran'[q] \in {0, 1}
                   /\ ran'[q] = 0 <=> (SlotOf(q)'.address = q /\ SlotOf(q)'.strong > 0)
        <4>1. CASE q = o
          <5>1. SlotOf(o)' = slots'[i]
            BY DEF SlotOf
          <5> QED BY <2>1, <2>4, <4>1, <5>1
        <4>2. CASE q # o
          <5>1. q \in Objects /\ ran'[q] = ran[q]
            BY <1>0, <2>4, <4>2, IdTypes
          <5> QED BY <1>0, <2>7, <4>2, <5>1 DEF RanOnce
        <4> QED BY <4>1, <4>2
      <3> QED BY <3>1, <3>2 DEF RanOnce, Made
    <2>9. FramesOwnSlots'
      <3>1. \A j, k \in 1 .. n + 1 : frames'[j].obj = frames'[k].obj => j = k
        <4>1. \A k \in 1 .. n : frames[k].obj # o
          BY <2>2 DEF BeingDestroyed
        <4>2. \A j, k \in 1 .. n : frames[j].obj = frames[k].obj => j = k
          BY <1>0 DEF FramesOwnSlots
        <4> HIDE DEF n
        <4> QED BY <2>5, <4>1, <4>2
      <3>2. ASSUME NEW q \in Made, BeingDestroyed(q)'
            PROVE  SlotOf(q)'.address = q /\ SlotOf(q)'.destroying
        <4>1. CASE q = o
          BY <2>1, <4>1 DEF SlotOf
        <4>2. CASE q # o
          BY <1>0, <2>6, <2>7, <3>2, <4>2 DEF FramesOwnSlots
        <4> QED BY <4>1, <4>2
      <3> QED BY <2>5, <3>1, <3>2 DEF FramesOwnSlots, Made
    <2>10. FreedWhenDone'
      <3>1. ASSUME NEW q \in Made
            PROVE  freed'[q] = IF ran'[q] = 1 /\ ~BeingDestroyed(q)' THEN 1 ELSE 0
        <4>1. CASE q = o
          BY <1>0, <2>2, <2>6, <4>1 DEF FreedWhenDone
        <4>2. CASE q # o
          BY <1>0, <2>4, <2>6, <4>2, IdTypes DEF FreedWhenDone
        <4> QED BY <4>1, <4>2
      <3> QED BY <3>1 DEF FreedWhenDone, Made
    <2> QED BY <2>8, <2>9, <2>10 DEF Lifetimes
  <1> QED BY <1>1, <1>2

-----------------------------------------------------------------------------
(* Every step keeps Lifetimes, action by action.                           *)

LEMMA SameFramesNow ==
    ASSUME FramesOK
    PROVE  SameFrames(frames)
  BY DEF FramesOK, SameFrames

LEMMA StillHeldNow == StillHeld(slots)
  BY DEF StillHeld

(* Replacing the innermost frame by another state of the same destruction. *)
LEMMA TopSameFrames ==
    ASSUME FramesOK, frames # <<>>, NEW f \in FrameRec, f.obj = Top.obj
    PROVE  SameFrames([frames EXCEPT ![Len(frames)] = f])
  BY TopFrame DEF FramesOK, SameFrames, Top

LEMMA ReleaseRefLife ==
    ASSUME LifeInv, ~ended, NEW o \in Made, ReleaseRef(o), UNCHANGED <<made, freed, ended>>
    PROVE  Lifetimes'
  <1>0. FramesOK
    BY Parts DEF LifeInv
  <1>1. CASE ~Slot(made[o])
    <2>1. UNCHANGED <<slots, frames, ran>>
      BY <1>1 DEF ReleaseRef
    <2> QED BY <1>0, <2>1, SameFramesNow, StillHeldNow, QuietStep
  <1>2. CASE Slot(made[o])
    <2>1. /\ slots' = release(slots, made[o])
          /\ frames' = IF last(slots, made[o]) THEN Append(frames, Frame(o)) ELSE frames
          /\ ran' = IF last(slots, made[o]) THEN [ran EXCEPT ![o] = @ + 1] ELSE ran
      BY <1>2 DEF ReleaseRef, Destroy
    <2> QED BY <1>0, <1>2, <2>1, SameFramesNow, ReleaseLife
  <1> QED BY <1>1, <1>2

LEMMA CopyLife ==
    ASSUME LifeInv, NEW o \in Objects, Copy(o)
    PROVE  Lifetimes'
  <1>0. FramesOK
    BY Parts DEF LifeInv
  <1>1. o \in Made /\ UNCHANGED <<made, ran, freed, ended>>
    BY DEF Copy, Reach
  <1>2. StillHeld(slots')
    <2>1. CASE Slot(made[o])
      <3>1. slots' = retain(slots, made[o])
        BY <2>1 DEF Copy
      <3> QED BY <1>1, <2>1, <3>1, RetainHolds
    <2>2. CASE ~Slot(made[o])
      BY <2>2, StillHeldNow DEF Copy
    <2> QED BY <2>1, <2>2
  <1>3. SameFrames(frames')
    <2>1. CASE Self(o)
      <3>1. frames # <<>> /\ frames' = [frames EXCEPT ![Len(frames)] = [Top EXCEPT !.copied = TRUE]]
        BY <2>1 DEF Copy, Self, Top
      <3>2. [Top EXCEPT !.copied = TRUE] \in FrameRec /\ [Top EXCEPT !.copied = TRUE].obj = Top.obj
        BY <1>0, <3>1, TopFrame, FrameParts DEF Phases
      <3> QED BY <1>0, <3>1, <3>2, TopSameFrames
    <2>2. CASE ~Self(o)
      BY <1>0, <2>2, SameFramesNow DEF Copy
    <2> QED BY <2>1, <2>2
  <1> QED BY <1>1, <1>2, <1>3, QuietStep

LEMMA DropLife ==
    ASSUME LifeInv, NEW o \in Objects, Drop(o)
    PROVE  Lifetimes'
  <1>1. o \in Made /\ ~ended /\ ReleaseRef(o) /\ UNCHANGED <<made, freed, ended>>
    BY DEF Drop, InUserCode
  <1> QED BY <1>1, ReleaseRefLife

LEMMA AssignLife ==
    ASSUME LifeInv, NEW p \in Objects, NEW o \in Objects \cup {0}, assign_place(p, o)
    PROVE  Lifetimes'
  <1>0. FramesOK /\ Bindings
    BY Parts DEF LifeInv
  <1>1. ~ended /\ UNCHANGED <<made, freed, ended>>
    BY DEF assign_place, InUserCode
  <1>2. CASE field[p] = 0
    <2>1. UNCHANGED <<slots, frames, ran>>
      BY <1>2 DEF assign_place
    <2> QED BY <1>0, <1>1, <2>1, SameFramesNow, StillHeldNow, QuietStep
  <1>3. CASE field[p] # 0
    <2>1. ReleaseRef(field[p]) /\ field[p] \in Made
      BY <1>0, <1>3 DEF assign_place, Bindings
    <2> QED BY <1>1, <2>1, ReleaseRefLife
  <1> QED BY <1>2, <1>3

LEMMA EndDestructorLife ==
    ASSUME LifeInv, EndDestructor
    PROVE  Lifetimes'
  <1>0. FramesOK
    BY Parts DEF LifeInv
  <1>1. /\ frames # <<>> /\ UNCHANGED <<slots, made, ran, freed, ended>>
        /\ frames' = [frames EXCEPT ![Len(frames)] = [Top EXCEPT !.phase = "fields"]]
    BY DEF EndDestructor, SetPhase, Top
  <1>2. /\ [Top EXCEPT !.phase = "fields"] \in FrameRec
        /\ [Top EXCEPT !.phase = "fields"].obj = Top.obj
    BY <1>0, <1>1, TopFrame, FrameParts DEF Phases
  <1>3. SameFrames(frames')
    BY <1>0, <1>1, <1>2, TopSameFrames
  <1> QED BY <1>1, <1>3, StillHeldNow, QuietStep

LEMMA ReleaseFieldsLife ==
    ASSUME LifeInv, ReleaseFields
    PROVE  Lifetimes'
  <1> DEFINE o == Top.obj
             f == [Top EXCEPT !.phase = "free"]
             below == [frames EXCEPT ![Len(frames)] = f]
             c == field[o]
  <1>0. FramesOK /\ Bindings /\ TypeOK /\ FreedWhenDone
    BY Parts DEF LifeInv, TableInv, Lifetimes
  <1>1. /\ frames # <<>> /\ UNCHANGED <<made, freed, ended>>
        /\ below = [frames EXCEPT ![Len(frames)].phase = "free"]
    BY DEF ReleaseFields, Top
  <1>2. ~ended
    BY <1>0, <1>1 DEF FreedWhenDone
  <1>3. f \in FrameRec /\ f.obj = o /\ o \in Made /\ o \in Objects
    BY <1>0, <1>1, TopFrame, FrameParts, IdTypes DEF Phases
  <1>4. SameFrames(below)
    <2> HIDE DEF f
    <2> QED BY <1>0, <1>1, <1>3, TopSameFrames
  <1>5. c \in Made \cup {0}
    BY <1>0, <1>3 DEF Bindings
  <1>6. CASE c = 0
    <2>1. frames' = below /\ UNCHANGED <<slots, ran>>
      BY <1>1, <1>6 DEF ReleaseFields
    <2> QED BY <1>1, <1>4, <2>1, StillHeldNow, QuietStep
  <1>7. CASE c # 0 /\ ~Slot(made[c])
    <2>1. UNCHANGED <<slots, frames, ran>>
      BY <1>7 DEF ReleaseFields
    <2> QED BY <1>0, <1>1, <2>1, SameFramesNow, StillHeldNow, QuietStep
  <1>8. CASE c # 0 /\ Slot(made[c])
    <2>1. /\ slots' = release(slots, made[c])
          /\ frames' = IF last(slots, made[c]) THEN Append(below, Frame(c)) ELSE below
          /\ ran' = IF last(slots, made[c]) THEN [ran EXCEPT ![c] = @ + 1] ELSE ran
      BY <1>1, <1>8 DEF ReleaseFields
    <2> HIDE DEF below, c
    <2> QED BY <1>1, <1>2, <1>4, <1>5, <1>8, <2>1, ReleaseLife
  <1> QED BY <1>6, <1>7, <1>8

(* run_in_fresh_core: what is alive was never destroyed, the rest is freed.*)
LEMMA EndLife ==
    ASSUME LifeInv, run_in_fresh_core
    PROVE  Lifetimes'
  <1>0. TypeOK /\ RanOnce /\ FramesOwnSlots /\ FreedWhenDone /\ SlotsKnown
    BY DEF LifeInv, TableInv, Lifetimes, Table
  <1>1. /\ ~ended /\ frames = <<>> /\ ended' = TRUE
        /\ UNCHANGED <<slots, made, frames, ran>>
        /\ \A o \in Objects :
              freed'[o] = IF o \in live_addresses THEN freed[o] + 1 ELSE freed[o]
    BY DEF run_in_fresh_core
  <1>2. \A o : o \in live_addresses =>
                  \E i \in 1 .. Len(slots) : slots[i].strong > 0 /\ slots[i].address = o
    BY DEF live_addresses
  <1>3. \A o \in Made : ran[o] = 0 => o \in live_addresses
    BY <1>0, IdTypes DEF RanOnce, SlotOf, live_addresses
  <1>4. \A o \in live_addresses : o \in Made /\ ran[o] = 0
    <2> SUFFICES ASSUME NEW o \in live_addresses
                 PROVE  o \in Made /\ ran[o] = 0
      OBVIOUS
    <2>1. PICK i \in 1 .. Len(slots) : slots[i].strong > 0 /\ slots[i].address = o
      BY <1>2
    <2>2. o \in Made /\ made[o].index = i
      BY <1>0, <2>1 DEF SlotsKnown
    <2> QED BY <1>0, <2>1, <2>2 DEF RanOnce, SlotOf
  <1>5. \A o : ~BeingDestroyed(o)
    BY <1>1 DEF BeingDestroyed
  <1>6. ASSUME NEW o \in Made
        PROVE  freed'[o] = 1
    <2>1. /\ o \in Objects /\ ran[o] \in {0, 1}
          /\ freed[o] = IF ran[o] = 1 THEN 1 ELSE 0
      BY <1>0, <1>1, <1>5, IdTypes DEF RanOnce, FreedWhenDone
    <2> QED BY <1>1, <1>3, <1>4, <2>1
  <1>7. \A o \in Objects \ Made : freed'[o] = 0
    BY <1>0, <1>1, <1>4 DEF RanOnce
  <1>8. RanOnce'
    BY <1>0, <1>1, <1>7 DEF RanOnce, SlotOf, Made
  <1>9. FramesOwnSlots'
    BY <1>0, <1>1 DEF FramesOwnSlots, SlotOf, Made, BeingDestroyed
  <1>10. FreedWhenDone'
    BY <1>1, <1>6 DEF FreedWhenDone, Made
  <1> QED BY <1>8, <1>9, <1>10 DEF Lifetimes

(* The slot NEW fills was dead, and the other slots stay.                  *)
LEMMA NewFills ==
    ASSUME LifeInv, New, NEW o, o = Len(made) + 1
    PROVE  /\ o \in Objects /\ o \notin Made /\ Made' = Made \cup {o}
           /\ SlotOf(o)'.address = o /\ SlotOf(o)'.strong = 1
           /\ \A q \in Made : \/ SlotOf(q)' = SlotOf(q)
                              \/ Dead(SlotOf(q)) /\ SlotOf(q)'.address # q
  <1>0. TypeOK /\ FreeIsDead /\ TableTypes
    BY Parts DEF LifeInv, TableInv, Table
  <1>1. Len(made) < MaxObjects
    BY DEF New
  <1>2. /\ Len(made) \in Nat /\ o \in Objects /\ o \notin Made
    BY <1>0, <1>1, ArcConstants DEF TableTypes, Made, Objects
  <1>3. PICK i, g : /\ made' = Append(made, Id(i, g))
                    /\ slots'[i].address = o /\ slots'[i].strong = 1
                    /\ \A j \in 1 .. Len(slots) :
                          \/ slots'[j] = slots[j] /\ j # i
                          \/ j = i /\ Dead(slots[i])
    <2> DEFINE fresh(g) == [generation |-> g, strong |-> 1, destroying |-> FALSE, address |-> o]
    <2>1. CASE free # <<>>
      <3> DEFINE i == free[Len(free)]
                 g == slots[i].generation
      <3>1. made' = Append(made, Id(i, g)) /\ slots' = [slots EXCEPT ![i] = fresh(g)]
        BY <2>1 DEF New
      <3>2. i \in 1 .. Len(slots) /\ Dead(slots[i])
        <4>1. Len(free) \in 1 .. Len(free) /\ i \in 1 .. Len(slots)
          BY <1>0, <2>1 DEF TableTypes
        <4> QED BY <1>0, <4>1 DEF FreeIsDead, Dead
      <3>3. fresh(g).address = o /\ fresh(g).strong = 1
        OBVIOUS
      <3> HIDE DEF fresh
      <3>4. slots'[i] = fresh(g) /\ \A j \in 1 .. Len(slots) : j # i => slots'[j] = slots[j]
        BY <1>0, <3>1, <3>2 DEF TableTypes
      <3> HIDE DEF i, g
      <3> QED BY <3>1, <3>2, <3>3, <3>4
    <2>2. CASE free = <<>>
      <3> DEFINE i == Len(slots) + 1
                 g == first_generation
      <3>1. made' = Append(made, Id(i, g)) /\ slots' = Append(slots, fresh(g))
        BY <2>2 DEF New
      <3>2. Len(slots) \in Nat /\ slots \in Seq(SlotRec)
        BY <1>0 DEF TableTypes
      <3>3. fresh(g).address = o /\ fresh(g).strong = 1 /\ fresh(g) \in SlotRec
        BY <1>2, FirstGeneration, ArcConstants DEF SlotRec, Generations
      <3> HIDE DEF fresh
      <3>4. slots'[i] = fresh(g) /\ \A j \in 1 .. Len(slots) : j # i /\ slots'[j] = slots[j]
        BY <3>1, <3>2, <3>3
      <3> HIDE DEF i, g
      <3> QED BY <3>1, <3>3, <3>4
    <2> QED BY <2>1, <2>2
  <1>4. /\ Made' = Made \cup {o} /\ \A q \in Made : made'[q] = made[q]
        /\ made'[o] = Id(i, g)
    <2>1. made \in Seq([index : 1 .. Len(slots), generation : Generations])
      BY <1>0 DEF TableTypes
    <2>2. Len(made') = o /\ made'[o] = Id(i, g) /\ \A q \in 1 .. Len(made) : made'[q] = made[q]
      BY <1>3, <2>1
    <2> QED BY <1>2, <2>2 DEF Made
  <1>5. SlotOf(o)'.address = o /\ SlotOf(o)'.strong = 1
    <2>1. SlotOf(o)' = slots'[i]
      BY <1>4 DEF SlotOf, Id
    <2> QED BY <1>3, <2>1
  <1>6. ASSUME NEW q \in Made
        PROVE  \/ SlotOf(q)' = SlotOf(q)
               \/ Dead(SlotOf(q)) /\ SlotOf(q)'.address # q
    <2>1. made[q].index \in 1 .. Len(slots) /\ SlotOf(q)' = slots'[made[q].index]
      BY <1>0, <1>4, IdTypes DEF SlotOf
    <2>a. SlotOf(q) = slots[made[q].index]
      BY DEF SlotOf
    <2>2. CASE made[q].index = i
      <3>1. Dead(slots[i]) /\ slots'[i].address # q
        BY <1>2, <1>3, <2>1, <2>2
      <3> QED BY <2>1, <2>2, <2>a, <3>1
    <2>3. CASE made[q].index # i
      BY <1>3, <2>1, <2>3, <2>a
    <2> QED BY <2>2, <2>3
  <1> QED BY <1>2, <1>4, <1>5, <1>6

(* NEW: what the slot held was destroyed before, and is on no stack.       *)
LEMMA NewLife ==
    ASSUME LifeInv, New
    PROVE  Lifetimes'
  <1>o. PICK o : o = Len(made) + 1
    OBVIOUS
  <1>0. TypeOK /\ RanOnce /\ FramesOwnSlots /\ FreedWhenDone /\ FramesOK
    BY Parts DEF LifeInv, TableInv, Lifetimes
  <1>1. ~ended /\ UNCHANGED <<frames, ran, freed, ended>>
    BY DEF New, InUserCode
  <1>2. o \in Objects /\ o \notin Made
    BY <1>o, NewFills
  <1>4. Made' = Made \cup {o}
    BY <1>o, NewFills
  <1>5. SlotOf(o)'.address = o /\ SlotOf(o)'.strong = 1
    BY <1>o, NewFills
  <1>6. ASSUME NEW q \in Made
        PROVE  \/ SlotOf(q)' = SlotOf(q)
               \/ Dead(SlotOf(q)) /\ SlotOf(q)'.address # q
    BY <1>o, NewFills
  <1>7. ran[o] = 0 /\ freed[o] = 0
    BY <1>0, <1>2 DEF RanOnce
  <1>8. RanOnce'
    <2>1. \A q \in Objects \ Made' : ran'[q] = 0 /\ freed'[q] = 0
      BY <1>0, <1>1, <1>4 DEF RanOnce
    <2>2. ASSUME NEW q \in Made
          PROVE  /\ ran[q] \in {0, 1}
                 /\ ran[q] = 0 <=> (SlotOf(q)'.address = q /\ SlotOf(q)'.strong > 0)
      <3>1. CASE SlotOf(q)' = SlotOf(q)
        BY <1>0, <3>1 DEF RanOnce
      <3>2. CASE Dead(SlotOf(q)) /\ SlotOf(q)'.address # q
        BY <1>0, <3>2 DEF RanOnce, Dead
      <3> QED BY <1>6, <3>1, <3>2
    <2>3. ran[o] = 0 <=> (SlotOf(o)'.address = o /\ SlotOf(o)'.strong > 0)
      BY <1>5, <1>7
    <2> QED BY <1>1, <1>4, <1>7, <2>1, <2>2, <2>3 DEF RanOnce
  <1>9. \A q : BeingDestroyed(q)' <=> BeingDestroyed(q)
    BY <1>1 DEF BeingDestroyed
  <1>10. ~BeingDestroyed(o)
    BY <1>0, <1>2 DEF BeingDestroyed, FramesOK
  <1>11. FramesOwnSlots'
    <2>1. ASSUME NEW q \in Made, BeingDestroyed(q)
          PROVE  SlotOf(q)'.address = q /\ SlotOf(q)'.destroying
      BY <1>0, <1>6, <2>1 DEF FramesOwnSlots, Dead
    <2>2. \A j, k \in 1 .. Len(frames') : frames'[j].obj = frames'[k].obj => j = k
      BY <1>0, <1>1 DEF FramesOwnSlots
    <2>3. \A q \in Made' : BeingDestroyed(q)' => SlotOf(q)'.address = q /\ SlotOf(q)'.destroying
      BY <1>4, <1>9, <1>10, <2>1
    <2> QED BY <2>2, <2>3 DEF FramesOwnSlots
  <1>12. FreedWhenDone'
    BY <1>0, <1>1, <1>4, <1>7, <1>9 DEF FreedWhenDone
  <1> QED BY <1>8, <1>11, <1>12 DEF Lifetimes

(* finish_destroy: the slot is the object's own, and no other frame's.     *)
LEMMA FinishLife ==
    ASSUME LifeInv, finish_destroy
    PROVE  Lifetimes'
  <1>o. PICK o : o = Top.obj
    OBVIOUS
  <1> DEFINE i == made[o].index
             n == Len(frames)
  <1>0. /\ TypeOK /\ TableInv /\ RanOnce /\ FramesOwnSlots /\ FreedWhenDone
        /\ SlotsKnown /\ FramesOK /\ TableTypes
    BY Parts DEF LifeInv, TableInv, Lifetimes, Table
  <1>1. /\ frames # <<>> /\ UNCHANGED <<made, ran, ended>>
        /\ freed' = [freed EXCEPT ![o] = @ + 1]
        /\ frames' = SubSeq(frames, 1, n - 1)
    BY <1>o DEF finish_destroy
  <1>2. ~ended
    BY <1>0, <1>1 DEF FreedWhenDone
  <1>3. /\ o \in Made /\ o \in Objects /\ n \in Nat /\ n >= 1 /\ n \in 1 .. n
        /\ frames[n].obj = o
    BY <1>0, <1>1, <1>o, TopFrame, IdTypes DEF FramesOK, Top
  <1>4. /\ Len(frames') = n - 1 /\ \A k \in 1 .. n - 1 : frames'[k] = frames[k]
    BY <1>0, <1>1, Pop DEF FramesOK
  <1>5. BeingDestroyed(o)
    BY <1>3 DEF BeingDestroyed
  <1>6. /\ i \in 1 .. Len(slots) /\ SlotOf(o) = slots[i]
        /\ slots[i].address = o /\ slots[i].destroying /\ slots[i].strong = 0
    BY <1>0, <1>3, <1>5, IdTypes DEF FramesOwnSlots, SlotOf, SlotsKnown
  <1>7. ran[o] = 1 /\ freed[o] = 0
    BY <1>0, <1>2, <1>3, <1>5, <1>6 DEF RanOnce, FreedWhenDone
  <1>8. Slot(made[o])
    BY <1>0, <1>6 DEF Slot, SlotsKnown, Dead
  <1>9. /\ slots'[i].address = o /\ slots'[i].strong = 0
        /\ \A j \in 1 .. Len(slots) : j # i => slots'[j] = slots[j]
    <2> DEFINE x == slots[i]
               r == [x EXCEPT !.destroying = FALSE, !.generation = NextGeneration(x.generation)]
    <2>1. slots' = [slots EXCEPT ![i] = r]
      <3>1. Slot(made[Top.obj]) /\ slots[made[Top.obj].index].destroying /\ i = made[Top.obj].index
        BY <1>6, <1>8, <1>o
      <3>2. slots' = [slots EXCEPT ![made[Top.obj].index].destroying = FALSE,
                                   ![made[Top.obj].index].generation = NextGeneration(@)]
        BY <3>1 DEF finish_destroy
      <3>3. slots' = [slots EXCEPT ![i].destroying = FALSE, ![i].generation = NextGeneration(@)]
        BY <3>1, <3>2
      <3> QED BY <1>0, <1>6, <3>3 DEF TableTypes
    <2>2. x \in SlotRec /\ NextGeneration(x.generation) \in Generations
      BY <1>0, <1>6, SlotTypes, NextRank DEF SlotsKnown
    <2>3. r.address = o /\ r.strong = 0
      <3>1. x.address = o /\ x.strong = 0
        BY <1>6
      <3> HIDE DEF x
      <3>2. r.strong = x.strong /\ r.address = x.address
        BY <2>2, SlotFreed
      <3> HIDE DEF r
      <3> QED BY <3>1, <3>2
    <2> HIDE DEF r
    <2>4. slots'[i] = r /\ \A j \in 1 .. Len(slots) : j # i => slots'[j] = slots[j]
      BY <1>0, <1>6, <2>1 DEF TableTypes
    <2> QED BY <2>3, <2>4
  <1>10. ASSUME NEW q \in Made, q # o
         PROVE  \/ SlotOf(q)' = SlotOf(q)
                \/ (SlotOf(q).address # q /\ SlotOf(q)'.address # q)
    <2>1. /\ made[q].index \in 1 .. Len(slots) /\ SlotOf(q) = slots[made[q].index]
          /\ SlotOf(q)' = slots'[made[q].index]
      BY <1>0, <1>1, IdTypes DEF SlotOf
    <2>2. CASE made[q].index = i
      <3>1. slots[i].address # q /\ slots'[i].address # q
        BY <1>6, <1>9, <1>10
      <3> QED BY <2>1, <2>2, <3>1
    <2>3. CASE made[q].index # i
      BY <1>9, <2>1, <2>3
    <2> QED BY <2>2, <2>3
  <1>11. \A q : BeingDestroyed(q)' <=> BeingDestroyed(q) /\ q # o
    <2>1. \A j, k \in 1 .. n : frames[j].obj = frames[k].obj => j = k
      BY <1>0 DEF FramesOwnSlots
    <2>2. \A q : BeingDestroyed(q) <=> \E k \in 1 .. n : frames[k].obj = q
      BY DEF BeingDestroyed
    <2>3. \A q : BeingDestroyed(q)' <=> \E k \in 1 .. n - 1 : frames[k].obj = q
      BY <1>4 DEF BeingDestroyed
    <2> HIDE DEF n
    <2>4. \A k \in 1 .. n : k \in 1 .. n - 1 \/ k = n
      BY <1>3
    <2>5. \A k \in 1 .. n - 1 : k \in 1 .. n /\ k # n
      BY <1>3
    <2>6. \A k \in 1 .. n - 1 : frames[k].obj # o
      BY <1>3, <2>1, <2>5
    <2> QED BY <1>3, <2>2, <2>3, <2>4, <2>5, <2>6
  <1>12. freed'[o] = 1 /\ \A q \in Objects : q # o => freed'[q] = freed[q]
    BY <1>0, <1>1, <1>3, <1>7 DEF TypeOK
  <1>13. RanOnce'
    <2>1. \A q \in Objects \ Made : ran[q] = 0 /\ freed'[q] = 0
      BY <1>0, <1>3, <1>12 DEF RanOnce
    <2>2. ASSUME NEW q \in Made
          PROVE  /\ ran[q] \in {0, 1}
                 /\ ran[q] = 0 <=> (SlotOf(q)'.address = q /\ SlotOf(q)'.strong > 0)
      <3>1. CASE q = o
        <4>1. SlotOf(o)' = slots'[i]
          BY <1>1 DEF SlotOf
        <4> QED BY <1>7, <1>9, <3>1, <4>1
      <3>2. CASE q # o
        <4>1. CASE SlotOf(q)' = SlotOf(q)
          BY <1>0, <4>1 DEF RanOnce
        <4>2. CASE SlotOf(q).address # q /\ SlotOf(q)'.address # q
          BY <1>0, <4>2 DEF RanOnce
        <4> QED BY <1>10, <3>2, <4>1, <4>2
      <3> QED BY <3>1, <3>2
    <2> QED BY <1>1, <2>1, <2>2 DEF RanOnce, Made
  <1>14. FramesOwnSlots'
    <2>1. \A j, k \in 1 .. Len(frames') : frames'[j].obj = frames'[k].obj => j = k
      <3>1. \A j, k \in 1 .. n : frames[j].obj = frames[k].obj => j = k
        BY <1>0 DEF FramesOwnSlots
      <3> HIDE DEF n
      <3> QED BY <1>3, <1>4, <3>1
    <2>2. ASSUME NEW q \in Made, BeingDestroyed(q)'
          PROVE  SlotOf(q)'.address = q /\ SlotOf(q)'.destroying
      <3>1. q # o /\ SlotOf(q).address = q /\ SlotOf(q).destroying
        BY <1>0, <1>11, <2>2 DEF FramesOwnSlots
      <3> QED BY <1>10, <3>1
    <2> QED BY <1>1, <2>1, <2>2 DEF FramesOwnSlots, Made
  <1>15. FreedWhenDone'
    <2>1. ASSUME NEW q \in Made
          PROVE  freed'[q] = IF ran[q] = 1 /\ ~BeingDestroyed(q)' THEN 1 ELSE 0
      <3>1. CASE q = o
        BY <1>7, <1>11, <1>12, <3>1
      <3>2. CASE q # o
        BY <1>0, <1>2, <1>11, <1>12, <3>2, IdTypes DEF FreedWhenDone
      <3> QED BY <3>1, <3>2
    <2> QED BY <1>1, <1>2, <2>1 DEF FreedWhenDone, Made
  <1> QED BY <1>13, <1>14, <1>15 DEF Lifetimes

LEMMA LifeStep ==
    ASSUME LifeInv, [Next]_vars
    PROVE  Lifetimes'
  <1>1. CASE New
    BY <1>1, NewLife
  <1>2. ASSUME NEW o \in Objects, Copy(o) \/ Drop(o)
        PROVE  Lifetimes'
    BY <1>2, CopyLife, DropLife
  <1>3. ASSUME NEW p \in Objects, NEW o \in Objects \cup {0}, assign_place(p, o)
        PROVE  Lifetimes'
    BY <1>3, AssignLife
  <1>4. CASE EndDestructor
    BY <1>4, EndDestructorLife
  <1>5. CASE ReleaseFields
    BY <1>5, ReleaseFieldsLife
  <1>6. CASE finish_destroy
    BY <1>6, FinishLife
  <1>7. CASE run_in_fresh_core
    BY <1>7, EndLife
  <1>8. CASE UNCHANGED vars
    BY <1>8 DEF vars, LifeInv, Lifetimes, RanOnce, FramesOwnSlots, FreedWhenDone,
                SlotOf, BeingDestroyed, Made
  <1> QED BY <1>1, <1>2, <1>3, <1>4, <1>5, <1>6, <1>7, <1>8 DEF Next

LEMMA InitLife ==
    ASSUME Init
    PROVE  LifeInv
  <1>1. TableInv
    BY InitTable
  <1>2. Len(made) = 0 /\ Len(frames) = 0 /\ ~ended
    BY DEF Init
  <1>3. \A o \in Objects : ran[o] = 0 /\ freed[o] = 0
    BY DEF Init
  <1>4. Lifetimes
    BY <1>2, <1>3 DEF Lifetimes, RanOnce, FramesOwnSlots, FreedWhenDone, Made
  <1> QED BY <1>1, <1>4 DEF LifeInv

(* No object is destroyed twice or freed twice, and every object is freed  *)
(* by the time the program has ended (destroy_object, run_in_fresh_core).  *)
THEOREM EveryObjectFreedOnce ==
    ASSUME EnoughGenerations
    PROVE  Spec => []FreedExactlyOnce
  <1>1. Init => LifeInv
    BY InitLife
  <1>2. LifeInv /\ [Next]_vars => LifeInv'
    BY TableStep, LifeStep DEF LifeInv
  <1>3. LifeInv => FreedExactlyOnce
    <2> SUFFICES ASSUME LifeInv PROVE FreedExactlyOnce
      OBVIOUS
    <2>1. RanOnce /\ FreedWhenDone
      BY DEF LifeInv, Lifetimes
    <2>2. \A o \in Objects : ran[o] <= 1 /\ freed[o] <= 1
      <3> SUFFICES ASSUME NEW o \in Objects PROVE ran[o] <= 1 /\ freed[o] <= 1
        OBVIOUS
      <3>1. ran[o] \in {0, 1}
        BY <2>1 DEF RanOnce
      <3>2. freed[o] \in {0, 1}
        BY <2>1 DEF RanOnce, FreedWhenDone
      <3> QED BY <3>1, <3>2
    <2> QED BY <2>1, <2>2 DEF FreedExactlyOnce, FreedWhenDone
  <1> QED BY <1>1, <1>2, <1>3, PTL DEF Spec

-----------------------------------------------------------------------------
(* The third layer: the counts are the references.  A live object's count  *)
(* is the number of its references; an object being destroyed has none,    *)
(* unless its destructor is running and has copied SELF; and a destruction *)
(* that is about to free has released its field.  A destructor that ends   *)
(* with SELF still referenced has let it escape, and nothing is claimed of *)
(* what follows.                                                           *)

Refs(o) == {p \in Made : field[p] = o /\ freed[p] = 0}

Total(o) == held[o] + Cardinality(Refs(o))

CopiedSelf(f) == f.phase = "destructor" /\ f.copied = TRUE

UnmadeAreEmpty == \A o \in Objects \ Made : field[o] = 0

LiveAreCounted == \A o \in Made : ran[o] = 0 => SlotOf(o).strong = Total(o)

DyingAreUnreferenced ==
    \A o \in Made : ran[o] = 1 /\ Total(o) > 0 =>
        \E k \in 1 .. Len(frames) : frames[k].obj = o /\ CopiedSelf(frames[k])

FieldsAreReleased ==
    \A k \in 1 .. Len(frames) : frames[k].phase = "free" => field[frames[k].obj] = 0

Counted == UnmadeAreEmpty /\ LiveAreCounted /\ DyingAreUnreferenced /\ FieldsAreReleased

RefInv == escaped = TRUE \/ (invalid = FALSE /\ (ended = TRUE \/ Counted))

CountInv == LifeInv /\ RefInv

LEMMA RefsAreFinite ==
    ASSUME TypeOK, NEW o
    PROVE  IsFiniteSet(Refs(o)) /\ Cardinality(Refs(o)) \in Nat
  <1>1. Len(made) \in Int
    BY DEF TypeOK
  <1>2. IsFiniteSet(Made)
    BY <1>1, FS_Interval DEF Made
  <1>3. Refs(o) \in SUBSET Made
    BY DEF Refs
  <1> QED BY <1>2, <1>3, FS_Subset, FS_CardinalityType

(* Total counts what Kept asks for.                                        *)
LEMMA TotalIsNat ==
    ASSUME TypeOK, NEW o \in Objects
    PROVE  /\ Total(o) \in Nat /\ held[o] \in Nat
           /\ Kept(o) <=> Total(o) > 0
           /\ held[o] > 0 => Total(o) > 0
           /\ Refs(o) # {} => Total(o) > 0
  <1>1. held[o] \in Nat
    BY DEF TypeOK
  <1>2. IsFiniteSet(Refs(o)) /\ Cardinality(Refs(o)) \in Nat
    BY RefsAreFinite
  <1>3. Cardinality(Refs(o)) = 0 <=> Refs(o) = {}
    BY <1>2, FS_EmptySet
  <1>4. Refs(o) # {} <=> \E p \in Made : field[p] = o /\ freed[p] = 0
    BY DEF Refs
  <1>5. Total(o) \in Nat /\ (Total(o) > 0 <=> held[o] > 0 \/ Cardinality(Refs(o)) # 0)
    BY <1>1, <1>2 DEF Total
  <1> QED BY <1>1, <1>3, <1>4, <1>5 DEF Kept

(* A referenced object, and one being destroyed, still has its slot: the   *)
(* core does not refuse an operation on it.                                *)
LEMMA SlotOfOwner ==
    ASSUME LifeInv, NEW o \in Made, SlotOf(o).address = o,
           SlotOf(o).strong > 0 \/ SlotOf(o).destroying
    PROVE  Slot(made[o])
  <1>1. TypeOK /\ SlotsKnown
    BY DEF LifeInv, TableInv, Table
  <1>2. made[o].index \in 1 .. Len(slots) /\ SlotOf(o) = slots[made[o].index]
    BY <1>1, IdTypes DEF SlotOf
  <1>3. ~Dead(slots[made[o].index])
    BY <1>2 DEF Dead
  <1>4. slots[made[o].index].generation = made[o].generation
    BY <1>1, <1>2, <1>3 DEF SlotsKnown
  <1> QED BY <1>2, <1>4 DEF Slot

LEMMA FramesHaveSlots ==
    ASSUME LifeInv, NEW o \in Made, BeingDestroyed(o)
    PROVE  Slot(made[o]) /\ SlotOf(o).destroying /\ ran[o] = 1
  <1>1. RanOnce /\ FramesOwnSlots /\ SlotsKnown /\ TypeOK
    BY DEF LifeInv, Lifetimes, TableInv, Table
  <1>2. SlotOf(o).address = o /\ SlotOf(o).destroying
    BY <1>1 DEF FramesOwnSlots
  <1>3. SlotOf(o).strong = 0
    BY <1>1, <1>2, IdTypes DEF SlotsKnown, SlotOf
  <1> QED BY <1>1, <1>2, <1>3, SlotOfOwner DEF RanOnce

LEMMA ReferencedHaveSlots ==
    ASSUME LifeInv, Counted, NEW o \in Made, Total(o) > 0
    PROVE  Slot(made[o])
  <1>1. RanOnce
    BY DEF LifeInv, Lifetimes
  <1>2. CASE ran[o] = 0
    BY <1>1, <1>2, SlotOfOwner DEF RanOnce
  <1>3. CASE ran[o] = 1
    <2>1. BeingDestroyed(o)
      BY <1>3 DEF Counted, DyingAreUnreferenced, BeingDestroyed
    <2> QED BY <2>1, FramesHaveSlots
  <1> QED BY <1>1, <1>2, <1>3 DEF RanOnce

(* What a release does to the counts.                                      *)
LEMMA ReleaseCounts ==
    ASSUME LifeInv, NEW o \in Made, Slot(made[o])
    PROVE  LET i == made[o].index
               t == release(slots, made[o])
           IN  /\ i \in 1 .. Len(slots) /\ slots[i].address = o /\ slots[i].strong \in Nat
               /\ \A j \in 1 .. Len(slots) : j # i => t[j] = slots[j]
               /\ slots[i].destroying => t = slots /\ ~last(slots, made[o])
               /\ ~slots[i].destroying => /\ t[i].strong = slots[i].strong - 1
                                          /\ last(slots, made[o]) <=> slots[i].strong = 1
  <1> DEFINE i == made[o].index
             t == release(slots, made[o])
             l == last(slots, made[o])
             r == [slots[i] EXCEPT !.strong = @ - 1, !.destroying = l]
  <1>1. /\ i \in 1 .. Len(slots) /\ slots \in Seq(SlotRec) /\ slots[i].address = o
        /\ slots[i] \in SlotRec /\ slots[i].strong \in Nat
    BY LiveIdNamesItsObject, SlotTypes DEF LifeInv, TableInv, TypeOK, SlotRec
  <1>2. CASE slots[i].destroying
    <2>1. t = slots /\ ~l
      BY <1>2 DEF release, last
    <2> QED BY <1>1, <1>2, <2>1
  <1>3. CASE ~slots[i].destroying
    <2>1. t = [slots EXCEPT ![i] = r]
      BY <1>1, <1>3 DEF release
    <2>2. (l <=> slots[i].strong = 1) /\ l \in BOOLEAN
      BY <1>1, <1>3 DEF last
    <2> HIDE DEF l
    <2>3. r.strong = slots[i].strong - 1
      BY <1>1, <2>2 DEF SlotRec
    <2> HIDE DEF r, t
    <2>4. t[i] = r /\ \A j \in 1 .. Len(slots) : j # i => t[j] = slots[j]
      BY <1>1, <2>1
    <2> QED BY <1>1, <1>3, <2>2, <2>3, <2>4 DEF l, t
  <1> QED BY <1>2, <1>3

(* The release of one reference keeps the counts, whatever else the action *)
(* does to the phases of the destructions.                                 *)
LEMMA ReleaseKeepsCounts ==
    ASSUME LifeInv, Counted, NEW c \in Made, Total(c) > 0,
           slots' = release(slots, made[c]),
           NEW fs, SameFrames(fs),
           frames' = IF last(slots, made[c]) THEN Append(fs, Frame(c)) ELSE fs,
           ran' = IF last(slots, made[c]) THEN [ran EXCEPT ![c] = @ + 1] ELSE ran,
           UNCHANGED made, UnmadeAreEmpty',
           \A q \in Made : Total(q)' = IF q = c THEN Total(q) - 1 ELSE Total(q),
           \A k \in 1 .. Len(frames) :
              /\ CopiedSelf(frames[k]) => CopiedSelf(fs[k])
              /\ fs[k].phase = "free" => field'[fs[k].obj] = 0
    PROVE  Counted'
  <1> DEFINE i == made[c].index
             n == Len(frames)
             l == last(slots, made[c])
  <1>0. /\ TypeOK /\ RanOnce /\ FramesOwnSlots /\ FramesOK /\ c \in Objects
        /\ Slot(made[c]) /\ SlotsKnown
    BY Parts, IdTypes, ReferencedHaveSlots DEF LifeInv, TableInv, Lifetimes, Table
  <1>1. /\ i \in 1 .. Len(slots) /\ slots[i].address = c /\ slots[i].strong \in Nat
        /\ \A j \in 1 .. Len(slots) : j # i => slots'[j] = slots[j]
        /\ slots[i].destroying => slots' = slots /\ ~l
        /\ ~slots[i].destroying => slots'[i].strong = slots[i].strong - 1 /\ (l <=> slots[i].strong = 1)
    BY <1>0, ReleaseCounts
  <1>2. SlotOf(c) = slots[i] /\ SlotOf(c)' = slots'[i]
    BY DEF SlotOf
  <1>3. ran[c] \in {0, 1} /\ (ran[c] = 0 <=> slots[i].strong > 0)
    BY <1>0, <1>1, <1>2 DEF RanOnce
  <1>4. ran[c] = 0 => slots[i].strong = Total(c) /\ ~slots[i].destroying
    <2>1. ran[c] = 0 => slots[i].strong = Total(c)
      BY <1>2 DEF Counted, LiveAreCounted
    <2>2. slots[i].destroying => slots[i].strong = 0
      BY <1>0, <1>1 DEF SlotsKnown
    <2> QED BY <1>3, <2>1, <2>2
  <1>5. ran[c] = 1 => slots[i].destroying
    <2>1. slots[i].strong > 0 \/ slots[i].destroying
      BY <1>0 DEF Slot
    <2> QED BY <1>3, <2>1
  <1>6. Total(c) \in Nat
    BY <1>0, TotalIsNat
  <1>7. /\ l => ran[c] = 0 /\ Total(c) = 1 /\ ran'[c] = 1
        /\ ~l => ran'[c] = ran[c]
        /\ \A q \in Objects : q # c => ran'[q] = ran[q]
    <2>1. l => ran[c] = 0 /\ Total(c) = 1
      BY <1>1, <1>3, <1>4, <1>5
    <2>2. ran \in [Objects -> Nat]
      BY <1>0 DEF TypeOK
    <2>3. ran[c] = 0 => [ran EXCEPT ![c] = @ + 1][c] = 1
      BY <1>0, <2>2
    <2>4. \A q \in Objects : q # c => [ran EXCEPT ![c] = @ + 1][q] = ran[q]
      BY <2>2
    <2> HIDE DEF l
    <2>5. ran' = IF l THEN [ran EXCEPT ![c] = @ + 1] ELSE ran
      BY DEF l
    <2> QED BY <2>1, <2>3, <2>4, <2>5
  <1>8. LiveAreCounted'
    <2>1. ASSUME NEW q \in Made, ran'[q] = 0
          PROVE  SlotOf(q)'.strong = Total(q)'
      <3>1. CASE q = c
        <4>1. ~l /\ ran[c] = 0
          BY <1>7, <2>1, <3>1
        <4>2. slots'[i].strong = Total(c) - 1
          BY <1>1, <1>4, <4>1
        <4> QED BY <1>2, <3>1, <4>2
      <3>2. CASE q # c
        <4>1. q \in Objects /\ ran[q] = 0 /\ made[q].index \in 1 .. Len(slots)
          BY <1>0, <1>7, <2>1, <3>2, IdTypes
        <4>2. SlotOf(q).address = q
          BY <1>0, <4>1 DEF RanOnce
        <4>3. made[q].index # i
          BY <1>1, <3>2, <4>2 DEF SlotOf
        <4>4. SlotOf(q)' = SlotOf(q)
          BY <1>1, <4>1, <4>3 DEF SlotOf
        <4>5. SlotOf(q).strong = Total(q)
          BY <4>1 DEF Counted, LiveAreCounted
        <4> QED BY <3>2, <4>4, <4>5
      <3> QED BY <3>1, <3>2
    <2> QED BY <2>1 DEF LiveAreCounted, Made
  <1>9. /\ fs \in Seq(FrameRec) /\ Len(fs) = n /\ n \in Nat
        /\ Len(frames') >= n /\ Len(frames') \in Nat
        /\ \A k \in 1 .. n : frames'[k] = fs[k]
        /\ \A k \in 1 .. Len(frames') : k \in 1 .. n \/ frames'[k].phase = "destructor"
    <2>1. Frame(c) \in FrameRec /\ Frame(c).phase = "destructor"
      BY <1>0, FrameIsFrame DEF Frame
    <2>2. fs \in Seq(FrameRec) /\ Len(fs) = n /\ n \in Nat
      BY <1>0 DEF SameFrames, FramesOK
    <2>3. CASE l
      <3>1. frames' = Append(fs, Frame(c))
        BY <2>3
      <3>2. /\ Len(frames') = n + 1 /\ frames'[n + 1] = Frame(c)
            /\ \A k \in 1 .. n : frames'[k] = fs[k]
        BY <2>1, <2>2, <3>1
      <3> HIDE DEF n
      <3> QED BY <2>1, <2>2, <3>2
    <2>4. CASE ~l
      <3>1. frames' = fs
        BY <2>4
      <3> HIDE DEF n
      <3> QED BY <2>2, <3>1
    <2> QED BY <2>3, <2>4
  <1>10. DyingAreUnreferenced'
    <2>1. ASSUME NEW q \in Made, ran'[q] = 1, Total(q)' > 0
          PROVE  \E k \in 1 .. Len(frames') : frames'[k].obj = q /\ CopiedSelf(frames'[k])
      <3>1. q \in Objects /\ Total(q) \in Nat
        BY <1>0, IdTypes, TotalIsNat
      <3>2. Total(q) > 0 /\ ran[q] = 1
        <4>1. CASE q = c
          <5>1. Total(c) - 1 > 0
            BY <2>1, <4>1
          <5>2. ~l
            BY <1>6, <1>7, <5>1
          <5> QED BY <1>6, <1>7, <2>1, <4>1, <5>1, <5>2
        <4>2. CASE q # c
          BY <1>7, <2>1, <3>1, <4>2
        <4> QED BY <4>1, <4>2
      <3>3. PICK k \in 1 .. n : frames[k].obj = q /\ CopiedSelf(frames[k])
        BY <3>2 DEF Counted, DyingAreUnreferenced
      <3>4. fs[k].obj = q /\ CopiedSelf(fs[k])
        BY <3>3 DEF SameFrames
      <3>5. k \in 1 .. Len(frames') /\ frames'[k] = fs[k]
        <4> HIDE DEF n
        <4> QED BY <1>9, <3>3
      <3> QED BY <3>4, <3>5
    <2> QED BY <2>1 DEF DyingAreUnreferenced, Made, CopiedSelf
  <1>11. FieldsAreReleased'
    BY <1>9 DEF FieldsAreReleased
  <1> QED BY <1>8, <1>10, <1>11 DEF Counted

(* A step that starts no destruction, gives no reference and takes none.   *)
LEMMA SameTotalsKeepCounts ==
    ASSUME LifeInv, Counted, SameFrames(frames'), UNCHANGED <<slots, made, ran>>, UnmadeAreEmpty',
           \A q \in Made : Total(q)' = Total(q),
           \A k \in 1 .. Len(frames) :
              /\ CopiedSelf(frames[k]) /\ Total(frames[k].obj) > 0 => CopiedSelf(frames'[k])
              /\ frames'[k].phase = "free" => field'[frames[k].obj] = 0
    PROVE  Counted'
  <1>1. LiveAreCounted'
    BY DEF Counted, LiveAreCounted, SlotOf, Made
  <1>2. DyingAreUnreferenced'
    <2>1. ASSUME NEW q \in Made, ran[q] = 1, Total(q) > 0
          PROVE  \E k \in 1 .. Len(frames') : frames'[k].obj = q /\ CopiedSelf(frames'[k])
      <3>1. PICK k \in 1 .. Len(frames) : frames[k].obj = q /\ CopiedSelf(frames[k])
        BY <2>1 DEF Counted, DyingAreUnreferenced
      <3> QED BY <2>1, <3>1 DEF SameFrames
    <2>2. \A q \in Made : ran'[q] = 1 /\ Total(q)' > 0 =>
             \E k \in 1 .. Len(frames') : frames'[k].obj = q /\ CopiedSelf(frames'[k])
      BY <2>1
    <2> QED BY <2>2 DEF DyingAreUnreferenced, Made, CopiedSelf
  <1>3. FieldsAreReleased'
    BY DEF FieldsAreReleased, SameFrames
  <1> QED BY <1>1, <1>2, <1>3 DEF Counted

(* An object that can be reached is not one about to be freed.             *)
LEMMA FreeingIsOver ==
    ASSUME LifeInv, Counted, NEW k \in 1 .. Len(frames), frames[k].phase # "destructor"
    PROVE  Total(frames[k].obj) = 0 /\ freed[frames[k].obj] = 0 /\ ~Self(frames[k].obj)
  <1> DEFINE o == frames[k].obj
  <1>0. TypeOK /\ FramesOwnSlots /\ FramesOK /\ FreedWhenDone
    BY Parts DEF LifeInv, TableInv, Lifetimes
  <1>1. o \in Made /\ BeingDestroyed(o)
    BY <1>0 DEF FramesOK, BeingDestroyed
  <1>2. ran[o] = 1 /\ o \in Objects
    BY <1>0, <1>1, FramesHaveSlots, IdTypes
  <1>3. \A j \in 1 .. Len(frames) : frames[j].obj = o => j = k
    BY <1>0 DEF FramesOwnSlots
  <1>4. ~(Total(o) > 0)
    BY <1>1, <1>2, <1>3 DEF Counted, DyingAreUnreferenced, CopiedSelf
  <1>5. Total(o) = 0
    BY <1>0, <1>2, <1>4, TotalIsNat
  <1>6. ~Self(o)
    <2> SUFFICES ASSUME Self(o) PROVE FALSE
      OBVIOUS
    <2>1. Len(frames) \in 1 .. Len(frames) /\ frames[Len(frames)].obj = o
      BY <1>0, TopFrame DEF Self, Top
    <2>2. Len(frames) = k
      BY <1>3, <2>1
    <2> QED BY <2>2 DEF Self, Top
  <1>7. freed[o] = 0
    <2>1. frames # <<>>
      BY <1>0 DEF FramesOK
    <2> QED BY <1>0, <1>1, <2>1 DEF FreedWhenDone
  <1> QED BY <1>5, <1>6, <1>7

(* Storing v in the field of p moves p from one set of references to       *)
(* another.                                                                *)
LEMMA FieldStored ==
    ASSUME TypeOK, NEW p \in Made, freed[p] = 0, NEW v,
           field' = [field EXCEPT ![p] = v], UNCHANGED <<made, freed>>
    PROVE  \A q : Cardinality(Refs(q)') =
                     IF q = v /\ q # field[p] THEN Cardinality(Refs(q)) + 1
                     ELSE IF q # v /\ q = field[p] THEN Cardinality(Refs(q)) - 1
                     ELSE Cardinality(Refs(q))
  <1> SUFFICES ASSUME NEW q
               PROVE  Cardinality(Refs(q)') =
                         IF q = v /\ q # field[p] THEN Cardinality(Refs(q)) + 1
                         ELSE IF q # v /\ q = field[p] THEN Cardinality(Refs(q)) - 1
                         ELSE Cardinality(Refs(q))
    OBVIOUS
  <1>1. field'[p] = v /\ \A r \in Made : r # p => field'[r] = field[r]
    <2>1. \A r \in Made : r \in Objects
      BY IdTypes
    <2> QED BY <2>1 DEF TypeOK
  <1>2. Refs(q)' = {r \in Made : field'[r] = q /\ freed[r] = 0}
    BY DEF Refs, Made
  <1>3. IsFiniteSet(Refs(q)) /\ (p \in Refs(q) <=> q = field[p])
    BY RefsAreFinite DEF Refs
  <1>4. CASE q = v
    <2>1. Refs(q)' = Refs(q) \cup {p}
      BY <1>1, <1>2, <1>4 DEF Refs
    <2> QED BY <1>3, <1>4, <2>1, FS_AddElement
  <1>5. CASE q # v
    <2>1. Refs(q)' = Refs(q) \ {p}
      BY <1>1, <1>2, <1>5 DEF Refs
    <2> QED BY <1>3, <1>5, <2>1, FS_RemoveElement
  <1> QED BY <1>4, <1>5

(* Every action keeps the counts, and none of them is refused.             *)

(* ReleaseRef, given what the action does to the references.               *)
LEMMA ReleaseRefCounts ==
    ASSUME LifeInv, Counted, invalid = FALSE, NEW c \in Made, Total(c) > 0, ReleaseRef(c),
           UNCHANGED made, UnmadeAreEmpty',
           \A q \in Made : Total(q)' = IF q = c THEN Total(q) - 1 ELSE Total(q),
           \A k \in 1 .. Len(frames) : frames[k].phase = "free" => field'[frames[k].obj] = 0
    PROVE  invalid' = FALSE /\ Counted'
  <1>0. FramesOK
    BY Parts DEF LifeInv
  <1>1. Slot(made[c])
    BY ReferencedHaveSlots
  <1>2. /\ slots' = release(slots, made[c]) /\ invalid' = FALSE
        /\ frames' = IF last(slots, made[c]) THEN Append(frames, Frame(c)) ELSE frames
        /\ ran' = IF last(slots, made[c]) THEN [ran EXCEPT ![c] = @ + 1] ELSE ran
    BY <1>1 DEF ReleaseRef, Destroy
  <1>3. SameFrames(frames)
    BY <1>0, SameFramesNow
  <1>4. Counted'
    BY <1>2, <1>3, ReleaseKeepsCounts
  <1> QED BY <1>2, <1>4

LEMMA DropCounts ==
    ASSUME LifeInv, Counted, NEW o \in Objects, Drop(o)
    PROVE  invalid' = FALSE /\ Counted'
  <1>0. TypeOK /\ invalid \in BOOLEAN
    BY DEF LifeInv, TableInv, TypeOK
  <1>1. /\ o \in Made /\ held[o] > 0 /\ ReleaseRef(o) /\ invalid = FALSE
        /\ held' = [held EXCEPT ![o] = @ - 1] /\ UNCHANGED <<made, field, freed>>
    BY <1>0 DEF Drop, InUserCode
  <1>2. Total(o) > 0
    BY <1>0, <1>1, TotalIsNat
  <1>3. ASSUME NEW q \in Made
        PROVE  Total(q)' = IF q = o THEN Total(q) - 1 ELSE Total(q)
    <2>1. q \in Objects /\ held \in [Objects -> Nat] /\ Cardinality(Refs(q)) \in Nat
      BY <1>0, IdTypes, RefsAreFinite DEF TypeOK
    <2>2. held[q] \in Nat /\ held'[q] = IF q = o THEN held[q] - 1 ELSE held[q]
      BY <1>1, <2>1
    <2>3. Refs(q)' = Refs(q)
      BY <1>1 DEF Refs, Made
    <2>4. Total(q)' = held'[q] + Cardinality(Refs(q))
      BY <2>3 DEF Total
    <2> QED BY <2>1, <2>2, <2>4 DEF Total
  <1>4. UnmadeAreEmpty'
    BY <1>1 DEF Counted, UnmadeAreEmpty, Made
  <1>5. \A k \in 1 .. Len(frames) : frames[k].phase = "free" => field'[frames[k].obj] = 0
    BY <1>1 DEF Counted, FieldsAreReleased
  <1> QED BY <1>1, <1>2, <1>3, <1>4, <1>5, ReleaseRefCounts

LEMMA AssignCounts ==
    ASSUME LifeInv, Counted, NEW p \in Objects, NEW o \in Objects \cup {0}, assign_place(p, o)
    PROVE  invalid' = FALSE /\ Counted'
  <1> DEFINE c == field[p]
  <1>0. TypeOK /\ invalid \in BOOLEAN /\ FramesOK /\ Bindings
    BY Parts DEF LifeInv, TableInv, TypeOK
  <1>1. /\ p \in Made /\ freed[p] = 0 /\ invalid = FALSE /\ (held[p] > 0 \/ Self(p))
        /\ o # 0 => o \in Made /\ held[o] > 0
        /\ held' = IF o = 0 THEN held ELSE [held EXCEPT ![o] = @ - 1]
        /\ field' = [field EXCEPT ![p] = o] /\ UNCHANGED <<made, freed>>
    <2>1. o # 0 => o \in Made /\ held[o] > (IF p = o /\ ~Self(p) THEN 1 ELSE 0)
      BY DEF assign_place
    <2>2. o # 0 => held[o] \in Nat
      BY <1>0 DEF TypeOK
    <2> QED BY <1>0, <2>1, <2>2 DEF assign_place, InUserCode, Reach
  <1>2. field \in [Objects -> Objects \cup {0}] /\ c \in Made \cup {0} /\ held \in [Objects -> Nat]
    BY <1>0 DEF Bindings
  <1>n. 0 \notin Objects
    BY DEF Objects
  <1>3. ASSUME NEW q \in Made
        PROVE  Total(q)' = IF q = c THEN Total(q) - 1 ELSE Total(q)
    <2>1. q \in Objects /\ Cardinality(Refs(q)) \in Nat /\ q # 0
      BY <1>0, <1>n, IdTypes, RefsAreFinite
    <2>2. held[q] \in Nat /\ held'[q] = IF q = o THEN held[q] - 1 ELSE held[q]
      BY <1>1, <1>2, <2>1
    <2>3. Cardinality(Refs(q)') = IF q = o /\ q # c THEN Cardinality(Refs(q)) + 1
                                  ELSE IF q # o /\ q = c THEN Cardinality(Refs(q)) - 1
                                  ELSE Cardinality(Refs(q))
      BY <1>0, <1>1, FieldStored
    <2>4. Total(q)' = held'[q] + Cardinality(Refs(q)') /\ Total(q) = held[q] + Cardinality(Refs(q))
      BY DEF Total
    <2> HIDE DEF c
    <2> QED BY <2>1, <2>2, <2>3, <2>4
  <1>4. UnmadeAreEmpty'
    BY <1>1, <1>2 DEF Counted, UnmadeAreEmpty, Made
  <1>5. \A k \in 1 .. Len(frames) : frames[k].phase = "free" => field'[frames[k].obj] = 0
    <2> SUFFICES ASSUME NEW k \in 1 .. Len(frames), frames[k].phase = "free"
                 PROVE  field'[frames[k].obj] = 0
      OBVIOUS
    <2>1. Total(frames[k].obj) = 0 /\ ~Self(frames[k].obj)
      BY FreeingIsOver
    <2>2. frames[k].obj # p
      BY <1>0, <1>1, <2>1, TotalIsNat
    <2>3. frames[k].obj \in Objects /\ field[frames[k].obj] = 0
      BY <1>0, IdTypes DEF FramesOK, Counted, FieldsAreReleased
    <2> QED BY <1>1, <1>2, <2>2, <2>3
  <1>6. CASE c = 0
    <2>1. UNCHANGED <<slots, frames, ran, invalid>>
      BY <1>6 DEF assign_place
    <2>2. SameFrames(frames')
      BY <1>0, <2>1, SameFramesNow
    <2>3. \A q \in Made : Total(q)' = Total(q)
      BY <1>0, <1>3, <1>6, <1>n, IdTypes
    <2>4. Counted'
      BY <1>1, <1>4, <1>5, <2>1, <2>2, <2>3, SameTotalsKeepCounts
    <2> QED BY <1>1, <2>1, <2>4
  <1>7. CASE c # 0
    <2>1. c \in Made /\ c \in Objects /\ p \in Refs(c) /\ ReleaseRef(c)
      BY <1>0, <1>1, <1>2, <1>7, IdTypes DEF Refs, assign_place
    <2>2. Total(c) > 0
      BY <1>0, <2>1, TotalIsNat
    <2> HIDE DEF c
    <2> QED BY <1>1, <1>3, <1>4, <1>5, <2>1, <2>2, ReleaseRefCounts
  <1> QED BY <1>6, <1>7

(* A frozen count does not follow a copy: the frame does.                  *)
LEMMA CopyCounts ==
    ASSUME LifeInv, Counted, NEW o \in Objects, Copy(o)
    PROVE  invalid' = FALSE /\ Counted'
  <1> DEFINE i == made[o].index
             n == Len(frames)
  <1>0. /\ TypeOK /\ invalid \in BOOLEAN /\ FramesOK /\ RanOnce /\ SlotsKnown /\ FramesOwnSlots
        /\ held \in [Objects -> Nat]
    BY Parts DEF LifeInv, TableInv, TypeOK, Lifetimes, Table
  <1>1. /\ o \in Made /\ (held[o] > 0 \/ Self(o)) /\ invalid = FALSE
        /\ UNCHANGED <<made, field, ran, freed>>
    BY <1>0 DEF Copy, InUserCode, Reach
  <1>2. Self(o) => /\ frames # <<>> /\ n \in 1 .. n /\ frames[n] = Top /\ Top \in FrameRec
                   /\ Top.obj = o /\ Top.phase = "destructor" /\ BeingDestroyed(o)
    BY <1>0, TopFrame DEF Self, Top, BeingDestroyed
  <1>3. Slot(made[o])
    <2>1. CASE held[o] > 0
      BY <1>0, <1>1, <2>1, TotalIsNat, ReferencedHaveSlots
    <2>2. CASE Self(o)
      BY <1>1, <1>2, <2>2, FramesHaveSlots
    <2> QED BY <1>1, <2>1, <2>2
  <1>4. slots' = retain(slots, made[o]) /\ held' = [held EXCEPT ![o] = @ + 1] /\ invalid' = FALSE
    BY <1>1, <1>3 DEF Copy
  <1>5. ASSUME NEW q \in Made
        PROVE  /\ Total(q)' = IF q = o THEN Total(q) + 1 ELSE Total(q)
               /\ Total(q) \in Nat
    <2>1. q \in Objects /\ Cardinality(Refs(q)) \in Nat
      BY <1>0, IdTypes, RefsAreFinite
    <2>2. held[q] \in Nat /\ held'[q] = IF q = o THEN held[q] + 1 ELSE held[q]
      BY <1>0, <1>4, <2>1
    <2>3. Refs(q)' = Refs(q)
      BY <1>1 DEF Refs, Made
    <2>4. Total(q)' = held'[q] + Cardinality(Refs(q))
      BY <2>3 DEF Total
    <2> QED BY <2>1, <2>2, <2>4 DEF Total
  <1>6. /\ i \in 1 .. Len(slots) /\ slots[i].address = o /\ SlotOf(o) = slots[i]
        /\ SlotOf(o)' = slots'[i]
        /\ \A j \in 1 .. Len(slots) : j # i => slots'[j] = slots[j]
        /\ ~slots[i].destroying => slots'[i].strong = slots[i].strong + 1
        /\ slots[i].destroying => slots[i].strong = 0
    <2>1. /\ i \in 1 .. Len(slots) /\ slots[i].address = o /\ slots \in Seq(SlotRec)
          /\ slots[i] \in SlotRec
      BY <1>1, <1>3, LiveIdNamesItsObject, SlotTypes DEF LifeInv, TableInv, TypeOK, SlotRec
    <2>2. SlotOf(o) = slots[i] /\ SlotOf(o)' = slots'[i]
      BY <1>1 DEF SlotOf
    <2>3. slots[i].destroying => slots[i].strong = 0
      BY <1>0, <2>1 DEF SlotsKnown
    <2>4. CASE slots[i].destroying
      BY <1>4, <2>1, <2>2, <2>3, <2>4 DEF retain
    <2>5. CASE ~slots[i].destroying
      <3> DEFINE r == [slots[i] EXCEPT !.strong = @ + 1]
      <3>1. slots' = [slots EXCEPT ![i] = r]
        BY <1>4, <2>1, <2>5 DEF retain
      <3>2. r.strong = slots[i].strong + 1
        BY <2>1 DEF SlotRec
      <3> HIDE DEF r
      <3>3. slots'[i] = r /\ \A j \in 1 .. Len(slots) : j # i => slots'[j] = slots[j]
        BY <2>1, <3>1
      <3> QED BY <2>1, <2>2, <2>3, <2>5, <3>2, <3>3
    <2> QED BY <2>4, <2>5
  <1>7. LiveAreCounted'
    <2>1. ASSUME NEW q \in Made, ran[q] = 0
          PROVE  SlotOf(q)'.strong = Total(q)'
      <3>1. /\ made[q].index \in 1 .. Len(slots) /\ SlotOf(q).strong = Total(q)
            /\ SlotOf(q).address = q /\ SlotOf(q).strong > 0
        BY <1>0, <2>1, IdTypes DEF Counted, LiveAreCounted, RanOnce
      <3>2. CASE q = o
        <4>1. slots[i].strong = Total(o) /\ slots[i].strong > 0
          BY <1>6, <3>1, <3>2
        <4>2. slots'[i].strong = Total(o) + 1
          BY <1>6, <4>1
        <4> QED BY <1>5, <1>6, <3>2, <4>2
      <3>3. CASE q # o
        <4>1. made[q].index # i
          BY <1>6, <3>1, <3>3 DEF SlotOf
        <4>2. SlotOf(q)' = SlotOf(q)
          BY <1>1, <1>6, <3>1, <4>1 DEF SlotOf
        <4> QED BY <1>5, <3>1, <3>3, <4>2
      <3> QED BY <3>2, <3>3
    <2> QED BY <1>1, <2>1 DEF LiveAreCounted, Made
  <1>8. /\ Len(frames') = n
        /\ \A k \in 1 .. n : /\ frames'[k].obj = frames[k].obj
                             /\ frames'[k].phase = frames[k].phase
                             /\ frames[k].copied = TRUE => frames'[k].copied = TRUE
        /\ Self(o) => frames'[n].copied = TRUE
    <2>1. CASE Self(o)
      <3> DEFINE f == [Top EXCEPT !.copied = TRUE]
      <3>1. frames' = [frames EXCEPT ![n] = f] /\ frames \in Seq(FrameRec)
        BY <1>0, <2>1 DEF Copy, Top, FramesOK
      <3>2. f.obj = Top.obj /\ f.phase = Top.phase /\ f.copied = TRUE
        BY <1>2, <2>1 DEF FrameRec
      <3> HIDE DEF f
      <3>3. Len(frames') = n /\ frames'[n] = f /\ \A k \in 1 .. n : k # n => frames'[k] = frames[k]
        BY <1>2, <2>1, <3>1
      <3> HIDE DEF n
      <3> QED BY <1>2, <2>1, <3>2, <3>3
    <2>2. CASE ~Self(o)
      BY <2>2 DEF Copy
    <2> QED BY <2>1, <2>2
  <1>9. DyingAreUnreferenced'
    <2>1. ASSUME NEW q \in Made, ran[q] = 1, Total(q)' > 0
          PROVE  \E k \in 1 .. Len(frames') : frames'[k].obj = q /\ CopiedSelf(frames'[k])
      <3>1. CASE Total(q) > 0
        <4>1. PICK k \in 1 .. n : frames[k].obj = q /\ CopiedSelf(frames[k])
          BY <2>1, <3>1 DEF Counted, DyingAreUnreferenced
        <4> QED BY <1>8, <4>1 DEF CopiedSelf
      <3>2. CASE ~(Total(q) > 0)
        <4>1. q = o /\ Self(o)
          BY <1>0, <1>1, <1>5, <2>1, <3>2, TotalIsNat
        <4>2. n \in 1 .. n /\ frames'[n].obj = q /\ CopiedSelf(frames'[n])
          BY <1>2, <1>8, <4>1 DEF CopiedSelf
        <4> QED BY <1>8, <4>2
      <3> QED BY <3>1, <3>2
    <2>2. \A q \in Made : ran'[q] = 1 /\ Total(q)' > 0 =>
             \E k \in 1 .. Len(frames') : frames'[k].obj = q /\ CopiedSelf(frames'[k])
      BY <1>1, <2>1
    <2> QED BY <1>1, <2>2 DEF DyingAreUnreferenced, Made, CopiedSelf
  <1>10. FieldsAreReleased'
    BY <1>1, <1>8 DEF Counted, FieldsAreReleased
  <1>11. UnmadeAreEmpty'
    BY <1>1 DEF Counted, UnmadeAreEmpty, Made
  <1> QED BY <1>4, <1>7, <1>9, <1>10, <1>11 DEF Counted

(* A destructor that ends with SELF referenced had copied it.              *)
LEMMA EndDestructorCounts ==
    ASSUME LifeInv, Counted, EndDestructor
    PROVE  escaped' = TRUE \/ (invalid' = FALSE /\ Counted')
  <1> DEFINE n == Len(frames)
             o == Top.obj
             f == [Top EXCEPT !.phase = "fields"]
  <1>0. TypeOK /\ invalid \in BOOLEAN /\ escaped \in BOOLEAN /\ FramesOK /\ FramesOwnSlots
    BY Parts DEF LifeInv, TableInv, TypeOK, Lifetimes
  <1>1. /\ frames # <<>> /\ invalid = FALSE /\ invalid' = FALSE
        /\ UNCHANGED <<slots, made, held, field, ran, freed>>
        /\ frames' = [frames EXCEPT ![n] = f]
        /\ escaped' = (escaped \/ (Top.copied /\ Kept(o)))
    BY <1>0 DEF EndDestructor, SetPhase, Top
  <1>2. n \in 1 .. n /\ Top \in FrameRec /\ o \in Made /\ frames[n] = Top /\ frames \in Seq(FrameRec)
    BY <1>0, <1>1, TopFrame DEF Top, FramesOK
  <1>3. o \in Objects /\ BeingDestroyed(o)
    BY <1>0, <1>2, IdTypes DEF BeingDestroyed
  <1>4. f \in FrameRec /\ f.obj = o /\ f.phase = "fields"
    BY <1>2 DEF FrameRec, Phases
  <1>5. CASE Total(o) > 0
    <2>1. ran[o] = 1
      BY <1>2, <1>3, FramesHaveSlots
    <2>2. PICK k \in 1 .. n : frames[k].obj = o /\ CopiedSelf(frames[k])
      BY <1>2, <1>5, <2>1 DEF Counted, DyingAreUnreferenced
    <2>3. k = n
      BY <1>0, <1>2, <2>2 DEF FramesOwnSlots
    <2>4. Top.copied = TRUE /\ Kept(o)
      BY <1>0, <1>2, <1>3, <1>5, <2>2, <2>3, TotalIsNat DEF CopiedSelf
    <2> QED BY <1>1, <2>4
  <1>6. CASE ~(Total(o) > 0)
    <2>1. SameFrames(frames')
      <3> HIDE DEF f
      <3> QED BY <1>0, <1>1, <1>4, TopSameFrames
    <2>2. UnmadeAreEmpty'
      BY <1>1 DEF Counted, UnmadeAreEmpty, Made
    <2>3. \A q \in Made : Total(q)' = Total(q)
      BY <1>1 DEF Total, Refs, Made
    <2>4. frames'[n] = f /\ \A k \in 1 .. n : k # n => frames'[k] = frames[k]
      <3> HIDE DEF f
      <3> QED BY <1>1, <1>2
    <2>5. \A k \in 1 .. n :
             /\ CopiedSelf(frames[k]) /\ Total(frames[k].obj) > 0 => CopiedSelf(frames'[k])
             /\ frames'[k].phase = "free" => field'[frames[k].obj] = 0
      <3> SUFFICES ASSUME NEW k \in 1 .. n
                   PROVE  /\ CopiedSelf(frames[k]) /\ Total(frames[k].obj) > 0 => CopiedSelf(frames'[k])
                          /\ frames'[k].phase = "free" => field'[frames[k].obj] = 0
        OBVIOUS
      <3>1. frames[k].phase = "free" => field[frames[k].obj] = 0
        BY DEF Counted, FieldsAreReleased
      <3>2. CASE k = n
        BY <1>2, <1>4, <1>6, <2>4, <3>2
      <3>3. CASE k # n
        BY <1>1, <2>4, <3>1, <3>3
      <3> QED BY <3>2, <3>3
    <2>6. Counted'
      BY <1>1, <2>1, <2>2, <2>3, <2>5, SameTotalsKeepCounts
    <2> QED BY <1>1, <2>6
  <1> QED BY <1>5, <1>6

(* The field of a dying object: it is not the object's own, for a          *)
(* destruction past its destructor is of an object nothing refers to.      *)
LEMMA ReleaseFieldsCounts ==
    ASSUME LifeInv, Counted, ReleaseFields
    PROVE  invalid' = FALSE /\ Counted'
  <1> DEFINE n == Len(frames)
             o == Top.obj
             f == [Top EXCEPT !.phase = "free"]
             below == [frames EXCEPT ![n] = f]
             c == field[o]
  <1>0. TypeOK /\ invalid \in BOOLEAN /\ FramesOK /\ Bindings
    BY Parts DEF LifeInv, TableInv, TypeOK
  <1>1. /\ frames # <<>> /\ invalid = FALSE /\ UNCHANGED <<made, held, freed>>
        /\ Top.phase = "fields" /\ field' = [field EXCEPT ![o] = 0]
        /\ below = [frames EXCEPT ![n].phase = "free"]
    BY <1>0 DEF ReleaseFields, Top
  <1>2. n \in 1 .. n /\ Top \in FrameRec /\ o \in Made /\ frames[n] = Top /\ frames \in Seq(FrameRec)
    BY <1>0, <1>1, TopFrame DEF Top, FramesOK
  <1>3. o \in Objects /\ f \in FrameRec /\ f.obj = o /\ f.phase = "free"
    BY <1>0, <1>2, IdTypes DEF FrameRec, Phases
  <1>4. freed[o] = 0
    BY <1>1, <1>2, FreeingIsOver
  <1>5. SameFrames(below)
    <2> HIDE DEF f
    <2> QED BY <1>0, <1>1, <1>3, TopSameFrames
  <1>6. field \in [Objects -> Objects \cup {0}] /\ c \in Made \cup {0} /\ 0 \notin Objects
    BY <1>0, <1>3 DEF Bindings, Objects
  <1>7. ASSUME NEW q \in Made
        PROVE  Total(q)' = IF q = c THEN Total(q) - 1 ELSE Total(q)
    <2>1. q \in Objects /\ Cardinality(Refs(q)) \in Nat /\ q # 0
      BY <1>0, <1>6, IdTypes, RefsAreFinite
    <2>2. held[q] \in Nat /\ held'[q] = held[q]
      BY <1>0, <1>1, <2>1 DEF Bindings
    <2>3. Cardinality(Refs(q)') = IF q = 0 /\ q # c THEN Cardinality(Refs(q)) + 1
                                  ELSE IF q # 0 /\ q = c THEN Cardinality(Refs(q)) - 1
                                  ELSE Cardinality(Refs(q))
      <3>1. /\ TypeOK /\ o \in Made /\ freed[o] = 0 /\ field' = [field EXCEPT ![o] = 0]
            /\ UNCHANGED <<made, freed>>
        BY <1>0, <1>1, <1>2, <1>4
      <3> HIDE DEF o
      <3> QED BY <3>1, FieldStored
    <2>4. Total(q)' = held'[q] + Cardinality(Refs(q)') /\ Total(q) = held[q] + Cardinality(Refs(q))
      BY DEF Total
    <2> HIDE DEF c
    <2> QED BY <2>1, <2>2, <2>3, <2>4
  <1>8. UnmadeAreEmpty'
    BY <1>1, <1>2, <1>6 DEF Counted, UnmadeAreEmpty, Made
  <1>9. \A k \in 1 .. n :
           /\ CopiedSelf(frames[k]) => CopiedSelf(below[k])
           /\ below[k].phase = "free" => field'[below[k].obj] = 0
    <2> SUFFICES ASSUME NEW k \in 1 .. n
                 PROVE  /\ CopiedSelf(frames[k]) => CopiedSelf(below[k])
                        /\ below[k].phase = "free" => field'[below[k].obj] = 0
      OBVIOUS
    <2>1. frames[k].phase = "free" => field[frames[k].obj] = 0
      BY DEF Counted, FieldsAreReleased
    <2>2. frames[k].obj \in Objects
      BY <1>0, IdTypes DEF FramesOK
    <2>3. field'[o] = 0 /\ \A q \in Objects : field[q] = 0 => field'[q] = 0
      BY <1>1, <1>3, <1>6
    <2>4. below[n] = f /\ (k # n => below[k] = frames[k])
      <3> HIDE DEF f
      <3> QED BY <1>2
    <2> HIDE DEF below, f
    <2>5. CASE k = n
      BY <1>1, <1>2, <1>3, <2>3, <2>4, <2>5 DEF CopiedSelf
    <2>6. CASE k # n
      BY <2>1, <2>2, <2>3, <2>4, <2>6
    <2> QED BY <2>5, <2>6
  <1>10. CASE c = 0
    <2>1. frames' = below /\ UNCHANGED <<slots, ran, invalid>>
      BY <1>1, <1>10 DEF ReleaseFields
    <2>2. \A q \in Made : Total(q)' = Total(q)
      BY <1>0, <1>6, <1>7, <1>10, IdTypes
    <2>3. \A k \in 1 .. n : below[k].obj = frames[k].obj
      BY <1>5 DEF SameFrames
    <2> HIDE DEF below
    <2>4. Counted'
      BY <1>1, <1>5, <1>8, <1>9, <2>1, <2>2, <2>3, SameTotalsKeepCounts
    <2> QED BY <1>1, <2>1, <2>4
  <1>11. CASE c # 0
    <2>1. c \in Made /\ c \in Objects /\ o \in Refs(c)
      BY <1>0, <1>2, <1>4, <1>6, <1>11, IdTypes DEF Refs
    <2>2. Total(c) > 0 /\ Slot(made[c])
      BY <1>0, <2>1, TotalIsNat, ReferencedHaveSlots
    <2>3. /\ slots' = release(slots, made[c]) /\ invalid' = FALSE
          /\ frames' = IF last(slots, made[c]) THEN Append(below, Frame(c)) ELSE below
          /\ ran' = IF last(slots, made[c]) THEN [ran EXCEPT ![c] = @ + 1] ELSE ran
      BY <1>1, <1>11, <2>2 DEF ReleaseFields
    <2> HIDE DEF below, c
    <2>4. Counted'
      BY <1>1, <1>5, <1>7, <1>8, <1>9, <2>1, <2>2, <2>3, ReleaseKeepsCounts
    <2> QED BY <2>3, <2>4
  <1> QED BY <1>10, <1>11

(* The object that is freed holds nothing, and nothing holds it.           *)
LEMMA FinishCounts ==
    ASSUME LifeInv, Counted, finish_destroy
    PROVE  invalid' = FALSE /\ Counted'
  <1>o. PICK o : o = Top.obj
    OBVIOUS
  <1> DEFINE n == Len(frames)
             i == made[o].index
  <1>0. /\ TypeOK /\ invalid \in BOOLEAN /\ FramesOK /\ Bindings /\ FramesOwnSlots /\ RanOnce
        /\ SlotsKnown
    BY Parts DEF LifeInv, TableInv, TypeOK, Lifetimes, Table
  <1>1. /\ frames # <<>> /\ invalid = FALSE /\ Top.phase = "free"
        /\ UNCHANGED <<made, held, field, ran>>
        /\ freed' = [freed EXCEPT ![o] = @ + 1]
        /\ frames' = SubSeq(frames, 1, n - 1)
    BY <1>0, <1>o DEF finish_destroy
  <1>2. /\ n \in 1 .. n /\ n \in Nat /\ o \in Made /\ o \in Objects /\ frames[n] = Top
        /\ frames[n].obj = o /\ BeingDestroyed(o)
    BY <1>0, <1>1, <1>o, TopFrame, IdTypes DEF Top, FramesOK, BeingDestroyed
  <1>3. Slot(made[o]) /\ slots[i].destroying /\ ran[o] = 1 /\ i \in 1 .. Len(slots)
    BY <1>0, <1>2, FramesHaveSlots, IdTypes DEF SlotOf
  <1>4. slots[i].address = o
    BY <1>2, <1>3, LiveIdNamesItsObject DEF LifeInv
  <1>5. Total(o) = 0 /\ field[o] = 0
    BY <1>1, <1>2, FreeingIsOver DEF Counted, FieldsAreReleased
  <1>6. /\ invalid' = FALSE
        /\ slots' = [slots EXCEPT ![i].destroying = FALSE, ![i].generation = NextGeneration(@)]
    <2>1. Slot(made[Top.obj]) /\ slots[made[Top.obj].index].destroying /\ i = made[Top.obj].index
      BY <1>3, <1>o
    <2>2. /\ slots' = [slots EXCEPT ![made[Top.obj].index].destroying = FALSE,
                                    ![made[Top.obj].index].generation = NextGeneration(@)]
          /\ invalid' = invalid
      BY <2>1 DEF finish_destroy
    <2> QED BY <1>1, <2>1, <2>2
  <1>7. \A j \in 1 .. Len(slots) : j # i => slots'[j] = slots[j]
    <2>1. slots \in Seq(SlotRec)
      BY <1>0 DEF TypeOK, SlotRec
    <2> QED BY <1>3, <1>6, <2>1
  <1>8. ASSUME NEW q \in Made
        PROVE  Total(q)' = Total(q)
    <2>1. q \in Objects /\ q # 0
      BY <1>0, IdTypes DEF Objects
    <2>2. \A r \in Made : r \in Objects
      BY <1>0, IdTypes
    <2>3. \A r \in Made : r # o => freed'[r] = freed[r]
      BY <1>0, <1>1, <2>2 DEF TypeOK
    <2>4. Refs(q)' = {r \in Made : field[r] = q /\ freed'[r] = 0}
      BY <1>1 DEF Refs, Made
    <2>5. Refs(q)' = Refs(q)
      BY <1>5, <2>1, <2>3, <2>4 DEF Refs
    <2> QED BY <1>1, <2>5 DEF Total
  <1>9. LiveAreCounted'
    <2>1. ASSUME NEW q \in Made, ran[q] = 0
          PROVE  SlotOf(q)'.strong = Total(q)'
      <3>1. /\ made[q].index \in 1 .. Len(slots) /\ SlotOf(q).strong = Total(q)
            /\ SlotOf(q).address = q
        BY <1>0, <2>1, IdTypes DEF Counted, LiveAreCounted, RanOnce
      <3>2. made[q].index # i
        BY <1>3, <1>4, <2>1, <3>1 DEF SlotOf
      <3>3. SlotOf(q)' = SlotOf(q)
        BY <1>1, <1>7, <3>1, <3>2 DEF SlotOf
      <3> QED BY <1>8, <3>1, <3>3
    <2> QED BY <1>1, <2>1 DEF LiveAreCounted, Made
  <1>10. Len(frames') = n - 1 /\ \A k \in 1 .. n - 1 : frames'[k] = frames[k] /\ k \in 1 .. n
    <2>1. Len(frames') = n - 1 /\ \A k \in 1 .. n - 1 : frames'[k] = frames[k]
      BY <1>0, <1>1, Pop DEF FramesOK
    <2>2. \A k \in 1 .. n - 1 : k \in 1 .. n
      <3> HIDE DEF n
      <3> QED BY <1>2
    <2> QED BY <2>1, <2>2
  <1>11. DyingAreUnreferenced'
    <2>1. ASSUME NEW q \in Made, ran[q] = 1, Total(q) > 0
          PROVE  \E k \in 1 .. Len(frames') : frames'[k].obj = q /\ CopiedSelf(frames'[k])
      <3>1. PICK k \in 1 .. n : frames[k].obj = q /\ CopiedSelf(frames[k])
        BY <2>1 DEF Counted, DyingAreUnreferenced
      <3>2. q # o
        BY <1>5, <2>1
      <3>3. k # n
        BY <1>2, <3>1, <3>2
      <3>4. k \in 1 .. n - 1
        <4> HIDE DEF n
        <4> QED BY <1>2, <3>3
      <3> QED BY <1>10, <3>1, <3>4
    <2>2. \A q \in Made : ran'[q] = 1 /\ Total(q)' > 0 =>
             \E k \in 1 .. Len(frames') : frames'[k].obj = q /\ CopiedSelf(frames'[k])
      BY <1>1, <1>8, <2>1
    <2> QED BY <1>1, <2>2 DEF DyingAreUnreferenced, Made, CopiedSelf
  <1>12. FieldsAreReleased'
    BY <1>1, <1>10 DEF Counted, FieldsAreReleased
  <1>13. UnmadeAreEmpty'
    BY <1>1 DEF Counted, UnmadeAreEmpty, Made
  <1> QED BY <1>6, <1>9, <1>11, <1>12, <1>13 DEF Counted

(* A new object is held by the binding it was made for.                    *)
LEMMA NewCounts ==
    ASSUME LifeInv, Counted, New
    PROVE  invalid' = FALSE /\ Counted'
  <1>o. PICK o : o = Len(made) + 1
    OBVIOUS
  <1>0. TypeOK /\ invalid \in BOOLEAN /\ FramesOK /\ Bindings /\ RanOnce
    BY Parts DEF LifeInv, TableInv, TypeOK, Lifetimes
  <1>1. /\ invalid' = FALSE /\ UNCHANGED <<field, frames, ran, freed>>
        /\ held' = [held EXCEPT ![o] = 1]
    BY <1>0, <1>o DEF New, InUserCode
  <1>2. /\ o \in Objects /\ o \notin Made /\ Made' = Made \cup {o}
        /\ SlotOf(o)'.strong = 1
        /\ \A q \in Made : SlotOf(q)' = SlotOf(q) \/ Dead(SlotOf(q))
    BY <1>o, NewFills
  <1>3. ran[o] = 0 /\ field[o] = 0 /\ o # 0
    BY <1>0, <1>2 DEF RanOnce, Counted, UnmadeAreEmpty, Objects
  <1>4. \A q \in Made : Refs(q)' = Refs(q)
    <2>1. \A q \in Made : q # 0
      BY DEF Made
    <2>2. \A q : Refs(q)' = {p \in Made' : field[p] = q /\ freed[p] = 0}
      BY <1>1 DEF Refs
    <2> QED BY <1>2, <1>3, <2>1, <2>2 DEF Refs
  <1>5. Refs(o)' = {}
    <2>1. \A p \in Made : field[p] # o
      BY <1>0, <1>2, <1>3, IdTypes DEF Bindings
    <2> QED BY <1>1, <1>2, <1>3, <2>1 DEF Refs
  <1>6. Total(o)' = 1 /\ \A q \in Made : Total(q)' = Total(q)
    <2>1. \A q \in Made : q \in Objects
      BY <1>0, IdTypes
    <2>2. held'[o] = 1 /\ \A q \in Made : held'[q] = held[q]
      BY <1>0, <1>1, <1>2, <2>1 DEF Bindings
    <2> QED BY <1>4, <1>5, <2>2, FS_EmptySet DEF Total
  <1>7. LiveAreCounted'
    <2>1. ASSUME NEW q \in Made, ran[q] = 0
          PROVE  SlotOf(q)'.strong = Total(q)'
      <3>1. SlotOf(q).strong > 0 /\ SlotOf(q).strong = Total(q)
        BY <1>0, <2>1 DEF RanOnce, Counted, LiveAreCounted
      <3>2. SlotOf(q)' = SlotOf(q)
        BY <1>2, <3>1 DEF Dead
      <3> QED BY <1>6, <3>1, <3>2
    <2>2. SlotOf(o)'.strong = Total(o)'
      BY <1>2, <1>6
    <2> QED BY <1>1, <1>2, <2>1, <2>2 DEF LiveAreCounted
  <1>8. DyingAreUnreferenced'
    <2>1. ASSUME NEW q \in Made', ran[q] = 1, Total(q)' > 0
          PROVE  \E k \in 1 .. Len(frames) : frames[k].obj = q /\ CopiedSelf(frames[k])
      <3>1. q \in Made /\ Total(q) > 0
        BY <1>2, <1>3, <1>6, <2>1
      <3> QED BY <2>1, <3>1 DEF Counted, DyingAreUnreferenced
    <2>2. \A q \in Made' : ran'[q] = 1 /\ Total(q)' > 0 =>
             \E k \in 1 .. Len(frames') : frames'[k].obj = q /\ CopiedSelf(frames'[k])
      BY <1>1, <2>1
    <2> QED BY <2>2 DEF DyingAreUnreferenced, CopiedSelf
  <1>9. FieldsAreReleased'
    BY <1>1 DEF Counted, FieldsAreReleased
  <1>10. UnmadeAreEmpty'
    BY <1>1, <1>2 DEF Counted, UnmadeAreEmpty
  <1> QED BY <1>1, <1>7, <1>8, <1>9, <1>10 DEF Counted

LEMMA CountStep ==
    ASSUME CountInv, [Next]_vars
    PROVE  RefInv'
  <1>0. LifeInv /\ RefInv /\ escaped \in BOOLEAN /\ invalid \in BOOLEAN /\ ended \in BOOLEAN
    BY DEF CountInv, LifeInv, TableInv, TypeOK
  <1>1. CASE UNCHANGED vars
    BY <1>0, <1>1 DEF vars, RefInv, Counted, UnmadeAreEmpty, LiveAreCounted,
                      DyingAreUnreferenced, FieldsAreReleased, Total, Refs, Made, SlotOf,
                      CopiedSelf
  <1>2. CASE escaped = TRUE /\ Next
    <2>1. escaped' = TRUE
      BY <1>2 DEF Next, New, Copy, Drop, assign_place, EndDestructor, ReleaseFields,
                  finish_destroy, run_in_fresh_core
    <2> QED BY <2>1 DEF RefInv
  <1>3. CASE escaped = FALSE /\ Next
    <2>1. ended = FALSE
      <3>1. ended = TRUE => frames = <<>>
        BY <1>0 DEF LifeInv, Lifetimes, FreedWhenDone
      <3> QED BY <1>0, <1>3, <3>1 DEF Next, New, Copy, Drop, assign_place, EndDestructor,
                                   ReleaseFields, finish_destroy, run_in_fresh_core, InUserCode
    <2>2. Counted /\ invalid = FALSE
      BY <1>0, <1>3, <2>1 DEF RefInv
    <2>3. CASE New
      BY <1>0, <2>2, <2>3, NewCounts DEF RefInv
    <2>4. ASSUME NEW o \in Objects, Copy(o) \/ Drop(o)
          PROVE  RefInv'
      BY <1>0, <2>2, <2>4, CopyCounts, DropCounts DEF RefInv
    <2>5. ASSUME NEW p \in Objects, NEW o \in Objects \cup {0}, assign_place(p, o)
          PROVE  RefInv'
      BY <1>0, <2>2, <2>5, AssignCounts DEF RefInv
    <2>6. CASE EndDestructor
      BY <1>0, <2>2, <2>6, EndDestructorCounts DEF RefInv
    <2>7. CASE ReleaseFields
      BY <1>0, <2>2, <2>7, ReleaseFieldsCounts DEF RefInv
    <2>8. CASE finish_destroy
      BY <1>0, <2>2, <2>8, FinishCounts DEF RefInv
    <2>9. CASE run_in_fresh_core
      BY <2>2, <2>9 DEF run_in_fresh_core, RefInv
    <2> QED BY <1>3, <2>3, <2>4, <2>5, <2>6, <2>7, <2>8, <2>9 DEF Next
  <1> QED BY <1>0, <1>1, <1>2, <1>3

(* The inductive invariant of the reference-counting core.                 *)
THEOREM CountsHold ==
    ASSUME EnoughGenerations
    PROVE  Spec => []CountInv
  <1>1. Init => CountInv
    <2> SUFFICES ASSUME Init PROVE CountInv
      OBVIOUS
    <2>1. LifeInv
      BY InitLife
    <2>2. Len(made) = 0 /\ Len(frames) = 0 /\ invalid = FALSE /\ \A o \in Objects : field[o] = 0
      BY DEF Init
    <2>3. Counted
      BY <2>2 DEF Counted, UnmadeAreEmpty, LiveAreCounted, DyingAreUnreferenced,
                  FieldsAreReleased, Made
    <2> QED BY <2>1, <2>2, <2>3 DEF CountInv, RefInv
  <1>2. CountInv /\ [Next]_vars => CountInv'
    BY TableStep, LifeStep, CountStep DEF LifeInv, CountInv
  <1> QED BY <1>1, <1>2, PTL DEF Spec

(* The strong count of every live object is the number of bindings and     *)
(* strong fields that hold it, until a destructor lets SELF escape (retain *)
(* and release; what verify_arc asks when a program ends).                 *)
THEOREM CountsAreReferences ==
    ASSUME EnoughGenerations
    PROVE  Spec => []CountsMatchReferences
  <1>1. CountInv => CountsMatchReferences
    <2> SUFFICES ASSUME CountInv, ~escaped, ~invalid, ~ended,
                        NEW i \in 1 .. Len(slots), slots[i].strong > 0
                 PROVE  slots[i].strong = held[slots[i].address] +
                           Cardinality({p \in Made : field[p] = slots[i].address /\ freed[p] = 0})
      BY DEF CountsMatchReferences
    <2>1. Counted /\ RanOnce /\ SlotsKnown
      BY DEF CountInv, RefInv, LifeInv, Lifetimes, TableInv, Table
    <2>2. slots[i].address \in Made /\ SlotOf(slots[i].address) = slots[i]
      BY <2>1 DEF SlotsKnown, SlotOf
    <2>3. ran[slots[i].address] = 0
      BY <2>1, <2>2 DEF RanOnce
    <2>4. slots[i].strong = Total(slots[i].address)
      BY <2>1, <2>2, <2>3 DEF Counted, LiveAreCounted
    <2> QED BY <2>4 DEF Total, Refs
  <1> QED BY <1>1, CountsHold, PTL

(* The core never refuses a retain, a release or a finish_destroy, unless  *)
(* a destructor has let SELF escape (ArcError::NotAlive).                  *)
THEOREM OnlyEscapeBreaks ==
    ASSUME EnoughGenerations
    PROVE  Spec => []OnlyEscapedSelfBreaks
  <1>1. CountInv => OnlyEscapedSelfBreaks
    BY DEF CountInv, RefInv, OnlyEscapedSelfBreaks
  <1> QED BY <1>1, CountsHold, PTL
=============================================================================
