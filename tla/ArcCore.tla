------------------------------- MODULE ArcCore -------------------------------
(***************************************************************************)
(* The reference-counting core of the runtime (crates/bn_rt/src/arc.rs)    *)
(* with the two callers that drive it: the interpreter's ownership         *)
(* operations (crates/bn_interp/src/executor/ownership.rs) and the end of  *)
(* a task's core in compiled programs (arc_abi.rs, run_in_fresh_core).     *)
(*                                                                         *)
(* An object is named by its id, a slot index and the slot's generation.   *)
(* The generation has a fixed width, so finish_destroy wraps it.  Objects  *)
(* carry one strong field, enough for chains and cycles; a destruction may *)
(* start others, so the running destructors form a stack.                  *)
(*                                                                         *)
(* Objects are numbered in the order they are made; the number stands for  *)
(* the address the core keeps, and is never seen by its operations.        *)
(***************************************************************************)
EXTENDS Naturals, Sequences, FiniteSets

CONSTANTS
    MaxObjects,  \* bound: objects one behaviour makes
    MaxStrong,   \* bound: bindings that hold one object
    GenMod,      \* generations are taken modulo this (2^32 in the code)
    FirstGen     \* the generation with_first_generation is given

ASSUME ArcConstants ==
    /\ MaxObjects \in Nat \ {0}
    /\ MaxStrong \in Nat \ {0}
    /\ GenMod \in Nat /\ GenMod >= 2
    /\ FirstGen \in 0 .. GenMod - 1

VARIABLES
    slots,    \* ArcCore.slots
    free,     \* ArcCore.free, a stack
    made,     \* the id each object was given, in order
    held,     \* how many bindings hold each object
    field,    \* the strong field of each object, 0 for NULL
    frames,   \* the destructions under way, innermost last
    ran,      \* how many destructions of each object were started
    freed,    \* how many times each object's memory was released
    escaped,  \* a DESTRUCTOR has left SELF in a binding or a field
    invalid,  \* an ARC operation failed with NotAlive (INVALID_IR)
    ended     \* the program has returned

vars == <<slots, free, made, held, field, frames, ran, freed, escaped, invalid, ended>>

Objects == 1 .. MaxObjects
Generations == 0 .. GenMod - 1
Phases == {"destructor", "fields", "free"}

Made == 1 .. Len(made)
Id(index, generation) == [index |-> index, generation |-> generation]

(***************************************************************************)
(* The core's reads.                                                       *)
(***************************************************************************)
\* slot: the slot of a live object, or of one whose destructor is running.
Slot(id) ==
    /\ id.index \in 1 .. Len(slots)
    /\ slots[id.index].generation = id.generation
    /\ \/ slots[id.index].strong > 0
       \/ slots[id.index].destroying

\* alive: what a weak binding asks before it reads.
Alive(id) ==
    /\ id.index \in 1 .. Len(slots)
    /\ slots[id.index].generation = id.generation
    /\ slots[id.index].strong > 0

\* with_first_generation: zero is never a generation.
first_generation == IF FirstGen = 0 THEN 1 ELSE FirstGen

\* The next generation of a slot: wrapping_add(1).max(1).
NeverAdvances(generation) == generation

NextGeneration(generation) ==
    LET wrapped == (generation + 1) % GenMod
    IN  IF wrapped = 0 THEN 1 ELSE wrapped

\* live_addresses: the objects the end of the program frees.
CountsDestroying == {slots[i].address : i \in 1 .. Len(slots)}

live_addresses ==
    {slots[i].address : i \in {j \in 1 .. Len(slots) : slots[j].strong > 0}}

(***************************************************************************)
(* The core's operations, on the slots a caller passes: each is used by    *)
(* several actions, and an action may apply two in order.                  *)
(***************************************************************************)
\* retain: one more, unless the object is being destroyed (frozen).
RetainNothing(s, id) == s

retain(s, id) ==
    IF s[id.index].destroying THEN s
    ELSE [s EXCEPT ![id.index].strong = @ + 1]

\* Whether this release is the last.
last(s, id) == ~s[id.index].destroying /\ s[id.index].strong = 1

\* release: one fewer; the last starts the destruction.
release(s, id) ==
    IF s[id.index].destroying THEN s
    ELSE [s EXCEPT ![id.index].strong = @ - 1,
                   ![id.index].destroying = last(s, id)]

(***************************************************************************)
(* The program.  Its code runs when no destruction is under way, or in the *)
(* DESTRUCTOR of the innermost one.                                        *)
(***************************************************************************)
Top == frames[Len(frames)]
InUserCode ==
    /\ ~invalid /\ ~ended
    /\ frames # <<>> => Top.phase = "destructor"

Self(o) == frames # <<>> /\ Top.phase = "destructor" /\ Top.obj = o

\* The values an expression of the running code can name.
Reach(o) == o \in Made /\ (held[o] > 0 \/ Self(o))

\* A destruction that starts; copied: its destructor made a reference to SELF.
Frame(o) == [obj |-> o, phase |-> "destructor", copied |-> FALSE]

\* What a destruction of o started by a release adds to the stack.
Destroy(o) ==
    /\ frames' = Append(frames, Frame(o))
    /\ ran' = [ran EXCEPT ![o] = @ + 1]

\* The release of one reference to o: NotAlive is a broken
\* invariant, the last reference runs destroy_object.
ReleaseRef(o) ==
    \/ /\ ~Slot(made[o])
       /\ invalid' = TRUE
       /\ UNCHANGED <<slots, frames, ran>>
    \/ /\ Slot(made[o])
       /\ slots' = release(slots, made[o])
       /\ IF last(slots, made[o]) THEN Destroy(o) ELSE UNCHANGED <<frames, ran>>
       /\ UNCHANGED invalid

Init ==
    /\ slots = <<>> /\ free = <<>> /\ made = <<>>
    /\ held = [o \in Objects |-> 0]
    /\ field = [o \in Objects |-> 0]
    /\ frames = <<>>
    /\ ran = [o \in Objects |-> 0]
    /\ freed = [o \in Objects |-> 0]
    /\ escaped = FALSE /\ invalid = FALSE /\ ended = FALSE

\* NEW: register pops a free slot, or pushes one.
New ==
    /\ InUserCode /\ Len(made) < MaxObjects
    /\ LET o == Len(made) + 1
           fresh(g) == [generation |-> g, strong |-> 1,
                        destroying |-> FALSE, address |-> o]
       IN  /\ held' = [held EXCEPT ![o] = 1]
           /\ \/ /\ free # <<>>
                 /\ LET i == free[Len(free)] IN
                    /\ slots' = [slots EXCEPT ![i] = fresh(@.generation)]
                    /\ made' = Append(made, Id(i, slots[i].generation))
                 /\ free' = SubSeq(free, 1, Len(free) - 1)
              \/ /\ free = <<>>
                 /\ slots' = Append(slots, fresh(first_generation))
                 /\ made' = Append(made, Id(Len(slots) + 1, first_generation))
                 /\ UNCHANGED free
    /\ UNCHANGED <<field, frames, ran, freed, escaped, invalid, ended>>

\* A borrowed value is stored in one more binding: retain_owned_value.
Copy(o) ==
    /\ InUserCode /\ Reach(o) /\ held[o] < MaxStrong
    /\ \/ /\ Slot(made[o])
          /\ slots' = retain(slots, made[o])
          /\ held' = [held EXCEPT ![o] = @ + 1]
          /\ UNCHANGED invalid
       \/ /\ ~Slot(made[o])
          /\ invalid' = TRUE
          /\ UNCHANGED <<slots, held>>
    /\ frames' = IF Self(o) THEN [frames EXCEPT ![Len(frames)].copied = TRUE] ELSE frames
    /\ UNCHANGED <<free, made, field, ran, freed, escaped, ended>>

\* A binding ends or is reassigned: release_owned_value.
Drop(o) ==
    /\ InUserCode /\ o \in Made /\ held[o] > 0
    /\ held' = [held EXCEPT ![o] = @ - 1]
    /\ ReleaseRef(o)
    /\ UNCHANGED <<free, made, field, freed, escaped, ended>>

\* p.field = o (o = 0 is NULL): the store consumes an owned reference to o,
\* which a borrowed value's Copy made, and releases the previous content.
KeepsPrevious(p, o) ==
    /\ InUserCode /\ Reach(p) /\ freed[p] = 0
    /\ o # 0 => o \in Made /\ held[o] > (IF p = o /\ ~Self(p) THEN 1 ELSE 0)
    /\ field' = [field EXCEPT ![p] = o]
    /\ held' = IF o = 0 THEN held ELSE [held EXCEPT ![o] = @ - 1]
    /\ UNCHANGED <<slots, free, made, frames, ran, freed, escaped, invalid, ended>>

assign_place(p, o) ==
    /\ InUserCode /\ Reach(p) /\ freed[p] = 0
    /\ o # 0 => o \in Made /\ held[o] > (IF p = o /\ ~Self(p) THEN 1 ELSE 0)
    /\ field' = [field EXCEPT ![p] = o]
    /\ held' = IF o = 0 THEN held ELSE [held EXCEPT ![o] = @ - 1]
    /\ IF field[p] = 0 THEN UNCHANGED <<slots, frames, ran, invalid>>
       ELSE ReleaseRef(field[p])
    /\ UNCHANGED <<free, made, freed, escaped, ended>>

(***************************************************************************)
(* destroy_object: the destructor chain, the field release, the free.      *)
(***************************************************************************)
SetPhase(p) == frames' = [frames EXCEPT ![Len(frames)].phase = p]

\* References to o that are still somewhere.
Kept(o) == held[o] > 0 \/ \E p \in Made : field[p] = o /\ freed[p] = 0

\* DESTRUCTOR returns: its own bindings have ended, so SELF is left in one
\* only if the destructor stored it where it outlives the call.
EndDestructor ==
    /\ ~invalid /\ frames # <<>> /\ Top.phase = "destructor"
    /\ SetPhase("fields")
    /\ escaped' = (escaped \/ (Top.copied /\ Kept(Top.obj)))
    /\ UNCHANGED <<slots, free, made, held, field, ran, freed, invalid, ended>>

\* Class.$release: take the strong field, release what it held.
ReleaseFields ==
    /\ ~invalid /\ frames # <<>> /\ Top.phase = "fields"
    /\ LET o == Top.obj
           below == [frames EXCEPT ![Len(frames)].phase = "free"]
           c == field[o]
       IN  /\ field' = [field EXCEPT ![o] = 0]
           /\ \/ /\ c = 0
                 /\ frames' = below
                 /\ UNCHANGED <<slots, ran, invalid>>
              \/ /\ c # 0 /\ ~Slot(made[c])
                 /\ invalid' = TRUE
                 /\ UNCHANGED <<slots, frames, ran>>
              \/ /\ c # 0 /\ Slot(made[c])
                 /\ slots' = release(slots, made[c])
                 /\ frames' = IF last(slots, made[c])
                              THEN Append(below, Frame(c))
                              ELSE below
                 /\ ran' = IF last(slots, made[c]) THEN [ran EXCEPT ![c] = @ + 1] ELSE ran
                 /\ UNCHANGED invalid
    /\ UNCHANGED <<free, made, held, freed, escaped, ended>>

\* finish_destroy, after the storage is removed: the slot is free for a
\* later object under its next generation.
finish_destroy ==
    /\ ~invalid /\ frames # <<>> /\ Top.phase = "free"
    /\ LET id == made[Top.obj] IN
       /\ freed' = [freed EXCEPT ![Top.obj] = @ + 1]
       /\ IF Slot(id) /\ slots[id.index].destroying
          THEN /\ slots' = [slots EXCEPT ![id.index].destroying = FALSE,
                                         ![id.index].generation = NextGeneration(@)]
               /\ free' = Append(free, id.index)
               /\ UNCHANGED invalid
          ELSE invalid' = TRUE /\ UNCHANGED <<slots, free>>
    /\ frames' = SubSeq(frames, 1, Len(frames) - 1)
    /\ UNCHANGED <<made, held, field, ran, escaped, ended>>

\* run_in_fresh_core: the program returned; what its core still holds is
\* freed with no destructor.
run_in_fresh_core ==
    /\ ~invalid /\ ~ended /\ frames = <<>>
    /\ ended' = TRUE
    /\ freed' = [o \in Objects |-> IF o \in live_addresses THEN freed[o] + 1 ELSE freed[o]]
    /\ UNCHANGED <<slots, free, made, held, field, frames, ran, escaped, invalid>>

Next ==
    \/ New
    \/ \E o \in Objects : Copy(o) \/ Drop(o)
    \/ \E p \in Objects, o \in Objects \cup {0} : assign_place(p, o)
    \/ EndDestructor
    \/ ReleaseFields
    \/ finish_destroy
    \/ run_in_fresh_core

Spec == Init /\ [][Next]_vars

(***************************************************************************)
(* Properties.                                                             *)
(***************************************************************************)
\* The types of the core's fields.
TypeOK ==
    /\ slots \in Seq([generation : Generations, strong : Nat,
                      destroying : BOOLEAN, address : Objects])
    /\ free \in Seq(1 .. Len(slots))
    /\ made \in Seq([index : 1 .. Len(slots), generation : Generations])
    /\ Len(made) <= MaxObjects
    /\ held \in [Objects -> Nat]
    /\ field \in [Objects -> Objects \cup {0}]
    /\ frames \in Seq([obj : Objects, phase : Phases, copied : BOOLEAN])
    /\ ran \in [Objects -> Nat]
    /\ freed \in [Objects -> Nat]
    /\ escaped \in BOOLEAN /\ invalid \in BOOLEAN /\ ended \in BOOLEAN

\* The free stack names exactly the slots that hold no object, each once:
\* what register pops is never a slot in use.
FreeIsDead ==
    /\ \A i, j \in 1 .. Len(free) : free[i] = free[j] => i = j
    /\ \A i \in 1 .. Len(slots) :
          (\E j \in 1 .. Len(free) : free[j] = i)
              <=> (slots[i].strong = 0 /\ ~slots[i].destroying)

\* An id a weak binding kept reads its own object or NULL, never a later
\* object that took the slot (arc.rs, alive and address).
OldIdsStayDead ==
    \A o \in Made : Alive(made[o]) => slots[made[o].index].address = o

\* The strong count of a live object is the number of bindings and strong
\* fields that hold it, what verify_arc checks when a program ends, here at
\* every step, as long as no destructor has let SELF escape.
CountsMatchReferences ==
    ~escaped /\ ~invalid /\ ~ended =>
        \A i \in 1 .. Len(slots) :
            LET o == slots[i].address IN
            slots[i].strong > 0 =>
                slots[i].strong = held[o] + Cardinality({p \in Made : field[p] = o /\ freed[p] = 0})

\* No program makes the core refuse an operation (arc.rs, ArcError: "Never a
\* program error the user can cause"), but for one whose DESTRUCTOR let SELF
\* escape: its count was frozen, so the reference was never counted.
OnlyEscapedSelfBreaks == invalid => escaped

\* Each destruction runs once, and the memory of every object is released
\* once: by its destruction or, if the program leaves it alive, by the end
\* of the task, never by both and never by neither.
FreedExactlyOnce ==
    /\ \A o \in Objects : ran[o] <= 1 /\ freed[o] <= 1
    /\ ended => \A o \in Made : freed[o] = 1
=============================================================================
