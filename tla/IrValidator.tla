----------------------------- MODULE IrValidator -----------------------------
(***************************************************************************)
(* The validator of the intermediate representation and what it promises   *)
(* about running the functions it accepts: crates/bn_ir/src/validate.rs,   *)
(* validate/ownership.rs and validate/operands.rs, and the loop of the     *)
(* interpreter (crates/bn_interp/src/executor/part1.rs).                   *)
(*                                                                         *)
(* validate first follows the ownership of one function's values breadth   *)
(* first, visiting every block once; then it checks that every value has   *)
(* one definition, computes the values defined on every path to a block,   *)
(* and checks every operand against them.  The function is not fixed       *)
(* beforehand: an instruction is chosen when the validator first reads it, *)
(* so every function within the bounds is validated, and run if accepted.  *)
(*                                                                         *)
(* Left out: types beyond the three classes below (their checks reject     *)
(* more), blocks that no path reaches (they are never run), and an         *)
(* instruction's operands beyond one.  Blocks are numbered in the order in *)
(* which the queue of the visit receives them, so the queue holds the      *)
(* blocks after `cur` up to `found`.                                       *)
(***************************************************************************)
EXTENDS Integers, Sequences, FiniteSets

CONSTANTS Strings,    \* values of a STRING type: counted, and a phi may carry them
          Objects,    \* values of the other ARC types: no phi may carry them
          None,       \* no value
          MaxBlocks,  \* bound: blocks of a function
          MaxSize,    \* bound: instructions of a function
          MaxReads,   \* bound: instructions of a function that only read an operand
          Ops         \* bound: the kinds of instruction of a function

ASSUME IrConstants ==
    /\ None \notin Strings \cup Objects /\ Strings \cap Objects = {}
    /\ MaxBlocks \in Nat \ {0} /\ MaxSize \in Nat /\ MaxReads \in Nat

VARIABLES
    phase,        \* of validate, then of the run
    code,         \* the function as far as it has been read
    size,         \* instructions read
    entry_state,  \* owned and consumed values on entry to each block found
    found,        \* the last block put into the queue
    cur,          \* the block being visited, the last one taken from it
    scan,         \* per visited block: the state before each instruction, and after the last
    incoming,     \* values defined on every path to a block
    outgoing,     \* and after it
    swept,        \* the last block the sweep in progress has updated
    changed,      \* the sweep changed something
    run           \* the running function

validating == <<code, size, entry_state, found, cur, scan>>
flowing == <<incoming, outgoing, swept, changed>>
vars == <<phase, validating, flowing, run>>

Blocks == 1 .. MaxBlocks
Entry == 1
Missing == 0   \* the number of no block

Arc == Strings \cup Objects

(***************************************************************************)
(* Instructions, by what they do to references:                            *)
(*   make     Allocate, Call, Default, Take, a new STRING: an owned value  *)
(*   retain   a new reference to `use`                                     *)
(*   load     Load, Constant, Member...: a value without a reference       *)
(*   read     Print, a weak store...: `use` is read                        *)
(*   release  the reference of `use` is given up                           *)
(*   store    `use` moves to a place, whose previous content is `def`      *)
(*   phi      `def` is the value of the predecessor the run comes from     *)
(***************************************************************************)
Plainly(op, v, u) == [op |-> op, def |-> v, use |-> u, inc |-> << >>]

PhisOf(class) ==
    UNION {{[op |-> "phi", def |-> v, use |-> None, inc |-> f] : v \in class, f \in [P -> class]} :
              P \in SUBSET Blocks}

AnyInstruction ==
    UNION {{Plainly("make", v, None) : v \in Arc},
           {Plainly("retain", v, u) : v \in Strings, u \in Strings},
           {Plainly("retain", v, u) : v \in Objects, u \in Objects},
           {Plainly("load", v, None) : v \in Arc},
           {Plainly("read", None, u) : u \in Arc},
           {Plainly("release", None, u) : u \in Arc},
           {Plainly("store", v, u) : v \in Arc \cup {None}, u \in Arc},
           PhisOf(Strings), PhisOf(Objects)}

Instructions == {i \in AnyInstruction : i.op \in Ops}

Terminators ==
    UNION {{[op |-> "return", val |-> v, targets |-> << >>] : v \in Arc \cup {None}},
           {[op |-> "stop", val |-> None, targets |-> << >>]},
           {[op |-> "jump", val |-> None, targets |-> <<t>>] : t \in Blocks \cup {Missing}},
           {[op |-> "branch", val |-> None, targets |-> <<t, e>>] :
               t \in Blocks \cup {Missing}, e \in Blocks \cup {Missing}}}

Unread == [op |-> "unread", val |-> None, targets |-> << >>]

instruction_defines(i) == {i.def} \ {None}

instruction_uses(i) == IF i.op = "phi" THEN {i.inc[p] : p \in DOMAIN i.inc} ELSE {i.use} \ {None}

consumed(i) == IF i.op \in {"release", "store"} THEN instruction_uses(i) \cap Arc ELSE {}

produces_owned(i) == i.op \in {"make", "retain"} \/ (i.op = "store" /\ i.def # None)

owned_by(i) == IF produces_owned(i) THEN instruction_defines(i) ELSE {}

block_successors(b) == {code[b].term.targets[k] : k \in DOMAIN code[b].term.targets}

Nothing == [owned |-> {}, consumed |-> {}]

NoRun == [at |-> Entry, ip |-> 1, from |-> Missing, defined |-> {}, spent |-> {},
          refs |-> [v \in Arc |-> 0]]

NoCode == [b \in Blocks |-> [ins |-> << >>, term |-> Unread]]
NoScan == [b \in Blocks |-> << >>]
NoValues == [b \in Blocks |-> {}]
NothingFound == [b \in {Entry} |-> Nothing]

Init ==
    /\ phase = "visit"
    /\ code = NoCode /\ size = 0
    /\ entry_state = NothingFound /\ found = Entry /\ cur = 0 /\ scan = NoScan
    /\ incoming = NoValues /\ outgoing = NoValues /\ swept = 0 /\ changed = FALSE
    /\ run = NoRun

\* INVALID_IR: nothing of the function is kept.
Reject ==
    /\ phase' = "rejected"
    /\ code' = NoCode /\ size' = 0
    /\ entry_state' = NothingFound /\ found' = Entry /\ cur' = 0 /\ scan' = NoScan
    /\ incoming' = NoValues /\ outgoing' = NoValues /\ swept' = 0 /\ changed' = FALSE
    /\ run' = NoRun

Reachable == 1 .. found

Places == UNION {{<<b, k>> : k \in 1 .. Len(code[b].ins)} : b \in Reachable}
At(place) == code[place[1]].ins[place[2]]

OnlyReads(i) == i.op \in {"retain", "read", "phi"}
Phis == {p \in Places : At(p).op = "phi"}

(***************************************************************************)
(* validate_function: ownership, block by block.                           *)
(***************************************************************************)
Here == scan[cur][Len(scan[cur])]

TakeBlock ==
    /\ phase = "visit" /\ cur < found
    /\ phase' = "scan"
    /\ cur' = cur + 1
    /\ scan' = [scan EXCEPT ![cur + 1] = <<entry_state[cur + 1]>>]
    /\ UNCHANGED <<code, size, entry_state, found, flowing, run>>

\* Variants: what was consumed may be read; what is consumed need not be
\* owned; a value may have several definitions.
ReadAgain(i) == TRUE
TakesAny(i) == TRUE
DefinedAgain(i) == TRUE

NotReadAgain(i) == instruction_uses(i) \cap Here.consumed = {}

TakesOwned(i) == consumed(i) \subseteq Here.owned

\* validate checks these two in its second part; the verdict is the same.
DefinedOnce(i) == \A p \in Places : instruction_defines(i) \cap instruction_defines(At(p)) = {}

PhisComeFirst(i) == i.op = "phi" => \A k \in 1 .. Len(code[cur].ins) : code[cur].ins[k].op = "phi"

InstructionIsSound(i) ==
    /\ ~(i.op = "phi" /\ i.def \in Objects)
    /\ NotReadAgain(i)
    /\ TakesOwned(i)
    /\ DefinedOnce(i) /\ PhisComeFirst(i)

AfterInstruction(i) == [owned |-> (Here.owned \ consumed(i)) \cup owned_by(i),
                        consumed |-> Here.consumed \cup consumed(i)]

check_instruction(i) ==
    /\ phase = "scan" /\ size < MaxSize
    /\ OnlyReads(i) => Cardinality({p \in Places : OnlyReads(At(p))}) < MaxReads
    /\ \/ /\ InstructionIsSound(i)
          /\ code' = [code EXCEPT ![cur].ins = Append(@, i)]
          /\ size' = size + 1
          /\ scan' = [scan EXCEPT ![cur] = Append(@, AfterInstruction(i))]
          /\ UNCHANGED <<phase, entry_state, found, cur, flowing, run>>
       \/ ~InstructionIsSound(i) /\ Reject

ReadTerminator(t) == /\ code' = [code EXCEPT ![cur].term = t]
                     /\ phase' = "visit"
                     /\ UNCHANGED <<size, cur, scan, flowing, run>>

\* Variant: an owned value may be left over.
ReturnKeepsRest(v) == v \in Arc => v \in Here.owned

ReturnIsSound(v) == IF v \in Arc THEN Here.owned = {v} ELSE Here.owned = {}

check_return(t) ==
    /\ phase = "scan" /\ t.op = "return"
    /\ \/ ReturnIsSound(t.val) /\ ReadTerminator(t) /\ UNCHANGED <<entry_state, found>>
       \/ ~ReturnIsSound(t.val) /\ Reject

check_stop(t) ==
    /\ phase = "scan" /\ t.op = "stop"
    /\ ReadTerminator(t) /\ UNCHANGED <<entry_state, found>>

Targets(t) == {t.targets[k] : k \in DOMAIN t.targets}

\* Variant: the paths into a block may hold different values.
AnyPathsJoin(t) == Missing \notin Targets(t)

PathsJoin(t) ==
    /\ Missing \notin Targets(t)
    /\ \A b \in Targets(t) \cap DOMAIN entry_state : entry_state[b].owned = Here.owned

Merged(t) ==
    [b \in DOMAIN entry_state \cup Targets(t) |->
       IF b \notin DOMAIN entry_state THEN Here
       ELSE IF b \in Targets(t)
            THEN [entry_state[b] EXCEPT !.consumed = @ \cup Here.consumed]
            ELSE entry_state[b]]

\* The targets found for the first time take the next numbers, in order.
Numbered(t) == \A k \in DOMAIN t.targets : \/ t.targets[k] <= found + 1
                                           \/ k = 2 /\ t.targets = <<found + 1, found + 2>>

merge(t) ==
    /\ phase = "scan" /\ t.op \in {"jump", "branch"} /\ Numbered(t)
    /\ \/ /\ PathsJoin(t)
          /\ entry_state' = Merged(t)
          /\ \E n \in Targets(t) \cup {found} :
                found' = n /\ \A b \in Targets(t) \cup {found} : b <= n
          /\ ReadTerminator(t)
       \/ ~PathsJoin(t) /\ Reject

(***************************************************************************)
(* validate: one definition per value, then the values defined on every    *)
(* path, by sweeps over the blocks until one changes nothing.              *)
(***************************************************************************)
all_values == UNION {instruction_defines(At(p)) : p \in Places}

predecessors(b) == {p \in Reachable : b \in block_successors(p)}

\* The incoming edges of a phi are the block's predecessors, each once.
PhisMatchEdges == \A p \in Phis : DOMAIN At(p).inc = predecessors(p[1])

StartSweeps ==
    /\ phase = "visit" /\ cur = found
    /\ \/ /\ PhisMatchEdges
          /\ phase' = "flow"
          /\ incoming' = [b \in Blocks |-> IF b \in Reachable \ {Entry} THEN all_values ELSE {}]
          /\ outgoing' = [b \in Blocks |-> IF b \in Reachable \ {Entry} THEN all_values ELSE {}]
          /\ swept' = 0 /\ changed' = FALSE
          /\ UNCHANGED <<validating, run>>
       \/ ~PhisMatchEdges /\ Reject

DefinedIn(b, k) == UNION {instruction_defines(code[b].ins[j]) : j \in 1 .. k}

\* Variant: a value defined on some path counts.
OnSomePath(b) == {v \in all_values : b # Entry /\ \E p \in predecessors(b) : v \in outgoing[p]}

next_incoming(b) ==
    {v \in all_values : b # Entry /\ \A p \in predecessors(b) : v \in outgoing[p]}

next_outgoing(b) == next_incoming(b) \cup DefinedIn(b, Len(code[b].ins))

Sweep(b) ==
    /\ phase = "flow" /\ b = swept + 1 /\ b \in Reachable
    /\ swept' = b
    /\ incoming' = [incoming EXCEPT ![b] = next_incoming(b)]
    /\ outgoing' = [outgoing EXCEPT ![b] = next_outgoing(b)]
    /\ changed' = (changed \/ next_incoming(b) # incoming[b] \/ next_outgoing(b) # outgoing[b])
    /\ UNCHANGED <<phase, validating, run>>

SweepAgain ==
    /\ phase = "flow" /\ swept = found /\ changed
    /\ swept' = 0 /\ changed' = FALSE
    /\ UNCHANGED <<phase, validating, incoming, outgoing, run>>

validate_phi(b, k) ==
    LET i == code[b].ins[k] IN
    \A p \in DOMAIN i.inc : i.inc[p] \in outgoing[p]

OperandsDefined(b, k) ==
    LET i == code[b].ins[k] IN
    instruction_uses(i) \subseteq incoming[b] \cup DefinedIn(b, k - 1) \cup instruction_defines(i)

TerminatorDefined(b) == code[b].term.val \in outgoing[b] \cup {None}

UsesAreDefined ==
    \A b \in Reachable :
        /\ \A k \in 1 .. Len(code[b].ins) :
              IF code[b].ins[k].op = "phi" THEN validate_phi(b, k) ELSE OperandsDefined(b, k)
        /\ TerminatorDefined(b)

Verdict ==
    /\ phase = "flow" /\ swept = found /\ ~changed
    /\ \/ /\ UsesAreDefined
          /\ phase' = "run"
          /\ UNCHANGED <<validating, flowing, run>>
       \/ ~UsesAreDefined /\ Reject

(***************************************************************************)
(* The accepted function runs.  refs counts the references each value      *)
(* holds; spent are the values whose last reference was consumed.          *)
(***************************************************************************)
Block == code[run.at]
Current == Block.ins[run.ip]
InBlock == run.ip <= Len(Block.ins)

\* A phi finds no value when the run comes from no block it names.
Resolved == Current.op = "phi" => run.from \in DOMAIN Current.inc

Reads == IF Current.op = "phi" THEN {Current.inc[run.from]} ELSE instruction_uses(Current)

Executed ==
    [run EXCEPT !.ip = @ + 1,
                !.defined = @ \cup instruction_defines(Current),
                !.spent = (@ \cup consumed(Current)) \ instruction_defines(Current),
                !.refs = [v \in Arc |-> run.refs[v]
                                        - (IF v \in consumed(Current) THEN 1 ELSE 0)
                                        + (IF v \in owned_by(Current) THEN 1 ELSE 0)]]

execute ==
    /\ phase = "run" /\ InBlock
    /\ IF Resolved /\ Reads \subseteq run.defined
       THEN run' = Executed /\ UNCHANGED phase
       ELSE phase' = "failed" /\ UNCHANGED run
    /\ UNCHANGED <<validating, flowing>>

jump ==
    /\ phase = "run" /\ ~InBlock
    /\ \E t \in block_successors(run.at) :
          run' = [run EXCEPT !.at = t, !.ip = 1, !.from = run.at]
    /\ UNCHANGED <<phase, validating, flowing>>

returns ==
    /\ phase = "run" /\ ~InBlock /\ Block.term.op \in {"return", "stop"}
    /\ phase' = IF Block.term.op = "return" THEN "returned" ELSE "stopped"
    /\ run' = [run EXCEPT !.refs = [v \in Arc |-> @[v] - (IF v = Block.term.val THEN 1 ELSE 0)]]
    /\ UNCHANGED <<validating, flowing>>

Next ==
    \/ TakeBlock
    \/ \E i \in Instructions : check_instruction(i)
    \/ \E t \in Terminators : check_return(t) \/ check_stop(t) \/ merge(t)
    \/ StartSweeps
    \/ \E b \in Blocks : Sweep(b)
    \/ SweepAgain \/ Verdict
    \/ execute \/ jump \/ returns

Spec == Init /\ [][Next]_vars

(***************************************************************************)
(* Properties.                                                             *)
(***************************************************************************)
\* Every reference an accepted function makes is consumed before it
\* returns, on every path and in every turn of a loop: none is left, and
\* none was overwritten by a second definition before.
NoReferenceLeaks ==
    /\ phase = "returned" => \A v \in Arc : run.refs[v] = 0
    /\ \A v \in Arc : run.refs[v] \in {0, 1}

\* What an accepted function releases, stores or returns holds a reference:
\* nothing is consumed twice on any path.
ConsumedIsHeld ==
    phase = "run" =>
      /\ InBlock => \A v \in consumed(Current) : run.refs[v] = 1
      /\ ~InBlock /\ Block.term.op = "return" /\ Block.term.val \in Arc => run.refs[Block.term.val] = 1

\* The two shapes the operand check lets through: an instruction may name
\* its own result, and a phi may stand in the entry block.
ReadsItself == Current.op # "phi" /\ instruction_uses(Current) = instruction_defines(Current)
PhiAtStart == Current.op = "phi" /\ run.from = Missing

\* No instruction but a phi reads a value after its reference was consumed,
\* although no block is visited again when a later path consumes more: a
\* path consumes exactly what every other path to the same block consumed.
NoReadAfterConsume ==
    phase = "run" /\ InBlock /\ Current.op # "phi" /\ ~ReadsItself => Reads \cap run.spent = {}

\* An accepted function never reads a value that is not defined, and every
\* phi finds the predecessor the run comes from.
ReadsAreDefined ==
    phase = "failed" => ReadsItself \/ PhiAtStart

\* ownership.rs: "Every owned value is consumed exactly once on every path
\* [...] and nothing reads it after that."
NothingReadsConsumed ==
    phase = "run" /\ InBlock /\ Resolved /\ ~ReadsItself => Reads \cap run.spent = {}
=============================================================================
