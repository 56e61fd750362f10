-------------------------- MODULE IrValidatorProofs --------------------------
(***************************************************************************)
(* Proofs about IrValidator, for functions of any size over any values.    *)
(* The properties speak of the run; the invariant Inv ties the run to what *)
(* the validator wrote down.  While it visits blocks, `scan` obeys the     *)
(* ownership rules inside a block (Scanned), agrees across every edge      *)
(* (EdgesAgree) and passes what was consumed down one edge into each block *)
(* (FoundFrom).  When the sweeps end, `incoming` and `outgoing` solve      *)
(* their equations (Solved).  While the function runs, its references are  *)
(* those of the owned values at the point it has reached (RunMatches).     *)
(***************************************************************************)
EXTENDS IrValidator, WellFoundedInduction, TLAPS

States == [owned : SUBSET Arc, consumed : SUBSET Arc]

Size(b) == Len(code[b].ins)
AtEnd(b) == scan[b][Size(b) + 1]

TypeOK ==
    /\ phase \in {"visit", "scan", "flow", "run", "rejected", "failed", "returned", "stopped"}
    /\ code \in [Blocks -> [ins : Seq(AnyInstruction), term : Terminators \cup {Unread}]]
    /\ size \in 0 .. MaxSize
    /\ found \in Blocks /\ cur \in 0 .. found
    /\ entry_state \in [1 .. found -> States]
    /\ scan \in [Blocks -> Seq(States)]
    /\ incoming \in [Blocks -> SUBSET Arc] /\ outgoing \in [Blocks -> SUBSET Arc]
    /\ swept \in 0 .. found /\ changed \in BOOLEAN
    /\ run \in [at : Blocks, ip : Nat \ {0}, from : 0 .. MaxBlocks,
                defined : SUBSET Arc, spent : SUBSET Arc, refs : [Arc -> Int]]

\* The blocks whose terminator has been read.
Done == {b \in 1 .. cur : phase = "scan" => b < cur}

Visited ==
    /\ phase = "scan" => cur \in 1 .. found
    /\ \A b \in Blocks : Size(b) <= size
    /\ \A b \in Blocks : b > cur => code[b].ins = << >>
    /\ \A b \in 1 .. cur : Len(scan[b]) = Size(b) + 1 /\ scan[b][1].owned = entry_state[b].owned
    /\ \A b \in Done : code[b].term \in Terminators

OwnedIn(b, k) == UNION {owned_by(code[b].ins[j]) : j \in 1 .. k}
AllOwned == UNION {OwnedIn(b, Size(b)) : b \in Blocks}

\* Inside a block: what consumed takes was owned, what is made was not, and
\* no value that was owned is forgotten.
ScannedAt(b, k) ==
    LET i == code[b].ins[k] IN
    /\ instruction_uses(i) \cap scan[b][k].consumed = {}
    /\ consumed(i) \subseteq scan[b][k].owned
    /\ owned_by(i) \cap scan[b][k].owned = {}
    /\ scan[b][k + 1].owned = (scan[b][k].owned \ consumed(i)) \cup owned_by(i)

Remembered(b, k) ==
    scan[b][1].owned \cup scan[b][1].consumed \cup OwnedIn(b, k - 1)
        \subseteq scan[b][k].owned \cup scan[b][k].consumed

Scanned ==
    \A b \in 1 .. cur :
        /\ \A k \in 1 .. Size(b) : ScannedAt(b, k)
        /\ \A k \in 1 .. Size(b) + 1 : Remembered(b, k) /\ scan[b][k].owned \subseteq AllOwned

EntryOwned ==
    /\ entry_state[Entry].owned = {}
    /\ \A b \in 1 .. found : entry_state[b].owned \subseteq AllOwned

OneDefinition ==
    \A b, c \in Blocks : \A j \in 1 .. Size(b), k \in 1 .. Size(c) :
        instruction_defines(code[b].ins[j]) \cap instruction_defines(code[c].ins[k]) # {}
            => b = c /\ j = k

\* Along every edge, and at every return.
EdgesAgree ==
    \A b \in Done :
        /\ \A t \in block_successors(b) :
              t \in 1 .. found /\ entry_state[t].owned = AtEnd(b).owned
        /\ code[b].term.op = "return" =>
              AtEnd(b).owned = IF code[b].term.val \in Arc THEN {code[b].term.val} ELSE {}

\* Each block but the entry was found from an earlier one.
FoundFrom ==
    \A t \in 2 .. found : \E b \in Done :
        /\ b < t /\ t \in block_successors(b)
        /\ AtEnd(b).consumed \subseteq
              (IF t <= cur THEN scan[t][1].consumed ELSE entry_state[t].consumed)

SolvedAt(b) == incoming[b] = next_incoming(b) /\ outgoing[b] = next_outgoing(b)

Running == phase \in {"run", "failed", "returned", "stopped"}

Solved ==
    /\ phase = "flow" \/ Running => cur = found /\ PhisMatchEdges
    /\ phase = "flow" /\ ~changed => \A b \in 1 .. swept : SolvedAt(b)
    /\ Running => UsesAreDefined /\ \A b \in Reachable : SolvedAt(b)

\* The run and the validator's notes at the point it has reached.
RunMatches ==
    IF Running
    THEN /\ run.at \in Reachable /\ run.ip \in 1 .. Size(run.at) + 1
         /\ run.spent \subseteq AllOwned
         /\ run.spent \cap scan[run.at][run.ip].owned = {}
         /\ incoming[run.at] \cup DefinedIn(run.at, run.ip - 1) \subseteq run.defined
         /\ run.from = Missing => run.at = Entry
         /\ run.from # Missing => run.from \in predecessors(run.at) /\ outgoing[run.from] \subseteq run.defined
    ELSE run = NoRun

RefsMatch ==
    \A v \in Arc :
        run.refs[v] = IF phase \in {"run", "failed", "stopped"} /\ v \in scan[run.at][run.ip].owned
                      THEN 1 ELSE 0

\* What the visit wrote down.
Notes == Visited /\ Scanned /\ EntryOwned /\ OneDefinition /\ EdgesAgree /\ FoundFrom

Inv == TypeOK /\ Notes /\ Solved /\ RunMatches /\ RefsMatch /\ ReadsAreDefined

-----------------------------------------------------------------------------
(* Facts about instructions, terminators and numbers.                      *)

USE IrConstants DEF Entry, Missing

\* An instruction consumes only what it uses and owns only what it defines.
LEMMA InstructionFacts ==
    ASSUME NEW i \in AnyInstruction
    PROVE  /\ instruction_defines(i) \subseteq Arc
           /\ instruction_uses(i) \subseteq Arc
           /\ consumed(i) \subseteq instruction_uses(i)
           /\ owned_by(i) \subseteq instruction_defines(i)
           /\ i.op = "phi" => consumed(i) = {} /\ owned_by(i) = {}
           /\ i.op # "phi" => instruction_uses(i) = {i.use} \ {None}
<1>1. i.def \in Arc \cup {None} /\ i.use \in Arc \cup {None}
      BY DEF AnyInstruction, Plainly, PhisOf, Arc
<1>2. i.op = "phi" => \A p \in DOMAIN i.inc : i.inc[p] \in Arc
      BY DEF AnyInstruction, Plainly, PhisOf, Arc
<1>3. instruction_defines(i) \subseteq Arc BY <1>1 DEF instruction_defines
<1>4. instruction_uses(i) \subseteq Arc BY <1>1, <1>2 DEF instruction_uses
<1>5. consumed(i) \subseteq instruction_uses(i) BY DEF consumed
<1>6. owned_by(i) \subseteq instruction_defines(i) BY DEF owned_by
<1>7. i.op = "phi" => consumed(i) = {} /\ owned_by(i) = {}
      BY DEF consumed, owned_by, produces_owned
<1>8. i.op # "phi" => instruction_uses(i) = {i.use} \ {None} BY DEF instruction_uses
<1> QED BY <1>3, <1>4, <1>5, <1>6, <1>7, <1>8

\* Where a terminator leads, and that only a return or a stop ends a run.
LEMMA TerminatorFacts ==
    ASSUME NEW t \in Terminators
    PROVE  /\ Targets(t) \subseteq Blocks \cup {Missing}
           /\ t.op \in {"return", "stop"} => Targets(t) = {}
           /\ t.op \in {"return", "stop", "jump", "branch"}
           /\ t.val \in Arc \cup {None}
           /\ t.op = "stop" => t.val = None
<1>1. CASE t.op \in {"return", "stop"} BY <1>1 DEF Terminators, Targets
<1>2. CASE t.op = "jump" BY <1>2 DEF Terminators, Targets
<1>3. CASE t.op = "branch" BY <1>3 DEF Terminators, Targets
<1>4. t.op \in {"return", "stop", "jump", "branch"} BY DEF Terminators
<1> QED BY <1>1, <1>2, <1>3, <1>4

\* A set of numbers that is not empty has a least element.
LEMMA LeastElement ==
    ASSUME NEW T, T \subseteq Nat, T # {}
    PROVE  \E x \in T : \A y \in T : x <= y
<1> DEFINE R == OpToRel(<, Nat)
<1>1. IsWellFoundedOn(R, Nat) BY NatLessThanWellFounded
<1>2. \A x, y \in Nat : x < y => <<x, y>> \in R BY DEF OpToRel
<1> HIDE DEF R
<1>3. PICK x \in T : \A y \in T : ~(<<y, x>> \in R) BY <1>1, WFMin
<1>4. \A y \in T : ~(y < x) BY <1>3, <1>2
<1> QED BY <1>4

-----------------------------------------------------------------------------
(* Inv holds of a function nobody has read, and after a rejection.         *)

Unseen ==
    /\ phase \in {"visit", "rejected"}
    /\ code = NoCode /\ size = 0 /\ entry_state = NothingFound /\ found = Entry /\ cur = 0
    /\ scan = NoScan /\ incoming = NoValues /\ outgoing = NoValues /\ swept = 0
    /\ changed = FALSE /\ run = NoRun

LEMMA UnseenInv == Unseen => Inv
<1> SUFFICES ASSUME Unseen PROVE Inv OBVIOUS
<1> USE DEF Unseen
<1>1. TypeOK
  <2>1. 1 .. found = {1} /\ found \in Blocks BY DEF Blocks
  <2>2. entry_state \in [1 .. found -> States] BY <2>1 DEF NothingFound, Nothing, States
  <2>3. code \in [Blocks -> [ins : Seq(AnyInstruction), term : Terminators \cup {Unread}]]
        BY DEF NoCode
  <2>4. scan \in [Blocks -> Seq(States)] BY DEF NoScan
  <2>5. run \in [at : Blocks, ip : Nat \ {0}, from : 0 .. MaxBlocks,
                 defined : SUBSET Arc, spent : SUBSET Arc, refs : [Arc -> Int]]
        BY <2>1, SMTT(30) DEF NoRun, Blocks
  <2>6. incoming \in [Blocks -> SUBSET Arc] /\ outgoing \in [Blocks -> SUBSET Arc] BY DEF NoValues
  <2>7. size \in 0 .. MaxSize /\ cur \in 0 .. found /\ swept \in 0 .. found OBVIOUS
  <2>8. changed \in BOOLEAN OBVIOUS
  <2> HIDE DEF Unseen
  <2> QED BY <2>1, <2>2, <2>3, <2>4, <2>5, <2>6, <2>7, <2>8 DEF TypeOK, Unseen
<1>2. \A b \in Blocks : code[b].ins = << >> /\ Size(b) = 0 BY DEF NoCode, Size
<1>3. Done = {} BY DEF Done
<1>4. Visited BY <1>2, <1>3 DEF Visited
<1>5. Scanned BY DEF Scanned
<1>6. EntryOwned BY DEF EntryOwned, NothingFound, Nothing
<1>7. OneDefinition BY <1>2 DEF OneDefinition
<1>8. EdgesAgree /\ FoundFrom BY <1>3 DEF EdgesAgree, FoundFrom
<1>9. Solved /\ RunMatches BY DEF Solved, RunMatches, Running
<1>10. RefsMatch BY DEF RefsMatch, NoRun
<1>11. ReadsAreDefined BY DEF ReadsAreDefined
<1> QED BY <1>1, <1>4, <1>5, <1>6, <1>7, <1>8, <1>9, <1>10, <1>11 DEF Inv, Notes

LEMMA InitInv == Init => Inv
<1>1. Init => Unseen BY DEF Init, Unseen
<1> QED BY <1>1, UnseenInv

LEMMA RejectInv == Reject => Inv'
<1>1. Reject => Unseen' BY DEF Reject, Unseen
<1> QED BY <1>1, UnseenInv, PTL

-----------------------------------------------------------------------------
(* The visit of the blocks.                                                *)

\* What is read off the code alone.
LEMMA SameCode ==
    ASSUME code' = code
    PROVE  /\ \A b : Size(b)' = Size(b) /\ block_successors(b)' = block_successors(b)
           /\ \A b, k : OwnedIn(b, k)' = OwnedIn(b, k)
           /\ AllOwned' = AllOwned
           /\ OneDefinition => OneDefinition'
<1>1. \A b : Size(b)' = Size(b) /\ block_successors(b)' = block_successors(b)
      BY DEF Size, block_successors
<1>2. \A b, k : OwnedIn(b, k)' = OwnedIn(b, k) BY DEF OwnedIn
<1>3. AllOwned' = AllOwned BY <1>1, <1>2 DEF AllOwned
<1>4. OneDefinition => OneDefinition' BY <1>1 DEF OneDefinition
<1> QED BY <1>1, <1>2, <1>3, <1>4

\* The notes speak of the visit only.
LEMMA NotesKept ==
    ASSUME Notes, UNCHANGED validating, (phase = "scan") <=> (phase' = "scan")
    PROVE  Notes'
<1> USE DEF validating
<1>1. Done' = Done BY DEF Done
<1>2. Visited' BY <1>1, SameCode DEF Notes, Visited
<1>3. Scanned' BY SameCode DEF Notes, Scanned, ScannedAt, Remembered
<1>4. EntryOwned' /\ OneDefinition' BY SameCode DEF Notes, EntryOwned
<1>5. EdgesAgree' BY <1>1, SameCode DEF Notes, EdgesAgree, AtEnd
<1>6. FoundFrom' BY <1>1, SameCode DEF Notes, FoundFrom, AtEnd
<1> QED BY <1>2, <1>3, <1>4, <1>5, <1>6 DEF Notes

\* While the validator visits, nothing is solved or run.
LEMMA VisitOnly ==
    ASSUME phase \in {"visit", "scan"}, phase' \in {"visit", "scan"}, RunMatches, UNCHANGED run
    PROVE  Solved' /\ RunMatches' /\ RefsMatch' /\ ReadsAreDefined'
<1>1. Solved' /\ RunMatches' /\ ReadsAreDefined' BY DEF Solved, RunMatches, ReadsAreDefined, Running
<1>2. RefsMatch' BY DEF RunMatches, RefsMatch, Running, NoRun
<1> QED BY <1>1, <1>2

LEMMA TakeBlockInv ==
    ASSUME Inv, TakeBlock
    PROVE  Inv'
<1>a. PICK b0 \in Nat : b0 = cur + 1 BY DEF Inv, TypeOK
<1>0. /\ b0 \in 1 .. found /\ b0 \in Blocks /\ 1 .. found \subseteq Blocks
      /\ cur \in Nat /\ found \in Nat
      BY <1>a DEF Inv, TypeOK, TakeBlock, Blocks
<1>1. /\ scan' = [scan EXCEPT ![b0] = <<entry_state[b0]>>] /\ cur' = b0
      /\ code' = code /\ size' = size /\ entry_state' = entry_state /\ found' = found
      /\ phase = "visit" /\ phase' = "scan" /\ UNCHANGED flowing /\ UNCHANGED run
      BY <1>a DEF TakeBlock
<1>2. scan'[b0] = <<entry_state[b0]>> /\ \A b \in Blocks : b # b0 => scan'[b] = scan[b]
      BY <1>0, <1>1 DEF Inv, TypeOK
<1>3. code[b0].ins = << >> /\ Size(b0) = 0 BY <1>0, <1>a DEF Inv, Notes, Visited, Size
<1>4. Done' = Done /\ Done = 1 .. cur BY <1>0, <1>1, <1>a DEF Done
<1>5. \A b \in 1 .. cur : b \in Blocks /\ b # b0 BY <1>0, <1>a
<1>6. TypeOK'
  <2>1. entry_state[b0] \in States BY <1>0 DEF Inv, TypeOK
  <2>2. scan' \in [Blocks -> Seq(States)] BY <2>1, <1>1, <1>0 DEF Inv, TypeOK
  <2> QED BY <2>2, <1>0, <1>1 DEF Inv, TypeOK, flowing
<1>7. Visited'
  <2>1. \A b \in 1 .. cur : Len(scan'[b]) = Size(b) + 1 /\ scan'[b][1].owned = entry_state[b].owned
        BY <1>2, <1>5 DEF Inv, Notes, Visited
  <2>2. Len(scan'[b0]) = Size(b0) + 1 /\ scan'[b0][1].owned = entry_state[b0].owned
        BY <1>2, <1>3
  <2>3. \A b \in 1 .. b0 : b \in 1 .. cur \/ b = b0 BY <1>0, <1>a
  <2>4. \A b \in 1 .. b0 : Len(scan'[b]) = Size(b) + 1 /\ scan'[b][1].owned = entry_state[b].owned
        BY <2>1, <2>2, <2>3
  <2>5. \A b \in Blocks : b > b0 => code[b].ins = << >>
        BY <1>0, <1>a DEF Inv, Notes, Visited, Blocks
  <2>6. \A b \in Done : code[b].term \in Terminators BY DEF Inv, Notes, Visited
  <2>7. \A b \in Blocks : Size(b) <= size BY DEF Inv, Notes, Visited
  <2> QED BY <2>4, <2>5, <2>6, <2>7, <1>0, <1>1, <1>4, SameCode DEF Visited
<1>8. Scanned'
  <2>1. AllOwned' = AllOwned /\ \A b, k : OwnedIn(b, k)' = OwnedIn(b, k) BY <1>1, SameCode
  <2>2. \A b : Size(b)' = Size(b) BY <1>1, SameCode
  <2>3. ASSUME NEW b \in 1 .. cur
        PROVE  /\ \A k \in 1 .. Size(b) : ScannedAt(b, k)'
               /\ \A k \in 1 .. Size(b) + 1 : Remembered(b, k)' /\ scan'[b][k].owned \subseteq AllOwned
        BY <2>1, <1>1, <1>2, <1>5 DEF Inv, Notes, Scanned, ScannedAt, Remembered
  <2>4. Remembered(b0, 1)' /\ scan'[b0][1].owned \subseteq AllOwned
    <3>1. OwnedIn(b0, 0) = {} BY DEF OwnedIn
    <3>2. scan'[b0][1] = entry_state[b0] BY <1>2
    <3>3. entry_state[b0].owned \subseteq AllOwned BY <1>0 DEF Inv, Notes, EntryOwned
    <3>4. OwnedIn(b0, 1 - 1)' = {} BY <2>1, <3>1
    <3> QED BY <3>2, <3>3, <3>4 DEF Remembered
  <2>5. \A b \in 1 .. b0 : b \in 1 .. cur \/ b = b0 BY <1>0, <1>a
  <2>6. /\ \A k \in 1 .. Size(b0) : ScannedAt(b0, k)'
        /\ \A k \in 1 .. Size(b0) + 1 : Remembered(b0, k)' /\ scan'[b0][k].owned \subseteq AllOwned
        BY <2>4, <1>3
  <2>7. \A b \in 1 .. b0 :
           /\ \A k \in 1 .. Size(b) : ScannedAt(b, k)'
           /\ \A k \in 1 .. Size(b) + 1 : Remembered(b, k)' /\ scan'[b][k].owned \subseteq AllOwned
        BY <2>3, <2>5, <2>6
  <2> QED BY <2>1, <2>2, <2>7, <1>1 DEF Scanned
<1>9. EntryOwned' /\ OneDefinition'
      BY <1>1, SameCode DEF Inv, Notes, EntryOwned
<1>10. EdgesAgree'
  <2>1. \A b \in Done : AtEnd(b)' = AtEnd(b) BY <1>1, <1>2, <1>4, <1>5, SameCode DEF AtEnd
  <2> QED BY <2>1, <1>1, <1>4, SameCode DEF Inv, Notes, EdgesAgree
<1>11. FoundFrom'
  <2> SUFFICES ASSUME NEW t \in 2 .. found
               PROVE  \E b \in Done : /\ b < t /\ t \in block_successors(b)
                                      /\ AtEnd(b)'.consumed \subseteq
                                           (IF t <= b0 THEN scan'[t][1].consumed
                                                       ELSE entry_state[t].consumed)
      BY <1>1, <1>4 DEF FoundFrom, block_successors
  <2>1. PICK b \in Done : /\ b < t /\ t \in block_successors(b)
                          /\ AtEnd(b).consumed \subseteq
                               (IF t <= cur THEN scan[t][1].consumed ELSE entry_state[t].consumed)
        BY DEF Inv, Notes, FoundFrom
  <2>2. AtEnd(b)' = AtEnd(b) BY <1>1, <1>2, <1>4, <1>5 DEF AtEnd, Size
  <2>3. CASE t = b0 BY <2>1, <2>2, <2>3, <1>0, <1>2, <1>a
  <2>4. CASE t # b0
    <3>1. t \in Blocks /\ scan'[t] = scan[t] /\ (t <= b0 <=> t <= cur) BY <2>4, <1>0, <1>2, <1>a
    <3> QED BY <3>1, <2>1, <2>2
  <2> QED BY <2>3, <2>4
<1>12. Solved' /\ RunMatches' /\ RefsMatch' /\ ReadsAreDefined'
      BY VisitOnly, <1>1 DEF Inv
<1> QED BY <1>6, <1>7, <1>8, <1>9, <1>10, <1>11, <1>12 DEF Inv, Notes

LEMMA CheckInstructionInv ==
    ASSUME Inv, NEW i \in Instructions, check_instruction(i)
    PROVE  Inv'
<1>0. CASE Reject BY <1>0, RejectInv
<1>1. CASE ~Reject
  <2>a. PICK c \in Blocks : c = cur /\ c \in 1 .. found /\ c \in 1 .. cur
        BY <1>1 DEF Inv, Notes, TypeOK, Visited, check_instruction, Blocks
  <2>b. PICK n \in Nat : n = Size(c)
    <3>1. code[c].ins \in Seq(AnyInstruction) BY DEF Inv, TypeOK
    <3> QED BY <3>1 DEF Size
  <2>c. PICK st : st = AfterInstruction(i) OBVIOUS
  <2>d. PICK h : h = scan[c][n + 1] OBVIOUS
  <2>e. /\ i \in AnyInstruction /\ code[c].ins \in Seq(AnyInstruction) /\ scan[c] \in Seq(States)
        /\ Len(code[c].ins) = n /\ Len(scan[c]) = n + 1 /\ h = Here /\ h \in States
    <3>1. i \in AnyInstruction BY DEF Instructions
    <3>2. code[c].ins \in Seq(AnyInstruction) /\ scan[c] \in Seq(States) BY DEF Inv, TypeOK
    <3>3. Len(code[c].ins) = n /\ Len(scan[c]) = n + 1
          BY <2>a, <2>b DEF Inv, Notes, Visited, Size
    <3>4. h = Here BY <3>3, <2>a, <2>d DEF Here
    <3>5. h \in States BY <3>2, <3>3, <2>d
    <3> QED BY <3>1, <3>2, <3>3, <3>4, <3>5
  <2>f. /\ phase = "scan" /\ phase' = "scan" /\ cur' = cur /\ found' = found /\ size' = size + 1
        /\ size < MaxSize /\ entry_state' = entry_state /\ UNCHANGED flowing /\ UNCHANGED run
        /\ code' = [code EXCEPT ![c].ins = Append(@, i)]
        /\ scan' = [scan EXCEPT ![c] = Append(@, st)]
        /\ InstructionIsSound(i)
        BY <1>1, <2>a, <2>c DEF check_instruction
  <2>g. /\ \A b \in Blocks : code'[b].term = code[b].term
        /\ \A b \in Blocks : b # c => code'[b] = code[b] /\ scan'[b] = scan[b]
        /\ code'[c].ins = Append(code[c].ins, i) /\ scan'[c] = Append(scan[c], st)
        /\ code' \in [Blocks -> [ins : Seq(AnyInstruction), term : Terminators \cup {Unread}]]
    <3>1. /\ code \in [Blocks -> [ins : Seq(AnyInstruction), term : Terminators \cup {Unread}]]
          /\ scan \in [Blocks -> Seq(States)]
          BY DEF Inv, TypeOK
    <3>2. Append(code[c].ins, i) \in Seq(AnyInstruction) BY <2>e
    <3>3. PICK new \in [ins : Seq(AnyInstruction), term : Terminators \cup {Unread}] :
             new = [code[c] EXCEPT !.ins = Append(code[c].ins, i)]
          BY <3>1, <3>2
    <3>4. code' = [code EXCEPT ![c] = new] BY <2>f, <3>3
    <3>5. new.ins = Append(code[c].ins, i) /\ new.term = code[c].term BY <3>1, <3>3
    <3>6. code' \in [Blocks -> [ins : Seq(AnyInstruction), term : Terminators \cup {Unread}]]
          BY <3>1, <3>4
    <3>7. code'[c] = new /\ \A b \in Blocks : b # c => code'[b] = code[b] BY <3>1, <3>4
    <3>8. scan'[c] = Append(scan[c], st) /\ \A b \in Blocks : b # c => scan'[b] = scan[b] BY <2>f, <3>1
    <3> QED BY <3>5, <3>6, <3>7, <3>8
  <2>h. /\ Size(c)' = n + 1 /\ \A b \in Blocks : b # c => Size(b)' = Size(b)
        /\ \A k \in 1 .. n : code'[c].ins[k] = code[c].ins[k]
        /\ code'[c].ins[n + 1] = i
        /\ \A k \in 1 .. n + 1 : scan'[c][k] = scan[c][k]
        /\ scan'[c][n + 2] = st /\ Len(scan'[c]) = n + 2
        BY <2>e, <2>g DEF Size
  <2>i. /\ st.owned = (h.owned \ consumed(i)) \cup owned_by(i)
        /\ st.consumed = h.consumed \cup consumed(i)
        /\ st \in States
    <3>1. st = [owned |-> (h.owned \ consumed(i)) \cup owned_by(i), consumed |-> h.consumed \cup consumed(i)]
          BY <2>c, <2>e DEF AfterInstruction
    <3>2. owned_by(i) \subseteq Arc /\ consumed(i) \subseteq Arc BY <2>e, InstructionFacts
    <3> QED BY <3>1, <3>2, <2>e DEF States
  <2>j. Done' = Done /\ Done \subseteq Blocks /\ \A b \in Done : b # c
    <3>1. cur \in Nat /\ cur <= MaxBlocks BY <2>a DEF Blocks
    <3>2. Done' = Done BY <2>f DEF Done
    <3> QED BY <2>a, <2>f, <3>1, <3>2 DEF Done, Blocks
  \* What the new instruction adds to the owned values.
  <2>k. /\ \A b \in Blocks : \A k : b # c => OwnedIn(b, k)' = OwnedIn(b, k)
        /\ \A k \in 0 .. n : OwnedIn(c, k)' = OwnedIn(c, k)
        /\ OwnedIn(c, n + 1)' = OwnedIn(c, n) \cup owned_by(i)
    <3>1. \A b \in Blocks : \A k : b # c => OwnedIn(b, k)' = OwnedIn(b, k) BY <2>g DEF OwnedIn
    <3>2. \A k \in 0 .. n : OwnedIn(c, k)' = OwnedIn(c, k)
      <4> TAKE k \in 0 .. n
      <4>1. \A j \in 1 .. k : code'[c].ins[j] = code[c].ins[j] BY <2>h
      <4> QED BY <4>1 DEF OwnedIn
    <3>3. OwnedIn(c, n + 1)' = OwnedIn(c, n) \cup owned_by(i)
      <4>1. 1 .. n + 1 = (1 .. n) \cup {n + 1} OBVIOUS
      <4>2. \A j \in 1 .. n : code'[c].ins[j] = code[c].ins[j] BY <2>h
      <4> QED BY <4>1, <4>2, <2>h DEF OwnedIn
    <3> QED BY <3>1, <3>2, <3>3
  <2>l. AllOwned \subseteq AllOwned' /\ owned_by(i) \subseteq AllOwned'
    <3>1. \A b \in Blocks : OwnedIn(b, Size(b)) \subseteq OwnedIn(b, Size(b))'
          BY <2>b, <2>h, <2>k
    <3>2. \A b \in Blocks : OwnedIn(b, Size(b))' \subseteq AllOwned' BY DEF AllOwned
    <3>3. owned_by(i) \subseteq OwnedIn(c, Size(c))' BY <2>h, <2>k
    <3> QED BY <3>1, <3>2, <3>3 DEF AllOwned
  \* The new instruction defines what no other one does.
  <2>m. \A b \in Blocks : \A k \in 1 .. Size(b) :
           instruction_defines(i) \cap instruction_defines(code[b].ins[k]) = {}
    <3> TAKE b \in Blocks
    <3> TAKE k \in 1 .. Size(b)
    <3>1. code[b].ins # << >> BY DEF Inv, TypeOK, Size
    <3>2. b \in 1 .. found BY <3>1 DEF Inv, Notes, TypeOK, Visited, Blocks
    <3>3. <<b, k>> \in Places BY <3>2 DEF Places, Reachable, Size
    <3>4. instruction_defines(i) \cap instruction_defines(At(<<b, k>>)) = {}
          BY <3>3, <2>f DEF InstructionIsSound, DefinedOnce
    <3> QED BY <3>4 DEF At
  <2>n. AllOwned \cap owned_by(i) = {}
    <3> SUFFICES ASSUME NEW v \in AllOwned, v \in owned_by(i) PROVE FALSE OBVIOUS
    <3>1. PICK b \in Blocks : v \in OwnedIn(b, Size(b)) BY DEF AllOwned
    <3>2. PICK k \in 1 .. Size(b) : v \in owned_by(code[b].ins[k]) BY <3>1 DEF OwnedIn
    <3>3. code[b].ins[k] \in AnyInstruction BY <3>2 DEF Inv, TypeOK, Size
    <3> QED BY <3>2, <3>3, <2>e, <2>m, InstructionFacts
  <2>1. TypeOK'
    <3>1. code' \in [Blocks -> [ins : Seq(AnyInstruction), term : Terminators \cup {Unread}]]
          BY <2>g
    <3>2. scan' \in [Blocks -> Seq(States)]
      <4>1. scan \in [Blocks -> Seq(States)] BY DEF Inv, TypeOK
      <4>2. Append(scan[c], st) \in Seq(States) BY <2>e, <2>i
      <4> QED BY <4>1, <4>2, <2>f
    <3>3. size' \in 0 .. MaxSize
      <4>1. size \in 0 .. MaxSize BY DEF Inv, TypeOK
      <4>2. size' = size + 1 /\ size < MaxSize BY <2>f
      <4> QED BY <4>1, <4>2
    <3> QED BY <3>1, <3>2, <3>3, <2>f DEF Inv, TypeOK, flowing
  <2>2. Visited'
    <3>1. \A b \in Blocks : Size(b)' <= size'
      <4>1. size \in Nat /\ \A b \in Blocks : Size(b) <= size /\ Size(b) \in Nat
        <5>1. \A b \in Blocks : code[b].ins \in Seq(AnyInstruction) BY DEF Inv, TypeOK
        <5>2. \A b \in Blocks : Size(b) \in Nat BY <5>1 DEF Size
        <5> QED BY <5>2 DEF Inv, Notes, TypeOK, Visited
      <4>2. size' = size + 1 /\ Size(c)' = Size(c) + 1 BY <2>b, <2>f, <2>h
      <4>3. \A b \in Blocks : Size(b)' = Size(b) \/ b = c BY <2>h
      <4>4. ASSUME NEW b \in Blocks PROVE Size(b)' <= size'
        <5>1. CASE b = c BY <4>1, <4>2, <5>1
        <5>2. CASE b # c
          <6>1. Size(b)' = Size(b) BY <4>3, <5>2
          <6> QED BY <4>1, <4>2, <6>1
        <5> QED BY <5>1, <5>2
      <4> QED BY <4>4
    <3>2. \A b \in Blocks : b > cur => code'[b].ins = << >>
      <4>1. \A b \in Blocks : b > cur => code[b].ins = << >> BY DEF Inv, Notes, Visited
      <4>2. \A b \in Blocks : b > cur => b # c BY <2>a DEF Blocks
      <4> QED BY <4>1, <4>2, <2>g
    <3>3. \A b \in 1 .. cur : Len(scan'[b]) = Size(b)' + 1 /\ scan'[b][1].owned = entry_state[b].owned
      <4> TAKE b \in 1 .. cur
      <4>1. b \in Blocks BY <2>a DEF Blocks
      <4>2. Len(scan[b]) = Size(b) + 1 /\ scan[b][1].owned = entry_state[b].owned
            BY DEF Inv, Notes, Visited
      <4>3. CASE b = c
        <5>1. Len(scan'[c]) = n + 2 /\ Size(c)' = n + 1 /\ scan'[c][1] = scan[c][1] BY <2>h
        <5> QED BY <5>1, <4>2, <4>3
      <4>4. CASE b # c BY <4>1, <4>2, <4>4, <2>g, <2>h
      <4> QED BY <4>3, <4>4
    <3>4. \A b \in Done : code'[b].term \in Terminators
          BY <2>g, <2>j DEF Inv, Notes, Visited
    <3> QED BY <3>1, <3>2, <3>3, <3>4, <2>a, <2>f, <2>j DEF Visited
  <2>3. Scanned'
    <3>1. ASSUME NEW b \in 1 .. cur, b # c
          PROVE  /\ \A k \in 1 .. Size(b)' : ScannedAt(b, k)'
                 /\ \A k \in 1 .. Size(b)' + 1 : Remembered(b, k)' /\ scan'[b][k].owned \subseteq AllOwned'
      <4>1. b \in Blocks BY DEF Inv, TypeOK, Blocks
      <4>2. /\ \A k \in 1 .. Size(b) : ScannedAt(b, k)
            /\ \A k \in 1 .. Size(b) + 1 : Remembered(b, k) /\ scan[b][k].owned \subseteq AllOwned
            BY DEF Inv, Notes, Scanned
      <4>3. code'[b] = code[b] /\ scan'[b] = scan[b] /\ Size(b)' = Size(b) BY <3>1, <4>1, <2>g, <2>h
      <4>4. \A k : OwnedIn(b, k)' = OwnedIn(b, k) BY <3>1, <4>1, <2>k
      <4>5. \A k \in 1 .. Size(b)' : ScannedAt(b, k)' BY <4>2, <4>3 DEF ScannedAt
      <4>6. \A k \in 1 .. Size(b)' + 1 : Remembered(b, k)' BY <4>2, <4>3, <4>4 DEF Remembered
      <4>7. \A k \in 1 .. Size(b)' + 1 : scan'[b][k].owned \subseteq AllOwned' BY <4>2, <4>3, <2>l
      <4> QED BY <4>5, <4>6, <4>7
    <3>2. /\ \A k \in 1 .. n : ScannedAt(c, k)
          /\ \A k \in 1 .. n + 1 : Remembered(c, k) /\ scan[c][k].owned \subseteq AllOwned
          BY <2>a, <2>b DEF Inv, Notes, Scanned
    <3>3. \A k \in 1 .. n + 1 : ScannedAt(c, k)'
      <4>1. ASSUME NEW k \in 1 .. n PROVE ScannedAt(c, k)'
        <5>1. k \in 1 .. n + 1 /\ k + 1 \in 1 .. n + 1 OBVIOUS
        <5>2. code'[c].ins[k] = code[c].ins[k] /\ scan'[c][k] = scan[c][k] /\ scan'[c][k + 1] = scan[c][k + 1]
              BY <5>1, <2>h
        <5>3. ScannedAt(c, k) BY <3>2
        <5> QED BY <5>2, <5>3 DEF ScannedAt
      <4>2. ScannedAt(c, n + 1)'
        <5>1. instruction_uses(i) \cap h.consumed = {} /\ consumed(i) \subseteq h.owned
              BY <2>e, <2>f DEF InstructionIsSound, NotReadAgain, TakesOwned
        <5>2. h.owned \subseteq AllOwned BY <3>2, <2>d
        <5>3. scan'[c][n + 1] = h /\ scan'[c][(n + 1) + 1] = st BY <2>d, <2>h
        <5> QED BY <5>1, <5>2, <5>3, <2>h, <2>i, <2>n DEF ScannedAt
      <4> QED BY <4>1, <4>2
    <3>4. \A k \in 1 .. n + 2 : Remembered(c, k)' /\ scan'[c][k].owned \subseteq AllOwned'
      <4>1. \A k \in 1 .. n + 1 : Remembered(c, k)' /\ scan'[c][k].owned \subseteq AllOwned'
            BY <3>2, <2>h, <2>k, <2>l DEF Remembered
      <4>2. scan'[c][n + 2].owned \subseteq AllOwned'
            BY <3>2, <2>d, <2>h, <2>i, <2>l
      <4>3. Remembered(c, n + 2)'
        <5>1. scan[c][1].owned \cup scan[c][1].consumed \cup OwnedIn(c, n) \subseteq h.owned \cup h.consumed
          <6>1. Remembered(c, n + 1) BY <3>2
          <6>2. (n + 1) - 1 = n OBVIOUS
          <6> QED BY <6>1, <6>2, <2>d DEF Remembered
        <5>2. OwnedIn(c, (n + 2) - 1)' = OwnedIn(c, n) \cup owned_by(i)
          <6>1. (n + 2) - 1 = n + 1 OBVIOUS
          <6> QED BY <6>1, <2>k
        <5>3. scan'[c][1] = scan[c][1] /\ scan'[c][n + 2] = st BY <2>h
        <5> QED BY <5>1, <5>2, <5>3, <2>i DEF Remembered
      <4> QED BY <4>1, <4>2, <4>3
    <3>5. /\ \A k \in 1 .. Size(c)' : ScannedAt(c, k)'
          /\ \A k \in 1 .. Size(c)' + 1 : Remembered(c, k)' /\ scan'[c][k].owned \subseteq AllOwned'
          BY <3>3, <3>4, <2>h
    <3> QED BY <3>1, <3>5, <2>f DEF Scanned
  <2>4. EntryOwned' BY <2>f, <2>l DEF Inv, Notes, EntryOwned
  <2>5. OneDefinition'
    <3> SUFFICES ASSUME NEW a \in Blocks, NEW b \in Blocks, NEW j \in 1 .. Size(a)', NEW k \in 1 .. Size(b)',
                        instruction_defines(code'[a].ins[j]) \cap instruction_defines(code'[b].ins[k]) # {}
                 PROVE  a = b /\ j = k
        BY DEF OneDefinition
    <3>1. (a = c /\ j = n + 1) \/ (j \in 1 .. Size(a) /\ code'[a].ins[j] = code[a].ins[j])
      <4>1. CASE a = c
        <5>1. j \in 1 .. n + 1 BY <4>1, <2>h
        <5>2. j = n + 1 \/ j \in 1 .. n BY <5>1
        <5> QED BY <4>1, <5>2, <2>b, <2>h
      <4>2. CASE a # c
        <5>1. j \in 1 .. Size(a) BY <4>2, <2>h
        <5> QED BY <4>2, <5>1, <2>g
      <4> QED BY <4>1, <4>2
    <3>2. (b = c /\ k = n + 1) \/ (k \in 1 .. Size(b) /\ code'[b].ins[k] = code[b].ins[k])
      <4>1. CASE b = c
        <5>1. k \in 1 .. n + 1 BY <4>1, <2>h
        <5>2. k = n + 1 \/ k \in 1 .. n BY <5>1
        <5> QED BY <4>1, <5>2, <2>b, <2>h
      <4>2. CASE b # c
        <5>1. k \in 1 .. Size(b) BY <4>2, <2>h
        <5> QED BY <4>2, <5>1, <2>g
      <4> QED BY <4>1, <4>2
    <3>3. CASE a = c /\ j = n + 1 /\ ~(b = c /\ k = n + 1)
          BY <3>2, <3>3, <2>h, <2>m
    <3>4. CASE ~(a = c /\ j = n + 1) /\ b = c /\ k = n + 1
          BY <3>1, <3>4, <2>h, <2>m
    <3>5. CASE ~(a = c /\ j = n + 1) /\ ~(b = c /\ k = n + 1)
          BY <3>1, <3>2, <3>5 DEF Inv, Notes, OneDefinition
    <3> QED BY <3>3, <3>4, <3>5
  <2>6. \A b \in Done : AtEnd(b)' = AtEnd(b) BY <2>g, <2>h, <2>j DEF AtEnd
  <2>7. \A b \in Blocks : block_successors(b)' = block_successors(b)
    <3> TAKE b \in Blocks
    <3>1. code'[b].term = code[b].term BY <2>g
    <3> QED BY <3>1 DEF block_successors
  <2>8. EdgesAgree'
    <3>1. \A b \in Done : code'[b].term = code[b].term /\ block_successors(b)' = block_successors(b)
          BY <2>7, <2>g, <2>j
    <3>2. found' = found /\ entry_state' = entry_state BY <2>f
    <3>3. EdgesAgree BY DEF Inv, Notes
    <3> QED BY <3>1, <3>2, <3>3, <2>6, <2>j DEF EdgesAgree
  <2>9. FoundFrom'
    <3>1. \A t \in 2 .. found : t \in Blocks BY DEF Inv, TypeOK, Blocks
    <3>2. scan'[c][1] = scan[c][1] BY <2>h
    <3>3. \A t \in 2 .. found : scan'[t][1] = scan[t][1] BY <3>1, <3>2, <2>g
    <3> QED BY <3>3, <2>6, <2>7, <2>f, <2>j DEF Inv, Notes, FoundFrom
  <2>10. Solved' /\ RunMatches' /\ RefsMatch' /\ ReadsAreDefined'
        BY VisitOnly, <2>f DEF Inv
  <2> QED BY <2>1, <2>2, <2>3, <2>4, <2>5, <2>8, <2>9, <2>10 DEF Inv, Notes
<1> QED BY <1>0, <1>1


\* A terminator is read: the block is done, and its targets are entered with
\* what it ends with.
LEMMA TerminatorInv ==
    ASSUME Inv, phase = "scan", NEW t \in Terminators, ReadTerminator(t),
           found' \in Blocks, found <= found', entry_state' \in [1 .. found' -> States],
           \A b \in 1 .. found : /\ entry_state'[b].owned = entry_state[b].owned
                                 /\ entry_state[b].consumed \subseteq entry_state'[b].consumed,
           \A b \in 1 .. found' : ~(b <= found) => b \in Targets(t) /\ entry_state'[b] = Here,
           \A b \in Targets(t) : b \in 1 .. found' /\ entry_state'[b].owned = Here.owned,
           t.op = "return" => Here.owned = IF t.val \in Arc THEN {t.val} ELSE {}
    PROVE  Inv'
<1>1. PICK c \in Blocks : c = cur /\ c \in 1 .. found /\ c \in 1 .. cur
      BY DEF Inv, Notes, TypeOK, Visited, Blocks
<1>2. /\ phase' = "visit" /\ size' = size /\ cur' = cur /\ scan' = scan
      /\ UNCHANGED flowing /\ UNCHANGED run /\ code' = [code EXCEPT ![c].term = t]
      BY <1>1 DEF ReadTerminator
<1>3. /\ code' \in [Blocks -> [ins : Seq(AnyInstruction), term : Terminators \cup {Unread}]]
      /\ \A b \in Blocks : code'[b].ins = code[b].ins
      /\ \A b \in Blocks : b # c => code'[b] = code[b]
      /\ code'[c].term = t
  <2>1. code \in [Blocks -> [ins : Seq(AnyInstruction), term : Terminators \cup {Unread}]]
        BY DEF Inv, TypeOK
  <2>2. PICK new \in [ins : Seq(AnyInstruction), term : Terminators \cup {Unread}] :
           new = [code[c] EXCEPT !.term = t]
        BY <2>1
  <2>3. code' = [code EXCEPT ![c] = new] BY <1>2, <2>2
  <2>4. new.ins = code[c].ins /\ new.term = t BY <2>1, <2>2
  <2> QED BY <2>1, <2>3, <2>4
<1>4. \A b \in Blocks : Size(b)' = Size(b) BY <1>3 DEF Size
<1>5. /\ \A b \in Blocks : \A k : OwnedIn(b, k)' = OwnedIn(b, k)
      /\ AllOwned' = AllOwned
  <2>1. \A b \in Blocks : \A k : OwnedIn(b, k)' = OwnedIn(b, k) BY <1>3 DEF OwnedIn
  <2>2. \A b \in Blocks : OwnedIn(b, Size(b))' = OwnedIn(b, Size(b)) BY <1>3, <1>4 DEF OwnedIn
  <2>3. AllOwned' = UNION {OwnedIn(b, Size(b))' : b \in Blocks} BY DEF AllOwned
  <2>4. AllOwned = UNION {OwnedIn(b, Size(b)) : b \in Blocks} BY DEF AllOwned
  <2>5. {OwnedIn(b, Size(b))' : b \in Blocks} = {OwnedIn(b, Size(b)) : b \in Blocks} BY <2>2
  <2> QED BY <2>1, <2>3, <2>4, <2>5
<1>6. /\ found \in Nat /\ found' \in Nat /\ cur \in Nat /\ c <= found
      /\ 1 .. found \subseteq 1 .. found' /\ 1 .. cur \subseteq Blocks /\ 1 .. cur \subseteq 1 .. found
      BY <1>1 DEF Inv, TypeOK, Blocks
<1>7. /\ Done \subseteq Done' /\ c \in Done' /\ Done' = 1 .. cur
      /\ \A b \in Done' : b # c => b \in Done
      /\ \A b \in Done : b # c /\ b \in Blocks
      BY <1>1, <1>2, <1>6 DEF Done
<1>8. AtEnd(c) = Here /\ \A b \in Blocks : AtEnd(b)' = AtEnd(b)
  <2>1. Len(scan[c]) = Size(c) + 1 BY <1>1 DEF Inv, Notes, Visited
  <2>2. AtEnd(c) = Here BY <2>1, <1>1 DEF AtEnd, Here
  <2> QED BY <2>2, <1>2, <1>4 DEF AtEnd
<1>9. /\ \A b \in Blocks : b # c => block_successors(b)' = block_successors(b)
      /\ block_successors(c)' = Targets(t)
      BY <1>3 DEF block_successors, Targets
<1>10. TypeOK'
  <2>1. size' \in 0 .. MaxSize /\ cur' \in 0 .. found'
    <3>1. size \in 0 .. MaxSize /\ cur \in 0 .. found BY DEF Inv, TypeOK
    <3> QED BY <3>1, <1>2, <1>6
  <2>2. incoming' \in [Blocks -> SUBSET Arc] /\ outgoing' \in [Blocks -> SUBSET Arc] /\ scan' \in [Blocks -> Seq(States)]
        BY <1>2 DEF Inv, TypeOK, flowing
  <2>3. swept' \in 0 .. found'
    <3>1. swept \in 0 .. found BY DEF Inv, TypeOK
    <3>2. swept' = swept BY <1>2 DEF flowing
    <3> QED BY <3>1, <3>2, <1>6
  <2>4. changed' \in BOOLEAN BY <1>2 DEF Inv, TypeOK, flowing
  <2> QED BY <2>1, <2>2, <2>3, <2>4, <1>2, <1>3 DEF Inv, TypeOK
<1>11. Visited'
  <2>1. \A b \in Blocks : Size(b)' <= size' BY <1>2, <1>4 DEF Inv, Notes, Visited
  <2>2. \A b \in Blocks : b > cur => code'[b].ins = << >> BY <1>3 DEF Inv, Notes, Visited
  <2>3. \A b \in 1 .. cur : Len(scan'[b]) = Size(b)' + 1 /\ scan'[b][1].owned = entry_state'[b].owned
        BY <1>2, <1>4, <1>6 DEF Inv, Notes, Visited
  <2>4. \A b \in Done' : code'[b].term \in Terminators
        BY <1>3, <1>7 DEF Inv, Notes, Visited
  <2> QED BY <2>1, <2>2, <2>3, <2>4, <1>2 DEF Visited
<1>12. Scanned'
  <2>1. ASSUME NEW b \in 1 .. cur
        PROVE  /\ \A k \in 1 .. Size(b)' : ScannedAt(b, k)'
               /\ \A k \in 1 .. Size(b)' + 1 : Remembered(b, k)' /\ scan'[b][k].owned \subseteq AllOwned'
    <3>1. b \in Blocks BY <1>6
    <3>2. code'[b].ins = code[b].ins /\ Size(b)' = Size(b) /\ \A k : OwnedIn(b, k)' = OwnedIn(b, k)
          BY <3>1, <1>3, <1>4, <1>5
    <3>3. /\ \A k \in 1 .. Size(b) : ScannedAt(b, k)
          /\ \A k \in 1 .. Size(b) + 1 : Remembered(b, k) /\ scan[b][k].owned \subseteq AllOwned
          BY DEF Inv, Notes, Scanned
    <3>4. \A k \in 1 .. Size(b)' : ScannedAt(b, k)' BY <3>2, <3>3, <1>2 DEF ScannedAt
    <3>5. \A k \in 1 .. Size(b)' + 1 : Remembered(b, k)' BY <3>2, <3>3, <1>2 DEF Remembered
    <3> QED BY <3>2, <3>3, <3>4, <3>5, <1>2, <1>5
  <2> QED BY <2>1, <1>2 DEF Scanned
<1>13. EntryOwned'
  <2>1. Here.owned \subseteq AllOwned
    <3>1. Size(c) \in Nat
      <4>1. code[c].ins \in Seq(AnyInstruction) BY DEF Inv, TypeOK
      <4> QED BY <4>1 DEF Size
    <3>2. Size(c) + 1 \in 1 .. Size(c) + 1 BY <3>1
    <3>3. scan[c][Size(c) + 1].owned \subseteq AllOwned BY <3>2, <1>1 DEF Inv, Notes, Scanned
    <3> QED BY <3>3, <1>8 DEF AtEnd
  <2>2. \A b \in 1 .. found : entry_state'[b].owned \subseteq AllOwned' BY <1>5 DEF Inv, Notes, EntryOwned
  <2>3. \A b \in 1 .. found' : ~(b <= found) => entry_state'[b].owned \subseteq AllOwned' BY <2>1, <1>5
  <2>4. \A b \in 1 .. found' : b <= found => b \in 1 .. found BY <1>6
  <2>5. entry_state'[Entry].owned = {} BY <1>1, <1>6 DEF Inv, Notes, EntryOwned
  <2> QED BY <2>2, <2>3, <2>4, <2>5 DEF EntryOwned
<1>14. OneDefinition' BY <1>3, <1>4 DEF Inv, Notes, OneDefinition
<1>15. EdgesAgree'
  <2>1. EdgesAgree BY DEF Inv, Notes
  <2>2. ASSUME NEW b \in Done', b # c
        PROVE  /\ \A x \in block_successors(b)' : x \in 1 .. found' /\ entry_state'[x].owned = AtEnd(b)'.owned
               /\ code'[b].term.op = "return" =>
                     AtEnd(b)'.owned = IF code'[b].term.val \in Arc THEN {code'[b].term.val} ELSE {}
    <3>1. b \in Done /\ b \in Blocks BY <2>2, <1>7
    <3>2. code'[b] = code[b] /\ block_successors(b)' = block_successors(b) /\ AtEnd(b)' = AtEnd(b)
          BY <2>2, <3>1, <1>3, <1>8, <1>9
    <3>3. \A x \in block_successors(b) : x \in 1 .. found /\ entry_state[x].owned = AtEnd(b).owned
          BY <2>1, <3>1 DEF EdgesAgree
    <3>4. \A x \in block_successors(b)' : x \in 1 .. found' /\ entry_state'[x].owned = AtEnd(b)'.owned
          BY <3>2, <3>3, <1>6
    <3>5. code[b].term.op = "return" =>
             AtEnd(b).owned = IF code[b].term.val \in Arc THEN {code[b].term.val} ELSE {}
          BY <2>1, <3>1 DEF EdgesAgree
    <3> QED BY <3>2, <3>4, <3>5
  <2>3. /\ \A x \in block_successors(c)' : x \in 1 .. found' /\ entry_state'[x].owned = AtEnd(c)'.owned
        /\ code'[c].term.op = "return" =>
              AtEnd(c)'.owned = IF code'[c].term.val \in Arc THEN {code'[c].term.val} ELSE {}
        BY <1>3, <1>8, <1>9
  <2> QED BY <2>2, <2>3 DEF EdgesAgree
<1>16. FoundFrom'
  <2> SUFFICES ASSUME NEW x \in 2 .. found'
               PROVE  \E b \in Done' : /\ b < x /\ x \in block_successors(b)'
                                       /\ AtEnd(b)'.consumed \subseteq
                                            (IF x <= cur THEN scan[x][1].consumed ELSE entry_state'[x].consumed)
      BY <1>2 DEF FoundFrom
  <2>1. CASE x <= found
    <3>1. x \in 2 .. found /\ x \in 1 .. found BY <2>1, <1>6
    <3>2. PICK b \in Done : /\ b < x /\ x \in block_successors(b)
                            /\ AtEnd(b).consumed \subseteq
                                 (IF x <= cur THEN scan[x][1].consumed ELSE entry_state[x].consumed)
          BY <3>1 DEF Inv, Notes, FoundFrom
    <3>3. b \in Done' /\ x \in block_successors(b)' /\ AtEnd(b)' = AtEnd(b) BY <3>2, <1>7, <1>8, <1>9
    <3>4. entry_state[x].consumed \subseteq entry_state'[x].consumed BY <3>1
    <3> QED BY <3>2, <3>3, <3>4
  <2>2. CASE ~(x <= found)
    <3>1. x \in 1 .. found' /\ c < x /\ ~(x <= cur) BY <2>2, <1>1, <1>6
    <3>2. x \in Targets(t) /\ entry_state'[x] = Here BY <3>1, <2>2
    <3>3. x \in block_successors(c)' /\ AtEnd(c)' = Here BY <3>2, <1>8, <1>9
    <3> QED BY <3>1, <3>2, <3>3, <1>7
  <2> QED BY <2>1, <2>2
<1>17. Solved' /\ RunMatches' /\ RefsMatch' /\ ReadsAreDefined'
      BY VisitOnly, <1>2 DEF Inv
<1> QED BY <1>10, <1>11, <1>12, <1>13, <1>14, <1>15, <1>16, <1>17 DEF Inv, Notes

LEMMA ReturnOrStopInv ==
    ASSUME Inv, NEW t \in Terminators, check_return(t) \/ check_stop(t)
    PROVE  Inv'
<1>0. CASE Reject BY <1>0, RejectInv
<1>1. CASE ~Reject
  <2>1. /\ phase = "scan" /\ ReadTerminator(t) /\ entry_state' = entry_state /\ found' = found
        /\ t.op \in {"return", "stop"}
        /\ t.op = "return" => ReturnIsSound(t.val)
        BY <1>1 DEF check_return, check_stop
  <2>2. Targets(t) = {} BY <2>1, TerminatorFacts
  <2>3. t.op = "return" => Here.owned = IF t.val \in Arc THEN {t.val} ELSE {} BY <2>1 DEF ReturnIsSound
  <2>4. found \in Blocks /\ found \in Nat /\ entry_state \in [1 .. found -> States]
        BY DEF Inv, TypeOK, Blocks
  <2>5. \A b \in 1 .. found' : b <= found BY <2>1, <2>4
  <2>6. found' \in Blocks /\ found <= found' /\ entry_state' \in [1 .. found' -> States] BY <2>1, <2>4
  <2>7. \A b \in 1 .. found : /\ entry_state'[b].owned = entry_state[b].owned
                              /\ entry_state[b].consumed \subseteq entry_state'[b].consumed
        BY <2>1
  <2> QED BY <2>1, <2>2, <2>3, <2>5, <2>6, <2>7, TerminatorInv
<1> QED BY <1>0, <1>1

\* The blocks found so far and the targets of a jump or branch are again
\* the blocks up to the last one.
LEMMA NumberedTargets ==
    ASSUME NEW t \in Terminators, t.op \in {"jump", "branch"}, Numbered(t), Missing \notin Targets(t),
           found \in Nat \ {0}, NEW n \in Targets(t) \cup {found}, \A b \in Targets(t) \cup {found} : b <= n
    PROVE  n \in Nat /\ found <= n /\ (1 .. found) \cup Targets(t) = 1 .. n
<1>1. CASE t.op = "jump"
  <2>1. PICK a \in Blocks : t.targets = <<a>> BY <1>1 DEF Terminators, Targets
  <2>2. Targets(t) = {a} BY <2>1 DEF Targets
  <2>3. a <= found + 1 BY <2>1 DEF Numbered
  <2>4. a \in Nat \ {0} BY DEF Blocks
  <2> QED BY <2>2, <2>3, <2>4
<1>2. CASE t.op = "branch"
  <2>1. PICK a \in Blocks \cup {0}, e \in Blocks \cup {0} : t.targets = <<a, e>> BY <1>2 DEF Terminators
  <2>2. Targets(t) = {a, e} BY <2>1 DEF Targets
  <2>3. 1 \in DOMAIN t.targets /\ 2 \in DOMAIN t.targets /\ t.targets[1] = a /\ t.targets[2] = e BY <2>1
  <2>4. a <= found + 1
    <3>1. t.targets[1] <= found + 1 \/ (1 = 2 /\ t.targets = <<found + 1, found + 2>>) BY <2>3 DEF Numbered
    <3> QED BY <3>1, <2>3
  <2>5. e <= found + 1 \/ (a = found + 1 /\ e = found + 2)
    <3>1. t.targets[2] <= found + 1 \/ (2 = 2 /\ t.targets = <<found + 1, found + 2>>) BY <2>3 DEF Numbered
    <3> QED BY <3>1, <2>1, <2>3
  <2>6. a \in Nat \ {0} /\ e \in Nat \ {0} BY <2>2 DEF Blocks
  <2> QED BY <2>2, <2>4, <2>5, <2>6
<1> QED BY <1>1, <1>2

LEMMA MergeInv ==
    ASSUME Inv, NEW t \in Terminators, merge(t)
    PROVE  Inv'
<1>0. CASE Reject BY <1>0, RejectInv
<1>1. CASE ~Reject
  <2>1. /\ phase = "scan" /\ t.op \in {"jump", "branch"} /\ Numbered(t) /\ PathsJoin(t)
        /\ entry_state' = Merged(t) /\ ReadTerminator(t)
        /\ found' \in Targets(t) \cup {found} /\ \A b \in Targets(t) \cup {found} : b <= found'
        BY <1>1 DEF merge
  <2>2. found \in Blocks /\ found \in Nat \ {0} /\ entry_state \in [1 .. found -> States] /\ DOMAIN entry_state = 1 .. found
        BY DEF Inv, TypeOK, Blocks
  <2>3. Missing \notin Targets(t) BY <2>1 DEF PathsJoin
  <2>4. PICK n : n = found' OBVIOUS
  <2>5. n \in Nat /\ found <= n /\ (1 .. found) \cup Targets(t) = 1 .. n
        BY <2>1, <2>2, <2>3, <2>4, NumberedTargets
  <2>6. found' \in Blocks BY <2>1, <2>2, <2>3, TerminatorFacts
  <2>7. Here \in States
    <3>1. cur \in Blocks /\ cur \in 1 .. cur BY <2>1 DEF Inv, Notes, TypeOK, Visited, Blocks
    <3>2. scan[cur] \in Seq(States) BY <3>1 DEF Inv, TypeOK
    <3>3. code[cur].ins \in Seq(AnyInstruction) BY <3>1 DEF Inv, TypeOK
    <3>4. Len(scan[cur]) = Size(cur) + 1 /\ Size(cur) \in Nat BY <3>1, <3>3 DEF Inv, Notes, Visited, Size
    <3> QED BY <3>2, <3>4 DEF Here
  <2>8. \A b \in 1 .. n : entry_state'[b] = IF b \notin 1 .. found THEN Here
                                            ELSE IF b \in Targets(t)
                                            THEN [entry_state[b] EXCEPT !.consumed = @ \cup Here.consumed]
                                            ELSE entry_state[b]
        BY <2>1, <2>2, <2>5 DEF Merged
  <2>9. ASSUME NEW b \in 1 .. found
        PROVE  /\ b \in 1 .. n /\ entry_state'[b] \in States
               /\ entry_state'[b].owned = entry_state[b].owned
               /\ entry_state[b].consumed \subseteq entry_state'[b].consumed
    <3>1. b \in 1 .. n BY <2>2, <2>5
    <3>2. entry_state[b] \in States BY <2>2
    <3> QED BY <3>1, <3>2, <2>7, <2>8 DEF States
  <2>10. \A b \in 1 .. n : ~(b <= found) => b \in Targets(t) /\ entry_state'[b] = Here
    <3>1. \A b \in 1 .. n : ~(b <= found) => b \notin 1 .. found BY <2>2, <2>5
    <3> QED BY <3>1, <2>5, <2>8
  <2>11. entry_state' \in [1 .. n -> States]
    <3>1. \A b \in 1 .. n : entry_state'[b] \in States
      <4>1. \A b \in 1 .. n : b \notin 1 .. found => entry_state'[b] = Here BY <2>8
      <4> QED BY <4>1, <2>7, <2>9
    <3>2. PICK D : D = 1 .. n OBVIOUS
    <3>3. entry_state' = [b \in D |-> entry_state'[b]] BY <3>2, <2>1, <2>2, <2>5 DEF Merged
    <3> QED BY <3>1, <3>2, <3>3
  <2>12. ASSUME NEW b \in Targets(t) PROVE b \in 1 .. n /\ entry_state'[b].owned = Here.owned
    <3>1. b \in 1 .. n BY <2>5
    <3>2. CASE b \in 1 .. found
      <4>1. entry_state[b].owned = Here.owned BY <3>2, <2>1, <2>2 DEF PathsJoin
      <4> QED BY <3>1, <3>2, <4>1, <2>9
    <3>3. CASE b \notin 1 .. found BY <3>1, <3>3, <2>8
    <3> QED BY <3>1, <3>2, <3>3
  <2>13. t.op # "return" BY <2>1
  <2> QED BY <2>1, <2>4, <2>5, <2>6, <2>9, <2>10, <2>11, <2>12, <2>13, TerminatorInv
<1> QED BY <1>0, <1>1


-----------------------------------------------------------------------------
(* The sweeps.                                                             *)

LEMMA CodeFacts ==
    ASSUME Inv
    PROVE  /\ 1 .. found \subseteq Blocks /\ found \in Nat \ {0}
           /\ \A b \in Blocks : Size(b) \in Nat /\ code[b].ins \in Seq(AnyInstruction)
           /\ \A b \in Blocks : \A k \in 1 .. Size(b) : code[b].ins[k] \in AnyInstruction
           /\ all_values \subseteq Arc
           /\ \A b \in Blocks : DefinedIn(b, Size(b)) \subseteq Arc
<1>1. 1 .. found \subseteq Blocks /\ found \in Nat \ {0} BY DEF Inv, TypeOK, Blocks
<1>2. \A b \in Blocks : code[b].ins \in Seq(AnyInstruction) BY DEF Inv, TypeOK
<1>3. \A b \in Blocks : Size(b) \in Nat BY <1>2 DEF Size
<1>4. \A b \in Blocks : \A k \in 1 .. Size(b) : code[b].ins[k] \in AnyInstruction BY <1>2 DEF Size
<1>5. all_values \subseteq Arc
  <2> SUFFICES ASSUME NEW p \in Places PROVE instruction_defines(At(p)) \subseteq Arc BY DEF all_values
  <2>0. PICK b \in Reachable : p \in {<<b, k>> : k \in 1 .. Len(code[b].ins)} BY DEF Places
  <2>1. PICK k \in 1 .. Len(code[b].ins) : p = <<b, k>> BY <2>0
  <2>2. At(p) \in AnyInstruction BY <2>1, <1>1, <1>4 DEF At, Reachable, Size
  <2> QED BY <2>2, InstructionFacts
<1>6. \A b \in Blocks : DefinedIn(b, Size(b)) \subseteq Arc
  <2> SUFFICES ASSUME NEW b \in Blocks, NEW j \in 1 .. Size(b)
               PROVE  instruction_defines(code[b].ins[j]) \subseteq Arc
      BY DEF DefinedIn
  <2> QED BY <1>4, InstructionFacts
<1> QED BY <1>1, <1>2, <1>3, <1>4, <1>5, <1>6

\* What the sweeps read of the function.
LEMMA SameFunction ==
    ASSUME UNCHANGED validating
    PROVE  /\ Reachable' = Reachable /\ all_values' = all_values
           /\ \A b : predecessors(b)' = predecessors(b)
           /\ \A b, k : DefinedIn(b, k)' = DefinedIn(b, k)
           /\ \A b : Size(b)' = Size(b)
           /\ PhisMatchEdges => PhisMatchEdges'
<1> USE DEF validating
<1>1. Reachable' = Reachable /\ Places' = Places /\ \A p : At(p)' = At(p) BY DEF Reachable, Places, At
<1>2. all_values' = all_values BY <1>1 DEF all_values
<1>3. \A b : predecessors(b)' = predecessors(b) BY <1>1 DEF predecessors, block_successors
<1>4. \A b, k : DefinedIn(b, k)' = DefinedIn(b, k) BY DEF DefinedIn
<1>5. Phis' = Phis BY <1>1 DEF Phis
<1>6. PhisMatchEdges => PhisMatchEdges' BY <1>1, <1>3, <1>5 DEF PhisMatchEdges
<1>7. \A b : Size(b)' = Size(b) BY DEF Size
<1> QED BY <1>1, <1>2, <1>3, <1>4, <1>6, <1>7

LEMMA SameSolution ==
    ASSUME UNCHANGED validating, incoming' = incoming, outgoing' = outgoing
    PROVE  /\ \A b : SolvedAt(b) => SolvedAt(b)'
           /\ UsesAreDefined => UsesAreDefined'
<1>1. \A b : next_incoming(b)' = next_incoming(b) BY SameFunction DEF next_incoming
<1>2. \A b : next_outgoing(b)' = next_outgoing(b)
      BY <1>1, SameFunction DEF next_outgoing, validating
<1>3. \A b : SolvedAt(b) => SolvedAt(b)' BY <1>1, <1>2 DEF SolvedAt
<1>4. UsesAreDefined => UsesAreDefined'
  <2>1. \A b, k : validate_phi(b, k) => validate_phi(b, k)' BY DEF validate_phi, validating
  <2>2. \A b, k : OperandsDefined(b, k) => OperandsDefined(b, k)'
        BY SameFunction DEF OperandsDefined, validating
  <2>3. \A b : TerminatorDefined(b) => TerminatorDefined(b)' BY DEF TerminatorDefined, validating
  <2> QED BY <2>1, <2>2, <2>3, SameFunction DEF UsesAreDefined, validating
<1> QED BY <1>3, <1>4

\* Nothing runs while the validator sweeps.
LEMMA SweepOnly ==
    ASSUME phase \in {"visit", "flow"}, phase' = "flow", RunMatches, UNCHANGED run
    PROVE  RunMatches' /\ RefsMatch' /\ ReadsAreDefined'
<1>1. RunMatches' /\ ReadsAreDefined' BY DEF RunMatches, ReadsAreDefined, Running
<1>2. RefsMatch' BY DEF RunMatches, RefsMatch, Running, NoRun
<1> QED BY <1>1, <1>2

LEMMA StartSweepsInv ==
    ASSUME Inv, StartSweeps
    PROVE  Inv'
<1>0. CASE Reject BY <1>0, RejectInv
<1>1. CASE ~Reject
  <2>1. /\ phase = "visit" /\ phase' = "flow" /\ cur = found /\ PhisMatchEdges
        /\ swept' = 0 /\ changed' = FALSE /\ UNCHANGED validating /\ UNCHANGED run
        /\ incoming' = [b \in Blocks |-> IF b \in Reachable \ {Entry} THEN all_values ELSE {}]
        /\ outgoing' = [b \in Blocks |-> IF b \in Reachable \ {Entry} THEN all_values ELSE {}]
        BY <1>1 DEF StartSweeps
  <2>2. incoming' \in [Blocks -> SUBSET Arc] /\ outgoing' \in [Blocks -> SUBSET Arc]
        BY <2>1, CodeFacts
  <2>3. swept' \in 0 .. found' /\ changed' \in BOOLEAN
    <3>1. found \in Nat /\ swept' = 0 /\ found' = found BY <2>1, CodeFacts DEF validating
    <3>2. swept' \in 0 .. found' BY <3>1
    <3>3. changed' \in BOOLEAN BY <2>1
    <3> QED BY <3>2, <3>3
  <2>4. TypeOK' BY <2>1, <2>2, <2>3 DEF Inv, TypeOK, validating
  <2>5. Notes' BY <2>1, NotesKept DEF Inv
  <2>6. Solved'
    <3>1. cur' = found' /\ PhisMatchEdges' BY <2>1, SameFunction DEF validating
    <3>2. 1 .. swept' = {} BY <2>1
    <3> QED BY <3>1, <3>2, <2>1 DEF Solved, Running
  <2>7. RunMatches' /\ RefsMatch' /\ ReadsAreDefined' BY <2>1, SweepOnly DEF Inv
  <2> QED BY <2>4, <2>5, <2>6, <2>7 DEF Inv
<1> QED BY <1>0, <1>1

LEMMA SweepInv ==
    ASSUME Inv, NEW b \in Blocks, Sweep(b)
    PROVE  Inv'
<1>1. /\ phase = "flow" /\ phase' = "flow" /\ UNCHANGED validating /\ UNCHANGED run
      /\ b = swept + 1 /\ b \in Reachable /\ swept' = b
      /\ incoming' = [incoming EXCEPT ![b] = next_incoming(b)]
      /\ outgoing' = [outgoing EXCEPT ![b] = next_outgoing(b)]
      BY DEF Sweep
<1>2. changed' = (changed \/ next_incoming(b) # incoming[b] \/ next_outgoing(b) # outgoing[b])
      BY DEF Sweep
<1>3. /\ incoming \in [Blocks -> SUBSET Arc] /\ outgoing \in [Blocks -> SUBSET Arc]
      /\ swept \in 0 .. found /\ found \in Nat
      BY CodeFacts DEF Inv, TypeOK
<1>4. next_incoming(b) \subseteq Arc BY CodeFacts DEF next_incoming
<1>5. next_outgoing(b) \subseteq Arc BY <1>4, CodeFacts DEF next_outgoing, Size
<1>6. TypeOK'
  <2>1. incoming' \in [Blocks -> SUBSET Arc] /\ outgoing' \in [Blocks -> SUBSET Arc]
        BY <1>1, <1>3, <1>4, <1>5
  <2>2. swept' \in 0 .. found' BY <1>1, <1>3 DEF Reachable, validating
  <2>3. changed' \in BOOLEAN BY <1>2
  <2> QED BY <2>1, <2>2, <2>3, <1>1 DEF Inv, TypeOK, validating
<1>7. Notes' BY <1>1, NotesKept DEF Inv
<1>8. Solved'
  <2>1. cur' = found' /\ PhisMatchEdges' BY <1>1, SameFunction DEF Inv, Solved, validating
  <2>2. ASSUME ~changed' PROVE \A x \in 1 .. swept' : SolvedAt(x)'
    <3>1. ~changed /\ next_incoming(b) = incoming[b] /\ next_outgoing(b) = outgoing[b]
          BY <1>2, <2>2
    <3>2. incoming' = incoming /\ outgoing' = outgoing BY <1>1, <1>3, <3>1
    <3>3. \A x \in 1 .. swept : SolvedAt(x) BY <1>1, <3>1 DEF Inv, Solved
    <3>4. SolvedAt(b) BY <3>1 DEF SolvedAt
    <3>5. \A x \in 1 .. swept' : x \in 1 .. swept \/ x = b BY <1>1, <1>3
    <3> QED BY <1>1, <3>2, <3>3, <3>4, <3>5, SameSolution
  <2> QED BY <1>1, <2>1, <2>2 DEF Solved, Running
<1>9. RunMatches' /\ RefsMatch' /\ ReadsAreDefined' BY <1>1, SweepOnly DEF Inv
<1> QED BY <1>6, <1>7, <1>8, <1>9 DEF Inv

LEMMA SweepAgainInv ==
    ASSUME Inv, SweepAgain
    PROVE  Inv'
<1>1. /\ phase = "flow" /\ phase' = "flow" /\ UNCHANGED validating /\ UNCHANGED run
      /\ swept' = 0 /\ incoming' = incoming /\ outgoing' = outgoing
      BY DEF SweepAgain
<1>2. changed' = FALSE BY DEF SweepAgain
<1>3. TypeOK'
  <2>1. found \in Nat /\ swept' = 0 /\ found' = found BY <1>1, CodeFacts DEF validating
  <2>2. swept' \in 0 .. found' BY <2>1
  <2>3. changed' \in BOOLEAN BY <1>2
  <2> QED BY <2>2, <2>3, <1>1 DEF Inv, TypeOK, validating
<1>4. Notes' BY <1>1, NotesKept DEF Inv
<1>5. Solved'
  <2>1. cur' = found' /\ PhisMatchEdges' BY <1>1, SameFunction DEF Inv, Solved, validating
  <2>2. 1 .. swept' = {} BY <1>1
  <2> QED BY <1>1, <2>1, <2>2 DEF Solved, Running
<1>6. RunMatches' /\ RefsMatch' /\ ReadsAreDefined' BY <1>1, SweepOnly DEF Inv
<1> QED BY <1>3, <1>4, <1>5, <1>6 DEF Inv

\* The accepted function starts where the validator started.
LEMMA VerdictInv ==
    ASSUME Inv, Verdict
    PROVE  Inv'
<1>0. CASE Reject BY <1>0, RejectInv
<1>1. CASE ~Reject
  <2>1. /\ phase = "flow" /\ phase' = "run" /\ swept = found /\ ~changed /\ UsesAreDefined
        /\ UNCHANGED validating /\ UNCHANGED flowing /\ UNCHANGED run
        BY <1>1 DEF Verdict
  <2>2. TypeOK' BY <2>1 DEF Inv, TypeOK, validating, flowing
  <2>3. Notes' BY <2>1, NotesKept DEF Inv
  <2>4. incoming' = incoming /\ outgoing' = outgoing BY <2>1 DEF flowing
  <2>5. \A b \in Reachable : SolvedAt(b) BY <2>1 DEF Inv, Solved, Reachable
  <2>6. Solved'
    <3>1. cur' = found' /\ PhisMatchEdges' BY <2>1, SameFunction DEF Inv, Solved, validating
    <3>2. UsesAreDefined' /\ \A b \in Reachable' : SolvedAt(b)'
          BY <2>1, <2>4, <2>5, SameFunction, SameSolution
    <3> QED BY <2>1, <3>1, <3>2 DEF Solved, Running
  <2>7. run' = NoRun /\ run = NoRun BY <2>1 DEF Inv, RunMatches, Running
  <2>8. Entry \in Reachable /\ Entry \in 1 .. cur /\ Entry \in Blocks
    <3>1. cur = found BY <2>1 DEF Inv, Solved
    <3> QED BY <3>1, CodeFacts DEF Reachable
  <2>9. incoming[Entry] = {}
    <3>1. incoming[Entry] = next_incoming(Entry) BY <2>5, <2>8 DEF SolvedAt
    <3> QED BY <3>1 DEF next_incoming
  <2>10. RunMatches'
    <3>1. Size(Entry)' \in Nat BY <2>1, <2>8, CodeFacts, SameFunction
    <3>2. DefinedIn(Entry, 1 - 1) = {} BY DEF DefinedIn
    <3>3. DefinedIn(Entry, 1 - 1)' = {} BY <3>2, <2>1, SameFunction
    <3>4. /\ run'.at = Entry /\ run'.ip = 1 /\ run'.from = Missing /\ run'.spent = {} /\ run'.defined = {}
          BY <2>7 DEF NoRun
    <3>5. Entry \in Reachable' /\ 1 \in 1 .. Size(Entry)' + 1 BY <3>1, <2>1, <2>8, SameFunction
    <3>6. incoming'[Entry] = {} BY <2>4, <2>9
    <3> QED BY <3>3, <3>4, <3>5, <3>6, <2>1 DEF RunMatches, Running
  <2>11. RefsMatch'
    <3>1. scan[Entry][1].owned = {}
          BY <2>8 DEF Inv, Notes, Visited, EntryOwned
    <3>2. scan'[run'.at][run'.ip].owned = {} BY <3>1, <2>1, <2>7 DEF NoRun, validating
    <3>3. \A v \in Arc : run'.refs[v] = 0 BY <2>7 DEF NoRun
    <3> QED BY <3>2, <3>3 DEF RefsMatch
  <2>12. ReadsAreDefined' BY <2>1 DEF ReadsAreDefined
  <2> QED BY <2>2, <2>3, <2>6, <2>10, <2>11, <2>12 DEF Inv
<1> QED BY <1>0, <1>1


-----------------------------------------------------------------------------
(* The run.                                                                *)

\* While the function runs, what the validator found stays.
LEMMA RunKeeps ==
    ASSUME Inv, Running, Running', UNCHANGED validating, UNCHANGED flowing,
           run' \in [at : Blocks, ip : Nat \ {0}, from : 0 .. MaxBlocks,
                     defined : SUBSET Arc, spent : SUBSET Arc, refs : [Arc -> Int]]
    PROVE  TypeOK' /\ Notes' /\ Solved'
<1>1. TypeOK' BY DEF Inv, TypeOK, validating, flowing, Running
<1>2. Notes' BY NotesKept DEF Inv, Running
<1>3. incoming' = incoming /\ outgoing' = outgoing BY DEF flowing
<1>4. Solved'
  <2>1. cur' = found' /\ PhisMatchEdges' BY SameFunction DEF Inv, Solved, validating
  <2>2. UsesAreDefined' /\ \A b \in Reachable' : SolvedAt(b)'
        BY <1>3, SameFunction, SameSolution DEF Inv, Solved
  <2>3. phase' # "flow" BY DEF Running
  <2> QED BY <2>1, <2>2, <2>3 DEF Solved
<1> QED BY <1>1, <1>2, <1>4

\* Where the run stands, and what the validator noted there.
LEMMA RunFacts ==
    ASSUME Inv, Running
    PROVE  /\ run.at \in Blocks /\ run.at \in Reachable /\ run.at \in 1 .. cur /\ run.at \in Done
           /\ Size(run.at) \in Nat /\ run.ip \in 1 .. Size(run.at) + 1
           /\ InBlock => /\ run.ip \in 1 .. Size(run.at) /\ Current \in AnyInstruction
                         /\ Current = code[run.at].ins[run.ip]
                         /\ ScannedAt(run.at, run.ip)
           /\ ~InBlock => run.ip = Size(run.at) + 1
           /\ scan[run.at][run.ip].owned \subseteq AllOwned
           /\ SolvedAt(run.at) /\ cur = found
<1>1. cur = found /\ run.at \in Reachable /\ run.ip \in 1 .. Size(run.at) + 1 BY DEF Inv, Solved, RunMatches
<1>2. run.at \in Blocks /\ run.at \in 1 .. cur BY <1>1, CodeFacts DEF Reachable
<1>3. run.at \in Done BY <1>2 DEF Done, Running
<1>4. Size(run.at) \in Nat BY <1>2, CodeFacts
<1>5. InBlock <=> run.ip <= Size(run.at) BY DEF InBlock, Block, Size
<1>6. ASSUME InBlock
      PROVE  /\ run.ip \in 1 .. Size(run.at) /\ Current \in AnyInstruction
             /\ Current = code[run.at].ins[run.ip] /\ ScannedAt(run.at, run.ip)
  <2>1. run.ip \in 1 .. Size(run.at) BY <1>1, <1>4, <1>5, <1>6
  <2>2. Current = code[run.at].ins[run.ip] BY DEF Current, Block
  <2>3. Current \in AnyInstruction BY <2>1, <2>2, <1>2, CodeFacts
  <2>4. ScannedAt(run.at, run.ip) BY <2>1, <1>2 DEF Inv, Notes, Scanned
  <2> QED BY <2>1, <2>2, <2>3, <2>4
<1>7. ~InBlock => run.ip = Size(run.at) + 1 BY <1>1, <1>4, <1>5
<1>8. scan[run.at][run.ip].owned \subseteq AllOwned BY <1>1, <1>2 DEF Inv, Notes, Scanned
<1>9. SolvedAt(run.at) BY <1>1 DEF Inv, Solved
<1> QED BY <1>1, <1>2, <1>3, <1>4, <1>6, <1>7, <1>8, <1>9

\* What an accepted instruction reads is defined, but for the two shapes
\* the operand check lets through.
LEMMA FailsOnlyInTwoShapes ==
    ASSUME Inv, phase = "run", InBlock, ~(Resolved /\ Reads \subseteq run.defined)
    PROVE  ReadsItself \/ PhiAtStart
<1>0. Running BY DEF Running
<1>1. PICK a \in Blocks, k \in Nat : a = run.at /\ k = run.ip
      BY <1>0, RunFacts
<1>2. PICK i \in AnyInstruction : i = Current /\ i = code[a].ins[k]
      BY <1>0, <1>1, RunFacts
<1>3. a \in Reachable /\ k \in 1 .. Size(a) BY <1>0, <1>1, RunFacts
<1>4. IF i.op = "phi" THEN validate_phi(a, k) ELSE OperandsDefined(a, k)
      BY <1>0, <1>2, <1>3 DEF Inv, Solved, UsesAreDefined, Size
<1>5. CASE i.op = "phi" /\ run.from # Missing
  <2>1. run.from \in predecessors(a) /\ outgoing[run.from] \subseteq run.defined
        BY <1>0, <1>1, <1>5 DEF Inv, RunMatches
  <2>2. DOMAIN i.inc = predecessors(a)
    <3>1. <<a, k>> \in Places BY <1>3 DEF Places, Size
    <3>2. At(<<a, k>>) = i BY <1>2 DEF At
    <3>3. <<a, k>> \in Phis BY <3>1, <3>2, <1>5 DEF Phis
    <3>4. PhisMatchEdges BY <1>0 DEF Inv, Solved
    <3> QED BY <3>2, <3>3, <3>4 DEF PhisMatchEdges
  <2>3. Resolved BY <2>1, <2>2, <1>2 DEF Resolved
  <2>4. i.inc[run.from] \in outgoing[run.from]
        BY <2>1, <2>2, <1>2, <1>4, <1>5 DEF validate_phi
  <2>5. Reads = {i.inc[run.from]} BY <1>2, <1>5 DEF Reads
  <2> QED BY <2>1, <2>3, <2>4, <2>5
<1>6. CASE i.op = "phi" /\ run.from = Missing BY <1>2, <1>6 DEF PhiAtStart
<1>7. CASE i.op # "phi"
  <2>1. Resolved BY <1>2, <1>7 DEF Resolved
  <2>2. Reads = instruction_uses(i) BY <1>2, <1>7 DEF Reads
  <2>3. PICK u \in instruction_uses(i) : u \notin run.defined BY <2>1, <2>2
  <2>4. instruction_uses(i) \subseteq incoming[a] \cup DefinedIn(a, k - 1) \cup instruction_defines(i)
        BY <1>2, <1>4, <1>7 DEF OperandsDefined
  <2>5. incoming[a] \cup DefinedIn(a, k - 1) \subseteq run.defined
        BY <1>0, <1>1 DEF Inv, RunMatches
  <2>6. u \in instruction_defines(i) BY <2>3, <2>4, <2>5
  <2>7. instruction_uses(i) = {u} BY <2>3, <1>7, InstructionFacts
  <2>8. instruction_defines(i) = {u} BY <2>6 DEF instruction_defines
  <2> QED BY <2>7, <2>8, <1>2, <1>7 DEF ReadsItself
<1> QED BY <1>5, <1>6, <1>7

LEMMA ExecuteInv ==
    ASSUME Inv, execute
    PROVE  Inv'
<1>0. /\ phase = "run" /\ InBlock /\ Running /\ UNCHANGED validating /\ UNCHANGED flowing
      /\ run \in [at : Blocks, ip : Nat \ {0}, from : 0 .. MaxBlocks,
                  defined : SUBSET Arc, spent : SUBSET Arc, refs : [Arc -> Int]]
      BY DEF execute, Running, Inv, TypeOK
<1>1. PICK a \in Blocks, k \in Nat : a = run.at /\ k = run.ip /\ k \in 1 .. Size(a) /\ Size(a) \in Nat
      BY <1>0, RunFacts
<1>2. PICK i \in AnyInstruction : i = Current /\ i = code[a].ins[k]
      BY <1>0, <1>1, RunFacts
<1>3. /\ incoming' = incoming /\ outgoing' = outgoing /\ scan' = scan
      /\ AllOwned' = AllOwned
      BY <1>0, SameCode DEF flowing, validating
<1>4. CASE Resolved /\ Reads \subseteq run.defined
  <2>1. phase' = "run" /\ run' = Executed BY <1>4 DEF execute
  <2>2. PICK s \in States : s = scan[a][k]
    <3>1. scan[a] \in Seq(States) /\ Len(scan[a]) = Size(a) + 1
          BY <1>0, <1>1, RunFacts DEF Inv, TypeOK, Notes, Visited
    <3> QED BY <3>1, <1>1
  <2>3. /\ consumed(i) \subseteq s.owned /\ owned_by(i) \cap s.owned = {}
        /\ scan[a][k + 1].owned = (s.owned \ consumed(i)) \cup owned_by(i)
        /\ s.owned \subseteq AllOwned
        BY <2>2, <1>0, <1>1, <1>2, RunFacts DEF ScannedAt
  <2>4. /\ consumed(i) \subseteq Arc /\ owned_by(i) \subseteq instruction_defines(i)
        /\ instruction_defines(i) \subseteq Arc
        BY InstructionFacts
  <2>5. /\ run'.at = a /\ run'.ip = k + 1 /\ run'.from = run.from
        /\ run'.defined = run.defined \cup instruction_defines(i)
        /\ run'.spent = (run.spent \cup consumed(i)) \ instruction_defines(i)
        /\ run'.refs = [v \in Arc |-> (run.refs[v] - (IF v \in consumed(i) THEN 1 ELSE 0))
                                      + (IF v \in owned_by(i) THEN 1 ELSE 0)]
        BY <2>1, <1>0, <1>1, <1>2 DEF Executed
  <2>6. \A v \in Arc : run'.refs[v] = (run.refs[v] - (IF v \in consumed(i) THEN 1 ELSE 0))
                                      + (IF v \in owned_by(i) THEN 1 ELSE 0)
        BY <2>5
  <2>7. run' \in [at : Blocks, ip : Nat \ {0}, from : 0 .. MaxBlocks,
                  defined : SUBSET Arc, spent : SUBSET Arc, refs : [Arc -> Int]]
    <3>1. run'.refs \in [Arc -> Int] BY <2>5, <1>0
    <3>2. run'.ip \in Nat \ {0} BY <2>5
    <3>3. run'.defined \subseteq Arc /\ run'.spent \subseteq Arc BY <2>4, <2>5, <1>0
    <3>4. run' = [at |-> run'.at, ip |-> run'.ip, from |-> run'.from, defined |-> run'.defined,
                  spent |-> run'.spent, refs |-> run'.refs]
          BY <2>1, <1>0 DEF Executed
    <3> QED BY <3>1, <3>2, <3>3, <3>4, <2>5, <1>0
  <2>8. TypeOK' /\ Notes' /\ Solved' BY <2>1, <2>7, <1>0, RunKeeps DEF Running
  <2>9. RunMatches'
    <3>1. a \in Reachable' /\ (k + 1) \in 1 .. Size(a)' + 1 BY <1>0, <1>1, RunFacts, SameFunction
    <3>2. run.spent \subseteq AllOwned /\ run.spent \cap s.owned = {} BY <2>2, <1>0, <1>1 DEF Inv, RunMatches
    <3>3. run'.spent \subseteq AllOwned' BY <3>2, <2>3, <2>5, <1>3
    <3>4. run'.spent \cap scan'[a][k + 1].owned = {} BY <3>2, <2>3, <2>4, <2>5, <1>3
    <3>5. DefinedIn(a, k) \subseteq DefinedIn(a, k - 1) \cup instruction_defines(i)
      <4>1. \A j \in 1 .. k : j \in 1 .. (k - 1) \/ j = k OBVIOUS
      <4> QED BY <4>1, <1>2 DEF DefinedIn
    <3>6. incoming[a] \cup DefinedIn(a, k - 1) \subseteq run.defined BY <1>0, <1>1 DEF Inv, RunMatches
    <3>7. DefinedIn(a, (k + 1) - 1)' = DefinedIn(a, k)
      <4>1. (k + 1) - 1 = k OBVIOUS
      <4>2. DefinedIn(a, k)' = DefinedIn(a, k) BY <1>0, SameFunction
      <4> QED BY <4>1, <4>2
    <3>8. incoming'[a] \cup DefinedIn(a, (k + 1) - 1)' \subseteq run'.defined BY <3>5, <3>6, <3>7, <2>5, <1>3
    <3>9. run'.from = Missing => a = Entry BY <2>5, <1>0, <1>1 DEF Inv, RunMatches
    <3>10. run'.from # Missing => run'.from \in predecessors(a)' /\ outgoing'[run'.from] \subseteq run'.defined
      <4>1. run.from # Missing => run.from \in predecessors(a) /\ outgoing[run.from] \subseteq run.defined
            BY <1>0, <1>1 DEF Inv, RunMatches
      <4>2. predecessors(a)' = predecessors(a) BY <1>0, SameFunction
      <4> QED BY <4>1, <4>2, <2>5, <1>3
    <3> QED BY <3>1, <3>3, <3>4, <3>8, <3>9, <3>10, <2>1, <2>5 DEF RunMatches, Running
  <2>10. RefsMatch'
    <3>1. \A v \in Arc : run.refs[v] = IF v \in s.owned THEN 1 ELSE 0
          BY <2>2, <1>0, <1>1 DEF Inv, RefsMatch
    <3>2. ASSUME NEW v \in Arc
          PROVE  run'.refs[v] = IF v \in (s.owned \ consumed(i)) \cup owned_by(i) THEN 1 ELSE 0
      <4>1. run'.refs[v] = (run.refs[v] - (IF v \in consumed(i) THEN 1 ELSE 0))
                           + (IF v \in owned_by(i) THEN 1 ELSE 0)
            BY <2>6
      <4> QED BY <4>1, <3>1, <2>3
    <3> QED BY <3>2, <2>1, <2>3, <2>5, <1>3 DEF RefsMatch
  <2>11. ReadsAreDefined' BY <2>1 DEF ReadsAreDefined
  <2> QED BY <2>8, <2>9, <2>10, <2>11 DEF Inv
<1>5. CASE ~(Resolved /\ Reads \subseteq run.defined)
  <2>1. phase' = "failed" /\ run' = run BY <1>5 DEF execute
  <2>2. TypeOK' /\ Notes' /\ Solved' BY <2>1, <1>0, RunKeeps DEF Running
  <2>3. RunMatches' BY <2>1, <1>0, <1>3, SameFunction DEF Inv, RunMatches, Running
  <2>4. RefsMatch' BY <2>1, <1>0, <1>3 DEF Inv, RefsMatch
  <2>5. ReadsItself \/ PhiAtStart BY <1>0, <1>5, FailsOnlyInTwoShapes
  <2>6. ReadsAreDefined'
    <3>1. Current' = Current BY <2>1, <1>0 DEF Current, Block, validating
    <3>2. (ReadsItself => ReadsItself') /\ (PhiAtStart => PhiAtStart')
          BY <3>1, <2>1 DEF ReadsItself, PhiAtStart
    <3> QED BY <2>5, <3>2 DEF ReadsAreDefined
  <2> QED BY <2>2, <2>3, <2>4, <2>6 DEF Inv
<1> QED BY <1>4, <1>5

LEMMA JumpInv ==
    ASSUME Inv, jump
    PROVE  Inv'
<1>0. /\ phase = "run" /\ phase' = "run" /\ ~InBlock /\ Running /\ Running'
      /\ UNCHANGED validating /\ UNCHANGED flowing
      /\ run \in [at : Blocks, ip : Nat \ {0}, from : 0 .. MaxBlocks,
                  defined : SUBSET Arc, spent : SUBSET Arc, refs : [Arc -> Int]]
      BY DEF jump, Running, Inv, TypeOK
<1>1. PICK a \in Blocks : /\ a = run.at /\ a \in Reachable /\ a \in 1 .. cur /\ a \in Done
                          /\ run.ip = Size(a) + 1 /\ SolvedAt(a) /\ cur = found
      BY <1>0, RunFacts
<1>2. PICK t \in block_successors(a) : run' = [run EXCEPT !.at = t, !.ip = 1, !.from = a]
      BY <1>1 DEF jump
<1>3. t \in 1 .. found /\ entry_state[t].owned = AtEnd(a).owned BY <1>1 DEF Inv, Notes, EdgesAgree
<1>4. t \in Blocks /\ t \in Reachable /\ t \in 1 .. cur BY <1>1, <1>3, CodeFacts DEF Reachable
<1>5. scan[t][1].owned = scan[a][Size(a) + 1].owned
      BY <1>3, <1>4 DEF Inv, Notes, Visited, AtEnd
<1>6. /\ run'.at = t /\ run'.ip = 1 /\ run'.from = a /\ run'.defined = run.defined
      /\ run'.spent = run.spent /\ run'.refs = run.refs
      BY <1>0, <1>2
<1>7. run' \in [at : Blocks, ip : Nat \ {0}, from : 0 .. MaxBlocks,
                defined : SUBSET Arc, spent : SUBSET Arc, refs : [Arc -> Int]]
  <2>1. a \in 0 .. MaxBlocks BY DEF Blocks
  <2>2. 1 \in Nat \ {0} OBVIOUS
  <2>3. run' = [at |-> t, ip |-> 1, from |-> a, defined |-> run.defined, spent |-> run.spent,
                refs |-> run.refs]
        BY <1>0, <1>2
  <2>4. run.defined \in SUBSET Arc /\ run.spent \in SUBSET Arc /\ run.refs \in [Arc -> Int] BY <1>0
  <2> QED BY <2>1, <2>2, <2>3, <2>4, <1>4
<1>8. TypeOK' /\ Notes' /\ Solved' BY <1>0, <1>7, RunKeeps
<1>9. /\ incoming' = incoming /\ outgoing' = outgoing /\ scan' = scan
      /\ AllOwned' = AllOwned
      BY <1>0, SameCode DEF flowing, validating
<1>10. a \in predecessors(t) BY <1>1 DEF predecessors
<1>11. outgoing[a] \subseteq run.defined
  <2>1. outgoing[a] = incoming[a] \cup DefinedIn(a, Size(a))
        BY <1>1 DEF SolvedAt, next_outgoing, Size
  <2>2. incoming[a] \cup DefinedIn(a, run.ip - 1) \subseteq run.defined BY <1>0, <1>1 DEF Inv, RunMatches
  <2>3. run.ip - 1 = Size(a) BY <1>1, CodeFacts
  <2> QED BY <2>1, <2>2, <2>3
<1>12. incoming[t] \subseteq run.defined
  <2>1. incoming[t] = next_incoming(t) BY <1>0, <1>4 DEF Inv, Solved, SolvedAt
  <2> QED BY <2>1, <1>10, <1>11 DEF next_incoming
<1>13. RunMatches'
  <2>1. t \in Reachable' /\ 1 \in 1 .. Size(t)' + 1 BY <1>0, <1>4, CodeFacts, SameFunction
  <2>2. run'.spent \subseteq AllOwned' /\ run'.spent \cap scan'[t][1].owned = {}
        BY <1>0, <1>1, <1>5, <1>6, <1>9 DEF Inv, RunMatches
  <2>3. DefinedIn(t, 1 - 1)' = {} BY DEF DefinedIn
  <2>4. incoming'[t] \cup DefinedIn(t, 1 - 1)' \subseteq run'.defined BY <2>3, <1>6, <1>9, <1>12
  <2>5. a # Missing BY DEF Blocks
  <2>6. a \in predecessors(t)' /\ outgoing'[a] \subseteq run'.defined
        BY <1>0, <1>6, <1>9, <1>10, <1>11, SameFunction
  <2> QED BY <2>1, <2>2, <2>4, <2>5, <2>6, <1>0, <1>6 DEF RunMatches
<1>14. RefsMatch' BY <1>0, <1>1, <1>5, <1>6, <1>9 DEF Inv, RefsMatch
<1>15. ReadsAreDefined' BY <1>0 DEF ReadsAreDefined
<1> QED BY <1>8, <1>13, <1>14, <1>15 DEF Inv

LEMMA ReturnsInv ==
    ASSUME Inv, returns
    PROVE  Inv'
<1>0. /\ phase = "run" /\ phase' \in {"returned", "stopped"} /\ ~InBlock /\ Running /\ Running'
      /\ UNCHANGED validating /\ UNCHANGED flowing
      /\ run \in [at : Blocks, ip : Nat \ {0}, from : 0 .. MaxBlocks,
                  defined : SUBSET Arc, spent : SUBSET Arc, refs : [Arc -> Int]]
      BY DEF returns, Running, Inv, TypeOK
<1>1. PICK a \in Blocks : a = run.at /\ a \in Done /\ run.ip = Size(a) + 1
      BY <1>0, RunFacts
<1>2. PICK t \in Terminators : t = code[a].term BY <1>1 DEF Inv, Notes, Visited
<1>3. /\ t.op \in {"return", "stop"} /\ (phase' = "returned" <=> t.op = "return")
      /\ run' = [run EXCEPT !.refs = [v \in Arc |-> run.refs[v] - (IF v = t.val THEN 1 ELSE 0)]]
      BY <1>1, <1>2 DEF returns, Block
<1>4. run'.refs = [v \in Arc |-> run.refs[v] - (IF v = t.val THEN 1 ELSE 0)] BY <1>0, <1>3
<1>5. /\ run'.at = run.at /\ run'.ip = run.ip /\ run'.from = run.from
      /\ run'.defined = run.defined /\ run'.spent = run.spent
      BY <1>0, <1>3
<1>6. run' \in [at : Blocks, ip : Nat \ {0}, from : 0 .. MaxBlocks,
                defined : SUBSET Arc, spent : SUBSET Arc, refs : [Arc -> Int]]
  <2>1. run'.refs \in [Arc -> Int] BY <1>0, <1>4
  <2> QED BY <2>1, <1>0, <1>3, <1>4
<1>7. TypeOK' /\ Notes' /\ Solved' BY <1>0, <1>6, RunKeeps
<1>8. /\ incoming' = incoming /\ outgoing' = outgoing /\ scan' = scan
      /\ AllOwned' = AllOwned
      BY <1>0, SameCode DEF flowing, validating
<1>9. RunMatches' BY <1>0, <1>5, <1>8, SameFunction DEF Inv, RunMatches
<1>10. RefsMatch'
  <2>1. \A v \in Arc : run.refs[v] = IF v \in scan[a][Size(a) + 1].owned THEN 1 ELSE 0
        BY <1>0, <1>1 DEF Inv, RefsMatch
  <2>2. \A v \in Arc : run'.refs[v] = run.refs[v] - (IF v = t.val THEN 1 ELSE 0) BY <1>4
  <2>3. CASE t.op = "return"
    <3>1. AtEnd(a).owned = IF t.val \in Arc THEN {t.val} ELSE {}
          BY <2>3, <1>1, <1>2 DEF Inv, Notes, EdgesAgree
    <3>2. ASSUME NEW v \in Arc PROVE run'.refs[v] = 0 BY <2>1, <2>2, <3>1 DEF AtEnd
    <3>3. phase' = "returned" BY <2>3, <1>3
    <3> QED BY <3>2, <3>3 DEF RefsMatch
  <2>4. CASE t.op = "stop"
    <3>1. t.val = None BY <2>4, TerminatorFacts
    <3>2. phase' = "stopped" BY <2>4, <1>0, <1>3
    <3>3. ASSUME NEW v \in Arc PROVE run'.refs[v] = IF v \in scan[a][Size(a) + 1].owned THEN 1 ELSE 0
      <4>1. v # t.val BY <3>1 DEF Arc
      <4> QED BY <2>1, <2>2, <4>1
    <3> QED BY <3>2, <3>3, <1>1, <1>5, <1>8 DEF RefsMatch
  <2> QED BY <2>3, <2>4, <1>3
<1>11. ReadsAreDefined' BY <1>0 DEF ReadsAreDefined
<1> QED BY <1>7, <1>9, <1>10, <1>11 DEF Inv


-----------------------------------------------------------------------------
(* The theorems.                                                           *)

LEMMA StutterInv ==
    ASSUME Inv, UNCHANGED vars
    PROVE  Inv'
<1>1. UNCHANGED validating /\ UNCHANGED flowing /\ phase' = phase /\ run' = run BY DEF vars
<1>2. /\ incoming' = incoming /\ outgoing' = outgoing /\ swept' = swept /\ changed' = changed
      /\ scan' = scan /\ AllOwned' = AllOwned /\ cur' = cur /\ found' = found
      BY <1>1, SameCode DEF flowing, validating
<1>3. TypeOK' BY <1>1 DEF Inv, TypeOK, validating, flowing
<1>4. Notes' BY <1>1, NotesKept DEF Inv
<1>5. Solved'
  <2>1. Running' <=> Running BY <1>1 DEF Running
  <2> QED BY <2>1, <1>1, <1>2, SameFunction, SameSolution DEF Inv, Solved
<1>6. RunMatches' BY <1>1, <1>2, SameFunction DEF Inv, RunMatches, Running
<1>7. RefsMatch' BY <1>1, <1>2 DEF Inv, RefsMatch
<1>8. ReadsAreDefined'
  <2>1. Current' = Current BY <1>1 DEF Current, Block, validating
  <2> QED BY <2>1, <1>1 DEF Inv, ReadsAreDefined, ReadsItself, PhiAtStart
<1> QED BY <1>3, <1>4, <1>5, <1>6, <1>7, <1>8 DEF Inv

\* The notes of the validator hold, and the run keeps to them.
THEOREM IrInvariant == Spec => []Inv
<1>1. Inv /\ [Next]_vars => Inv'
  <2> SUFFICES ASSUME Inv, [Next]_vars PROVE Inv' OBVIOUS
  <2>1. CASE TakeBlock BY <2>1, TakeBlockInv
  <2>2. CASE \E i \in Instructions : check_instruction(i) BY <2>2, CheckInstructionInv
  <2>3. CASE \E t \in Terminators : check_return(t) \/ check_stop(t) BY <2>3, ReturnOrStopInv
  <2>4. CASE \E t \in Terminators : merge(t) BY <2>4, MergeInv
  <2>5. CASE StartSweeps BY <2>5, StartSweepsInv
  <2>6. CASE \E b \in Blocks : Sweep(b) BY <2>6, SweepInv
  <2>7. CASE SweepAgain BY <2>7, SweepAgainInv
  <2>8. CASE Verdict BY <2>8, VerdictInv
  <2>9. CASE execute BY <2>9, ExecuteInv
  <2>10. CASE jump BY <2>10, JumpInv
  <2>11. CASE returns BY <2>11, ReturnsInv
  <2>12. CASE UNCHANGED vars BY <2>12, StutterInv
  <2> QED BY <2>1, <2>2, <2>3, <2>4, <2>5, <2>6, <2>7, <2>8, <2>9, <2>10, <2>11, <2>12 DEF Next
<1> QED BY <1>1, InitInv, PTL DEF Spec

\* The validator's counts of references are those of the run: a function it
\* accepts returns with none left, and never holds two in one value.
THEOREM AcceptedDoNotLeak == Spec => []NoReferenceLeaks
<1>1. Inv => NoReferenceLeaks
  <2> SUFFICES ASSUME Inv PROVE NoReferenceLeaks OBVIOUS
  <2>1. RefsMatch BY DEF Inv
  <2> QED BY <2>1 DEF RefsMatch, NoReferenceLeaks
<1> QED BY <1>1, IrInvariant, PTL

\* An accepted function consumes only references it holds: nothing is
\* released, stored or returned twice, on any path and in any turn of a loop.
THEOREM AcceptedConsumeOnce == Spec => []ConsumedIsHeld
<1>1. Inv => ConsumedIsHeld
  <2> SUFFICES ASSUME Inv, phase = "run" PROVE /\ InBlock => \A v \in consumed(Current) : run.refs[v] = 1
                                               /\ ~InBlock /\ Block.term.op = "return" /\ Block.term.val \in Arc
                                                    => run.refs[Block.term.val] = 1
      BY DEF ConsumedIsHeld
  <2>0. Running /\ RefsMatch BY DEF Running, Inv
  <2>1. ASSUME InBlock, NEW v \in consumed(Current) PROVE run.refs[v] = 1
    <3>1. Current \in AnyInstruction /\ Current = code[run.at].ins[run.ip] /\ ScannedAt(run.at, run.ip)
          BY <2>0, <2>1, RunFacts
    <3>2. v \in scan[run.at][run.ip].owned BY <3>1 DEF ScannedAt
    <3>3. v \in Arc BY <3>1, InstructionFacts
    <3> QED BY <3>2, <3>3, <2>0 DEF RefsMatch
  <2>2. ASSUME ~InBlock, Block.term.op = "return", Block.term.val \in Arc PROVE run.refs[Block.term.val] = 1
    <3>1. run.at \in Done /\ run.ip = Size(run.at) + 1 BY <2>0, <2>2, RunFacts
    <3>2. AtEnd(run.at).owned = {Block.term.val} BY <2>2, <3>1 DEF Inv, Notes, EdgesAgree, Block
    <3>3. Block.term.val \in scan[run.at][run.ip].owned BY <3>1, <3>2 DEF AtEnd
    <3> QED BY <2>0, <2>2, <3>3 DEF RefsMatch
  <2> QED BY <2>1, <2>2
<1> QED BY <1>1, IrInvariant, PTL

\* An accepted function fails on an undefined value only in the two shapes
\* that the operand check lets through.
THEOREM AcceptedReadDefined == Spec => []ReadsAreDefined
<1>1. Inv => ReadsAreDefined BY DEF Inv
<1> QED BY <1>1, IrInvariant, PTL

\* A value has one definition, so where it is defined it is owned.
LEMMA DefinedIsOwned ==
    ASSUME Inv, NEW b \in Blocks, NEW n \in 0 .. Size(b)
    PROVE  DefinedIn(b, n) \cap AllOwned \subseteq OwnedIn(b, n)
<1> SUFFICES ASSUME NEW v, v \in DefinedIn(b, n), v \in AllOwned PROVE v \in OwnedIn(b, n) OBVIOUS
<1>1. PICK j \in 1 .. n : v \in instruction_defines(code[b].ins[j]) BY DEF DefinedIn
<1>2. PICK c \in Blocks : v \in OwnedIn(c, Size(c)) BY DEF AllOwned
<1>3. PICK k \in 1 .. Size(c) : v \in owned_by(code[c].ins[k]) BY <1>2 DEF OwnedIn
<1>4. Size(b) \in Nat /\ Size(c) \in Nat /\ code[c].ins[k] \in AnyInstruction BY CodeFacts
<1>5. j \in 1 .. Size(b) BY <1>4
<1>6. v \in instruction_defines(code[c].ins[k]) BY <1>3, <1>4, InstructionFacts
<1>7. instruction_defines(code[b].ins[j]) \cap instruction_defines(code[c].ins[k]) # {} BY <1>1, <1>6
<1>8. b = c /\ j = k BY <1>5, <1>7 DEF Inv, Notes, OneDefinition
<1> QED BY <1>3, <1>8 DEF OwnedIn

\* A value that was made by an owning instruction and is defined on every
\* path to a point was owned or consumed on the way the validator came: by
\* induction over the blocks, each found from an earlier one.
LEMMA OwnedIsRemembered ==
    ASSUME Inv, Running, NEW b \in Reachable
    PROVE  incoming[b] \cap AllOwned \subseteq scan[b][1].owned \cup scan[b][1].consumed
<1> DEFINE Good(x) == incoming[x] \cap AllOwned \subseteq scan[x][1].owned \cup scan[x][1].consumed
           Bad == {x \in Reachable : ~Good(x)}
<1>1. /\ cur = found /\ found \in Nat \ {0} /\ Reachable \subseteq Nat /\ Reachable \subseteq Blocks
      /\ Reachable = 1 .. cur /\ Done = 1 .. cur
      BY CodeFacts DEF Inv, Solved, Reachable, Done, Running
<1>2. \A x \in Reachable : SolvedAt(x) BY DEF Inv, Solved
<1>3. SUFFICES ASSUME Bad # {} PROVE FALSE OBVIOUS
<1>4. PICK x \in Bad : \A y \in Bad : x <= y BY <1>1, <1>3, LeastElement
<1>5. CASE x = Entry
  <2>1. incoming[x] = {} BY <1>2, <1>5 DEF SolvedAt, next_incoming
  <2> QED BY <2>1
<1>6. CASE x # Entry
  <2>1. x \in 2 .. found /\ x <= cur BY <1>1, <1>6
  <2>2. PICK p \in Done : /\ p < x /\ x \in block_successors(p)
                          /\ AtEnd(p).consumed \subseteq scan[x][1].consumed
        BY <2>1 DEF Inv, Notes, FoundFrom
  <2>3. p \in Reachable /\ p \in Blocks /\ p \in Nat /\ x \in Nat BY <1>1
  <2>4. Good(p) BY <2>2, <2>3, <1>4
  <2>5. p \in predecessors(x) BY <2>2, <2>3 DEF predecessors
  <2>6. incoming[x] \subseteq outgoing[p] BY <2>5, <1>2 DEF SolvedAt, next_incoming
  <2>7. outgoing[p] = incoming[p] \cup DefinedIn(p, Size(p)) BY <2>3, <1>2 DEF SolvedAt, next_outgoing, Size
  <2>8. PICK n \in Nat : n = Size(p) BY <2>3, CodeFacts
  <2>9. scan[p][1].owned \cup scan[p][1].consumed \cup OwnedIn(p, n) \subseteq AtEnd(p).owned \cup AtEnd(p).consumed
    <3>1. n + 1 \in 1 .. Size(p) + 1 BY <2>8
    <3>2. Remembered(p, n + 1) BY <3>1, <2>2, <1>1 DEF Inv, Notes, Scanned
    <3>3. (n + 1) - 1 = n BY <2>8
    <3> QED BY <2>8, <3>2, <3>3 DEF Remembered, AtEnd
  <2>10. DefinedIn(p, n) \cap AllOwned \subseteq OwnedIn(p, n) BY <2>3, <2>8, DefinedIsOwned
  <2>11. scan[x][1].owned = AtEnd(p).owned
    <3>1. entry_state[x].owned = AtEnd(p).owned BY <2>2 DEF Inv, Notes, EdgesAgree
    <3>2. scan[x][1].owned = entry_state[x].owned BY <1>1 DEF Inv, Notes, Visited
    <3> QED BY <3>1, <3>2
  <2>12. Good(x) BY <2>2, <2>4, <2>6, <2>7, <2>8, <2>9, <2>10, <2>11
  <2> QED BY <2>12
<1> QED BY <1>5, <1>6

\* No accepted function reads a value whose reference was consumed, except
\* through a phi or an instruction that names its own result.
THEOREM AcceptedReadAlive == Spec => []NoReadAfterConsume
<1>1. Inv => NoReadAfterConsume
  <2> SUFFICES ASSUME Inv, phase = "run", InBlock, Current.op # "phi", ~ReadsItself,
                      NEW u \in Reads, u \in run.spent
               PROVE  FALSE
      BY DEF NoReadAfterConsume
  <2>0. Running BY DEF Running
  <2>1. PICK a \in Blocks, k \in Nat : /\ a = run.at /\ k = run.ip /\ a \in Reachable /\ a \in 1 .. cur
                                       /\ k \in 1 .. Size(a) /\ Size(a) \in Nat
        BY <2>0, RunFacts
  <2>2. PICK i \in AnyInstruction : i = Current /\ i = code[a].ins[k] /\ i.op # "phi"
        BY <2>0, <2>1, RunFacts
  <2>3. u \in instruction_uses(i) BY <2>2 DEF Reads
  <2>4. instruction_uses(i) \cap scan[a][k].consumed = {}
        BY <2>0, <2>1, <2>2, RunFacts DEF ScannedAt
  <2>5. u \in AllOwned /\ u \notin scan[a][k].owned BY <2>0, <2>1 DEF Inv, RunMatches
  <2>6. instruction_uses(i) \subseteq incoming[a] \cup DefinedIn(a, k - 1) \cup instruction_defines(i)
    <3>1. OperandsDefined(a, k) BY <2>0, <2>1, <2>2 DEF Inv, Solved, UsesAreDefined, Size
    <3> QED BY <3>1, <2>2 DEF OperandsDefined
  <2>7. u \notin instruction_defines(i)
    <3> SUFFICES ASSUME u \in instruction_defines(i) PROVE FALSE OBVIOUS
    <3>1. instruction_uses(i) = {u} BY <2>2, <2>3, InstructionFacts
    <3>2. instruction_defines(i) = {u} BY DEF instruction_defines
    <3> QED BY <2>2, <3>1, <3>2 DEF ReadsItself
  <2>8. Remembered(a, k) BY <2>1 DEF Inv, Notes, Scanned
  <2>9. CASE u \in incoming[a]
    <3>1. u \in scan[a][1].owned \cup scan[a][1].consumed BY <2>0, <2>1, <2>5, <2>9, OwnedIsRemembered
    <3> QED BY <2>3, <2>4, <2>5, <2>8, <3>1 DEF Remembered
  <2>10. CASE u \in DefinedIn(a, k - 1)
    <3>1. k - 1 \in 0 .. Size(a) BY <2>1
    <3>2. u \in OwnedIn(a, k - 1) BY <2>1, <2>5, <2>10, <3>1, DefinedIsOwned
    <3> QED BY <2>3, <2>4, <2>5, <2>8, <3>2 DEF Remembered
  <2> QED BY <2>3, <2>6, <2>7, <2>9, <2>10
<1> QED BY <1>1, IrInvariant, PTL
=============================================================================
