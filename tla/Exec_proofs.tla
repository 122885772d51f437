---------------------------- MODULE Exec_proofs ----------------------------
(***************************************************************************)
(* Proofs about the control machine, for every set of well-labelled        *)
(* programs and every meaning of their statements.                         *)
(***************************************************************************)
EXTENDS ExecLabelled, SequenceTheorems, TLAPS

Act == [kind : {"proc", "try"}, proc : Procs, blk : AllBlocks,
        pc : Nat \ {0}, fail : AllBlocks \union {NoBlock}]

(* More than none and not one: activations below the one on top. *)
LEMMA OneOrMore == ASSUME NEW n \in Nat, n > 0, n # 1 PROVE n > 1
  OBVIOUS

(* Adding one is injective. *)
LEMMA SameSuccessor == ASSUME NEW m \in Nat, NEW n \in Nat, m + 1 = n + 1 PROVE m = n
  OBVIOUS

(* A successor is not zero. *)
LEMMA SuccessorPositive == ASSUME NEW n \in Nat PROVE n + 1 # 0
  OBVIOUS

(* A call of exec_proc or exec_try starts as an activation. *)
LEMMA ActFacts ==
    ASSUME NEW p \in Procs, NEW b \in AllBlocks
    PROVE  /\ [kind |-> "proc", proc |-> p, blk |-> b, pc |-> 1, fail |-> NoBlock] \in Act
           /\ \A f \in AllBlocks :
                 [kind |-> "try", proc |-> p, blk |-> b, pc |-> 1, fail |-> f] \in Act
  BY DEF Act

-----------------------------------------------------------------------------
(* What the ways of changing the activations do to a sequence of them. *)

(* Jump changes the block of the activation on top and nothing below it. *)
LEMMA JumpFacts ==
    ASSUME NEW s \in Seq(Act), Len(s) > 0, NEW b \in AllBlocks
    PROVE  /\ Jump(s, b) \in Seq(Act)
           /\ Len(Jump(s, b)) = Len(s)
           /\ \A i \in 1..(Len(s) - 1) : Jump(s, b)[i] = s[i]
           /\ Jump(s, b)[Len(s)].kind = s[Len(s)].kind
           /\ Jump(s, b)[Len(s)].proc = s[Len(s)].proc
           /\ Jump(s, b)[Len(s)].fail = s[Len(s)].fail
           /\ Jump(s, b)[Len(s)].blk = b
<1> DEFINE n == Len(s)
           c == MovedTo(s[n], b, 1)
<1>1. n \in 1..Len(s) /\ s[n] \in Act
  BY ElementOfSeq
<1>2. c \in Act /\ c.kind = s[n].kind /\ c.proc = s[n].proc /\ c.fail = s[n].fail /\ c.blk = b
  BY <1>1 DEF Act, MovedTo
<1>3. Jump(s, b) = [s EXCEPT ![n] = c]
  BY DEF Jump
<1> HIDE DEF c
<1>4. QED
  BY <1>1, <1>2, <1>3, ExceptSeq

(* Advance changes the position of the activation on top and nothing *)
(* below it.                                                         *)
LEMMA AdvanceFacts ==
    ASSUME NEW s \in Seq(Act), Len(s) > 0
    PROVE  /\ Advance(s) \in Seq(Act)
           /\ Len(Advance(s)) = Len(s)
           /\ \A i \in 1..(Len(s) - 1) : Advance(s)[i] = s[i]
           /\ Advance(s)[Len(s)].kind = s[Len(s)].kind
           /\ Advance(s)[Len(s)].proc = s[Len(s)].proc
           /\ Advance(s)[Len(s)].fail = s[Len(s)].fail
           /\ Advance(s)[Len(s)].blk = s[Len(s)].blk
<1> DEFINE n == Len(s)
           c == MovedTo(s[n], s[n].blk, s[n].pc + 1)
<1>1. n \in 1..Len(s) /\ s[n] \in Act
  BY ElementOfSeq
<1>2. c \in Act /\ c.kind = s[n].kind /\ c.proc = s[n].proc /\ c.fail = s[n].fail /\ c.blk = s[n].blk
  BY <1>1 DEF Act, MovedTo
<1>3. Advance(s) = [s EXCEPT ![n] = c]
  BY DEF Advance
<1> HIDE DEF c
<1>4. QED
  BY <1>1, <1>2, <1>3, ExceptSeq

(* Below is the stack without the activation on top. *)
LEMMA BelowFacts ==
    ASSUME NEW S, ctxs \in Seq(S), Len(ctxs) > 1
    PROVE  /\ Below \in Seq(S)
           /\ Len(Below) = Len(ctxs) - 1
           /\ \A i \in 1..(Len(ctxs) - 1) : Below[i] = ctxs[i]
  BY DEF Below

(* The activations are as the invariant wants them. *)
Sound(s) ==
    /\ s \in Seq(Act)
    /\ Len(s) \in 1..MaxDepth
    /\ WellNested(s)
    /\ KeepsLabels(s)
    /\ MatchesDepth(s)

(* What MatchesDepth looks at is the kinds and the labels. *)
LEMMA SameDepths ==
    ASSUME NEW s, NEW t, Len(t) = Len(s), MatchesDepth(s), Len(s) \in Nat,
           \A i \in 1..Len(s) : t[i].kind = s[i].kind /\ DepthOf(t[i]) = DepthOf(s[i])
    PROVE  MatchesDepth(t)
<1> SUFFICES ASSUME NEW i \in 1..Len(t), NEW k \in 1..i, InCall(t, k, i)
             PROVE  DepthOf(t[i]) = i - k
  BY DEF MatchesDepth
<1>1. k \in 1..Len(s) /\ \A j \in (k + 1)..i : j \in 1..Len(s)
  OBVIOUS
<1>2. InCall(s, k, i)
  BY <1>1 DEF InCall
<1>3. DepthOf(s[i]) = i - k
  BY <1>2 DEF MatchesDepth
<1>4. QED
  BY <1>3

(* A jump to a block of the same depth keeps the activations sound. *)
LEMMA JumpSound ==
    ASSUME NEW s, Sound(s), prog \in Programs,
           NEW b \in DOMAIN Depth[prog][s[Len(s)].proc], b \in AllBlocks,
           Depth[prog][s[Len(s)].proc][b] = DepthOf(s[Len(s)])
    PROVE  Sound(Jump(s, b))
<1> DEFINE t == Jump(s, b)
<1>1. /\ s \in Seq(Act) /\ Len(s) > 0 /\ Len(s) \in Nat
      /\ \A i \in 1..Len(s) : s[i] \in Act
  BY ElementOfSeq DEF Sound
<1>2. /\ t \in Seq(Act) /\ Len(t) = Len(s)
      /\ \A i \in 1..(Len(s) - 1) : t[i] = s[i]
      /\ t[Len(s)].kind = s[Len(s)].kind
      /\ t[Len(s)].proc = s[Len(s)].proc
      /\ t[Len(s)].fail = s[Len(s)].fail
      /\ t[Len(s)].blk = b
  BY <1>1, JumpFacts
<1> HIDE DEF t
<1>3. WellNested(t)
  <2>1. t[1].kind = "proc"
    BY <1>1, <1>2 DEF Sound, WellNested
  <2>2. ASSUME NEW i \in 1..(Len(t) - 1)
        PROVE  OnTopOf(t[i + 1], t[i])
    <3>1. OnTopOf(s[i + 1], s[i])
      BY <1>2 DEF Sound, WellNested
    <3>2. /\ t[i] = s[i]
          /\ t[i + 1].kind = s[i + 1].kind
          /\ t[i + 1].proc = s[i + 1].proc
          /\ t[i + 1].fail = s[i + 1].fail
      BY <1>1, <1>2
    <3>3. QED
      BY <3>1, <3>2 DEF OnTopOf
  <2>3. QED
    BY <2>1, <2>2 DEF WellNested
<1>4. KeepsLabels(t)
  <2>1. SUFFICES ASSUME NEW i \in 1..Len(s)
        PROVE  /\ t[i].blk \in DOMAIN Depth[prog][t[i].proc]
               /\ t[i].kind = "proc" => DepthOf(t[i]) = 0 /\ t[i].fail = NoBlock
               /\ t[i].kind = "try" =>
                     /\ i > 1
                     /\ t[i].proc = t[i - 1].proc
                     /\ DepthOf(t[i]) = DepthOf(t[i - 1]) + 1
                     /\ t[i].fail \in DOMAIN Depth[prog][t[i].proc]
                     /\ Depth[prog][t[i].proc][t[i].fail] = DepthOf(t[i - 1])
    BY <1>2 DEF KeepsLabels
  <2>2. /\ s[i].blk \in DOMAIN Depth[prog][s[i].proc]
        /\ s[i].kind = "proc" => DepthOf(s[i]) = 0 /\ s[i].fail = NoBlock
        /\ s[i].kind = "try" =>
              /\ i > 1
              /\ s[i].proc = s[i - 1].proc
              /\ DepthOf(s[i]) = DepthOf(s[i - 1]) + 1
              /\ s[i].fail \in DOMAIN Depth[prog][s[i].proc]
              /\ Depth[prog][s[i].proc][s[i].fail] = DepthOf(s[i - 1])
    BY DEF Sound, KeepsLabels
  <2>3. i > 1 => t[i - 1] = s[i - 1]
    BY <1>1, <1>2
  <2>4. t[i].kind = s[i].kind /\ t[i].proc = s[i].proc /\ t[i].fail = s[i].fail
    BY <1>1, <1>2
  <2>5. t[i].blk \in DOMAIN Depth[prog][t[i].proc] /\ DepthOf(t[i]) = DepthOf(s[i])
    <3>1. CASE i = Len(s)
      BY <1>2, <3>1 DEF DepthOf
    <3>2. CASE i # Len(s)
      <4>1. t[i] = s[i]
        BY <1>1, <1>2, <3>2
      <4>2. QED
        BY <2>2, <4>1 DEF DepthOf
    <3>3. QED
      BY <3>1, <3>2
  <2>6. QED
    BY <2>2, <2>3, <2>4, <2>5
<1>5. \A i \in 1..Len(s) : t[i].kind = s[i].kind /\ DepthOf(t[i]) = DepthOf(s[i])
  BY <1>1, <1>2 DEF DepthOf
<1>6. MatchesDepth(t)
  BY <1>1, <1>2, <1>5, SameDepths DEF Sound
<1>7. QED
  BY <1>2, <1>3, <1>4, <1>6 DEF Sound, t

(* So does going on to the next statement. *)
LEMMA AdvanceSound ==
    ASSUME NEW s, Sound(s)
    PROVE  Sound(Advance(s))
<1> DEFINE t == Advance(s)
<1>1. /\ s \in Seq(Act) /\ Len(s) > 0 /\ Len(s) \in Nat
      /\ \A i \in 1..Len(s) : s[i] \in Act
  BY ElementOfSeq DEF Sound
<1>2. /\ t \in Seq(Act) /\ Len(t) = Len(s)
      /\ \A i \in 1..(Len(s) - 1) : t[i] = s[i]
      /\ t[Len(s)].kind = s[Len(s)].kind
      /\ t[Len(s)].proc = s[Len(s)].proc
      /\ t[Len(s)].fail = s[Len(s)].fail
      /\ t[Len(s)].blk = s[Len(s)].blk
  BY <1>1, AdvanceFacts
<1> HIDE DEF t
<1>3. WellNested(t)
  <2>1. t[1].kind = "proc"
    BY <1>1, <1>2 DEF Sound, WellNested
  <2>2. ASSUME NEW i \in 1..(Len(t) - 1)
        PROVE  OnTopOf(t[i + 1], t[i])
    <3>1. OnTopOf(s[i + 1], s[i])
      BY <1>2 DEF Sound, WellNested
    <3>2. /\ t[i] = s[i]
          /\ t[i + 1].kind = s[i + 1].kind
          /\ t[i + 1].proc = s[i + 1].proc
          /\ t[i + 1].fail = s[i + 1].fail
      BY <1>1, <1>2
    <3>3. QED
      BY <3>1, <3>2 DEF OnTopOf
  <2>3. QED
    BY <2>1, <2>2 DEF WellNested
<1>4. KeepsLabels(t)
  <2>1. \A i \in 1..Len(s) : /\ t[i].kind = s[i].kind /\ t[i].proc = s[i].proc
                              /\ t[i].fail = s[i].fail /\ t[i].blk = s[i].blk
    <3>1. ASSUME NEW i \in 1..Len(s)
          PROVE  \/ i = Len(s)
                 \/ i \in 1..(Len(s) - 1)
      BY <1>1
    <3>2. QED
      BY <3>1, <1>2
  <2>2. \A i \in 1..Len(s) : i > 1 => t[i - 1] = s[i - 1]
    BY <1>1, <1>2
  <2>3. \A i \in 1..Len(s) : DepthOf(t[i]) = DepthOf(s[i])
    BY <2>1 DEF DepthOf
  <2>4. KeepsLabels(s) /\ Len(t) = Len(s)
    BY <1>2 DEF Sound
  <2> HIDE DEF DepthOf
  <2>5. QED
    BY <2>1, <2>2, <2>3, <2>4 DEF KeepsLabels
<1>5. \A i \in 1..Len(s) : t[i].kind = s[i].kind /\ DepthOf(t[i]) = DepthOf(s[i])
  BY <1>1, <1>2 DEF DepthOf
<1>6. MatchesDepth(t)
  BY <1>1, <1>2, <1>5, SameDepths DEF Sound
<1>7. QED
  BY <1>2, <1>3, <1>4, <1>6 DEF Sound, t

(* So does the end of an activation. *)
LEMMA BelowSound ==
    ASSUME Sound(ctxs), Len(ctxs) > 1
    PROVE  Sound(Below)
<1>1. ctxs \in Seq(Act) /\ Len(ctxs) \in Nat
  BY DEF Sound
<1>2. /\ Below \in Seq(Act)
      /\ Len(Below) = Len(ctxs) - 1
      /\ \A i \in 1..(Len(ctxs) - 1) : Below[i] = ctxs[i]
  BY <1>1, BelowFacts
<1>3. WellNested(Below)
  <2>1. Below[1].kind = "proc"
    BY <1>1, <1>2 DEF Sound, WellNested
  <2>2. ASSUME NEW i \in 1..(Len(Below) - 1)
        PROVE  OnTopOf(Below[i + 1], Below[i])
    <3>1. Below[i + 1] = ctxs[i + 1] /\ Below[i] = ctxs[i] /\ i \in 1..(Len(ctxs) - 1)
      BY <1>1, <1>2
    <3>2. QED
      BY <3>1 DEF Sound, WellNested
  <2>3. QED
    BY <2>1, <2>2 DEF WellNested
<1>4. KeepsLabels(Below)
  BY <1>1, <1>2 DEF Sound, KeepsLabels, DepthOf
<1>5. MatchesDepth(Below)
  <2> SUFFICES ASSUME NEW i \in 1..Len(Below), NEW k \in 1..i, InCall(Below, k, i)
               PROVE  DepthOf(Below[i]) = i - k
    BY DEF MatchesDepth
  <2>1. /\ i \in 1..Len(ctxs) /\ Below[i] = ctxs[i] /\ Below[k] = ctxs[k]
        /\ \A j \in (k + 1)..i : Below[j] = ctxs[j]
    <3>1. \A j \in k..i : j \in 1..Len(Below)
      BY <1>1, <1>2
    <3>2. i \in k..i /\ k \in k..i /\ \A j \in (k + 1)..i : j \in k..i
      BY <1>1, <1>2
    <3>3. \A j \in k..i : Below[j] = ctxs[j]
      BY <1>2, <3>1
    <3>4. i \in 1..Len(ctxs)
      BY <1>1, <1>2
    <3>5. QED
      BY <3>2, <3>3, <3>4
  <2>2. InCall(ctxs, k, i)
    BY <2>1 DEF InCall
  <2>3. QED
    BY <2>1, <2>2 DEF Sound, MatchesDepth
<1>6. QED
  BY <1>2, <1>3, <1>4, <1>5, MaxDepthAssumption DEF Sound

(* A new activation may be put on top when the statement below allows it. *)
LEMMA AppendSound ==
    ASSUME Sound(ctxs), Len(ctxs) < MaxDepth,
           NEW c \in Act, Top.pc \in DOMAIN Block,
           c.blk \in DOMAIN Depth[prog][c.proc],
           \/ /\ c.kind = "proc" /\ Stmt.op = "assign"
              /\ DepthOf(c) = 0 /\ c.fail = NoBlock
           \/ /\ c.kind = "try" /\ Stmt.op = "try"
              /\ c.proc = Top.proc /\ c.fail = Stmt.catch
              /\ DepthOf(c) = DepthOf(Top) + 1
              /\ c.fail \in DOMAIN Depth[prog][c.proc]
              /\ Depth[prog][c.proc][c.fail] = DepthOf(Top)
    PROVE  Sound(Append(ctxs, c))
<1> DEFINE t == Append(ctxs, c)
           n == Len(ctxs)
<1>1. ctxs \in Seq(Act) /\ n \in Nat /\ n > 0
  BY DEF Sound
<1>2. /\ t \in Seq(Act) /\ Len(t) = n + 1
      /\ \A i \in 1..n : t[i] = ctxs[i]
      /\ t[n + 1] = c
  BY <1>1
<1> HIDE DEF t
<1>3. WellNested(t)
  <2>1. t[1].kind = "proc"
    BY <1>1, <1>2 DEF Sound, WellNested
  <2>2. ASSUME NEW i \in 1..(Len(t) - 1)
        PROVE  OnTopOf(t[i + 1], t[i])
    <3>1. CASE i < n
      <4>1. t[i] = ctxs[i] /\ t[i + 1] = ctxs[i + 1] /\ i \in 1..(n - 1)
        BY <3>1, <1>1, <1>2
      <4>2. QED
        BY <4>1 DEF Sound, WellNested
    <3>2. CASE i = n
      <4>1. t[i] = Top /\ t[i + 1] = c
        BY <3>2, <1>1, <1>2 DEF Top
      <4>2. OnTopOf(c, Top)
        BY DEF OnTopOf, StmtOf, Stmt, Block
      <4>3. QED
        BY <4>1, <4>2
    <3>3. QED
      BY <3>1, <3>2, <1>1, <1>2
  <2>3. QED
    BY <2>1, <2>2 DEF WellNested
<1>4. KeepsLabels(t)
  <2>1. KeepsLabels(ctxs)
    BY DEF Sound
  <2>2. /\ \A i \in 1..Len(t) : i \in 1..n \/ i = n + 1
        /\ n + 1 > 1 /\ t[(n + 1) - 1] = Top
        /\ \A i \in 1..n : i > 1 => t[i - 1] = ctxs[i - 1]
    BY <1>1, <1>2 DEF Top
  <2>3. /\ c.blk \in DOMAIN Depth[prog][c.proc]
        /\ c.kind = "proc" => DepthOf(c) = 0 /\ c.fail = NoBlock
        /\ c.kind = "try" => /\ c.proc = Top.proc
                             /\ DepthOf(c) = DepthOf(Top) + 1
                             /\ c.fail \in DOMAIN Depth[prog][c.proc]
                             /\ Depth[prog][c.proc][c.fail] = DepthOf(Top)
    OBVIOUS
  <2>4. ASSUME NEW i \in 1..n
        PROVE  /\ t[i].blk \in DOMAIN Depth[prog][t[i].proc]
               /\ t[i].kind = "proc" => DepthOf(t[i]) = 0 /\ t[i].fail = NoBlock
               /\ t[i].kind = "try" =>
                     /\ i > 1
                     /\ t[i].proc = t[i - 1].proc
                     /\ DepthOf(t[i]) = DepthOf(t[i - 1]) + 1
                     /\ t[i].fail \in DOMAIN Depth[prog][t[i].proc]
                     /\ Depth[prog][t[i].proc][t[i].fail] = DepthOf(t[i - 1])
    BY <1>2, <2>1, <2>2 DEF KeepsLabels
  <2>5. QED
    BY <1>2, <2>2, <2>3, <2>4 DEF KeepsLabels
<1>5. MatchesDepth(t)
  <2> SUFFICES ASSUME NEW i \in 1..Len(t), NEW k \in 1..i, InCall(t, k, i)
               PROVE  DepthOf(t[i]) = i - k
    BY DEF MatchesDepth
  <2>1. CASE i <= n
    <3>1. /\ i \in 1..n /\ t[i] = ctxs[i] /\ t[k] = ctxs[k]
          /\ \A j \in (k + 1)..i : t[j] = ctxs[j]
      BY <2>1, <1>1, <1>2
    <3>2. InCall(ctxs, k, i)
      BY <3>1 DEF InCall
    <3>3. QED
      BY <3>1, <3>2 DEF Sound, MatchesDepth
  <2>2. CASE i = n + 1 /\ k = n + 1
    BY <2>2, <1>1, <1>2 DEF InCall
  <2>3. CASE i = n + 1 /\ k <= n
    <3>1. /\ k \in 1..n /\ n \in 1..n /\ t[k] = ctxs[k] /\ t[i] = c
          /\ i \in (k + 1)..i
          /\ \A j \in (k + 1)..n : j \in (k + 1)..i /\ t[j] = ctxs[j]
      BY <2>3, <1>1, <1>2
    <3>2. InCall(ctxs, k, n) /\ c.kind = "try"
      BY <3>1 DEF InCall
    <3>3. DepthOf(Top) = n - k
      BY <3>1, <3>2 DEF Sound, MatchesDepth, Top
    <3>4. DepthOf(c) = DepthOf(Top) + 1
      BY <3>2
    <3>5. QED
      BY <2>3, <3>1, <3>3, <3>4, <1>1
  <2>4. QED
    BY <2>1, <2>2, <2>3, <1>1, <1>2
<1>6. QED
  BY <1>1, <1>2, <1>3, <1>4, <1>5, MaxDepthAssumption DEF Sound, t

-----------------------------------------------------------------------------
(* What the labelling says of the activation on top and its statement.     *)
LEMMA TopFacts ==
    ASSUME Sound(ctxs), prog \in Programs
    PROVE  /\ ctxs \in Seq(Act) /\ Len(ctxs) \in Nat /\ Len(ctxs) > 0
           /\ Top = ctxs[Len(ctxs)] /\ Top \in Act
           /\ Top.proc \in Procs
           /\ Top.blk \in DOMAIN Depth[prog][Top.proc]
           /\ Depth[prog][Top.proc] \in [DOMAIN Depth[prog][Top.proc] -> Nat]
           /\ DepthOf(Top) \in Nat
           /\ DOMAIN Depth[prog][Top.proc] \subseteq AllBlocks
           /\ Top.pc \in DOMAIN Block => StmtLabelled(Stmt, DepthOf(Top), Depth[prog][Top.proc])
           /\ Top.kind = "proc" => DepthOf(Top) = 0
           /\ Top.kind = "try" =>
                 /\ Len(ctxs) > 1
                 /\ Top.proc = ctxs[Len(ctxs) - 1].proc
                 /\ DepthOf(Top) = DepthOf(ctxs[Len(ctxs) - 1]) + 1
                 /\ DepthOf(ctxs[Len(ctxs) - 1]) \in Nat
                 /\ Top.fail \in DOMAIN Depth[prog][Top.proc]
                 /\ Depth[prog][Top.proc][Top.fail] = DepthOf(ctxs[Len(ctxs) - 1])
<1>1. ctxs \in Seq(Act) /\ Len(ctxs) \in Nat /\ Len(ctxs) > 0 /\ Top = ctxs[Len(ctxs)]
  BY DEF Sound, Top
<1>2. Top \in Act /\ Top.proc \in Procs /\ Top.kind \in {"proc", "try"}
  <2>1. Top \in Act
    BY <1>1, ElementOfSeq
  <2>2. QED
    BY <2>1 DEF Act
<1>3. ProcLabelled(Code[prog][Top.proc], Depth[prog][Top.proc])
  BY <1>2, ProgramsAssumption DEF Procs, Labelled
<1>4. Top.blk \in DOMAIN Depth[prog][Top.proc]
  BY <1>1 DEF Sound, KeepsLabels
<1>5. /\ Depth[prog][Top.proc] \in [DOMAIN Depth[prog][Top.proc] -> Nat]
      /\ DOMAIN Depth[prog][Top.proc] \subseteq AllBlocks
      /\ Top.pc \in DOMAIN Block => StmtLabelled(Stmt, DepthOf(Top), Depth[prog][Top.proc])
  BY <1>2, <1>3, <1>4 DEF ProcLabelled, AllBlocks, BlocksOf, Block, Stmt, DepthOf
<1>6. DepthOf(Top) \in Nat
  BY <1>4, <1>5 DEF DepthOf
<1>7. Top.kind = "proc" => DepthOf(Top) = 0
  BY <1>1 DEF Sound, KeepsLabels
<1>8. ASSUME Top.kind = "try"
      PROVE  /\ Len(ctxs) > 1
             /\ Top.proc = ctxs[Len(ctxs) - 1].proc
             /\ DepthOf(Top) = DepthOf(ctxs[Len(ctxs) - 1]) + 1
             /\ Top.fail \in DOMAIN Depth[prog][Top.proc]
             /\ Depth[prog][Top.proc][Top.fail] = DepthOf(ctxs[Len(ctxs) - 1])
  BY <1>1, <1>8 DEF Sound, KeepsLabels
<1>9. Top.kind = "try" => DepthOf(ctxs[Len(ctxs) - 1]) \in Nat
  BY <1>5, <1>8
<1>10. QED
  BY <1>1, <1>2, <1>4, <1>5, <1>6, <1>7, <1>8, <1>9

(* The inductive invariant is that the activations are sound and no *)
(* section ends in the wrong way.                                   *)
LEMMA IInvIsSound == IInv <=> /\ prog \in Programs /\ mode \in Modes /\ payload \in Payloads
                              /\ Sound(ctxs) /\ payload \notin TryMismatches
<1>1. prog \in Programs => Labelled(prog)
  BY ProgramsAssumption
<1>2. QED
  BY <1>1 DEF IInv, TypeOK, Sound, Nested, AtDepth, TryDepth, NoTryMismatch, Act

(* The invariant holds when main is called. *)
LEMMA InitIInv == Init => IInv
<1> SUFFICES ASSUME Init PROVE IInv
  OBVIOUS
<1> DEFINE c == Activation(Main)
<1>1. prog \in Programs /\ mode = "run" /\ payload = "none" /\ ctxs = <<c>>
  BY DEF Init
<1>2. Main \in Procs /\ ProcLabelled(Code[prog][Main], Depth[prog][Main])
  BY <1>1, ProgramsAssumption DEF Procs, Labelled
<1>3. /\ c.kind = "proc" /\ c.proc = Main /\ c.blk = Code[prog][Main].start
      /\ c.pc = 1 /\ c.fail = NoBlock
  BY DEF Activation
<1>4. c.blk \in DOMAIN Depth[prog][Main] /\ DepthOf(c) = 0 /\ c.blk \in AllBlocks
  BY <1>2, <1>3 DEF ProcLabelled, DepthOf, AllBlocks, BlocksOf
<1>5. c \in Act
  BY <1>2, <1>4 DEF Act, Activation
<1> HIDE DEF c
<1>6. ctxs \in Seq(Act) /\ Len(ctxs) = 1 /\ ctxs[1] = c
  BY <1>1, <1>5
<1>7. WellNested(ctxs)
  BY <1>3, <1>6 DEF WellNested
<1>8. KeepsLabels(ctxs)
  BY <1>3, <1>4, <1>6 DEF KeepsLabels
<1>9. MatchesDepth(ctxs)
  BY <1>4, <1>6 DEF MatchesDepth
<1>10. Sound(ctxs)
  BY <1>6, <1>7, <1>8, <1>9, MaxDepthAssumption DEF Sound
<1>11. QED
  BY <1>1, <1>10, IInvIsSound DEF Modes, Payloads, TryMismatches

(***************************************************************************)
(* No step breaks the invariant: one case per action.                      *)
(***************************************************************************)
LEMMA StepIInv == IInv /\ [Next]_vars => IInv'
<1> SUFFICES ASSUME IInv, [Next]_vars PROVE IInv'
  OBVIOUS
<1> DEFINE d == Depth[prog][Top.proc]
           caller == ctxs[Len(ctxs) - 1]
<1>1. Sound(ctxs) /\ prog \in Programs /\ mode \in Modes /\ payload \in Payloads
     /\ payload \notin TryMismatches
  BY IInvIsSound
<1>2. /\ ctxs \in Seq(Act) /\ Len(ctxs) \in Nat /\ Len(ctxs) > 0
      /\ Top = ctxs[Len(ctxs)] /\ Top \in Act
      /\ Top.proc \in Procs
      /\ Top.blk \in DOMAIN d
      /\ d \in [DOMAIN d -> Nat]
      /\ DepthOf(Top) \in Nat
      /\ DOMAIN d \subseteq AllBlocks
  BY <1>1, TopFacts
<1>3. Top.pc \in DOMAIN Block => StmtLabelled(Stmt, DepthOf(Top), d)
  BY <1>1, TopFacts
<1>4. Top.kind = "proc" => DepthOf(Top) = 0
  BY <1>1, TopFacts
<1>5. Top.kind = "try" =>
        /\ Len(ctxs) > 1
        /\ Top.proc = caller.proc
        /\ DepthOf(Top) = DepthOf(caller) + 1
        /\ DepthOf(caller) \in Nat
        /\ Top.fail \in DOMAIN d
        /\ d[Top.fail] = DepthOf(caller)
  BY <1>1, TopFacts
<1>6. DepthOf(Top) = d[Top.blk]
  BY DEF DepthOf
<1>70. Len(ctxs) # 1 => Len(ctxs) > 1
  BY <1>2, OneOrMore
<1>7. Len(ctxs) > 1 => /\ Sound(Below) /\ Len(Below) = Len(ctxs) - 1
                       /\ Below[Len(Below)] = caller
  BY <1>1, <1>2, BelowSound, BelowFacts
(* What is left to show of a step: the activations stay sound, and the     *)
(* panic it may raise is not one of the two.                               *)
<1>8. SUFFICES /\ prog' = prog /\ Sound(ctxs')
               /\ mode' \in Modes
               /\ payload' \in Payloads
               /\ payload' \notin TryMismatches
  <2> SUFFICES ASSUME prog' = prog, Sound(ctxs'), mode' \in Modes, payload' \in Payloads,
                      payload' \notin TryMismatches
               PROVE  IInv'
    OBVIOUS
  <2>1. prog' \in Programs
    BY <1>1
  <2>2. TypeOK'
    BY DEF TypeOK, Sound, Act, AllBlocks, BlocksOf, Procs
  <2>3. Nested'
    BY DEF Nested, Sound, WellNested, OnTopOf, StmtOf, BlocksOf
  <2>4. AtDepth'
    BY DEF AtDepth, Sound, KeepsLabels, DepthOf
  <2>5. TryDepth'
    BY DEF TryDepth, Sound, MatchesDepth, DepthOf
  <2>6. QED
    BY <2>1, <2>2, <2>3, <2>4, <2>5 DEF IInv, NoTryMismatch
<1> USE <1>1 DEF TryMismatches
<1>9. ASSUME NEW b \in DOMAIN d, d[b] = DepthOf(Top)
      PROVE  Sound(Jump(ctxs, b))
  BY <1>9, <1>2, JumpSound
<1>10. ASSUME NEW b \in DOMAIN d, Top.kind = "try", DepthOf(Top) = d[b] + 1
       PROVE  Sound(Jump(Below, b))
  <2>1. d[b] = DepthOf(caller)
    <3>1. d[b] \in Nat
      BY <1>2
    <3>2. DepthOf(Top) = DepthOf(caller) + 1 /\ DepthOf(caller) \in Nat
      BY <1>10, <1>5
    <3> HIDE DEF d, caller
    <3>3. QED
      BY <3>1, <3>2, <1>10, SameSuccessor
  <2>2. QED
    BY <1>10, <2>1, <1>2, <1>5, <1>7, JumpSound
<1>11. CASE Refetch
  BY <1>11, <1>2, <1>6, <1>9 DEF Refetch
<1>12. CASE AssignOk
  BY <1>12, AdvanceSound DEF AssignOk
<1>13. CASE AssignPanic
  BY <1>13 DEF AssignPanic, Panic, Modes, Payloads
<1>14. CASE Call
  <2>1. PICK r \in Eval(Stmt, mem) :
           /\ r.callee \in Procs
           /\ \/ Overflow
              \/ /\ Len(ctxs) < MaxDepth
                 /\ ctxs' = Append(ctxs, Activation(r.callee))
                 /\ UNCHANGED <<prog, mode, payload>>
    BY <1>14 DEF Call
  <2>2. CASE Overflow
    BY <2>2 DEF Overflow, Modes
  <2>3. CASE /\ Len(ctxs) < MaxDepth
             /\ ctxs' = Append(ctxs, Activation(r.callee))
             /\ UNCHANGED <<prog, mode, payload>>
    <3> DEFINE c == Activation(r.callee)
    <3>1. /\ c.kind = "proc" /\ c.proc = r.callee /\ c.fail = NoBlock /\ c.pc = 1
          /\ c.blk = Code[prog][r.callee].start
      BY DEF Activation
    <3>2. ProcLabelled(Code[prog][r.callee], Depth[prog][r.callee])
      BY <2>1, ProgramsAssumption DEF Procs, Labelled
    <3>3. c.blk \in DOMAIN Depth[prog][c.proc] /\ DepthOf(c) = 0 /\ c.blk \in AllBlocks
      BY <2>1, <3>1, <3>2 DEF ProcLabelled, DepthOf, AllBlocks, BlocksOf
    <3>4. c \in Act
      BY <2>1, <3>1, <3>3, ActFacts DEF Activation
    <3>5. Top.pc \in DOMAIN Block /\ Stmt.op = "assign"
      BY <1>14 DEF Call, At
    <3> HIDE DEF c
    <3>6. Sound(Append(ctxs, c))
      BY <2>3, <3>1, <3>3, <3>4, <3>5, AppendSound
    <3>7. QED
      BY <2>3, <3>6 DEF c
  <2>4. QED
    BY <2>1, <2>2, <2>3
<1>15. CASE Branch
  <2>1. /\ Stmt.yes \in DOMAIN d /\ d[Stmt.yes] = DepthOf(Top)
        /\ Stmt.no \in DOMAIN d /\ d[Stmt.no] = DepthOf(Top)
    BY <1>15, <1>3 DEF Branch, At, StmtLabelled
  <2>2. QED
    BY <1>15, <2>1, <1>9 DEF Branch
<1>16. CASE Goto
  <2>1. Stmt.to \in DOMAIN d /\ d[Stmt.to] = DepthOf(Top)
    BY <1>16, <1>3 DEF Goto, At, StmtLabelled
  <2>2. QED
    BY <1>16, <2>1, <1>9 DEF Goto
<1>17. CASE Return
  <2>1. CASE Len(ctxs) = 1
    BY <1>17, <2>1 DEF Return, Modes
  <2>2. CASE Len(ctxs) # 1
    <3>1. prog' = prog /\ payload' = payload /\ mode' = mode /\ ctxs' = Advance(Below)
      BY <1>17, <2>2 DEF Return
    <3>2. Sound(Below)
      BY <2>2, <1>70, <1>7
    <3>3. QED
      BY <3>1, <3>2, AdvanceSound
  <2>3. QED
    BY <2>1, <2>2
<1>18. CASE ReturnInTry
  <2>1. DepthOf(Top) = 0 /\ Top.kind = "try"
    BY <1>18, <1>3 DEF ReturnInTry, At, StmtLabelled
  <2>2. QED
    BY <2>1, <1>5, SuccessorPositive
<1>19. CASE Unreachable
  BY <1>19 DEF Unreachable, Panic, Modes, Payloads, InternalPanics
<1>20. CASE Try
  <2>1. Stmt.op = "try" /\ Top.pc \in DOMAIN Block
    BY <1>20 DEF Try, At
  <2>2. /\ Stmt.attempt \in DOMAIN d /\ d[Stmt.attempt] = DepthOf(Top) + 1
        /\ Stmt.catch \in DOMAIN d /\ d[Stmt.catch] = DepthOf(Top)
    BY <2>1, <1>3 DEF StmtLabelled
  <2>3. CASE Overflow
    BY <2>3 DEF Overflow, Modes
  <2>4. CASE /\ Len(ctxs) < MaxDepth
             /\ ctxs' = Append(ctxs, TryActivation(Top.proc, Stmt.attempt, Stmt.catch))
             /\ UNCHANGED <<prog, mode, payload>>
    <3> DEFINE c == TryActivation(Top.proc, Stmt.attempt, Stmt.catch)
    <3>1. /\ c.kind = "try" /\ c.proc = Top.proc /\ c.blk = Stmt.attempt
          /\ c.pc = 1 /\ c.fail = Stmt.catch
      BY DEF TryActivation
    <3>2. c \in Act
      <4>1. Stmt.attempt \in AllBlocks /\ Stmt.catch \in AllBlocks
        BY <2>2, <1>2
      <4>2. QED
        BY <4>1, <1>2, ActFacts DEF TryActivation
    <3>3. DepthOf(c) = DepthOf(Top) + 1
      BY <2>2, <3>1 DEF DepthOf
    <3> HIDE DEF c
    <3>4. Sound(Append(ctxs, c))
      BY <2>1, <2>2, <2>4, <3>1, <3>2, <3>3, AppendSound
    <3>5. QED
      BY <2>4, <3>4 DEF c
  <2>5. QED
    BY <1>20, <2>3, <2>4 DEF Try
<1>21. CASE TryEnd
  <2>1. Stmt.to \in DOMAIN d /\ DepthOf(Top) = d[Stmt.to] + 1 /\ Top.kind = "try"
    BY <1>21, <1>3 DEF TryEnd, At, StmtLabelled
  <2>2. QED
    BY <1>21, <2>1, <1>10 DEF TryEnd
<1>22. CASE TryEndUnmet
  <2>1. /\ Stmt.to \in DOMAIN d /\ DepthOf(Top) = d[Stmt.to] + 1 /\ Top.kind = "proc"
    BY <1>22, <1>3 DEF TryEndUnmet, At, StmtLabelled
  <2>2. d[Stmt.to] \in Nat
    BY <2>1, <1>2
  <2>3. QED
    BY <2>1, <2>2, <1>4, SuccessorPositive
<1>23. CASE UnwindProc
  <2>1. CASE Len(ctxs) = 1
    BY <1>23, <2>1 DEF UnwindProc, Modes
  <2>2. CASE Len(ctxs) # 1
    <3>1. prog' = prog /\ payload' = payload /\ mode' = mode /\ ctxs' = Below
      BY <1>23, <2>2 DEF UnwindProc
    <3>2. QED
      BY <2>2, <3>1, <1>70, <1>7
  <2>3. QED
    BY <2>1, <2>2
<1>24. CASE CatchUnwind
  <2>1. Top.kind = "try" /\ Top.fail \in DOMAIN d /\ DepthOf(Top) = d[Top.fail] + 1
    BY <1>24, <1>5 DEF CatchUnwind
  <2>2. QED
    BY <1>24, <2>1, <1>10 DEF CatchUnwind, Modes, Payloads
<1>25. CASE UNCHANGED vars
  BY <1>25 DEF vars
<1>26. CASE Terminated
  BY <1>26 DEF Terminated, vars
<1>27. CASE AssignExit
  BY <1>27 DEF AssignExit, Modes
<1>28. CASE BranchPanic
  BY <1>28 DEF BranchPanic, Panic, Modes, Payloads
<1>29. QED
  BY <1>11, <1>12, <1>13, <1>14, <1>15, <1>16, <1>17, <1>18, <1>19, <1>20, <1>21, <1>22,
     <1>23, <1>24, <1>25, <1>26, <1>27, <1>28 DEF Next, Step

(* The inductive invariant holds in every reachable state. *)
THEOREM Invariance == Spec => []IInv
  BY InitIInv, StepIInv, PTL DEF Spec

(* Type correctness: exec_proc and exec_try index blocks that exist. *)
THEOREM TypeCorrect == Spec => []TypeOK
<1>1. IInv => TypeOK
  BY DEF IInv
<1>2. QED
  BY <1>1, Invariance, PTL

(* On every path through a procedure, normal or exceptional, the open      *)
(* exec_try activations are those its blocks are labelled with.            *)
THEOREM TryDepthCorrect == Spec => []TryDepth
<1>1. IInv => TryDepth
  BY DEF IInv
<1>2. QED
  BY <1>1, Invariance, PTL

(* Every block an activation runs is labelled, and each exec_try that fails  *)
(* resumes its caller at the depth the caller is at: fail_idx may be        *)
(* followed from any point of a section.                                    *)
THEOREM ResumesAtDepth == Spec => []AtDepth
<1>1. IInv => AtDepth
  BY DEF IInv
<1>2. QED
  BY <1>1, Invariance, PTL

(* An activation waits at the statement that made the one above it, through *)
(* every call, try section, return and unwinding.                           *)
THEOREM NestedCorrect == Spec => []Nested
<1>1. IInv => Nested
  BY DEF IInv
<1>2. QED
  BY <1>1, Invariance, PTL

(* The two internal panics about try sections are never raised, whatever   *)
(* the statements of the procedures do.                                    *)
THEOREM NoInternalTryPanic == Spec => []NoTryMismatch
<1>1. IInv => NoTryMismatch
  BY DEF IInv
<1>2. QED
  BY <1>1, Invariance, PTL

(* While a panic is on its way, no step passes the innermost section or *)
(* stops short of it.                                                   *)
LEMMA StepDelivers ==
    ASSUME IInv, [Next]_vars, mode = "unwind",
           NEW h \in 0..Len(ctxs), IsInnermost(ctxs, h)
    PROVE  Delivers(h)
<1>1. /\ ctxs \in Seq(Act) /\ Len(ctxs) \in Nat /\ Len(ctxs) > 0
      /\ Top = ctxs[Len(ctxs)]
  BY IInvIsSound, TopFacts
<1>2. CASE UnwindProc
  <2>1. h # Len(ctxs) /\ h <= Len(ctxs) - 1
    BY <1>1, <1>2 DEF UnwindProc, IsInnermost
  <2>2. CASE Len(ctxs) = 1
    BY <1>2, <2>1, <2>2 DEF UnwindProc, Delivers
  <2>3. CASE Len(ctxs) # 1
    <3>1. /\ ctxs' = Below /\ mode' = "unwind"
          /\ Below \in Seq(Act) /\ Len(Below) = Len(ctxs) - 1
          /\ \A i \in 1..(Len(ctxs) - 1) : Below[i] = ctxs[i]
      BY <1>1, <1>2, <2>3, OneOrMore, BelowFacts DEF UnwindProc
    <3>2. IsInnermost(ctxs', h)
      BY <1>1, <2>1, <3>1 DEF IsInnermost
    <3>3. SubSeq(ctxs', 1, h) = SubSeq(ctxs, 1, h)
      BY <1>1, <2>1, <3>1
    <3>4. QED
      BY <3>1, <3>2, <3>3 DEF Delivers
  <2>4. QED
    BY <2>2, <2>3
<1>3. CASE CatchUnwind
  <2>1. h = Len(ctxs)
    BY <1>1, <1>3 DEF CatchUnwind, IsInnermost
  <2>2. QED
    BY <1>1, <1>3, <2>1 DEF CatchUnwind, Delivers, Below
<1>4. CASE UNCHANGED vars
  BY <1>4 DEF vars, Delivers
<1>5. QED
  BY <1>2, <1>3, <1>4
     DEF Next, Step, Terminated, Refetch, AssignOk, AssignPanic, AssignExit, Call, Branch,
         BranchPanic, Goto, Return, ReturnInTry, Unreachable, Try, TryEnd, TryEndUnmet, At

(* A panic is delivered to the innermost try section and to no other, and  *)
(* to exec only when none is open.                                         *)
THEOREM Delivery == Spec => CaughtByInnermost
<1>1. IInv /\ [Next]_vars =>
        [mode = "unwind" =>
           \A h \in 0..Len(ctxs) : IsInnermost(ctxs, h) => Delivers(h)]_vars
  BY StepDelivers
<1>2. QED
  BY <1>1, Invariance, PTL DEF Spec, CaughtByInnermost

-----------------------------------------------------------------------------
(* The data is the immediate heaps and nothing else.  exec_proc and exec_try  *)
(* add one when they begin and drop it when they end; no statement touches *)
(* them.                                                                   *)
HeapsAreData ==
    /\ InitMem = <<>>
    /\ \A k, m : Enter(k, m) = Append(m, k) /\ Leave(k, m) = SubSeq(m, 1, Len(m) - 1)
    /\ \A r, c, m : Result(r, c, m) = SubSeq(m, 1, Len(m) - 1)
    /\ \A s, m : \A r \in Eval(s, m) \union Cond(s, m) : r.mem = m

HeapsOf(s) == [i \in 1..Len(s) |-> s[i].kind]

(* A heap for each activation is a sequence. *)
LEMMA HeapsSeq ==
    ASSUME NEW s \in Seq(Act)
    PROVE  /\ HeapsOf(s) \in Seq({"proc", "try"}) /\ Len(HeapsOf(s)) = Len(s)
           /\ \A i \in 1..Len(s) : HeapsOf(s)[i] = s[i].kind
<1>1. Len(s) \in Nat /\ \A i \in 1..Len(s) : s[i] \in Act
  BY ElementOfSeq
<1>2. HeapsOf(s) \in [1..Len(s) -> {"proc", "try"}]
  BY <1>1 DEF HeapsOf, Act
<1>3. QED
  BY <1>1, <1>2 DEF HeapsOf

(* The activation on top ends. *)
LEMMA HeapsBelow ==
    ASSUME ctxs \in Seq(Act), Len(ctxs) > 1
    PROVE  HeapsOf(Below) = SubSeq(HeapsOf(ctxs), 1, Len(HeapsOf(ctxs)) - 1)
<1>1. /\ Below \in Seq(Act) /\ Len(Below) = Len(ctxs) - 1 /\ Len(ctxs) \in Nat
      /\ \A i \in 1..(Len(ctxs) - 1) : Below[i] = ctxs[i]
  BY BelowFacts
<1>2. /\ HeapsOf(ctxs) \in Seq({"proc", "try"}) /\ Len(HeapsOf(ctxs)) = Len(ctxs)
      /\ \A i \in 1..Len(ctxs) : HeapsOf(ctxs)[i] = ctxs[i].kind
  BY HeapsSeq
<1>3. PICK h : h = HeapsOf(ctxs)
  OBVIOUS
<1>4. /\ HeapsOf(Below) \in Seq({"proc", "try"}) /\ Len(HeapsOf(Below)) = Len(Below)
      /\ \A i \in 1..Len(Below) : HeapsOf(Below)[i] = Below[i].kind
  BY <1>1, HeapsSeq
<1>5. PICK g : g = HeapsOf(Below)
  OBVIOUS
<1>6. /\ SubSeq(h, 1, Len(h) - 1) \in Seq({"proc", "try"})
      /\ Len(SubSeq(h, 1, Len(h) - 1)) = Len(ctxs) - 1
      /\ \A i \in 1..(Len(ctxs) - 1) : SubSeq(h, 1, Len(h) - 1)[i] = h[i]
  BY <1>1, <1>2, <1>3
<1>7. g \in Seq({"proc", "try"}) /\ Len(g) = Len(ctxs) - 1
      /\ \A i \in 1..(Len(ctxs) - 1) : g[i] = SubSeq(h, 1, Len(h) - 1)[i]
  BY <1>1, <1>2, <1>3, <1>4, <1>5, <1>6
<1>8. g = SubSeq(h, 1, Len(h) - 1)
  BY <1>1, <1>6, <1>7, SeqEqual
<1>9. QED
  BY <1>3, <1>5, <1>8

(* An activation begins. *)
LEMMA HeapsAppend ==
    ASSUME NEW s \in Seq(Act), NEW c \in Act
    PROVE  HeapsOf(Append(s, c)) = Append(HeapsOf(s), c.kind)
<1>1. /\ Append(s, c) \in Seq(Act) /\ Len(Append(s, c)) = Len(s) + 1 /\ Len(s) \in Nat
      /\ \A i \in 1..Len(s) : Append(s, c)[i] = s[i]
      /\ Append(s, c)[Len(s) + 1] = c /\ c.kind \in {"proc", "try"}
  BY DEF Act
<1>2. PICK t : t = Append(s, c)
  OBVIOUS
<1>3. PICK h : h = HeapsOf(s)
  OBVIOUS
<1>4. /\ h \in Seq({"proc", "try"}) /\ Len(h) = Len(s)
      /\ \A i \in 1..Len(s) : h[i] = s[i].kind
  BY <1>3, HeapsSeq
<1>5. PICK g : g = HeapsOf(t)
  OBVIOUS
<1>6. /\ g \in Seq({"proc", "try"}) /\ Len(g) = Len(t)
      /\ \A i \in 1..Len(t) : g[i] = t[i].kind
  BY <1>1, <1>2, <1>5, HeapsSeq
<1>7. PICK k : k = c.kind /\ k \in {"proc", "try"}
  BY <1>1
<1>8. g = Append(h, k)
  <2>1. /\ Append(h, k) \in Seq({"proc", "try"}) /\ Len(Append(h, k)) = Len(s) + 1
        /\ \A i \in 1..Len(s) : Append(h, k)[i] = h[i]
        /\ Append(h, k)[Len(s) + 1] = k
    BY <1>4, <1>7
  <2>2. ASSUME NEW i \in 1..(Len(s) + 1) PROVE g[i] = Append(h, k)[i]
    <3>1. CASE i = Len(s) + 1
      BY <3>1, <1>1, <1>2, <1>6, <1>7, <2>1
    <3>2. CASE i # Len(s) + 1
      <4>1. i \in 1..Len(s)
        BY <3>2, <1>1
      <4>2. QED
        BY <4>1, <1>1, <1>2, <1>4, <1>6, <2>1
    <3>3. QED
      BY <3>1, <3>2
  <2>3. Len(g) = Len(s) + 1
    BY <1>1, <1>2, <1>6
  <2>4. QED
    BY <1>6, <2>1, <2>2, <2>3, SeqEqual
<1>9. QED
  BY <1>2, <1>3, <1>5, <1>7, <1>8

(* What one step does to the heaps. *)
LEMMA StepHeaps ==
    ASSUME HeapsAreData, IInv, HeapPerActivation, [Next]_vars
    PROVE  HeapPerActivation'
<1>1. /\ ctxs \in Seq(Act) /\ Len(ctxs) \in Nat /\ Len(ctxs) > 0
      /\ Top = ctxs[Len(ctxs)] /\ Top \in Act /\ Top.proc \in Procs
  BY IInvIsSound, TopFacts
<1>2. IInv' /\ ctxs' \in Seq(Act)
  <2>1. IInv' /\ TypeOK'
    BY StepIInv DEF IInv
  <2>2. prog' = prog
    BY DEF Next, Step, vars, Refetch, AssignOk, AssignPanic, AssignExit, Call, Branch,
           BranchPanic, Goto, Return, ReturnInTry, Unreachable, Try, TryEnd, TryEndUnmet,
           UnwindProc, CatchUnwind, Overflow, Terminated
  <2>3. QED
    BY <2>1, <2>2 DEF TypeOK, Act, AllBlocks, BlocksOf, Procs
<1>3. mode \in {"run", "unwind"} => mem = HeapsOf(ctxs)
  BY DEF HeapPerActivation, HeapsOf
<1>4. ASSUME mode \in {"run", "unwind"}, mem' = mem, HeapsOf(ctxs') = HeapsOf(ctxs),
             mode' \in {"run", "unwind", "exited", "overflow"}
      PROVE  HeapPerActivation'
  BY <1>3, <1>4 DEF HeapPerActivation, HeapsOf
<1>5. ASSUME mode \in {"run", "unwind"}, mode' \in {"run", "unwind"}, mem' = HeapsOf(ctxs')
      PROVE  HeapPerActivation'
  BY <1>5 DEF HeapPerActivation, HeapsOf
<1>6. ASSUME NEW b, ctxs' = Jump(ctxs, b) PROVE HeapsOf(ctxs') = HeapsOf(ctxs)
  BY <1>1, <1>6 DEF Jump, MovedTo, HeapsOf
<1>7. ASSUME Len(ctxs) > 1, mode \in {"run", "unwind"}, mode' \in {"run", "unwind"},
             mem' = SubSeq(mem, 1, Len(mem) - 1), HeapsOf(ctxs') = HeapsOf(Below)
      PROVE  HeapPerActivation'
  BY <1>1, <1>3, <1>5, <1>7, HeapsBelow
<1>8. ASSUME Len(ctxs) = 1, mode \in {"run", "unwind"}, mode' \in {"done", "aborted"},
             mem' = SubSeq(mem, 1, Len(mem) - 1)
      PROVE  HeapPerActivation'
  <2>1. mem \in Seq({"proc", "try"}) /\ Len(mem) = 1
    BY <1>1, <1>3, <1>8, HeapsSeq
  <2>2. mem' = <<>>
    BY <2>1, <1>8
  <2>3. QED
    BY <2>2, <1>8 DEF HeapPerActivation
<1>9. ASSUME NEW k, mem' = Leave(k, mem) PROVE mem' = SubSeq(mem, 1, Len(mem) - 1)
  BY <1>9 DEF HeapsAreData
<1>10. Len(ctxs) # 1 => Len(ctxs) > 1
  BY <1>1, OneOrMore
<1>11. Len(ctxs) > 1 => /\ Below \in Seq(Act) /\ Len(Below) \in Nat
                        /\ Len(Below) > 0 /\ Len(Below) = Len(ctxs) - 1
  BY <1>1, BelowFacts
<1>12. ASSUME Len(ctxs) > 1, NEW b PROVE HeapsOf(Jump(Below, b)) = HeapsOf(Below)
  BY <1>11, <1>12 DEF Jump, MovedTo, HeapsOf
<1>13. ASSUME Len(ctxs) > 1 PROVE HeapsOf(Advance(Below)) = HeapsOf(Below)
  BY <1>11, <1>13 DEF Advance, MovedTo, HeapsOf
<1>14. ASSUME NEW c, c.kind \in {"proc", "try"}, mode = "run", mode' = "run",
              mem' = Append(mem, c.kind), ctxs' = Append(ctxs, c)
       PROVE  HeapPerActivation'
  <2>1. c \in Act
    <3>1. Append(ctxs, c)[Len(ctxs) + 1] = c /\ Len(Append(ctxs, c)) = Len(ctxs) + 1
      BY <1>1
    <3>2. Len(ctxs) + 1 \in 1..Len(Append(ctxs, c))
      BY <1>1, <3>1
    <3>3. QED
      BY <1>2, <1>14, <3>1, <3>2, ElementOfSeq
  <2>2. QED
    BY <1>1, <1>3, <1>5, <1>14, <2>1, HeapsAppend
<1>15. CASE Refetch
  BY <1>15, <1>4, <1>6 DEF Refetch
<1>16. CASE AssignOk
  <2>1. mode = "run" /\ mode' = mode /\ ctxs' = Advance(ctxs) /\ mem' = mem
    BY <1>16 DEF AssignOk, At, HeapsAreData
  <2>2. HeapsOf(ctxs') = HeapsOf(ctxs)
    BY <1>1, <2>1 DEF Advance, MovedTo, HeapsOf
  <2>3. QED
    BY <2>1, <2>2, <1>4
<1>17. CASE AssignPanic
  <2>1. mode = "run" /\ mode' = "unwind" /\ ctxs' = ctxs /\ mem' = mem
    BY <1>17 DEF AssignPanic, At, Panic, HeapsAreData
  <2>2. QED
    BY <2>1, <1>4
<1>18. CASE AssignExit
  <2>1. mode = "run" /\ mode' = "exited" /\ ctxs' = ctxs /\ mem' = mem
    BY <1>18 DEF AssignExit, At, HeapsAreData
  <2>2. QED
    BY <2>1, <1>4
<1>19. ASSUME Overflow, mode = "run" PROVE HeapPerActivation'
  BY <1>19, <1>4 DEF Overflow
<1>20. CASE Call
  <2>1. mode = "run"
    BY <1>20 DEF Call, At
  <2>2. PICK r \in Eval(Stmt, mem) :
           \/ Overflow
           \/ /\ ctxs' = Append(ctxs, Activation(r.callee))
              /\ mem' = Enter("proc", r.mem) /\ mode' = mode
    BY <1>20 DEF Call
  <2>3. CASE Overflow
    BY <2>1, <2>3, <1>19
  <2>4. CASE /\ ctxs' = Append(ctxs, Activation(r.callee))
             /\ mem' = Enter("proc", r.mem) /\ mode' = mode
    <3>1. mem' = Append(mem, "proc")
      BY <2>4 DEF HeapsAreData
    <3>2. Activation(r.callee).kind = "proc"
      BY DEF Activation
    <3>3. QED
      BY <2>1, <2>4, <3>1, <3>2, <1>14
  <2>5. QED
    BY <2>2, <2>3, <2>4
<1>21. CASE Branch
  BY <1>21, <1>4, <1>6 DEF Branch, At
<1>22. CASE BranchPanic
  <2>1. mode = "run" /\ mode' = "unwind" /\ ctxs' = ctxs /\ mem' = mem
    BY <1>22 DEF BranchPanic, At, Panic, HeapsAreData
  <2>2. QED
    BY <2>1, <1>4
<1>23. CASE Goto
  BY <1>23, <1>4, <1>6 DEF Goto, At
<1>24. CASE Return
  <2>1. CASE Len(ctxs) = 1
    BY <1>24, <2>1, <1>8, <1>9 DEF Return, At
  <2>2. CASE Len(ctxs) # 1
    <3>1. /\ mode = "run" /\ mode' = mode /\ ctxs' = Advance(Below)
          /\ mem' = SubSeq(mem, 1, Len(mem) - 1)
      BY <1>24, <2>2 DEF Return, At, HeapsAreData
    <3>2. QED
      BY <2>2, <3>1, <1>7, <1>10, <1>13
  <2>3. QED
    BY <2>1, <2>2
<1>25. CASE ReturnInTry
  BY <1>25, <1>4 DEF ReturnInTry, At, Panic
<1>26. CASE Unreachable
  BY <1>26, <1>4 DEF Unreachable, At, Panic
<1>27. CASE Try
  <2>1. mode = "run"
    BY <1>27 DEF Try, At
  <2>2. CASE Overflow
    BY <2>1, <2>2, <1>19
  <2>3. CASE /\ ctxs' = Append(ctxs, TryActivation(Top.proc, Stmt.attempt, Stmt.catch))
             /\ mem' = Enter("try", mem) /\ mode' = mode
    <3>1. mem' = Append(mem, "try")
      BY <2>3 DEF HeapsAreData
    <3>2. TryActivation(Top.proc, Stmt.attempt, Stmt.catch).kind = "try"
      BY DEF TryActivation
    <3>3. QED
      BY <2>1, <2>3, <3>1, <3>2, <1>14
  <2>4. QED
    BY <1>27, <2>2, <2>3 DEF Try
<1>28. ASSUME Top.kind = "try" PROVE Len(ctxs) > 1
  BY <1>28, IInvIsSound, TopFacts
<1>29. CASE TryEnd
  BY <1>29, <1>7, <1>9, <1>12, <1>28 DEF TryEnd, At
<1>30. CASE TryEndUnmet
  BY <1>30, <1>4 DEF TryEndUnmet, At, Panic
<1>31. CASE UnwindProc
  <2>1. CASE Len(ctxs) = 1
    BY <1>31, <2>1, <1>8, <1>9 DEF UnwindProc
  <2>2. CASE Len(ctxs) # 1
    BY <1>31, <2>2, <1>7, <1>9, <1>10 DEF UnwindProc
  <2>3. QED
    BY <2>1, <2>2
<1>32. CASE CatchUnwind
  BY <1>32, <1>7, <1>9, <1>12, <1>28 DEF CatchUnwind
<1>33. CASE UNCHANGED vars
  BY <1>33 DEF vars, HeapPerActivation
<1>34. CASE Terminated
  BY <1>34 DEF Terminated, vars, HeapPerActivation
<1>35. QED
  BY <1>15, <1>16, <1>17, <1>18, <1>20, <1>21, <1>22, <1>23, <1>24, <1>25, <1>26, <1>27,
     <1>29, <1>30, <1>31, <1>32, <1>33, <1>34 DEF Next, Step

(* Every activation has an immediate heap of its own, dropped exactly once *)
(* whichever way the activation ends: by a return, the end of its section, *)
(* or a panic that passes it or is caught in it.                           *)
THEOREM HeapPerActivationCorrect ==
    ASSUME HeapsAreData
    PROVE  Spec => []HeapPerActivation
<1>1. Init => HeapPerActivation
  <2> SUFFICES ASSUME Init PROVE HeapPerActivation
    OBVIOUS
  <2>1. mode = "run" /\ ctxs = <<Activation(Main)>> /\ mem = Append(<<>>, "proc")
    BY DEF Init, HeapsAreData
  <2>2. Len(ctxs) = 1 /\ ctxs[1].kind = "proc"
    BY <2>1 DEF Activation
  <2>3. mem = <<"proc">>
    BY <2>1
  <2>4. QED
    BY <2>1, <2>2, <2>3 DEF HeapPerActivation
<1>2. IInv /\ HeapPerActivation /\ [Next]_vars => HeapPerActivation'
  BY StepHeaps
<1>3. QED
  BY <1>1, <1>2, Invariance, PTL DEF Spec
=============================================================================
