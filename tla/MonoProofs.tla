----------------------------- MODULE MonoProofs ------------------------------
(* Theorems about Mono, for every program, set of instances and limit.       *)
(*                                                                           *)
(* CodegenClosed is not inductive: a table is closed in the end because the  *)
(* walks leave nothing behind them.  Frontier says what is behind: entries   *)
(* before i, and the first references of entry i, have all they name in the   *)
(* table, unless an error was reported.  VInv, for VerdictRight, says what is *)
(* not in the table: anything the program does not ask for.                  *)
EXTENDS Mono, TLAPS, FiniteSetTheorems

Listed(n) == RefSet(prog, entries[n]) \subseteq Table

Walking == phase \in {"discover", "finalize"}

Behind == \A n \in DOMAIN entries : n < i /\ Walked(entries[n]) => Listed(n)

Halfway ==
    i <= end /\ Walked(entries[i]) =>
        \A k \in 1 .. Len(Refs(prog, entries[i])) : k < j => Refs(prog, entries[i])[k] \in Table

Frontier ==
    /\ Walking => i <= end + 1 /\ (i > end => j = 1)
    /\ ~Walking => ~stash
    /\ errors = 0 =>
        /\ phase = "pass2" => \A k \in DOMAIN Seeds(prog) : k < j => Seeds(prog)[k] \in Table
        /\ phase # "pass2" => SeedSet(prog) \subseteq Table
        /\ Walking => Behind /\ Halfway
        /\ phase = "finalize" => \A n \in DOMAIN entries : entries[n] \in Function => Listed(n)
        /\ phase \in {"check", "codegen"} => \A n \in DOMAIN entries : Listed(n)
        /\ ~stash => Table \cap Broken \subseteq SeedSet(prog)
    /\ phase = "codegen" => errors = 0

IInv == TypeOK /\ TableBounded /\ Frontier

-----------------------------------------------------------------------------
(* What one registration does to the table.                                  *)

LEMMA RegisterEffect ==
    ASSUME TypeOK, NEW x \in Inst, mono_register(x)
    PROVE  /\ entries' = entries \/ entries' = Append(entries, x)
           /\ entries' \in Seq(Inst) /\ errors' \in Nat
           /\ Len(entries) <= Len(entries')
           /\ \A n \in DOMAIN entries : n \in DOMAIN entries' /\ entries'[n] = entries[n]
           /\ Table \subseteq Table' /\ Table' \subseteq Table \cup {x}
           /\ errors' = 0 => errors = 0 /\ x \in Table'
<1>1. CASE errors > 0 \/ x \in Table
  BY <1>1 DEF mono_register, TypeOK, Table
<1>2. CASE ~(errors > 0 \/ x \in Table) /\ (Rejected(x) \/ Infinite(x))
  BY <1>2 DEF mono_register, TypeOK, Table
<1>3. CASE ~(errors > 0 \/ x \in Table) /\ ~(Rejected(x) \/ Infinite(x))
  <2>1. entries' = Append(entries, x) /\ errors' = errors
    BY <1>3 DEF mono_register
  <2>2. /\ Len(entries') = Len(entries) + 1
        /\ \A n \in 1 .. Len(entries) : entries'[n] = entries[n]
        /\ entries'[Len(entries) + 1] = x
    BY <2>1 DEF TypeOK
  <2> QED BY <2>1, <2>2 DEF TypeOK, Table
<1> QED BY <1>1, <1>2, <1>3

LEMMA RegisterBounded ==
    ASSUME TypeOK, TableBounded, NEW x \in Inst, mono_register(x)
    PROVE  TableBounded'
<1>1. CASE UNCHANGED entries
  BY <1>1 DEF TableBounded
<1>2. CASE entries' = Append(entries, x) /\ x \notin Table /\ ~Infinite(x)
  <2>1. /\ Len(entries') = Len(entries) + 1
        /\ \A n \in 1 .. Len(entries) : entries'[n] = entries[n]
        /\ entries'[Len(entries) + 1] = x
        /\ DOMAIN entries = 1 .. Len(entries) /\ DOMAIN entries' = 1 .. (Len(entries) + 1)
        /\ Len(entries) \in Nat
    BY <1>2 DEF TypeOK
  <2>2. Depth(x) <= MAX_DEPTH /\ Len(entries) < MAX_INSTANCES
    BY <1>2, <2>1, MonoAssumption DEF Infinite
  <2>3. \A n \in 1 .. Len(entries) : entries[n] # x
    BY <1>2 DEF Table
  <2>4. ASSUME NEW m \in DOMAIN entries', NEW n \in DOMAIN entries', entries'[m] = entries'[n]
        PROVE  m = n
    BY <2>1, <2>3, <2>4 DEF TableBounded
  <2>5. \A n \in DOMAIN entries' : Depth(entries'[n]) <= MAX_DEPTH
    BY <2>1, <2>2 DEF TableBounded
  <2>6. Len(entries') <= MAX_INSTANCES
    BY <2>1, <2>2, MonoAssumption
  <2> QED BY <2>4, <2>5, <2>6 DEF TableBounded
<1> QED BY <1>1, <1>2 DEF mono_register

(* What an entry refers to. *)
LEMMA RefsType ==
    ASSUME TypeOK, TableBounded, NEW n \in DOMAIN entries
    PROVE  /\ entries[n] \in Inst
           /\ Refs(prog, entries[n]) \in Seq(Inst)
           /\ entries[n] \notin Function => Refs(prog, entries[n]) \in Seq(Inst \ Function)
           /\ Fields(prog, entries[n]) \subseteq RefSet(prog, entries[n])
BY MonoAssumption DEF TypeOK, TableBounded, RefSet

LEMMA SeedsType ==
    ASSUME TypeOK
    PROVE  Seeds(prog) \in Seq(Inst)
BY MonoAssumption DEF TypeOK

(* Entries listed stay listed while the table grows. *)
LEMMA ListedStays ==
    ASSUME TypeOK, UNCHANGED prog, Table \subseteq Table',
           NEW n \in DOMAIN entries, entries'[n] = entries[n], Listed(n)
    PROVE  Listed(n)'
BY DEF Listed
-----------------------------------------------------------------------------
(* Each action preserves the invariant.                                      *)

LEMMA InitInv == Init => IInv
<1> SUFFICES ASSUME Init PROVE IInv
  OBVIOUS
<1>1. Table = {}
  BY DEF Init, Table
<1>2. TypeOK /\ TableBounded
  <2>1. /\ <<>> \in Seq(Inst) /\ Len(<<>>) = 0 /\ DOMAIN <<>> = {}
        /\ MAX_INSTANCES \in Nat
    BY MonoAssumption
  <2>2. entries = <<>> /\ end = 0 /\ i = 1 /\ j = 1
    BY DEF Init
  <2>3. TypeOK
    <3>1. 0 \in 0 .. Len(entries)
      BY <2>1, <2>2
    <3>2. stash \in BOOLEAN
      BY DEF Init
    <3>3. prog \in Program /\ errors \in Nat /\ phase = "pass2"
      BY DEF Init
    <3> QED BY <2>1, <2>2, <3>1, <3>2, <3>3 DEF TypeOK
  <2> QED BY <2>1, <2>2, <2>3 DEF TableBounded
<1>3. Frontier
  BY <1>1 DEF Init, Frontier, Walking
<1> QED BY <1>2, <1>3 DEF IInv

LEMMA Pass2RegisterInv ==
    ASSUME IInv, Pass2Register
    PROVE  IInv'
<1> DEFINE x == Seeds(prog)[j]
<1> USE DEF IInv
<1>0. TypeOK /\ TableBounded /\ Frontier /\ j \in Nat \ {0} /\ phase = "pass2"
  BY DEF Pass2Register, TypeOK
<1>1. x \in Inst /\ mono_register(x)
  BY <1>0, SeedsType DEF Pass2Register
<1> HIDE DEF x
<1>2. TypeOK'
  BY <1>0, <1>1, RegisterEffect DEF Pass2Register, TypeOK
<1>3. TableBounded'
  BY <1>0, <1>1, RegisterBounded
<1>4. Frontier'
  <2>1. ~Walking' /\ phase' = "pass2" /\ ~stash' /\ stash' = stash /\ j' = j + 1 /\ prog' = prog
    BY <1>0 DEF Pass2Register, Walking, Frontier
  <2>2. ASSUME errors' = 0
        PROVE  /\ \A k \in DOMAIN Seeds(prog) : k < j + 1 => Seeds(prog)[k] \in Table'
               /\ Table' \cap Broken \subseteq SeedSet(prog)
    <3>1. errors = 0 /\ x \in Table' /\ Table \subseteq Table' /\ Table' \subseteq Table \cup {x}
      BY <1>0, <1>1, <2>2, RegisterEffect
    <3>2. \A k \in DOMAIN Seeds(prog) : k < j + 1 => k < j \/ k = j
      BY <1>0, SeedsType
    <3>3. x \in SeedSet(prog)
      BY <1>0, SeedsType DEF Pass2Register, SeedSet, x
    <3>4. /\ \A k \in DOMAIN Seeds(prog) : k < j => Seeds(prog)[k] \in Table
          /\ Table \cap Broken \subseteq SeedSet(prog)
      BY <1>0, <2>1, <3>1 DEF Frontier
    <3> QED BY <3>1, <3>2, <3>3, <3>4 DEF x
  <2> QED BY <2>1, <2>2 DEF Frontier
<1> QED BY <1>2, <1>3, <1>4

LEMMA Pass2DoneInv ==
    ASSUME IInv, Pass2Done
    PROVE  IInv'
<1> USE DEF IInv
<1>0. TypeOK /\ TableBounded /\ Frontier /\ j \in Nat \ {0} /\ phase = "pass2"
      /\ Table' = Table /\ i' = 1 /\ end' = Len(entries) /\ entries' = entries
      /\ prog' = prog /\ errors' = errors /\ stash' = stash /\ j' = 1
  BY DEF Pass2Done, TypeOK, Table
<1>1. TypeOK' /\ TableBounded'
  BY <1>0 DEF Pass2Done, TypeOK, TableBounded
<1>2. ~stash
  BY <1>0 DEF Frontier, Walking
<1>3. CASE errors > 0
  <2>1. phase' = "stopped"
    BY <1>3 DEF Pass2Done
  <2> QED BY <1>0, <1>1, <1>2, <1>3, <2>1 DEF Frontier, Walking, TypeOK
<1>4. CASE ~(errors > 0)
  <2>1. phase' = "discover" /\ errors = 0
    BY <1>0, <1>4 DEF Pass2Done, TypeOK
  <2>2. SeedSet(prog) \subseteq Table /\ Table \cap Broken \subseteq SeedSet(prog)
    <3>1. \A k \in DOMAIN Seeds(prog) : k < j
      BY <1>0, SeedsType DEF Pass2Done
    <3> QED BY <1>0, <1>2, <2>1, <3>1 DEF Frontier, SeedSet
  <2>3. Behind' /\ Halfway'
    <3>1. DOMAIN entries' = 1 .. Len(entries)
      BY <1>0 DEF TypeOK
    <3> QED BY <1>0, <3>1 DEF Behind, Halfway, TypeOK
  <2>4. i' <= end' + 1
    BY <1>0 DEF TypeOK
  <2> QED BY <1>0, <1>1, <2>1, <2>2, <2>3, <2>4 DEF Frontier, Walking
<1> QED BY <1>3, <1>4

LEMMA WalkReferenceInv ==
    ASSUME IInv, WalkReference
    PROVE  IInv'
<1> DEFINE x == Refs(prog, entries[i])[j]
<1> USE DEF IInv
<1>0. /\ TypeOK /\ TableBounded /\ Frontier /\ Walking
      /\ i \in DOMAIN entries /\ i <= end /\ Walked(entries[i])
      /\ j \in 1 .. Len(Refs(prog, entries[i])) /\ i \in Nat /\ end \in Nat
      /\ prog' = prog /\ phase' = phase /\ i' = i /\ end' = end /\ j' = j + 1
  BY RefsType DEF WalkReference, TypeOK, Walking
<1>1. /\ Refs(prog, entries[i]) \in Seq(Inst)
      /\ entries[i] \notin Function => Refs(prog, entries[i]) \in Seq(Inst \ Function)
  BY <1>0, RefsType
<1>2. x \in Inst /\ (entries[i] \notin Function => x \notin Function)
  BY <1>0, <1>1
<1>3. mono_register(x) /\ stash' = (stash \/ x \in Broken)
  BY <1>0 DEF WalkReference, Meet
<1> HIDE DEF x
<1>4. /\ entries' = entries \/ entries' = Append(entries, x)
      /\ entries' \in Seq(Inst) /\ errors' \in Nat
      /\ Len(entries) <= Len(entries')
      /\ \A n \in DOMAIN entries : n \in DOMAIN entries' /\ entries'[n] = entries[n]
      /\ Table \subseteq Table' /\ Table' \subseteq Table \cup {x}
      /\ errors' = 0 => errors = 0 /\ x \in Table'
  BY <1>0, <1>2, <1>3, RegisterEffect
<1>5. TypeOK'
  BY <1>0, <1>3, <1>4 DEF TypeOK
<1>6. TableBounded'
  BY <1>0, <1>2, <1>3, RegisterBounded
<1>7. ASSUME NEW n \in DOMAIN entries', entries'[n] # entries[n] \/ n \notin DOMAIN entries
      PROVE  n = Len(entries) + 1 /\ entries'[n] = x
  <2>1. entries' = Append(entries, x)
    BY <1>4, <1>7
  <2>2. /\ DOMAIN entries' = 1 .. (Len(entries) + 1) /\ DOMAIN entries = 1 .. Len(entries)
        /\ \A m \in 1 .. Len(entries) : entries'[m] = entries[m]
        /\ entries'[Len(entries) + 1] = x
    BY <1>0, <2>1 DEF TypeOK
  <2> QED BY <1>7, <2>2
<1>8. ASSUME errors' = 0
      PROVE  /\ SeedSet(prog) \subseteq Table' /\ Behind' /\ Halfway'
             /\ phase = "finalize" =>
                    \A n \in DOMAIN entries' : entries'[n] \in Function => Listed(n)'
             /\ ~stash' => Table' \cap Broken \subseteq SeedSet(prog)
  <2>1. errors = 0 /\ x \in Table' /\ phase # "pass2"
    BY <1>0, <1>4, <1>8 DEF Walking
  <2>2. SeedSet(prog) \subseteq Table'
    BY <1>0, <1>4, <2>1 DEF Frontier
  <2>3. Behind'
    <3> SUFFICES ASSUME NEW n \in DOMAIN entries', n < i, Walked(entries[n])'
                 PROVE  Listed(n)'
      BY <1>0 DEF Behind
    <3>1. n \in DOMAIN entries /\ entries'[n] = entries[n]
      BY <1>0, <1>7, <1>4 DEF TypeOK
    <3>2. Walked(entries[n])
      BY <1>0, <3>1 DEF Walked
    <3>3. Listed(n)
      BY <1>0, <2>1, <3>1, <3>2 DEF Frontier, Behind
    <3> QED BY <1>0, <1>4, <3>1, <3>3, ListedStays
  <2>4. Halfway'
    <3>1. entries'[i] = entries[i]
      BY <1>0, <1>4
    <3>2. \A k \in 1 .. Len(Refs(prog, entries[i])) : k < j + 1 =>
             Refs(prog, entries[i])[k] \in Table'
      <4>1. \A k \in 1 .. Len(Refs(prog, entries[i])) : k < j + 1 => k < j \/ k = j
        BY <1>0
      <4>2. \A k \in 1 .. Len(Refs(prog, entries[i])) : k < j =>
               Refs(prog, entries[i])[k] \in Table
        BY <1>0, <2>1 DEF Frontier, Halfway
      <4> QED BY <1>4, <2>1, <4>1, <4>2 DEF x
    <3> QED BY <1>0, <3>1, <3>2 DEF Halfway
  <2>5. ASSUME phase = "finalize", NEW n \in DOMAIN entries', entries'[n] \in Function
        PROVE  Listed(n)'
    <3>1. x \notin Function
      BY <1>0, <1>2, <2>5 DEF Walked
    <3>2. n \in DOMAIN entries /\ entries'[n] = entries[n]
      BY <1>7, <2>5, <3>1
    <3>3. Listed(n)
      BY <1>0, <2>1, <2>5, <3>2 DEF Frontier
    <3> QED BY <1>0, <1>4, <3>2, <3>3, ListedStays
  <2>6. ~stash' => Table' \cap Broken \subseteq SeedSet(prog)
    BY <1>0, <1>3, <1>4, <2>1 DEF Frontier, TypeOK
  <2> QED BY <2>2, <2>3, <2>4, <2>5, <2>6
<1>9. Frontier'
  BY <1>0, <1>8 DEF Frontier, Walking
<1> QED BY <1>5, <1>6, <1>9

LEMMA WalkNextInv ==
    ASSUME IInv, WalkNext
    PROVE  IInv'
<1> USE DEF IInv
<1>0. /\ TypeOK /\ TableBounded /\ Frontier /\ Walking
      /\ i \in DOMAIN entries /\ i <= end /\ i \in Nat /\ end \in Nat /\ j \in Nat
      /\ prog' = prog /\ phase' = phase /\ i' = i + 1 /\ end' = end /\ j' = 1
      /\ entries' = entries /\ errors' = errors /\ stash' = stash /\ Table' = Table
  BY DEF WalkNext, TypeOK, Walking, Table
<1>1. TypeOK' /\ TableBounded'
  BY <1>0 DEF TypeOK, TableBounded
<1>2. errors = 0 => Behind'
  <2> SUFFICES ASSUME errors = 0, NEW n \in DOMAIN entries, n < i + 1, Walked(entries[n])
               PROVE  Listed(n)
    BY <1>0 DEF Behind, Walked, Listed
  <2>1. CASE n < i
    BY <1>0, <2>1 DEF Frontier, Behind
  <2>2. CASE n = i
    <3>1. j > Len(Refs(prog, entries[i])) /\ Refs(prog, entries[i]) \in Seq(Inst)
      BY <1>0, <2>2, RefsType DEF WalkNext
    <3> QED BY <1>0, <2>2, <3>1 DEF Frontier, Halfway, Listed, RefSet
  <2>3. n \in Nat
    BY <1>0 DEF TypeOK
  <2> QED BY <1>0, <2>1, <2>2, <2>3
<1>3. Halfway'
  BY <1>0 DEF Halfway
<1>4. (\A n \in DOMAIN entries : entries[n] \in Function => Listed(n)) =>
          \A n \in DOMAIN entries' : entries'[n] \in Function => Listed(n)'
  BY <1>0 DEF Listed
<1> QED BY <1>0, <1>1, <1>2, <1>3, <1>4 DEF Frontier, Walking

(* At the end of a loop everything of its kind is behind. *)
LEMMA LoopEnd ==
    ASSUME IInv, Walking, i > end, Len(entries) <= end, errors = 0,
           NEW n \in DOMAIN entries, Walked(entries[n])
    PROVE  Listed(n)
<1>1. n < i
  BY DEF IInv, TypeOK
<1> QED BY <1>1 DEF IInv, Frontier, Behind

LEMMA DrainEffect ==
    ASSUME TypeOK, mono_drain_const_eval_error
    PROVE  /\ stash' = FALSE /\ errors' \in Nat
           /\ errors' = 0 => errors = 0 /\ ~stash
BY DEF mono_drain_const_eval_error, TypeOK

LEMMA DiscoverBatchInv ==
    ASSUME IInv, DiscoverBatch
    PROVE  IInv'
<1> USE DEF IInv
<1>0. /\ TypeOK /\ TableBounded /\ Frontier /\ Walking /\ phase = "discover"
      /\ i > end /\ i \in Nat /\ end \in Nat /\ Len(entries) \in Nat
      /\ prog' = prog /\ end' = Len(entries) /\ entries' = entries /\ Table' = Table
      /\ DOMAIN entries = 1 .. Len(entries)
  BY DEF DiscoverBatch, TypeOK, Walking, Table
<1>1. CASE Len(entries) > end /\ UNCHANGED <<errors, stash, phase, i, j>>
  <2>1. TypeOK' /\ TableBounded'
    BY <1>0, <1>1 DEF TypeOK, TableBounded
  <2>2. i = end + 1
    BY <1>0 DEF Frontier
  <2>3. Behind => Behind'
    BY <1>0, <1>1 DEF Behind, Listed, Walked
  <2>4. errors = 0 => Halfway'
    <3>1. j = 1
      BY <1>0 DEF Frontier
    <3>2. \A k \in 1 .. Len(Refs(prog, entries[i])) : ~(k < j)
      BY <3>1
    <3> QED BY <3>2, <1>0, <1>1 DEF Halfway
  <2>5. i' <= end' + 1 /\ i' <= end'
    BY <1>0, <1>1, <2>2
  <2> QED BY <1>0, <1>1, <2>1, <2>3, <2>4, <2>5 DEF Frontier, Walking, Listed
<1>2. CASE /\ Len(entries) <= end /\ mono_drain_const_eval_error
           /\ phase' = "finalize" /\ i' = 1 /\ j' = 1
  <2>1. stash' = FALSE /\ errors' \in Nat /\ (errors' = 0 => errors = 0 /\ ~stash)
    BY <1>0, <1>2, DrainEffect
  <2>2. TypeOK' /\ TableBounded'
    <3>1. stash' \in BOOLEAN
      BY <2>1
    <3> QED BY <1>0, <1>2, <2>1, <3>1 DEF TypeOK, TableBounded
  <2>3. Behind' /\ Halfway'
    BY <1>0, <1>2 DEF Behind, Halfway
  <2>4. errors' = 0 => \A n \in DOMAIN entries : entries[n] \in Function => Listed(n)
    BY <1>0, <1>2, <2>1, LoopEnd DEF Walked
  <2>5. i' <= end' + 1
    BY <1>0, <1>2
  <2> QED BY <1>0, <1>2, <2>1, <2>2, <2>3, <2>4, <2>5 DEF Frontier, Walking, Listed
<1> QED BY <1>1, <1>2 DEF DiscoverBatch

LEMMA FinalizeRoundInv ==
    ASSUME IInv, FinalizeRound
    PROVE  IInv'
<1> USE DEF IInv
<1>0. /\ TypeOK /\ TableBounded /\ Frontier /\ Walking /\ phase = "finalize"
      /\ i > end /\ i \in Nat /\ end \in Nat /\ Len(entries) \in Nat
      /\ prog' = prog /\ end' = Len(entries) /\ entries' = entries /\ Table' = Table
      /\ i' = 1 /\ j' = 1 /\ DOMAIN entries = 1 .. Len(entries)
  BY DEF FinalizeRound, TypeOK, Walking, Table
<1>1. Behind' /\ Halfway' /\ i' <= end' + 1
  BY <1>0 DEF Behind, Halfway
<1>2. CASE Len(entries) > end /\ UNCHANGED <<errors, stash, phase>>
  <2>1. TypeOK' /\ TableBounded'
    BY <1>0, <1>2 DEF TypeOK, TableBounded
  <2> QED BY <1>0, <1>1, <1>2, <2>1 DEF Frontier, Walking, Listed
<1>3. CASE Len(entries) <= end /\ mono_drain_const_eval_error /\ phase' = "check"
  <2>1. stash' = FALSE /\ errors' \in Nat /\ (errors' = 0 => errors = 0 /\ ~stash)
    BY <1>0, <1>3, DrainEffect
  <2>2. TypeOK' /\ TableBounded'
    <3>1. stash' \in BOOLEAN
      BY <2>1
    <3> QED BY <1>0, <1>3, <2>1, <3>1 DEF TypeOK, TableBounded
  <2>3. ASSUME errors' = 0, NEW n \in DOMAIN entries PROVE Listed(n)
    <3>1. CASE entries[n] \in Function
      BY <1>0, <2>1, <2>3, <3>1 DEF Frontier
    <3>2. CASE entries[n] \notin Function
      <4>1. Walked(entries[n])
        BY <1>0, <3>2 DEF Walked
      <4> QED BY <1>0, <1>3, <2>1, <2>3, <4>1, LoopEnd
    <3> QED BY <3>1, <3>2
  <2> QED BY <1>0, <1>3, <2>1, <2>2, <2>3 DEF Frontier, Walking, Listed
<1> QED BY <1>2, <1>3 DEF FinalizeRound

(* A table everything in it is listed by has nothing dangling. *)
LEMMA NothingDangles ==
    ASSUME IInv, phase = "check", errors = 0
    PROVE  ~Dangling
<1> SUFFICES ASSUME NEW n \in DOMAIN entries, ~(Fields(prog, entries[n]) \subseteq Table)
             PROVE  FALSE
  BY DEF Dangling, Table, IInv, TypeOK
<1>1. Listed(n)
  BY DEF IInv, Frontier
<1> QED BY <1>1, RefsType DEF IInv, Listed

LEMMA CheckInv ==
    ASSUME IInv, check_dangling_instance
    PROVE  IInv' /\ errors' = errors
<1> USE DEF IInv
<1>1. errors' = errors
  BY NothingDangles DEF check_dangling_instance
<1>2. /\ TypeOK /\ TableBounded /\ Frontier /\ phase = "check" /\ Table' = Table
      /\ phase' = IF errors > 0 THEN "stopped" ELSE "codegen"
      /\ UNCHANGED <<prog, entries, errors, stash, i, j, end>>
  BY <1>1 DEF check_dangling_instance, walk, Table
<1>3. TypeOK' /\ TableBounded'
  BY <1>2 DEF TypeOK, TableBounded
<1> QED BY <1>1, <1>2, <1>3 DEF Frontier, Walking, Listed, TypeOK

LEMMA StepInv == IInv /\ [Next]_vars => IInv'
<1> SUFFICES ASSUME IInv, [Next]_vars PROVE IInv'
  OBVIOUS
<1>1. CASE UNCHANGED vars
  BY <1>1 DEF vars, walk, IInv, TypeOK, TableBounded, Frontier, Walking, Behind, Halfway,
              Walked, Listed, Table
<1> QED BY <1>1, Pass2RegisterInv, Pass2DoneInv, WalkReferenceInv, WalkNextInv,
           DiscoverBatchInv, FinalizeRoundInv, CheckInv DEF Next

LEMMA Invariant == Spec => []IInv
BY InitInv, StepInv, PTL DEF Spec

-----------------------------------------------------------------------------
(* The verdict.  What is registered belongs to the family that was asked     *)
(* for, so a guard that fires, fires on a member of the family; and while no *)
(* member is broken, the entries keep within what the guards allow.          *)

(* The family a program asks for, by its definition: the least that holds    *)
(* what is asked.                                                            *)
Least(p, S) == Asks(p, S) /\ \A T : Asks(p, T) => S \subseteq T

Templates ==
    \A n \in DOMAIN entries : HasConstArg(entries[n]) =>
        Cardinality({m \in DOMAIN entries : Template(entries[m]) = Template(entries[n])})
            <= MAX_PER_TEMPLATE

VInv ==
    /\ \A n \in DOMAIN entries : entries[n] \in Asked(prog) /\ ~Rejected(entries[n])
    /\ stash => Asked(prog) \cap Broken # {}
    /\ errors > 0 => ~Fits(Asked(prog))
    /\ phase = "stopped" => errors > 0
    /\ Table \cap Broken = {} => Templates

(* Every program has such a family. *)
LEMMA LeastExists ==
    ASSUME NEW p \in Program
    PROVE  \E S \in SUBSET Inst : Least(p, S)
<1> DEFINE S == {x \in Inst : \A T \in SUBSET Inst : Asks(p, T) => x \in T}
<1>1. /\ SeedSet(p) \subseteq Inst
      /\ \A x \in Inst : Depth(x) <= MAX_DEPTH => RefSet(p, x) \subseteq Inst
  BY MonoAssumption DEF SeedSet, RefSet
<1>2. Asks(p, S)
  BY <1>1 DEF Asks
<1>3. ASSUME NEW T, Asks(p, T) PROVE S \subseteq T
  <2>1. Asks(p, T \cap Inst)
    BY <1>1, <1>3 DEF Asks
  <2> QED BY <2>1
<1> QED BY <1>2, <1>3 DEF Least

LEMMA EntriesFinite ==
    ASSUME NEW n \in Nat
    PROVE  IsFiniteSet(1 .. n) /\ Cardinality(1 .. n) = n
<1>1. 1 \in Int /\ n \in Int /\ (IF 1 > n THEN 0 ELSE n - 1 + 1) = n
  OBVIOUS
<1>2. IsFiniteSet(1 .. n) /\ Cardinality(1 .. n) = IF 1 > n THEN 0 ELSE n - 1 + 1
  BY <1>1, FS_Interval
<1> QED BY <1>1, <1>2

(* As many entries satisfy a condition on their instances as instances of    *)
(* the table do.                                                             *)
LEMMA EntriesCounted ==
    ASSUME TypeOK, TableBounded, NEW I \in SUBSET DOMAIN entries
    PROVE  /\ IsFiniteSet({entries[n] : n \in I}) /\ IsFiniteSet(I)
           /\ Cardinality({entries[n] : n \in I}) = Cardinality(I)
<1> DEFINE S == {entries[n] : n \in I}
           f == [n \in I |-> entries[n]]
<1>1. Len(entries) \in Nat /\ DOMAIN entries = 1 .. Len(entries)
  BY DEF TypeOK
<1>2. IsFiniteSet(I)
  BY <1>1, EntriesFinite, FS_Subset
<1>3. f \in Bijection(I, S)
  BY DEF TableBounded, Bijection, Injection, Surjection, IsInjective
<1>4. ExistsBijection(I, S)
  BY <1>3 DEF ExistsBijection
<1> QED BY <1>2, <1>4, FS_Bijection, FS_SameCardinalityBij

LEMMA TableCounted ==
    ASSUME TypeOK, TableBounded
    PROVE  IsFiniteSet(Table) /\ Cardinality(Table) = Len(entries)
<1>1. Len(entries) \in Nat /\ DOMAIN entries = 1 .. Len(entries)
  BY DEF TypeOK
<1> QED BY <1>1, EntriesFinite, EntriesCounted DEF Table

LEMMA TemplateCounted ==
    ASSUME TypeOK, TableBounded, NEW x
    PROVE  /\ IsFiniteSet({y \in Table : Template(y) = Template(x)})
           /\ Cardinality({y \in Table : Template(y) = Template(x)}) = TemplateCount(x)
           /\ TemplateCount(x) \in Nat
<1> DEFINE I == {n \in DOMAIN entries : Template(entries[n]) = Template(x)}
<1>1. {y \in Table : Template(y) = Template(x)} = {entries[n] : n \in I}
  BY DEF Table, TypeOK
<1>2. /\ IsFiniteSet({entries[n] : n \in I}) /\ IsFiniteSet(I)
      /\ Cardinality({entries[n] : n \in I}) = Cardinality(I)
  BY EntriesCounted
<1> QED BY <1>1, <1>2, FS_CardinalityType DEF TemplateCount

(* A larger finite set with one more member. *)
LEMMA OneMore ==
    ASSUME NEW S, NEW T, NEW x, IsFiniteSet(T), S \subseteq T, x \in T, x \notin S
    PROVE  IsFiniteSet(S) /\ Cardinality(S) + 1 <= Cardinality(T)
<1>1. S \cup {x} \subseteq T
  OBVIOUS
<1> QED BY <1>1, FS_Subset, FS_AddElement, FS_CardinalityType

(* A guard fires only on a family that does not fit. *)
LEMMA GuardIsRight ==
    ASSUME TypeOK, TableBounded, VInv, NEW x \in Asked(prog), x \in Inst, x \notin Table,
           Rejected(x) \/ Infinite(x)
    PROVE  ~Fits(Asked(prog))
<1> SUFFICES ASSUME Fits(Asked(prog)) PROVE FALSE
  OBVIOUS
<1>0. Table \subseteq Asked(prog)
  BY DEF VInv, Table, TypeOK
<1>1. IsFiniteSet(Asked(prog)) /\ Depth(x) <= MAX_DEPTH /\ ~Rejected(x)
  BY DEF Fits
<1>2. CASE Len(entries) >= MAX_INSTANCES
  <2>1. Len(entries) + 1 <= Cardinality(Asked(prog))
    BY <1>0, <1>1, OneMore, TableCounted
  <2>2. Cardinality(Asked(prog)) <= MAX_INSTANCES /\ Cardinality(Asked(prog)) \in Nat
    BY <1>1, FS_CardinalityType DEF Fits
  <2>3. Len(entries) \in Nat /\ MAX_INSTANCES \in Nat
    BY MonoAssumption DEF TypeOK
  <2> QED BY <1>2, <2>1, <2>2, <2>3
<1>3. CASE HasConstArg(x) /\ TemplateCount(x) >= MAX_PER_TEMPLATE
  <2> DEFINE S == {y \in Table : Template(y) = Template(x)}
             T == {y \in Asked(prog) : Template(y) = Template(x)}
  <2>1. IsFiniteSet(T)
    BY <1>1, FS_Subset
  <2>2. S \subseteq T /\ x \in T /\ x \notin S
    BY <1>0
  <2>3. Cardinality(S) = TemplateCount(x) /\ TemplateCount(x) \in Nat
    BY TemplateCounted
  <2> HIDE DEF S
  <2>4. Cardinality(S) + 1 <= Cardinality(T)
    BY <2>1, <2>2, OneMore
  <2>5. Cardinality(T) <= MAX_PER_TEMPLATE
    BY <1>3 DEF Fits
  <2>6. Cardinality(T) \in Nat
    BY <2>1, FS_CardinalityType
  <2> HIDE DEF T
  <2> QED BY <1>3, <2>3, <2>4, <2>5, <2>6, MonoAssumption
<1> QED BY <1>1, <1>2, <1>3, MonoAssumption DEF Infinite, TypeOK

(* What a registration of a member of the family leaves true. *)
Sound ==
    /\ \A n \in DOMAIN entries : entries[n] \in Asked(prog) /\ ~Rejected(entries[n])
    /\ errors > 0 => ~Fits(Asked(prog))
    /\ Table \cap Broken = {} => Templates

LEMMA RegisterSound ==
    ASSUME TypeOK, TableBounded, VInv, UNCHANGED prog,
           NEW x \in Inst, x \in Asked(prog), mono_register(x)
    PROVE  Sound'
<1>1. CASE UNCHANGED <<entries, errors>>
  BY <1>1 DEF Sound, VInv, Templates, Table
<1>2. CASE x \notin Table /\ (Rejected(x) \/ Infinite(x)) /\ UNCHANGED entries
  <2>1. ~Fits(Asked(prog))
    BY <1>2, GuardIsRight
  <2> QED BY <1>2, <2>1 DEF Sound, VInv, Templates, Table
<1>3. CASE /\ x \notin Table /\ ~Rejected(x) /\ ~Infinite(x)
           /\ entries' = Append(entries, x) /\ UNCHANGED errors
  <2>1. /\ Len(entries) \in Nat /\ DOMAIN entries = 1 .. Len(entries)
        /\ DOMAIN entries' = 1 .. (Len(entries) + 1)
        /\ \A n \in 1 .. Len(entries) : entries'[n] = entries[n]
        /\ entries'[Len(entries) + 1] = x
    BY <1>3 DEF TypeOK
  <2> DEFINE L == Len(entries) + 1
             Same(n) == {m \in DOMAIN entries : Template(entries[m]) = Template(entries[n])}
             SameAsX == {m \in DOMAIN entries : Template(entries[m]) = Template(x)}
  <2>2. \A n \in DOMAIN entries' : entries'[n] \in Asked(prog) /\ ~Rejected(entries'[n])
    BY <1>3, <2>1 DEF VInv
  <2>3. ASSUME Table' \cap Broken = {}, NEW n \in DOMAIN entries', HasConstArg(entries'[n])
        PROVE  Cardinality({m \in DOMAIN entries' : Template(entries'[m]) = Template(entries'[n])})
                   <= MAX_PER_TEMPLATE
    <3> DEFINE Now == {m \in DOMAIN entries' : Template(entries'[m]) = Template(entries'[n])}
    <3>1. /\ \A m \in DOMAIN entries' : entries'[m] \notin Broken /\ entries'[m] \in Inst
          /\ x \notin Broken /\ Table \cap Broken = {}
      BY <2>1, <2>3 DEF Table, TypeOK
    <3>2. CASE Template(entries'[n]) = Template(x)
      <4>1. HasConstArg(x)
        BY <2>3, <3>1, <3>2, MonoAssumption
      <4>2. TemplateCount(x) < MAX_PER_TEMPLATE /\ TemplateCount(x) \in Nat
        <5>1. TemplateCount(x) \in Nat /\ MAX_PER_TEMPLATE \in Nat
          BY TemplateCounted, MonoAssumption
        <5>2. ~(TemplateCount(x) >= MAX_PER_TEMPLATE)
          BY <1>3, <4>1 DEF Infinite
        <5> QED BY <5>1, <5>2
      <4>3. Now = SameAsX \cup {L} /\ L \notin SameAsX
        BY <2>1, <3>2
      <4>4. IsFiniteSet(SameAsX)
        BY EntriesCounted
      <4>5. Cardinality(SameAsX) = TemplateCount(x)
        BY DEF TemplateCount
      <4> HIDE DEF Now, SameAsX, L
      <4>6. Cardinality(Now) = TemplateCount(x) + 1
        BY <4>3, <4>4, <4>5, FS_AddElement
      <4>7. Cardinality(Now) <= MAX_PER_TEMPLATE
        BY <4>2, <4>6, MonoAssumption
      <4> QED BY <4>7 DEF Now
    <3>3. CASE Template(entries'[n]) # Template(x)
      <4>1. n \in DOMAIN entries /\ entries'[n] = entries[n]
        BY <2>1, <3>3
      <4>2. Now = Same(n)
        BY <2>1, <3>3, <4>1
      <4>3. Cardinality(Same(n)) <= MAX_PER_TEMPLATE
        BY <2>3, <3>1, <4>1 DEF VInv, Templates
      <4> QED BY <4>2, <4>3
    <3> QED BY <3>2, <3>3
  <2> HIDE DEF L, Same, SameAsX
  <2>4. errors' > 0 => ~Fits(Asked(prog))
    BY <1>3 DEF VInv
  <2> QED BY <2>2, <2>3, <2>4 DEF Sound, Templates
<1> QED BY <1>1, <1>2, <1>3 DEF mono_register

LEMMA VerdictInit == Init => VInv
<1> SUFFICES ASSUME Init PROVE VInv
  OBVIOUS
<1>1. entries = <<>> /\ DOMAIN entries = {} /\ errors = 0 /\ stash = FALSE /\ phase = "pass2"
  BY DEF Init
<1> QED BY <1>1 DEF VInv, Templates

LEMMA VerdictStep ==
    ASSUME \A p \in Program : Least(p, Asked(p)), IInv, VInv, [Next]_vars
    PROVE  VInv'
<1>0. TypeOK /\ TableBounded /\ Asks(prog, Asked(prog))
  BY DEF IInv, TypeOK, Least
<1>1. CASE Pass2Register
  <2>1. Seeds(prog)[j] \in Inst /\ Seeds(prog)[j] \in SeedSet(prog)
    BY <1>0, <1>1, SeedsType DEF Pass2Register, SeedSet, TypeOK
  <2>2. Sound'
    BY <1>0, <1>1, <2>1, RegisterSound DEF Pass2Register, Asks
  <2> QED BY <1>1, <2>2 DEF Sound, VInv, Pass2Register
<1>2. CASE WalkReference
  <2> DEFINE x == Refs(prog, entries[i])[j]
  <2>1. i \in DOMAIN entries /\ j \in DOMAIN Refs(prog, entries[i]) /\ x \in Inst
    BY <1>0, <1>2, RefsType DEF WalkReference, TypeOK
  <2>2. x \in RefSet(prog, entries[i])
    BY <2>1 DEF RefSet
  <2>3. entries[i] \in Asked(prog) /\ Depth(entries[i]) <= MAX_DEPTH
    BY <1>0, <2>1 DEF VInv, TableBounded
  <2>4. x \in Asked(prog)
    BY <1>0, <2>2, <2>3 DEF Asks
  <2>5. mono_register(x) /\ stash' = (stash \/ x \in Broken) /\ prog' = prog /\ phase' = phase
    BY <1>2 DEF WalkReference, Meet
  <2> HIDE DEF x
  <2>6. Sound'
    BY <1>0, <2>1, <2>4, <2>5, RegisterSound
  <2>7. phase # "stopped"
    BY <1>2 DEF WalkReference
  <2> QED BY <2>4, <2>5, <2>6, <2>7 DEF Sound, VInv
<1>3. CASE mono_drain_const_eval_error /\ UNCHANGED <<prog, entries>> /\ phase' # "stopped"
  <2>1. stash => ~Fits(Asked(prog))
    BY DEF VInv, Fits
  <2>2. errors' > 0 => stash \/ errors > 0
    BY <1>0, <1>3 DEF mono_drain_const_eval_error, TypeOK
  <2> QED BY <1>3, <2>1, <2>2 DEF mono_drain_const_eval_error, VInv, Templates, Table
<1>4. CASE UNCHANGED <<prog, entries, errors, stash>> /\ (phase' = "stopped" => errors > 0)
  BY <1>4 DEF VInv, Templates, Table
<1>5. CASE DiscoverBatch \/ FinalizeRound
  BY <1>3, <1>4, <1>5 DEF DiscoverBatch, FinalizeRound
<1>6. CASE Pass2Done \/ WalkNext
  BY <1>4, <1>6 DEF Pass2Done, WalkNext
<1>7. CASE check_dangling_instance
  BY <1>4, <1>7, CheckInv DEF check_dangling_instance
<1>8. CASE UNCHANGED vars
  BY <1>4, <1>8 DEF vars, VInv
<1> QED BY <1>1, <1>2, <1>5, <1>6, <1>7, <1>8 DEF Next

LEMMA VerdictHolds ==
    ASSUME \A p \in Program : Least(p, Asked(p)), IInv, VInv
    PROVE  VerdictRight
<1>0. TypeOK /\ TableBounded /\ Least(prog, Asked(prog))
  BY DEF IInv, TypeOK
<1>1. ASSUME phase = "stopped" PROVE ~Fits(Asked(prog))
  BY <1>1 DEF VInv
<1>2. ASSUME phase = "codegen"
      PROVE  /\ Table = Asked(prog)
             /\ SeedSet(prog) \cap Broken = {} => Fits(Asked(prog))
  <2>1. errors = 0 /\ ~stash
    BY <1>2 DEF IInv, Frontier, Walking
  <2>2. SeedSet(prog) \subseteq Table /\ Table \cap Broken \subseteq SeedSet(prog)
        /\ \A n \in DOMAIN entries : Listed(n)
    BY <1>2, <2>1 DEF IInv, Frontier
  <2>3. Asks(prog, Table)
    BY <1>0, <2>2 DEF Asks, Listed, Table, TypeOK
  <2>4. Table \subseteq Asked(prog)
    BY <1>0 DEF VInv, Table, TypeOK
  <2>5. Table = Asked(prog)
    BY <1>0, <2>3, <2>4 DEF Least
  <2>6. ASSUME SeedSet(prog) \cap Broken = {} PROVE Fits(Table)
    <3>1. Table \cap Broken = {}
      BY <2>2, <2>6
    <3>2. IsFiniteSet(Table) /\ Cardinality(Table) <= MAX_INSTANCES
      BY <1>0, TableCounted DEF TableBounded
    <3>3. \A y \in Table : Depth(y) <= MAX_DEPTH /\ ~Rejected(y) /\ y \notin Broken
      BY <1>0, <3>1 DEF VInv, Table, TableBounded, TypeOK
    <3>4. ASSUME NEW n \in DOMAIN entries, HasConstArg(entries[n])
          PROVE  Cardinality({y \in Table : Template(y) = Template(entries[n])})
                     <= MAX_PER_TEMPLATE
      BY <1>0, <3>1, <3>4, TemplateCounted DEF VInv, Templates, TemplateCount
    <3> QED BY <1>0, <3>2, <3>3, <3>4 DEF Fits, Table, TypeOK
  <2> QED BY <2>5, <2>6
<1> QED BY <1>1, <1>2 DEF VerdictRight

-----------------------------------------------------------------------------
(* The theorems.                                                             *)

(* The table stays within mono_register's limits, each instance once. *)
THEOREM TableIsBounded == Spec => [](TypeOK /\ TableBounded)
<1>1. IInv => TypeOK /\ TableBounded
  BY DEF IInv
<1> QED BY <1>1, Invariant, PTL

(* Codegen is never handed a table that lacks something one of its members   *)
(* names (mono_discover_transitive, mono_finalize_types, main.c's gates).     *)
THEOREM CodegenTableClosed == Spec => []CodegenClosed
<1>1. IInv => CodegenClosed
  <2> SUFFICES ASSUME IInv, phase = "codegen" PROVE CodegenClosed
    BY DEF CodegenClosed
  <2>1. CASE errors = 0
    <3>1. SeedSet(prog) \subseteq Table /\ Table \cap Broken \subseteq SeedSet(prog)
          /\ \A n \in DOMAIN entries : Listed(n)
      BY <2>1 DEF IInv, Frontier, Walking
    <3> QED BY <3>1 DEF CodegenClosed, Listed, Table, IInv, TypeOK
  <2>2. CASE errors # 0
    BY <2>2 DEF IInv, Frontier
  <2> QED BY <2>1, <2>2
<1> QED BY <1>1, Invariant, PTL

(* check_dangling_instance never has anything to report. *)
THEOREM BackstopIsSilent == Spec => BackstopSilent
<1>1. IInv /\ [Next]_vars => [check_dangling_instance => errors' = errors]_vars
  BY CheckInv
<1> QED BY <1>1, Invariant, PTL DEF Spec, BackstopSilent

(* Every run of the two walks is a run of the closure: what is registered is  *)
(* named by a seed or a member, and only a closed table is accepted.          *)
THEOREM MonoImplementsClosure == Spec => ImplementsClosure
<1> DEFINE verdict == CASE phase = "codegen" -> "accepted"
                        [] phase = "stopped" -> "rejected"
                        [] OTHER -> "open"
<1>1. Init => Closure!CInit
  BY DEF Init, Closure!CInit, Table
<1>2. IInv /\ IInv' /\ [Next]_vars => [Closure!CNext]_<<prog, Table, verdict>>
  <2> SUFFICES ASSUME IInv, IInv', [Next]_vars
               PROVE  Closure!CNext \/ UNCHANGED <<prog, Table, verdict>>
    OBVIOUS
  <2>0. TypeOK /\ TableBounded /\ TypeOK' /\ TableBounded'
    BY DEF IInv
  <2>1. ASSUME UNCHANGED <<prog, entries>>, UNCHANGED phase
        PROVE  UNCHANGED <<prog, Table, verdict>>
    BY <2>1 DEF Table
  <2>2. ASSUME NEW x \in Inst, mono_register(x), UNCHANGED <<prog, phase>>,
               phase \notin {"codegen", "stopped"},
               x \in SeedSet(prog) \cup UNION {RefSet(prog, y) : y \in Table}
        PROVE  Closure!CNext \/ UNCHANGED <<prog, Table, verdict>>
    <3>1. Table' = Table \/ Table' = Table \cup {x}
      BY <2>0, <2>2, RegisterEffect DEF mono_register, Table
    <3>2. verdict = "open" /\ verdict' = verdict
      BY <2>2
    <3>3. CASE Table' = Table \cup {x}
      BY <2>2, <3>2, <3>3 DEF Closure!CNext, Closure!Grow, Closure!Owed
    <3> QED BY <2>2, <3>1, <3>2, <3>3
  <2>3. CASE Pass2Register
    <3>1. Seeds(prog)[j] \in Inst /\ Seeds(prog)[j] \in SeedSet(prog)
      BY <2>0, <2>3, SeedsType DEF Pass2Register, SeedSet, TypeOK
    <3> QED BY <2>2, <2>3, <3>1 DEF Pass2Register
  <2>4. CASE WalkReference
    <3>1. /\ i \in DOMAIN entries /\ entries[i] \in Table
          /\ j \in DOMAIN Refs(prog, entries[i])
          /\ Refs(prog, entries[i])[j] \in Inst
      BY <2>0, <2>4, RefsType DEF WalkReference, TypeOK, Table
    <3>2. Refs(prog, entries[i])[j] \in RefSet(prog, entries[i])
      BY <3>1 DEF RefSet
    <3> QED BY <2>2, <2>4, <3>1, <3>2 DEF WalkReference, Meet
  <2>5. CASE Pass2Done
    <3>1. CASE errors > 0
      BY <2>5, <3>1 DEF Pass2Done, Closure!CNext, Closure!Reject, Table
    <3>2. CASE ~(errors > 0)
      BY <2>5, <3>2 DEF Pass2Done, Table
    <3> QED BY <3>1, <3>2
  <2>6. CASE WalkNext
    BY <2>1, <2>6 DEF WalkNext
  <2>7. CASE DiscoverBatch \/ FinalizeRound
    <3>1. /\ UNCHANGED <<prog, entries>> /\ phase \in {"discover", "finalize"}
          /\ phase' \in {"discover", "finalize", "check"}
      BY <2>7 DEF DiscoverBatch, FinalizeRound
    <3> QED BY <3>1 DEF Table
  <2>8. CASE check_dangling_instance
    <3>1. UNCHANGED <<prog, entries>> /\ phase = "check" /\ Table' = Table
      BY <2>8 DEF check_dangling_instance, Table
    <3>2. CASE phase' = "stopped"
      BY <3>1, <3>2 DEF Closure!CNext, Closure!Reject
    <3>3. CASE phase' = "codegen"
      <4>1. errors = 0
        BY <2>8, <3>3, CheckInv DEF check_dangling_instance, IInv, TypeOK
      <4>2. SeedSet(prog) \cup UNION {RefSet(prog, x) : x \in Table} \subseteq Table
        BY <3>1, <4>1 DEF IInv, Frontier, Listed, Table, TypeOK
      <4> QED BY <3>1, <3>3, <4>2 DEF Closure!CNext, Closure!Accept, Closure!Owed
    <3> QED BY <2>8, <3>2, <3>3 DEF check_dangling_instance
  <2>9. CASE UNCHANGED vars
    BY <2>1, <2>9 DEF vars
  <2> QED BY <2>3, <2>4, <2>5, <2>6, <2>7, <2>8, <2>9 DEF Next
<1> QED BY <1>1, <1>2, Invariant, PTL DEF Spec, ImplementsClosure, Closure!CSpec

(* Whatever the limits and the order of registration, the guards refuse a     *)
(* program only for a fault of the family it asks for, and what is accepted   *)
(* is that family (mono_register, mono_drain_const_eval_error).  The family   *)
(* is given by what it is, the least set that holds what is asked.            *)
THEOREM VerdictIsRight ==
    ASSUME \A p \in Program : Least(p, Asked(p))
    PROVE  Spec => []VerdictRight
<1>1. IInv /\ VInv /\ [Next]_vars => VInv'
  BY VerdictStep
<1>2. IInv /\ VInv => VerdictRight
  BY VerdictHolds
<1> QED BY <1>1, <1>2, VerdictInit, Invariant, PTL DEF Spec
=============================================================================
