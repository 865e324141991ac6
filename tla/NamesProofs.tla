---------------------------- MODULE NamesProofs ----------------------------
(* A theorem about Names, for every program: the stack of lets being checked *)
(* holds none twice on demand.  With it goes the shape of a frame: stepping   *)
(* to the next use changes a frame, but neither its let nor why it is there.  *)
EXTENDS Names, SequenceTheorems, TLAPS

Frame == {"let", "sym", "next", "ctx", "demanded"}
FramesOK == (\E S : frames \in Seq(S)) /\ \A k \in DOMAIN frames : DOMAIN frames[k] = Frame

IInv == FramesOK /\ OnDemandOnce

\* Begun puts a let on the stack that is not there on demand, or not on demand.
LEMMA Pushing ==
    ASSUME IInv, NEW d, NEW sym, NEW c, NEW demanded \in BOOLEAN,
           demanded => d \notin on_demand_visited,
           frames' = <<[let |-> d, sym |-> sym, next |-> 1, ctx |-> c, demanded |-> demanded]>> \o frames
    PROVE  IInv'
<1> DEFINE f == [let |-> d, sym |-> sym, next |-> 1, ctx |-> c, demanded |-> demanded]
<1>1. PICK S : frames \in Seq(S)
  BY DEF IInv, FramesOK
<1>2. /\ frames' \in Seq(S \cup {f}) /\ Len(frames') = Len(frames) + 1 /\ frames'[1] = f
      /\ \A k \in 2 .. Len(frames') : frames'[k] = frames[k - 1] /\ k - 1 \in DOMAIN frames
      /\ DOMAIN frames' = 1 .. Len(frames') /\ Len(frames') \in Nat
  <2>1. <<f>> \in Seq(S \cup {f}) /\ frames \in Seq(S \cup {f}) /\ Len(<<f>>) = 1 /\ <<f>>[1] = f
    BY <1>1
  <2> HIDE DEF f
  <2> QED BY <2>1, <1>1 DEF f
<1>3. DOMAIN f = Frame /\ f.let = d /\ f.demanded = demanded
  BY DEF Frame
<1> HIDE DEF f
<1>4. FramesOK'
  <2>1. \A k \in DOMAIN frames' : DOMAIN frames'[k] = Frame
    BY <1>1, <1>2, <1>3 DEF IInv, FramesOK
  <2> QED BY <1>2, <2>1 DEF FramesOK
<1>5. ASSUME demanded, NEW k \in DOMAIN frames, frames[k].demanded PROVE frames[k].let # d
  <2>1. frames[k] \in ToSet(frames)
    BY <1>1 DEF ToSet
  <2> QED BY <1>5, <2>1 DEF on_demand_visited
<1>6. OnDemandOnce'
  <2>1. ASSUME NEW k \in 2 .. Len(frames'), frames'[1].demanded, frames'[k].demanded
        PROVE  frames'[1].let # frames'[k].let
    BY <2>1, <1>2, <1>3, <1>5
  <2>2. ASSUME NEW j \in 2 .. Len(frames'), NEW k \in 2 .. Len(frames'), j # k,
               frames'[j].demanded, frames'[k].demanded
        PROVE  frames'[j].let # frames'[k].let
    BY <2>2, <1>2 DEF IInv, OnDemandOnce
  <2>3. \A k \in DOMAIN frames' : k = 1 \/ k \in 2 .. Len(frames')
    BY <1>2
  <2> QED BY <2>1, <2>2, <2>3 DEF OnDemandOnce
<1> QED BY <1>4, <1>6 DEF IInv

LEMMA Stepping == ASSUME IInv, frames # <<>>, Used PROVE IInv'
<1>1. PICK S : frames \in Seq(S)
  BY DEF IInv, FramesOK
<1> DEFINE f == [Head(frames) EXCEPT !.next = @ + 1]
<1>2. /\ DOMAIN f = Frame /\ f.let = frames[1].let /\ f.demanded = frames[1].demanded
  <2>1. DOMAIN frames[1] = Frame /\ Head(frames) = frames[1]
    BY <1>1 DEF IInv, FramesOK
  <2> QED BY <2>1 DEF Frame
<1>3. frames' = <<f>> \o Tail(frames)
  BY DEF Used
<1> HIDE DEF f
<1>4. /\ frames' \in Seq(S \cup {f}) /\ Len(frames') = Len(frames) /\ frames'[1] = f
      /\ \A k \in 2 .. Len(frames') : frames'[k] = frames[k]
  <2>1. /\ Tail(frames) \in Seq(S) /\ Len(Tail(frames)) = Len(frames) - 1
        /\ \A k \in 1 .. Len(frames) - 1 : Tail(frames)[k] = frames[k + 1]
    BY <1>1
  <2>2. <<f>> \in Seq(S \cup {f}) /\ Tail(frames) \in Seq(S \cup {f})
    BY <2>1
  <2> QED BY <1>1, <1>3, <2>1, <2>2
<1>5. FramesOK'
  <2>1. \A k \in DOMAIN frames' : DOMAIN frames'[k] = Frame
    BY <1>1, <1>2, <1>4 DEF IInv, FramesOK
  <2> QED BY <1>4, <2>1 DEF FramesOK
<1>6. \A k \in DOMAIN frames' : /\ k \in DOMAIN frames /\ frames'[k].let = frames[k].let
                                /\ frames'[k].demanded = frames[k].demanded
  BY <1>1, <1>2, <1>4
<1> QED BY <1>5, <1>6 DEF IInv, OnDemandOnce

LEMMA Popping == ASSUME IInv, frames # <<>>, frames' = Tail(frames) PROVE IInv'
<1>1. PICK S : frames \in Seq(S)
  BY DEF IInv, FramesOK
<1>2. /\ frames' \in Seq(S) /\ Len(frames') = Len(frames) - 1
      /\ \A k \in DOMAIN frames' : frames'[k] = frames[k + 1] /\ k + 1 \in DOMAIN frames
  BY <1>1
<1> QED BY <1>2 DEF IInv, FramesOK, OnDemandOnce

LEMMA Keeping == ASSUME IInv, UNCHANGED frames PROVE IInv'
BY DEF IInv, FramesOK, OnDemandOnce

LEMMA Inductive == IInv /\ [Next]_vars => IInv'
<1> SUFFICES ASSUME IInv, [Next]_vars PROVE IInv'
  OBVIOUS
<1>1. CASE Write \/ BeginModules \/ BeginTopLevel \/ Register \/ BeginImports \/ Import
            \/ BeginWalk \/ Enter \/ Leave \/ check_module_cycles \/ UNCHANGED vars
  BY <1>1, Keeping DEF Write, BeginModules, BeginTopLevel, Register, BeginImports, Import,
     BeginWalk, Enter, Leave, check_module_cycles, walk, vars
<1>2. CASE Check
  BY <1>2, Pushing DEF Check, Begun
<1>3. CASE Use
  <2>1. PICK r : Bind(r) \/ check_let_on_demand(r) \/ report_let_cycle(r)
    BY <1>3 DEF Use
  <2>2. CASE Bind(r) \/ report_let_cycle(r)
    BY <1>3, <2>2, Stepping DEF Bind, report_let_cycle, Use, Using
  <2>3. CASE check_let_on_demand(r)
    BY <2>3, Pushing DEF check_let_on_demand, Begun
  <2> QED BY <2>1, <2>2, <2>3
<1>4. CASE Checked
  BY <1>4, Popping DEF Checked
<1> QED BY <1>1, <1>2, <1>3, <1>4 DEF Next

(* No let is checked on demand inside its own check on demand, whatever the   *)
(* program: check_let_on_demand's recursion is as deep as there are lets.     *)
THEOREM DemandIsOnce == Spec => []OnDemandOnce
<1>1. Init => IInv
  BY DEF Init, IInv, FramesOK, OnDemandOnce
<1>2. IInv => OnDemandOnce
  BY DEF IInv
<1> QED BY <1>1, <1>2, Inductive, PTL DEF Spec
=============================================================================
