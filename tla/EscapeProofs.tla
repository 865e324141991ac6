---------------------------- MODULE EscapeProofs ----------------------------
(* Theorems about Escape, for every set of names, every number of statements  *)
(* and every length of a loop body.                                          *)
(*                                                                           *)
(* ExecuteSound and ReturnSound: a statement the checker accepts keeps what   *)
(* is in memory within the tags.  SweepsReachTheEnd, LinkStep and CheckBelow: *)
(* the sweep stops, foresees every taint of the check after it, and a check   *)
(* with fewer taints accepts no less.  So one check is good for every turn of *)
(* a loop (LoopIsClosed), and the invariant of a run is that the memory is    *)
(* within the tags of a check of this turn (InTurn).                          *)
EXTENDS Escape, TLAPS, NaturalsInduction, WellFoundedInduction, FiniteSetTheorems

-----------------------------------------------------------------------------
(* Induction, stated over sets.                                              *)

LEMMA SetInduction ==
    ASSUME NEW S, 0 \in S, \A n \in Nat : n \in S => n + 1 \in S
    PROVE  Nat \subseteq S
<1> SUFFICES ASSUME Nat \ S # {} PROVE FALSE
  OBVIOUS
<1>1. PICK n \in Nat \ S : \A m \in Nat \ S : ~(<<m, n>> \in OpToRel(<, Nat))
  BY WFMin, NatLessThanWellFounded
<1>2. n # 0 /\ n - 1 \in Nat
  OBVIOUS
<1>3. n - 1 \notin S
  BY <1>2
<1>4. <<n - 1, n>> \in OpToRel(<, Nat)
  BY <1>2 DEF OpToRel
<1> QED BY <1>1, <1>2, <1>3, <1>4

LEMMA UpToInduction ==
    ASSUME NEW N \in Nat, NEW S, 0 \in S, \A n \in 1 .. N : n - 1 \in S => n \in S
    PROVE  \A n \in 0 .. N : n \in S
<1> DEFINE T == {n \in Nat : n <= N => n \in S}
<1>1. 0 \in T /\ \A n \in Nat : n \in T => n + 1 \in T
  <2> SUFFICES ASSUME NEW n \in Nat, n \in T, n + 1 <= N PROVE n + 1 \in S
    OBVIOUS
  <2>1. n + 1 \in 1 .. N /\ (n + 1) - 1 = n
    OBVIOUS
  <2> QED BY <2>1
<1> HIDE DEF T
<1>2. Nat \subseteq T
  BY <1>1, SetInduction
<1> QED BY <1>2 DEF T

-----------------------------------------------------------------------------
(* The recursive functions of the model satisfy their equations.             *)

ChecksEq(c, N, stmts, sc) ==
    c = [n \in 0 .. N |->
            IF n = 0 THEN Verdict(TRUE, sc)
            ELSE LET now == Check(stmts[n], c[n - 1].sc)
                 IN  Verdict(c[n - 1].ok /\ now.ok, now.sc)]

LEMMA ChecksExist ==
    ASSUME NEW stmts, NEW sc, NEW N \in Nat
    PROVE  \E c : ChecksEq(c, N, stmts, sc)
<1> DEFINE S == {n \in Nat : \E c : ChecksEq(c, n, stmts, sc)}
<1>1. 0 \in S
  <2>1. ChecksEq([n \in 0 .. 0 |-> Verdict(TRUE, sc)], 0, stmts, sc)
    BY DEF ChecksEq
  <2> QED BY <2>1
<1>2. ASSUME NEW n \in Nat, n \in S PROVE n + 1 \in S
  <2>1. PICK c : ChecksEq(c, n, stmts, sc)
    BY <1>2
  <2> DEFINE now == Check(stmts[n + 1], c[n].sc)
             last == Verdict(c[n].ok /\ now.ok, now.sc)
             d == [m \in 0 .. n + 1 |-> IF m = n + 1 THEN last ELSE c[m]]
  <2>2. \A m \in 0 .. n : d[m] = c[m]
    OBVIOUS
  <2>3. d[n + 1] = last
    OBVIOUS
  <2>d. d = [m \in 0 .. n + 1 |-> d[m]]
    OBVIOUS
  <2> HIDE DEF d
  <2>4. ChecksEq(d, n + 1, stmts, sc)
    <3>1. ASSUME NEW m \in 0 .. n + 1
          PROVE  d[m] = IF m = 0 THEN Verdict(TRUE, sc)
                        ELSE Verdict(d[m - 1].ok /\ Check(stmts[m], d[m - 1].sc).ok,
                                     Check(stmts[m], d[m - 1].sc).sc)
      <4>1. CASE m = n + 1
        <5>1. m # 0 /\ m - 1 = n /\ n \in 0 .. n
          BY <4>1
        <5> QED BY <4>1, <5>1, <2>2, <2>3
      <4>2. CASE m # n + 1
        <5>1. m \in 0 .. n /\ (m # 0 => m - 1 \in 0 .. n)
          BY <4>2
        <5> QED BY <5>1, <2>1, <2>2 DEF ChecksEq
      <4> QED BY <4>1, <4>2
    <3> QED BY <2>d, <3>1 DEF ChecksEq
  <2> QED BY <2>4
<1> HIDE DEF S
<1> QED BY <1>1, <1>2, SetInduction DEF S

LEMMA ChecksDef ==
    ASSUME NEW stmts, NEW sc, Len(stmts) \in Nat
    PROVE  /\ Checks(stmts, sc)[0] = Verdict(TRUE, sc)
           /\ \A n \in 1 .. Len(stmts) :
                 /\ Checks(stmts, sc)[n] =
                        Verdict(Checks(stmts, sc)[n - 1].ok /\ Check(stmts[n], Checks(stmts, sc)[n - 1].sc).ok,
                                Check(stmts[n], Checks(stmts, sc)[n - 1].sc).sc)
                 /\ Checks(stmts, sc)[n].ok =>
                        Checks(stmts, sc)[n - 1].ok /\ Check(stmts[n], Checks(stmts, sc)[n - 1].sc).ok
<1> DEFINE c == Checks(stmts, sc)
<1>1. ChecksEq(c, Len(stmts), stmts, sc)
  <2>1. c = CHOOSE d : ChecksEq(d, Len(stmts), stmts, sc)
    BY DEF Checks, ChecksEq
  <2> QED BY <2>1, ChecksExist
<1> HIDE DEF c
<1>2. /\ c[0] = Verdict(TRUE, sc)
      /\ \A n \in 1 .. Len(stmts) :
            c[n] = Verdict(c[n - 1].ok /\ Check(stmts[n], c[n - 1].sc).ok, Check(stmts[n], c[n - 1].sc).sc)
  BY <1>1 DEF ChecksEq
<1>3. ASSUME NEW n \in 1 .. Len(stmts), c[n].ok PROVE c[n - 1].ok /\ Check(stmts[n], c[n - 1].sc).ok
  <2>1. Verdict(c[n - 1].ok /\ Check(stmts[n], c[n - 1].sc).ok, Check(stmts[n], c[n - 1].sc).sc).ok
    BY <1>2, <1>3
  <2> QED BY <2>1 DEF Verdict
<1> QED BY <1>2, <1>3 DEF c

-----------------------------------------------------------------------------
(* Bindings.                                                                 *)

Param == {"a", "c", "g"}
Var == {"p", "q", "r", "s", "t", "b", "h", "f"} \cup Param
Prov == {"STACK", "HEAP", "STATIC", "UNKNOWN"}
TagPair == [prov : Prov, elem : Prov]
Binding == [t : TagPair, mut : BOOLEAN]
Names == ({"p", "q", "r", "s", "t", "b", "h", "f"} \cap shape.names) \cup Param

(* One level for the function, one for the loop body; a name is in one only. *)
ScopeOK(sc) ==
    /\ sc \in Seq(UNION {[ns -> Binding] : ns \in SUBSET Var})
    /\ Len(sc) \in {1, 2}
    /\ Len(sc) = 2 => DOMAIN sc[1] \cap DOMAIN sc[2] = {}
    /\ Param \subseteq DOMAIN sc[1]
    /\ Bound(sc) \subseteq Names
    /\ \A i \in DOMAIN sc : \A x \in DOMAIN sc[i] : sc[i][x].mut = (x \in Mutable)

LEMMA MergeType ==
    ASSUME NEW u \in Prov, NEW v \in Prov
    PROVE  /\ Merge(u, v) \in Prov
           /\ Merge(u, v) = "STACK" <=> u = "STACK" \/ v = "STACK"
           /\ Merge(u, v) = "STATIC" <=> u = "STATIC" /\ v = "STATIC"
BY DEF Merge, Prov

LEMMA ScopeFacts ==
    ASSUME NEW sc, ScopeOK(sc)
    PROVE  /\ DOMAIN sc = 1 .. Len(sc) /\ 1 \in DOMAIN sc
           /\ \A i \in DOMAIN sc : sc[i] \in [DOMAIN sc[i] -> Binding] /\ DOMAIN sc[i] \subseteq Names
           /\ Len(sc) = 1 => Bound(sc) = DOMAIN sc[1]
           /\ Len(sc) = 2 => Bound(sc) = DOMAIN sc[1] \cup DOMAIN sc[2]
<1>1. DOMAIN sc = 1 .. Len(sc) /\ Len(sc) \in {1, 2}
  BY DEF ScopeOK
<1>2. ASSUME NEW i \in DOMAIN sc PROVE sc[i] \in [DOMAIN sc[i] -> Binding]
  <2>1. sc[i] \in UNION {[ns -> Binding] : ns \in SUBSET Var}
    BY DEF ScopeOK
  <2>2. PICK ns \in SUBSET Var : sc[i] \in [ns -> Binding]
    BY <2>1
  <2> QED BY <2>2
<1>3. Bound(sc) = UNION {DOMAIN sc[i] : i \in DOMAIN sc}
  BY DEF Bound
<1>4. CASE Len(sc) = 1
  <2>1. DOMAIN sc = {1}
    BY <1>1, <1>4
  <2> QED BY <1>1, <1>2, <1>3, <1>4, <2>1 DEF ScopeOK
<1>5. CASE Len(sc) = 2
  <2>1. DOMAIN sc = {1, 2}
    BY <1>1, <1>5
  <2> QED BY <1>1, <1>2, <1>3, <1>5, <2>1 DEF ScopeOK
<1> QED BY <1>1, <1>4, <1>5

LEMMA LookFacts ==
    ASSUME NEW sc, ScopeOK(sc), NEW x \in Bound(sc)
    PROVE  /\ Level(sc, x) \in DOMAIN sc /\ x \in DOMAIN sc[Level(sc, x)]
           /\ Look(sc, x) = sc[Level(sc, x)][x].t /\ Look(sc, x) \in TagPair
           /\ \A i \in DOMAIN sc : x \in DOMAIN sc[i] => i = Level(sc, x)
<1>1. Len(sc) \in {1, 2}
  BY DEF ScopeOK
<1>2. Level(sc, x) \in DOMAIN sc /\ x \in DOMAIN sc[Level(sc, x)]
  BY <1>1, ScopeFacts DEF Level
<1>3. sc[Level(sc, x)][x] \in Binding
  BY <1>2, ScopeFacts
<1>4. \A i \in DOMAIN sc : x \in DOMAIN sc[i] => i = Level(sc, x)
  BY <1>1, ScopeFacts DEF Level, ScopeOK
<1> QED BY <1>2, <1>3, <1>4 DEF Look, Binding

LEMMA NoNameIsNone == NoName \notin Var \cup {"d"}
BY Zenon DEF NoName, Var, Param

-----------------------------------------------------------------------------
(* What a statement of the tracked core is.                                  *)

Given(x, k) ==
    \/ x \in Pointers /\ k = "value"
    \/ x \in Slices /\ k \in {"slice", "copyof"}
    \/ x = "b" /\ k = "box"
    \/ x = "h" /\ k = "newbox"

AtomIs(ns, o) ==
    \/ o.k \in {"addr", "static"} /\ o.v = NoName
    \/ o.k = "name" /\ o.v \in Pointers \cap ns
    \/ o.k = "elem" /\ o.v \in Slices \cap ns
    \/ o.k \in {"field", "addrin"} /\ o.v \in {"b", "h"} \cap ns

InitIs(ns, x, e) ==
    \/ Given(x, e.k) /\ AtomIs(ns, e.of)
    \/ x \in Pointers /\ e.k = "join" /\ AtomIs(ns, e.of) /\ e.of.k = "addr"
    \/ x \in Slices /\ e.k = "empty" /\ e.of.k = "name" /\ e.of.v = NoName
    \/ x \in Slices /\ e.k = "copy" /\ e.of.k = "name" /\ e.of.v \in Slices \cap ns
    \/ x = "t" /\ e.k = "value" /\ e.of.k = "name" /\ e.of.v \in Slices \cap ns
    \/ x = "f" /\ e.k \in {"fun", "newfun"} /\ e.of.k = "name" /\ e.of.v \in {"q", "s", "f"} \cap ns

StIs(ns, loop, st) ==
    \/ st.k = "let" /\ st.v \in Names \ (ns \cup Param) /\ InitIs(ns, st.v, st.e)
    \/ /\ st.k = "set" /\ st.v \in {"p", "r", "t", "b", "g"} \cap ns /\ InitIs(ns, st.v, st.e)
       /\ loop => st.v # "t"
    \/ /\ st.k = "seti" /\ st.v = "s" /\ "s" \in ns /\ "t" \notin shape.names
       /\ st.e.k = "value" /\ AtomIs(ns, st.e.of)
    \/ st.k = "setf" /\ st.v = "h" /\ "h" \in ns /\ st.e.k = "value" /\ AtomIs(ns, st.e.of)
    \/ /\ st.k = "free" /\ st.v = NoName /\ st.e.k = "value" /\ st.e.of.k = "name"
       /\ st.e.of.v \in {"p", "q", "s", "t", "h", "f"} \cap ns
    \/ /\ st.k = "ret" /\ st.v = NoName
       /\ \/ \E x \in Names : InitIs(ns, x, st.e)
          \/ st.e.k \in {"value", "inline"} /\ AtomIs(ns, st.e.of)
          \/ st.e.k = "value" /\ st.e.of.k = "name" /\ st.e.of.v \in ns

LEMMA AtomsAre ==
    ASSUME NEW ns \in SUBSET Names, NEW o \in Atoms(ns)
    PROVE  AtomIs(ns, o)
<1>1. "d" \notin ns
  BY DEF Names, Param
<1> QED BY <1>1 DEF Atoms, AtomIs, Pointers, Slices

LEMMA OfIs ==
    ASSUME NEW kinds, NEW os, NEW e \in Of(kinds, os)
    PROVE  e.k \in kinds /\ e.of \in os
BY DEF Of

LEMMA InitsAre ==
    ASSUME Features = {}, NEW ns \in SUBSET Names, NEW x \in Names, NEW e \in Inits(ns, x)
    PROVE  InitIs(ns, x, e)
<1>0. x \in {"p", "q", "r", "a", "g", "s", "t", "c", "b", "h", "f"}
  BY DEF Names, Param
<1>1. CASE x \in Pointers
  <2> DEFINE Addr == {a \in Atoms(ns) : a.k = "addr"}
  <2>1. e \in Of({"value"}, Atoms(ns)) \/ e \in Of({"join"}, Addr)
    <3>1. e \in Of({"value"}, Atoms(ns)) \cup Of({"join"}, Addr)
      BY <1>1 DEF Inits, Pointers, Slices
    <3> HIDE DEF Addr
    <3> QED BY <3>1
  <2>2. \A o \in Addr : AtomIs(ns, o) /\ o.k = "addr"
    BY AtomsAre
  <2> HIDE DEF Addr
  <2>3. CASE e \in Of({"value"}, Atoms(ns))
    BY <1>1, <2>3, OfIs, AtomsAre DEF InitIs, Given, Pointers, Slices
  <2>4. CASE e \in Of({"join"}, Addr)
    BY <1>1, <2>2, <2>4, OfIs DEF InitIs
  <2> QED BY <2>1, <2>3, <2>4
<1>2. CASE x \in Slices
  <2>1. \/ e \in Of({"slice", "copyof"}, Atoms(ns))
        \/ e \in Of({"empty"}, {Whole(NoName)})
        \/ e \in Of({"copy"}, {Whole(v) : v \in Slices \cap ns})
        \/ x = "t" /\ e \in Of({"value"}, {Whole(v) : v \in Slices \cap ns})
    BY <1>2 DEF Inits, Pointers, Slices
  <2> QED BY <1>2, <2>1, OfIs, AtomsAre DEF InitIs, Given, Pointers, Slices, Whole
<1>3. CASE x \in {"b", "h", "f"}
  <2>1. \/ x = "b" /\ e \in Of({"box"}, Atoms(ns))
        \/ x = "h" /\ e \in Of({"newbox"}, Atoms(ns))
        \/ x = "f" /\ e \in Of({"fun", "newfun"}, {Whole(v) : v \in {"q", "s", "f"} \cap ns})
    BY <1>3 DEF Inits, Pointers, Slices
  <2> QED BY <2>1, OfIs, AtomsAre DEF InitIs, Given, Pointers, Slices, Whole
<1> QED BY <1>0, <1>1, <1>2, <1>3 DEF Pointers, Slices

LEMMA StatementsAre ==
    ASSUME Features = {}, shape \in Shapes, NEW ns \in SUBSET Names, NEW loop \in BOOLEAN,
           NEW st \in Statements(ns, loop)
    PROVE  StIs(ns, loop, st)
<1>1. shape.names \subseteq {"p", "q", "r", "s", "t", "b", "h", "f", "d"}
  BY ShapesAssumption
<1>2. Fits(st, ns, loop)
  BY DEF Statements
<1>3. /\ Mutable = {"p", "r", "t", "b", "g"}
      /\ ns \subseteq {"p", "q", "r", "s", "t", "b", "h", "f", "a", "c", "g"}
  BY DEF Mutable, Names, Param
<1>4. CASE \E x \in shape.names : \E e \in Inits(ns, x) : st = St("let", x, e)
  <2>1. PICK x \in shape.names : \E e \in Inits(ns, x) : st = St("let", x, e)
    BY <1>4
  <2>2. x \notin ns /\ x # "d"
    BY <2>1, <1>2 DEF Fits, St
  <2>3. x \in Names \ (ns \cup Param)
    BY <1>1, <2>2 DEF Names, Param
  <2> QED BY <2>1, <2>3, InitsAre DEF StIs, St
<1>5. CASE \E x \in Mutable \cap ns : \E e \in Inits(ns, x) : st = St("set", x, e)
  <2>1. PICK x \in Mutable \cap ns : \E e \in Inits(ns, x) : st = St("set", x, e)
    BY <1>5
  <2>2. x = "t" => ~loop
    BY <2>1, <1>2 DEF Fits, St
  <2> QED BY <2>1, <2>2, <1>3, InitsAre DEF StIs, St
<1>6. CASE \E v \in {"s"} \cap ns : \E e \in Of({"value"}, Atoms(ns)) : st = St("seti", v, e)
  <2>1. "t" \notin shape.names
    BY <1>2, <1>6 DEF Fits, St
  <2> QED BY <1>6, <2>1, AtomsAre DEF StIs, St, Of
<1>7. CASE \E v \in {"h", "b"} \cap ns : \E e \in Of({"value"}, Atoms(ns)) : st = St("setf", v, e)
  <2>1. st.v # "b"
    BY <1>2, <1>7 DEF Fits, St
  <2> QED BY <1>7, <2>1, AtomsAre DEF StIs, St, Of
<1>8. CASE \E v \in {"p", "q", "s", "t", "h", "f"} \cap ns :
              st = St("free", NoName, [k |-> "value", of |-> Whole(v)])
  BY <1>8 DEF StIs, St, Whole
<1>9. CASE \E e \in Results(ns, shape.names) : st = St("ret", NoName, e)
  <2>1. PICK e \in Results(ns, shape.names) : st = St("ret", NoName, e)
    BY <1>9
  <2>2. st.k = "ret" /\ st.v = NoName /\ st.e = e
    BY <2>1 DEF St
  <2>3. CASE \E x \in shape.names : e \in Inits(ns, x)
    <3>1. PICK x \in shape.names : e \in Inits(ns, x)
      BY <2>3
    <3>2. CASE x = "d"
      <4>1. e \in Of({"inline"}, Atoms(ns))
        BY <3>1, <3>2 DEF Inits, Pointers, Slices
      <4> QED BY <4>1, <2>2, AtomsAre DEF StIs, Of
    <3>3. CASE x # "d"
      <4>1. x \in Names
        BY <1>1, <3>1, <3>3 DEF Names
      <4> QED BY <3>1, <4>1, <2>2, InitsAre DEF StIs
    <3> QED BY <3>2, <3>3
  <2>4. CASE e \in Of({"value"}, {Whole(v) : v \in (shape.names \cup {"a", "c", "g"}) \cap ns})
    BY <2>2, <2>4 DEF StIs, Of, Whole
  <2>5. CASE e \in Of({"value"}, Atoms(ns))
    BY <2>2, <2>5, AtomsAre DEF StIs, Of
  <2> QED BY <2>1, <2>3, <2>4, <2>5 DEF Results, Of
<1> QED
  <2>1. \/ \E x \in shape.names : \E e \in Inits(ns, x) : st = St("let", x, e)
        \/ \E x \in Mutable \cap ns : \E e \in Inits(ns, x) : st = St("set", x, e)
        \/ \E v \in {"s"} \cap ns : \E e \in Of({"value"}, Atoms(ns)) : st = St("seti", v, e)
        \/ \E v \in {"h", "b"} \cap ns : \E e \in Of({"value"}, Atoms(ns)) : st = St("setf", v, e)
        \/ \E v \in {"p", "q", "s", "t", "h", "f"} \cap ns :
              st = St("free", NoName, [k |-> "value", of |-> Whole(v)])
        \/ \E e \in Results(ns, shape.names) : st = St("ret", NoName, e)
    BY DEF Statements
  <2> QED BY <2>1, <1>4, <1>5, <1>6, <1>7, <1>8, <1>9

-----------------------------------------------------------------------------
(* The tags of expressions.                                                  *)

(* The rest of the argument leans on this: only a slice whose elements no    *)
(* other slice can share holds stack data without being on the stack itself. *)
TagsOK(sc) ==
    \A x \in Bound(sc) :
        /\ Look(sc, x).elem = "STACK" => Look(sc, x).prov = "STACK" \/ (x = "s" /\ "t" \notin shape.names)
        /\ x = "s" => Look(sc, x).prov \in {"STACK", "HEAP"}
        /\ x = "h" => Look(sc, x).prov = "HEAP"

LEMMA AtomTagsOK ==
    ASSUME NEW sc, ScopeOK(sc), TagsOK(sc), NEW o, AtomIs(Bound(sc), o)
    PROVE  /\ AtomTags(o, sc) \in TagPair
           /\ AtomTags(o, sc).elem = "STACK" => AtomTags(o, sc).prov = "STACK"
           /\ ~(o.k = "name" /\ o.v = NoName)
<1>0. "UNKNOWN" \in Prov /\ "STACK" \in Prov /\ "STATIC" \in Prov
  BY DEF Prov
<1>1. CASE o.k \in {"addr", "static"}
  BY <1>0, <1>1 DEF AtomTags, check_address_of, Tags, TagPair
<1>2. CASE o.k = "name" /\ o.v \in Pointers \cap Bound(sc)
  <2>1. o.v # "s" /\ o.v # NoName
    BY <1>2, NoNameIsNone DEF Pointers, Var, Param
  <2> QED BY <1>2, <2>1, LookFacts DEF AtomTags, TagsOK
<1>3. CASE o.k = "elem" /\ o.v \in Slices \cap Bound(sc)
  <2>1. Look(sc, o.v).elem \in Prov
    BY <1>3, LookFacts DEF TagPair
  <2> QED BY <1>3, <2>1 DEF AtomTags, check_index, Tags, TagPair
<1>4. CASE o.k = "field" /\ o.v \in {"b", "h"} \cap Bound(sc)
  BY <1>4, LookFacts DEF AtomTags, TagsOK
<1>5. CASE o.k = "addrin" /\ o.v \in {"b", "h"} \cap Bound(sc)
  <2>1. lvalue_storage_prov(sc, o.v) \in Prov
    BY <1>0, <1>5, LookFacts DEF lvalue_storage_prov, TagPair
  <2> QED BY <1>0, <1>5, <2>1 DEF AtomTags, check_address_of, Tags, TagPair
<1> QED BY <1>1, <1>2, <1>3, <1>4, <1>5 DEF AtomIs

LEMMA NameTagsOK ==
    ASSUME NEW sc, ScopeOK(sc), NEW o, o.k = "name", o.v \in Bound(sc)
    PROVE  AtomTags(o, sc) = Look(sc, o.v) /\ AtomTags(o, sc) \in TagPair /\ o.v # NoName
<1>1. o.v \in Var
  BY DEF ScopeOK, Names, Var, Param
<1> QED BY <1>1, NoNameIsNone, LookFacts DEF AtomTags

(* What a name of x's type is given has tags that x may have.               *)
LEMMA InitTagsOK ==
    ASSUME NEW sc, ScopeOK(sc), TagsOK(sc), NEW x \in Names, NEW e, InitIs(Bound(sc), x, e)
    PROVE  /\ ExprTags(e, sc) \in TagPair
           /\ ~CopiesStack(e, sc) => (ExprTags(e, sc).elem = "STACK" => ExprTags(e, sc).prov = "STACK")
           /\ x = "s" => ExprTags(e, sc).prov \in {"STACK", "HEAP"}
           /\ x = "h" => ExprTags(e, sc).prov = "HEAP"
<1> DEFINE i == AtomTags(e.of, sc)
<1>0. /\ "UNKNOWN" \in Prov /\ "STACK" \in Prov /\ "HEAP" \in Prov
      /\ \A u, v \in Prov : [prov |-> u, elem |-> v] \in TagPair
  BY DEF Prov, TagPair
<1>1. ASSUME AtomIs(Bound(sc), e.of), Given(x, e.k) \/ e.k = "join"
      PROVE  /\ i \in TagPair /\ i.prov \in Prov /\ i.elem \in Prov
             /\ i.elem = "STACK" => i.prov = "STACK"
             /\ ExprTags(e, sc) = CASE e.k = "value" -> i
                                    [] e.k = "join" -> JoinOfBranches(e, i)
                                    [] e.k = "slice" -> check_array_lit(e, i)
                                    [] e.k = "box" -> check_struct_lit(e, i)
                                    [] e.k \in {"copyof", "newbox"} -> check_alloc_value(e, i)
  BY <1>1, AtomTagsOK DEF ExprTags, Given, TagPair
<1>2. CASE e.k = "value" /\ x \in Pointers /\ AtomIs(Bound(sc), e.of)
  BY <1>1, <1>2 DEF Given, Pointers
<1>3. CASE e.k = "join" /\ x \in Pointers /\ AtomIs(Bound(sc), e.of)
  <2>1. ExprTags(e, sc) = [prov |-> Merge(i.prov, "UNKNOWN"), elem |-> Merge(i.elem, "UNKNOWN")]
    BY <1>1, <1>3 DEF JoinOfBranches, Join, Tags, Unknown
  <2> QED BY <1>0, <1>1, <1>3, <2>1, MergeType DEF Pointers
<1>4. CASE e.k = "box" /\ x = "b" /\ AtomIs(Bound(sc), e.of)
  <2>1. ExprTags(e, sc) = [prov |-> StackOrUnknown(i.prov), elem |-> Merge("UNKNOWN", i.elem)]
    BY <1>1, <1>4 DEF check_struct_lit, field_init_prov, Tags, Given, Pointers
  <2> QED BY <1>0, <1>1, <1>4, <2>1, MergeType DEF StackOrUnknown, Given, Pointers
<1>5. CASE e.k = "newbox" /\ x = "h" /\ AtomIs(Bound(sc), e.of)
  <2>1. ExprTags(e, sc) = [prov |-> "HEAP", elem |-> Merge("UNKNOWN", i.elem)]
    BY <1>1, <1>5 DEF check_alloc_value, Tags, Given, Pointers
  <2>2. i.prov = "STACK" => CopiesStack(e, sc)
    BY <1>5 DEF CopiesStack
  <2> QED BY <1>0, <1>1, <1>5, <2>1, <2>2, MergeType DEF Given, Pointers
<1>6. CASE e.k \in {"slice", "copyof"} /\ x \in Slices /\ AtomIs(Bound(sc), e.of)
  <2>1. Given(x, e.k)
    BY <1>6 DEF Given, Slices, Pointers
  <2>2. ExprTags(e, sc) = [prov |-> IF e.k = "slice" THEN "STACK" ELSE "HEAP", elem |-> i.prov]
    BY <1>1, <1>6, <2>1 DEF check_alloc_value, check_array_lit, Tags
  <2>3. e.k = "copyof" /\ i.prov = "STACK" => CopiesStack(e, sc)
    BY <1>6 DEF CopiesStack
  <2> QED BY <1>0, <1>1, <1>6, <2>1, <2>2, <2>3 DEF Slices
<1>7. CASE e.k = "empty" /\ x \in Slices
  <2>1. ExprTags(e, sc) = [prov |-> "STACK", elem |-> "UNKNOWN"]
    BY <1>7 DEF ExprTags, check_array_lit, Tags
  <2> QED BY <1>0, <1>7, <2>1 DEF Slices
<1>8. ASSUME e.of.k = "name", e.of.v \in Bound(sc), e.k \in {"copy", "value", "fun", "newfun"}
      PROVE  /\ i = Look(sc, e.of.v) /\ i \in TagPair /\ i.prov \in Prov /\ i.elem \in Prov
             /\ ExprTags(e, sc) = CASE e.k = "value" -> i
                                    [] e.k = "copy" -> Tags("HEAP", i.elem)
                                    [] e.k = "newfun" -> Tags("HEAP", "UNKNOWN")
                                    [] e.k = "fun" -> Tags("STACK", "UNKNOWN")
  BY <1>8, NameTagsOK DEF ExprTags, TagPair, check_alloc_value
<1>9. CASE e.k = "copy" /\ x \in Slices /\ e.of.k = "name" /\ e.of.v \in Slices \cap Bound(sc)
  <2>1. ExprTags(e, sc) = [prov |-> "HEAP", elem |-> i.elem]
    BY <1>8, <1>9 DEF Tags
  <2>2. i.elem = "STACK" => CopiesStack(e, sc)
    BY <1>9 DEF CopiesStack
  <2> QED BY <1>0, <1>8, <1>9, <2>1, <2>2 DEF Slices
<1>10. CASE x = "t" /\ e.k = "value" /\ e.of.k = "name" /\ e.of.v \in Slices \cap Bound(sc)
  <2>1. "t" \in shape.names
    BY <1>10 DEF Names, Param
  <2> QED BY <1>8, <1>10, <2>1 DEF TagsOK
<1>11. CASE x = "f" /\ e.k \in {"fun", "newfun"} /\ e.of.k = "name" /\ e.of.v \in Bound(sc)
  BY <1>0, <1>8, <1>11 DEF Tags
<1>12. x = "b" \/ x = "h" \/ x \in Pointers \/ x \in Slices \/ ~Given(x, e.k)
  BY DEF Given
<1> QED
  <2>1. CASE Given(x, e.k) /\ AtomIs(Bound(sc), e.of)
    BY <2>1, <1>2, <1>4, <1>5, <1>6, <1>12 DEF Given, Pointers, Slices
  <2> QED BY <2>1, <1>3, <1>7, <1>9, <1>10, <1>11 DEF InitIs

-----------------------------------------------------------------------------
(* What checking a statement does to the bindings.                           *)

Retag(sc, x, tags) == [sc EXCEPT ![Level(sc, x)][x].t = tags]

SameNames(sc, d) ==
    /\ Len(d) = Len(sc) /\ Bound(d) = Bound(sc)
    /\ \A i \in DOMAIN sc : DOMAIN d[i] = DOMAIN sc[i]

LEMMA RetagEffect ==
    ASSUME NEW sc, ScopeOK(sc), NEW x \in Bound(sc), NEW tags \in TagPair
    PROVE  /\ ScopeOK(Retag(sc, x, tags)) /\ SameNames(sc, Retag(sc, x, tags))
           /\ Look(Retag(sc, x, tags), x) = tags
           /\ \A y \in Bound(sc) : y # x => Look(Retag(sc, x, tags), y) = Look(sc, y)
<1> DEFINE d == Retag(sc, x, tags)
           l == Level(sc, x)
           b == [sc[l][x] EXCEPT !.t = tags]
<1>1. /\ l \in DOMAIN sc /\ x \in DOMAIN sc[l] /\ sc[l][x] \in Binding
      /\ DOMAIN sc = 1 .. Len(sc) /\ Len(sc) \in {1, 2} /\ 1 \in DOMAIN sc
      /\ \A i \in DOMAIN sc : sc[i] \in [DOMAIN sc[i] -> Binding] /\ DOMAIN sc[i] \in SUBSET Var
  <2>1. l \in DOMAIN sc /\ x \in DOMAIN sc[l]
    BY LookFacts
  <2>2. Names \subseteq Var
    BY DEF Names, Var, Param
  <2> QED BY <2>1, <2>2, ScopeFacts DEF ScopeOK
<1>2. b \in Binding /\ b.t = tags /\ b.mut = sc[l][x].mut
  BY <1>1 DEF Binding
<1>3. d = [sc EXCEPT ![l] = [sc[l] EXCEPT ![x] = b]]
  BY DEF Retag
<1>4. d[l] = [sc[l] EXCEPT ![x] = b] /\ \A i \in DOMAIN sc : i # l => d[i] = sc[i]
  BY <1>1, <1>3
<1>5. d[l][x] = b /\ \A y \in DOMAIN sc[l] : y # x => d[l][y] = sc[l][y]
  BY <1>1, <1>4
<1>6. DOMAIN d = DOMAIN sc /\ \A i \in DOMAIN sc : DOMAIN d[i] = DOMAIN sc[i]
  BY <1>3, <1>4
<1>7. Bound(d) = Bound(sc)
  BY <1>6 DEF Bound
<1>8. \A i \in DOMAIN sc : d[i] \in [DOMAIN sc[i] -> Binding]
  BY <1>1, <1>2, <1>4
<1>9. d \in Seq(UNION {[ns -> Binding] : ns \in SUBSET Var}) /\ Len(d) = Len(sc)
  <2> DEFINE Levels == UNION {[ns -> Binding] : ns \in SUBSET Var}
  <2>1. \A i \in DOMAIN sc : d[i] \in Levels
    BY <1>1, <1>8
  <2>2. sc \in Seq(Levels) /\ d = [sc EXCEPT ![l] = d[l]]
    BY <1>3, <1>4 DEF ScopeOK
  <2>3. d[l] \in Levels
    BY <1>1, <2>1
  <2> HIDE DEF Levels, d, l
  <2>4. d \in Seq(Levels) /\ Len(d) = Len(sc)
    BY <1>1, <2>2, <2>3
  <2> QED BY <2>4 DEF Levels
<1> HIDE DEF d, l, b
<1>10. \A i \in DOMAIN sc : \A y \in DOMAIN sc[i] : d[i][y].mut = (y \in Mutable)
  BY <1>1, <1>2, <1>4, <1>5 DEF ScopeOK
<1>11. ScopeOK(d)
  BY <1>1, <1>6, <1>7, <1>9, <1>10 DEF ScopeOK
<1>12. \A y \in Bound(sc) : Level(d, y) = Level(sc, y) /\ Look(d, y) = d[Level(sc, y)][y].t
  BY <1>1, <1>6 DEF Level, Look
<1>13. Look(d, x) = tags
  BY <1>2, <1>5, <1>12 DEF l
<1>14. ASSUME NEW y \in Bound(sc), y # x PROVE Look(d, y) = Look(sc, y)
  <2>1. Level(sc, y) \in DOMAIN sc /\ y \in DOMAIN sc[Level(sc, y)] /\ Look(sc, y) = sc[Level(sc, y)][y].t
    BY LookFacts
  <2> QED BY <1>4, <1>5, <1>12, <1>14, <2>1
<1>15. SameNames(sc, d)
  BY <1>6, <1>7, <1>9 DEF SameNames
<1> QED BY <1>11, <1>13, <1>14, <1>15 DEF d

LEMMA TaintIs ==
    ASSUME NEW sc, ScopeOK(sc), NEW x \in Bound(sc), NEW tags \in TagPair
    PROVE  Taint(sc, x, tags) = Retag(sc, x, Join(Look(sc, x), tags)) /\ Join(Look(sc, x), tags) \in TagPair
<1>1. Look(sc, x) = sc[Level(sc, x)][x].t /\ Look(sc, x) \in TagPair
  BY LookFacts
<1>2. Join(Look(sc, x), tags) \in TagPair
  BY <1>1, MergeType DEF Join, Tags, TagPair
<1>3. Taint(sc, x, tags) = Retag(sc, x, Join(Look(sc, x), tags))
  BY <1>1 DEF Taint, Retag
<1> QED BY <1>2, <1>3

LEMMA TaintElemIs ==
    ASSUME NEW sc, ScopeOK(sc), NEW x \in Bound(sc), NEW u \in Prov
    PROVE  LET tags == Tags(Look(sc, x).prov, Merge(Look(sc, x).elem, u))
           IN  TaintElem(sc, x, u) = Retag(sc, x, tags) /\ tags \in TagPair
<1> DEFINE tags == Tags(Look(sc, x).prov, Merge(Look(sc, x).elem, u))
<1>1. Look(sc, x) = sc[Level(sc, x)][x].t /\ Look(sc, x) \in TagPair
  BY LookFacts
<1>2. tags \in TagPair
  BY <1>1, MergeType DEF Tags, TagPair
<1>3. [sc[Level(sc, x)][x].t EXCEPT !.elem = Merge(@, u)] = tags
  BY <1>1 DEF Tags, TagPair
<1>4. TaintElem(sc, x, u)
        = [sc EXCEPT ![Level(sc, x)][x].t = [sc[Level(sc, x)][x].t EXCEPT !.elem = Merge(@, u)]]
  BY DEF TaintElem
<1> QED BY <1>2, <1>3, <1>4 DEF Retag

LEMMA BindEffect ==
    ASSUME NEW sc, ScopeOK(sc), NEW x \in Names \ (Bound(sc) \cup Param), NEW tags \in TagPair
    PROVE  LET d == Bind(sc, x, tags, x \in Mutable)
           IN  /\ ScopeOK(d) /\ Len(d) = Len(sc) /\ Bound(d) = Bound(sc) \cup {x}
               /\ DOMAIN d[Len(sc)] = DOMAIN sc[Len(sc)] \cup {x}
               /\ Len(sc) = 2 => DOMAIN d[1] = DOMAIN sc[1]
               /\ Look(d, x) = tags
               /\ \A y \in Bound(sc) : Look(d, y) = Look(sc, y)
<1> DEFINE l == Len(sc)
           bound == [t |-> tags, mut |-> x \in Mutable]
           level == [y \in DOMAIN sc[l] \cup {x} |-> IF y = x THEN bound ELSE sc[l][y]]
           d == Bind(sc, x, tags, x \in Mutable)
<1>1. /\ l \in {1, 2} /\ DOMAIN sc = 1 .. l /\ l \in DOMAIN sc
      /\ \A i \in DOMAIN sc : sc[i] \in [DOMAIN sc[i] -> Binding] /\ DOMAIN sc[i] \in SUBSET Var
      /\ x \in Var
  <2>2. Names \subseteq Var
    BY DEF Names, Var, Param
  <2> QED BY <2>2, ScopeFacts DEF ScopeOK
<1>2. bound \in Binding /\ bound.t = tags /\ bound.mut = (x \in Mutable)
  BY DEF Binding
<1>3. d = [sc EXCEPT ![l] = level]
  <2>1. level = With(sc[l], x, bound)
    BY DEF With
  <2> QED BY <1>1, <2>1 DEF Bind
<1>4. d[l] = level /\ \A i \in DOMAIN sc : i # l => d[i] = sc[i]
  BY <1>1, <1>3
<1>5. level \in [DOMAIN sc[l] \cup {x} -> Binding] /\ DOMAIN sc[l] \cup {x} \in SUBSET Var
  BY <1>1, <1>2
<1>6. x \notin DOMAIN sc[l] /\ level[x] = bound /\ \A y \in DOMAIN sc[l] : level[y] = sc[l][y]
  <2>1. \A i \in DOMAIN sc : x \notin DOMAIN sc[i]
    BY DEF Bound
  <2> QED BY <1>1, <2>1
<1> HIDE DEF d, l, level, bound
<1>7. DOMAIN d = DOMAIN sc /\ DOMAIN d[l] = DOMAIN sc[l] \cup {x}
      /\ \A i \in DOMAIN sc : i # l => DOMAIN d[i] = DOMAIN sc[i]
  BY <1>3, <1>4, <1>5
<1>8. Bound(d) = Bound(sc) \cup {x}
  BY <1>1, <1>7 DEF Bound
<1>9. d \in Seq(UNION {[ns -> Binding] : ns \in SUBSET Var}) /\ Len(d) = l
  <2> DEFINE Levels == UNION {[ns -> Binding] : ns \in SUBSET Var}
  <2>1. level \in Levels
    BY <1>5
  <2>2. sc \in Seq(Levels)
    BY DEF ScopeOK
  <2> HIDE DEF Levels
  <2>3. d \in Seq(Levels) /\ Len(d) = l
    BY <1>1, <1>3, <2>1, <2>2 DEF l
  <2> QED BY <2>3 DEF Levels
<1>10. \A i \in DOMAIN d : \A y \in DOMAIN d[i] : d[i][y].mut = (y \in Mutable)
  BY <1>1, <1>2, <1>4, <1>6, <1>7 DEF ScopeOK
<1>11. l = 2 => DOMAIN d[1] \cap DOMAIN d[2] = {} /\ DOMAIN d[1] = DOMAIN sc[1]
  <2>1. \A i \in DOMAIN sc : x \notin DOMAIN sc[i]
    BY DEF Bound
  <2> QED BY <1>1, <1>7, <2>1 DEF ScopeOK, l
<1>12. ScopeOK(d)
  <2>1. Param \subseteq DOMAIN d[1]
    BY <1>1, <1>7 DEF ScopeOK
  <2> QED BY <1>1, <1>8, <1>9, <1>10, <1>11, <2>1 DEF ScopeOK
<1>13. Look(d, x) = tags
  <2>1. Level(d, x) = l
    BY <1>1, <1>6, <1>7, <1>11 DEF Level
  <2> QED BY <1>2, <1>4, <1>6, <2>1 DEF Look
<1>14. ASSUME NEW y \in Bound(sc) PROVE Look(d, y) = Look(sc, y)
  <2>1. y # x
    OBVIOUS
  <2>2. Level(d, y) = Level(sc, y)
    BY <1>1, <1>7, <2>1 DEF Level
  <2>3. Level(sc, y) \in DOMAIN sc /\ y \in DOMAIN sc[Level(sc, y)] /\ Look(sc, y) = sc[Level(sc, y)][y].t
    BY LookFacts
  <2> QED BY <1>4, <1>6, <2>2, <2>3 DEF Look
<1>15. l = 2 => DOMAIN d[1] = DOMAIN sc[1]
  BY <1>11
<1> QED BY <1>7, <1>8, <1>9, <1>12, <1>13, <1>14, <1>15 DEF d, l

LEMMA ValueTags ==
    ASSUME NEW sc, ScopeOK(sc), TagsOK(sc), NEW e, e.k = "value", AtomIs(Bound(sc), e.of)
    PROVE  /\ ExprTags(e, sc) = AtomTags(e.of, sc) /\ ExprTags(e, sc) \in TagPair
           /\ ExprTags(e, sc).prov \in Prov
BY AtomTagsOK DEF ExprTags, TagPair

Retags(st) == st.k \in {"let", "seti"} \/ (st.k = "set" /\ st.v # "g")

NewTags(st, sc) ==
    LET tg == ExprTags(st.e, sc)
        t == Look(sc, st.v)
    IN  CASE st.k = "let"  -> tg
          [] st.k = "set"  -> Join(t, tg)
          [] st.k = "seti" -> Tags(t.prov, Merge(t.elem, tg.prov))

(* One name has new tags, or none has; a let adds its name to the last level. *)
Effect(st, sc, d) ==
    /\ Len(d) = Len(sc)
    /\ \A i \in DOMAIN sc :
          DOMAIN d[i] = IF st.k = "let" /\ i = Len(sc) THEN DOMAIN sc[i] \cup {st.v} ELSE DOMAIN sc[i]
    /\ ~Retags(st) => d = sc
    /\ Retags(st) => /\ Bound(d) = Bound(sc) \cup {st.v} /\ Look(d, st.v) = NewTags(st, sc)
                     /\ \A y \in Bound(sc) : y # st.v => Look(d, y) = Look(sc, y)

LEMMA CheckEffect ==
    ASSUME Features = {}, NEW sc, ScopeOK(sc), TagsOK(sc), NEW loop \in BOOLEAN,
           NEW st, StIs(Bound(sc), loop, st)
    PROVE  /\ ScopeOK(Check(st, sc).sc) /\ Effect(st, sc, Check(st, sc).sc)
           /\ Retags(st) => NewTags(st, sc) \in TagPair
           /\ Check(st, sc).ok => ~CopiesStack(st.e, sc) /\ TagsOK(Check(st, sc).sc)
<1> DEFINE d == Check(st, sc).sc
           tg == ExprTags(st.e, sc)
<1>a. Bound(sc) \subseteq Names /\ DOMAIN sc = 1 .. Len(sc) /\ Len(sc) \in {1, 2}
  BY ScopeFacts DEF ScopeOK
<1>1. ASSUME st.k = "let", st.v \in Names \ (Bound(sc) \cup Param), InitIs(Bound(sc), st.v, st.e)
      PROVE  /\ ScopeOK(d) /\ Effect(st, sc, d) /\ NewTags(st, sc) \in TagPair
             /\ Check(st, sc).ok => ~CopiesStack(st.e, sc) /\ TagsOK(d)
  <2>2. /\ d = Bind(sc, st.v, tg, st.v \in Mutable)
        /\ Check(st, sc).ok => ~CopiesStack(st.e, sc)
    BY <1>1 DEF Check, check_let, Verdict
  <2>3. /\ tg \in TagPair
        /\ ~CopiesStack(st.e, sc) => (tg.elem = "STACK" => tg.prov = "STACK")
        /\ st.v = "s" => tg.prov \in {"STACK", "HEAP"}
        /\ st.v = "h" => tg.prov = "HEAP"
    BY <1>1, InitTagsOK
  <2>4. /\ ScopeOK(d) /\ Len(d) = Len(sc) /\ Bound(d) = Bound(sc) \cup {st.v}
        /\ DOMAIN d[Len(sc)] = DOMAIN sc[Len(sc)] \cup {st.v}
        /\ Len(sc) = 2 => DOMAIN d[1] = DOMAIN sc[1]
        /\ Look(d, st.v) = tg
        /\ \A y \in Bound(sc) : Look(d, y) = Look(sc, y)
    BY <1>1, <2>2, <2>3, BindEffect
  <2> HIDE DEF d, tg
  <2>5. NewTags(st, sc) = tg
    BY <1>1 DEF NewTags, tg
  <2>6. Effect(st, sc, d)
    <3>1. \A i \in DOMAIN sc :
            DOMAIN d[i] = IF i = Len(sc) THEN DOMAIN sc[i] \cup {st.v} ELSE DOMAIN sc[i]
      <4>1. CASE Len(sc) = 1
        BY <1>a, <2>4, <4>1
      <4>2. CASE Len(sc) = 2
        BY <1>a, <2>4, <4>2
      <4> QED BY <1>a, <4>1, <4>2
    <3> QED BY <1>1, <2>4, <2>5, <3>1 DEF Effect, Retags
  <2>7. Check(st, sc).ok => TagsOK(d)
    BY <2>2, <2>3, <2>4 DEF TagsOK
  <2> QED BY <2>2, <2>3, <2>4, <2>5, <2>6, <2>7
<1>2. ASSUME st.k = "set", st.v \in {"p", "r", "t", "b", "g"} \cap Bound(sc), InitIs(Bound(sc), st.v, st.e)
      PROVE  /\ ScopeOK(d) /\ Effect(st, sc, d) /\ (st.v # "g" => NewTags(st, sc) \in TagPair)
             /\ Check(st, sc).ok => ~CopiesStack(st.e, sc) /\ TagsOK(d)
  <2>1. /\ d = IF st.v # "g" THEN Taint(sc, st.v, tg) ELSE sc
        /\ Check(st, sc).ok => ~CopiesStack(st.e, sc)
    BY <1>2 DEF Check, check_assign, Verdict
  <2>2. CASE st.v = "g"
    BY <1>2, <2>1, <2>2 DEF Effect, Retags
  <2>3. CASE st.v # "g"
    <3>1. tg \in TagPair /\ (~CopiesStack(st.e, sc) => (tg.elem = "STACK" => tg.prov = "STACK"))
      BY <1>2, <1>a, InitTagsOK
    <3>2. NewTags(st, sc) = Join(Look(sc, st.v), tg)
      BY <1>2 DEF NewTags
    <3>3. d = Retag(sc, st.v, NewTags(st, sc)) /\ NewTags(st, sc) \in TagPair
      BY <1>2, <2>1, <2>3, <3>1, <3>2, TaintIs
    <3>4. /\ ScopeOK(d) /\ SameNames(sc, d) /\ Look(d, st.v) = NewTags(st, sc)
          /\ \A y \in Bound(sc) : y # st.v => Look(d, y) = Look(sc, y)
      BY <1>2, <3>3, RetagEffect
    <3>5. Look(sc, st.v) \in TagPair
      BY <1>2, LookFacts
    <3> HIDE DEF d, tg
    <3>6. Effect(st, sc, d)
      BY <1>2, <2>3, <3>4 DEF Effect, Retags, SameNames
    <3>7. ASSUME Check(st, sc).ok PROVE TagsOK(d)
      <4>1. NewTags(st, sc).elem = "STACK" => NewTags(st, sc).prov = "STACK"
        <5>1. tg.prov \in Prov /\ tg.elem \in Prov /\ Look(sc, st.v).prov \in Prov /\ Look(sc, st.v).elem \in Prov
          BY <3>1, <3>5 DEF TagPair
        <5>2. /\ NewTags(st, sc).elem = Merge(Look(sc, st.v).elem, tg.elem)
              /\ NewTags(st, sc).prov = Merge(Look(sc, st.v).prov, tg.prov)
          BY <3>2 DEF Join, Tags
        <5>3. /\ Look(sc, st.v).elem = "STACK" => Look(sc, st.v).prov = "STACK"
              /\ tg.elem = "STACK" => tg.prov = "STACK"
          BY <1>2, <2>1, <3>1, <3>7 DEF TagsOK
        <5>4. NewTags(st, sc).elem = "STACK" => Look(sc, st.v).elem = "STACK" \/ tg.elem = "STACK"
          <6>1. Merge(Look(sc, st.v).elem, tg.elem) = "STACK" => Look(sc, st.v).elem = "STACK" \/ tg.elem = "STACK"
            BY <5>1, MergeType
          <6> QED BY <5>2, <6>1
        <5>5. Look(sc, st.v).prov = "STACK" \/ tg.prov = "STACK" => NewTags(st, sc).prov = "STACK"
          BY <5>1, <5>2, MergeType
        <5> QED BY <5>3, <5>4, <5>5
      <4> QED BY <1>2, <3>4, <4>1 DEF TagsOK, SameNames
    <3> QED BY <2>1, <3>3, <3>4, <3>6, <3>7
  <2> QED BY <2>2, <2>3
<1>3. ASSUME st.k = "seti", st.v = "s", "s" \in Bound(sc), "t" \notin shape.names,
             st.e.k = "value", AtomIs(Bound(sc), st.e.of)
      PROVE  /\ ScopeOK(d) /\ Effect(st, sc, d) /\ NewTags(st, sc) \in TagPair
             /\ Check(st, sc).ok => ~CopiesStack(st.e, sc) /\ TagsOK(d)
  <2>1. /\ d = TaintElem(sc, st.v, tg.prov)
        /\ Check(st, sc).ok => ~CopiesStack(st.e, sc)
    BY <1>3 DEF Check, check_assign, Verdict
  <2>2. tg.prov \in Prov
    BY <1>3, ValueTags
  <2>3. NewTags(st, sc) = Tags(Look(sc, st.v).prov, Merge(Look(sc, st.v).elem, tg.prov))
    BY <1>3 DEF NewTags
  <2>4. d = Retag(sc, st.v, NewTags(st, sc)) /\ NewTags(st, sc) \in TagPair
    BY <1>3, <2>1, <2>2, <2>3, TaintElemIs
  <2>5. /\ ScopeOK(d) /\ SameNames(sc, d) /\ Look(d, st.v) = NewTags(st, sc)
        /\ \A y \in Bound(sc) : y # st.v => Look(d, y) = Look(sc, y)
    BY <1>3, <2>4, RetagEffect
  <2> HIDE DEF d, tg
  <2>6. Effect(st, sc, d)
    BY <1>3, <2>5 DEF Effect, Retags, SameNames
  <2>7. NewTags(st, sc).prov = Look(sc, st.v).prov
    BY <2>3 DEF Tags
  <2>8. TagsOK(d)
    BY <1>3, <2>5, <2>7 DEF TagsOK, SameNames
  <2> QED BY <2>1, <2>4, <2>5, <2>6, <2>8
<1>4. ASSUME st.k \in {"setf", "free", "ret"}, st.k = "free" => st.e.k = "value"
      PROVE  /\ ScopeOK(d) /\ Effect(st, sc, d)
             /\ Check(st, sc).ok => ~CopiesStack(st.e, sc) /\ TagsOK(d)
  <2>1. d = sc
    BY <1>4 DEF Check, check_assign, check_free, check_returned_value, Verdict
  <2>2. Check(st, sc).ok => ~CopiesStack(st.e, sc)
    <3>1. st.k = "free" => ~CopiesStack(st.e, sc)
      BY <1>4 DEF CopiesStack
    <3> QED BY <1>4, <3>1 DEF Check, check_assign, check_returned_value, Verdict
  <2> QED BY <1>4, <2>1, <2>2 DEF Effect, Retags
<1> HIDE DEF d
<1>5. CASE st.k = "let"
  BY <1>1, <1>5 DEF StIs, d
<1>6. CASE st.k = "set"
  BY <1>2, <1>6 DEF StIs, Retags, d
<1>7. CASE st.k = "seti"
  BY <1>3, <1>7 DEF StIs, d
<1>8. CASE st.k \in {"setf", "free", "ret"}
  BY <1>4, <1>8 DEF StIs, Retags, d
<1> QED BY <1>5, <1>6, <1>7, <1>8 DEF StIs

-----------------------------------------------------------------------------
(* What the memory has to do with the tags.                                  *)

(* A variable x holding val, in a memory with these cells, may have tags t.  *)
Held(x, t, val, cl) ==
    /\ x \in {"p", "q", "r", "b", "a", "g"} => val \in Places /\ (val = "frame" => t.prov = "STACK")
    /\ x = "s" => (val = "S" /\ t.prov = "STACK") \/ (val = "SH" /\ t.prov = "HEAP")
    /\ x = "t" => val \in {"S", "T", "SH", "TH", "C"} /\ (val \in {"S", "T"} => t.prov = "STACK")
    /\ x = "c" => val = "C"
    /\ x = "h" => val = "HB"
    /\ x = "f" => val \in {"FX", "HX"} /\ (val = "FX" => t.prov = "STACK")
    /\ x \in Slices => ("frame" \in cl[val] => t.elem = "STACK")

(* The last part keeps a t that shares the array of s from outliving the s.  *)
MemOK(sc, m, cl) ==
    /\ Bound(sc) \subseteq DOMAIN m
    /\ cl \in [Cells -> (SUBSET Places) \ {{}}]
    /\ \A x \in Bound(sc) : Held(x, Look(sc, x), m[x], cl)
    /\ m["g"] # "frame"
    /\ \A c \in Outliving : "frame" \notin cl[c]
    /\ "t" \in Bound(sc) /\ m["t"] \in {"S", "SH"} =>
          "s" \in Bound(sc) /\ ("t" \in DOMAIN sc[1] => "s" \in DOMAIN sc[1])

LEMMA InCellOK ==
    ASSUME cell \in [Cells -> (SUBSET Places) \ {{}}], NEW c \in Cells
    PROVE  InCell(c) \in cell[c] /\ InCell(c) \in Places
<1>1. cell[c] \in SUBSET Places /\ cell[c] # {}
  OBVIOUS
<1>2. (CHOOSE p \in cell[c] : TRUE) \in cell[c]
  BY <1>1
<1> QED BY <1>1, <1>2 DEF InCell

LEMMA AtomValueOK ==
    ASSUME NEW sc, ScopeOK(sc), MemOK(sc, mem, cell), NEW o, AtomIs(Bound(sc), o)
    PROVE  AtomValue(o) \in Places /\ (AtomValue(o) = "frame" => AtomTags(o, sc).prov = "STACK")
<1>0. \A x \in Bound(sc) : Held(x, Look(sc, x), mem[x], cell)
  BY DEF MemOK
<1>1. CASE o.k \in {"addr", "static"}
  BY <1>1 DEF AtomValue, AtomTags, check_address_of, Tags, Places
<1>2. CASE o.k = "name" /\ o.v \in Pointers \cap Bound(sc)
  <2>1. AtomValue(o) = mem[o.v] /\ AtomTags(o, sc) = Look(sc, o.v)
    BY <1>2 DEF AtomValue, AtomTags, Pointers, Slices
  <2> QED BY <1>0, <1>2, <2>1 DEF Held, Pointers
<1>3. CASE o.k = "elem" /\ o.v \in Slices \cap Bound(sc)
  <2>1. AtomValue(o) = InCell(mem[o.v])
    BY <1>3 DEF AtomValue
  <2>2. AtomTags(o, sc).prov = Look(sc, o.v).elem
    BY <1>3 DEF AtomTags, check_index, Tags
  <2>3. mem[o.v] \in Cells /\ ("frame" \in cell[mem[o.v]] => Look(sc, o.v).elem = "STACK")
    BY <1>0, <1>3 DEF Held, Slices, Cells
  <2>4. InCell(mem[o.v]) \in cell[mem[o.v]] /\ InCell(mem[o.v]) \in Places
    BY <2>3, InCellOK DEF MemOK
  <2> QED BY <2>1, <2>2, <2>3, <2>4
<1>4. CASE o.k = "field" /\ o.v = "b" /\ "b" \in Bound(sc)
  <2>1. AtomValue(o) = mem["b"] /\ AtomTags(o, sc) = Look(sc, "b")
    BY <1>4 DEF AtomValue, AtomTags, Slices
  <2> QED BY <1>0, <1>4, <2>1 DEF Held
<1>5. CASE o.k = "field" /\ o.v = "h" /\ "h" \in Bound(sc)
  <2>1. mem["h"] = "HB"
    BY <1>0, <1>5 DEF Held
  <2>2. AtomValue(o) = InCell("HB")
    BY <1>5, <2>1 DEF AtomValue
  <2>3. InCell("HB") \in cell["HB"] /\ InCell("HB") \in Places
    BY InCellOK DEF MemOK, Cells
  <2>4. "frame" \notin cell["HB"]
    BY DEF MemOK, Outliving
  <2> QED BY <2>2, <2>3, <2>4
<1>6. CASE o.k = "addrin" /\ o.v = "b"
  BY <1>6 DEF AtomValue, AtomTags, check_address_of, Tags, Places, lvalue_storage_prov, Slices
<1>7. CASE o.k = "addrin" /\ o.v = "h" /\ "h" \in Bound(sc)
  <2>1. mem["h"] = "HB"
    BY <1>0, <1>7 DEF Held
  <2>2. AtomValue(o) = "heap"
    BY <1>7, <2>1 DEF AtomValue, PlaceOf
  <2> QED BY <2>2 DEF Places
<1> QED BY <1>1, <1>2, <1>3, <1>4, <1>5, <1>6, <1>7 DEF AtomIs

LEMMA ReachOK ==
    ASSUME NEW sc, ScopeOK(sc), MemOK(sc, mem, cell), NEW x \in Bound(sc)
    PROVE  Reach(x) \in (SUBSET Places) \ {{}} /\ ("frame" \in Reach(x) => Look(sc, x).prov = "STACK")
<1>0. Held(x, Look(sc, x), mem[x], cell)
  BY DEF MemOK
<1>1. CASE x \in {"p", "q", "r", "b", "a", "g"}
  <2>1. Reach(x) = {mem[x]}
    BY <1>1 DEF Reach, Slices
  <2> QED BY <1>0, <1>1, <2>1 DEF Held
<1>2. CASE x \in {"s", "t", "c", "h", "f"}
  <2>1. mem[x] \in {"S", "T", "SH", "TH", "C", "HB", "FX", "HX"}
    BY <1>0, <1>2 DEF Held
  <2>2. Reach(x) = {PlaceOf(mem[x])} \cup cell[mem[x]]
    BY <1>2, <2>1 DEF Reach, Slices, Cells
  <2>3. cell[mem[x]] \in SUBSET Places
    BY <2>1 DEF MemOK, Cells
  <2>4. CASE mem[x] \in {"S", "T", "FX"}
    <3>1. PlaceOf(mem[x]) = "frame"
      BY <2>4 DEF PlaceOf
    <3>2. Look(sc, x).prov = "STACK"
      BY <1>0, <1>2, <2>4 DEF Held
    <3> QED BY <2>2, <2>3, <3>1, <3>2 DEF Places
  <2>5. CASE mem[x] \in {"SH", "TH", "C", "HB", "HX"}
    <3>1. PlaceOf(mem[x]) \in {"heap", "caller"}
      BY <2>5 DEF PlaceOf
    <3>2. "frame" \notin cell[mem[x]]
      BY <2>5 DEF MemOK, Outliving
    <3> QED BY <2>2, <2>3, <3>1, <3>2 DEF Places
  <2> QED BY <2>1, <2>4, <2>5
<1>3. x \in {"p", "q", "r", "b", "a", "g", "s", "t", "c", "h", "f"}
  BY DEF ScopeOK, Names, Param
<1> QED BY <1>1, <1>2, <1>3

LEMMA HeldUp ==
    ASSUME NEW x, NEW t, NEW u, NEW val, NEW cl, Held(x, t, val, cl),
           t.prov = "STACK" => u.prov = "STACK",
           x \in Slices => (t.elem = "STACK" => u.elem = "STACK"),
           x = "s" => u.prov = t.prov
    PROVE  Held(x, u, val, cl)
BY DEF Held

-----------------------------------------------------------------------------
(* A statement the checker accepts keeps the memory within the tags.         *)

LEMMA FilledOK ==
    ASSUME NEW sc, MemOK(sc, mem, cell), NEW o,
           o.c = "none" \/ /\ o.c \in Cells /\ o.holds \in (SUBSET Places) \ {{}}
                           /\ o.c \in Outliving => "frame" \notin o.holds
    PROVE  /\ Filled(o) \in [Cells -> (SUBSET Places) \ {{}}]
           /\ \A c \in Outliving : "frame" \notin Filled(o)[c]
           /\ \A c \in Cells : c # o.c => Filled(o)[c] = cell[c]
           /\ o.c # "none" => Filled(o)[o.c] = o.holds
<1>1. cell \in [Cells -> (SUBSET Places) \ {{}}] /\ Outliving \subseteq Cells /\ "none" \notin Cells
      /\ \A c \in Outliving : "frame" \notin cell[c]
  BY DEF MemOK, Outliving, Cells
<1>2. CASE o.c = "none"
  BY <1>1, <1>2 DEF Filled
<1>3. CASE o.c \in Cells
  <2>1. Filled(o) = [cell EXCEPT ![o.c] = o.holds]
    BY <1>1, <1>3 DEF Filled
  <2> QED BY <1>1, <1>3, <2>1
<1> QED BY <1>2, <1>3

(* How the outcome o of giving e to x fits the tags of e.                   *)
Fitting(x, e, sc, o) ==
    /\ Filled(o) \in [Cells -> (SUBSET Places) \ {{}}]
    /\ \A c \in Outliving : "frame" \notin Filled(o)[c]
    /\ Held(x, ExprTags(e, sc), o.val, Filled(o))
    /\ \A c \in {"S", "SH", "T", "TH", "C"} :
          Filled(o)[c] # cell[c] => x = IF c \in {"S", "SH"} THEN "s" ELSE "t"
    /\ Filled(o)["C"] = cell["C"]
    /\ x = "t" /\ o.val \in {"S", "SH"} => "s" \in Bound(sc)

LEMMA OutcomeOK ==
    ASSUME NEW sc, ScopeOK(sc), TagsOK(sc), MemOK(sc, mem, cell),
           NEW x \in Names \ {"a", "c"}, NEW e, InitIs(Bound(sc), x, e), ~CopiesStack(e, sc),
           NEW o \in Outcomes(x, e)
    PROVE  Fitting(x, e, sc, o)
<1> DEFINE i == AtomTags(e.of, sc)
           v == AtomValue(e.of)
           tg == ExprTags(e, sc)
           stack == IF x = "t" THEN "T" ELSE "S"
           heap == IF x = "t" THEN "TH" ELSE "SH"
<1>0. /\ \A y \in Bound(sc) : Held(y, Look(sc, y), mem[y], cell)
      /\ cell \in [Cells -> (SUBSET Places) \ {{}}]
      /\ x \in {"p", "q", "r", "s", "t", "b", "h", "f", "g"}
  BY DEF MemOK, Names, Param
<1>1. ASSUME AtomIs(Bound(sc), e.of)
      PROVE  /\ v \in Places /\ (v = "frame" => i.prov = "STACK")
             /\ ~(e.of.k = "name" /\ e.of.v = NoName) /\ i \in TagPair /\ i.prov \in Prov
  BY <1>1, AtomValueOK, AtomTagsOK DEF TagPair
<1>2. ASSUME e.of.k = "name", e.of.v \in Bound(sc)
      PROVE  i = Look(sc, e.of.v) /\ ~(e.of.k = "name" /\ e.of.v = NoName)
  BY <1>2, NameTagsOK
<1>3. CASE x \in Pointers \cup {"b"} /\ e.k \in {"value", "box", "join"} /\ AtomIs(Bound(sc), e.of)
           /\ (e.k = "join" => e.of.k = "addr")
  <2>1. o.c = "none" /\ (o.val = v \/ (e.k = "join" /\ o.val = "caller"))
    BY <1>3 DEF Outcomes, Out
  <2>2. o.val \in Places /\ (o.val = "frame" => i.prov = "STACK")
    BY <1>1, <1>3, <2>1 DEF Places
  <2>3. i.prov = "STACK" => tg.prov = "STACK"
    <3>1. e.k = "value" => tg = i
      BY <1>1, <1>3 DEF ExprTags
    <3>2. e.k = "box" => tg.prov = StackOrUnknown(i.prov)
      BY <1>1, <1>3 DEF ExprTags, check_struct_lit, field_init_prov, Tags
    <3>3. e.k = "join" => tg.prov = Merge(i.prov, "UNKNOWN")
      BY <1>1, <1>3 DEF ExprTags, JoinOfBranches, Join, Tags, Unknown
    <3> QED BY <1>3, <3>1, <3>2, <3>3 DEF StackOrUnknown, Merge
  <2>4. Held(x, tg, o.val, Filled(o))
    BY <1>3, <2>2, <2>3 DEF Held, Pointers, Slices
  <2>5. Filled(o) = cell
    BY <2>1 DEF Filled
  <2> QED BY <1>3, <2>4, <2>5 DEF Fitting, MemOK, Pointers
<1>4. CASE x \in Slices /\ e.k = "slice" /\ AtomIs(Bound(sc), e.of)
  <2>1. o = [val |-> stack, c |-> stack, holds |-> {v}]
    BY <1>4 DEF Outcomes, Out
  <2>2. tg = [prov |-> "STACK", elem |-> i.prov]
    BY <1>1, <1>4 DEF ExprTags, check_array_lit, Tags
  <2>3. /\ o.val = stack /\ o.c = stack /\ o.holds = {v} /\ o.c # "none" /\ o.c \in Cells
        /\ o.c \notin Outliving /\ o.holds \in (SUBSET Places) \ {{}}
    BY <1>1, <1>4, <2>1 DEF Cells, Outliving
  <2>4. Held(x, tg, o.val, Filled(o))
    BY <1>0, <1>1, <1>4, <2>2, <2>3, FilledOK DEF Held, Slices
  <2> QED BY <1>0, <1>4, <2>3, <2>4, FilledOK DEF Fitting, Slices, Cells
<1>5. CASE x \in Slices /\ e.k = "empty" /\ e.of.k = "name" /\ e.of.v = NoName
  <2>1. o = [val |-> stack, c |-> stack, holds |-> {"null"}]
    BY <1>5 DEF Outcomes, Out
  <2>2. tg = [prov |-> "STACK", elem |-> "UNKNOWN"]
    BY <1>5 DEF ExprTags, check_array_lit, Tags
  <2>3. /\ o.val = stack /\ o.c = stack /\ o.holds = {"null"} /\ o.c # "none" /\ o.c \in Cells
        /\ o.c \notin Outliving /\ o.holds \in (SUBSET Places) \ {{}}
    BY <1>5, <2>1 DEF Cells, Outliving, Places
  <2>4. Held(x, tg, o.val, Filled(o))
    BY <1>0, <1>5, <2>2, <2>3, FilledOK DEF Held, Slices
  <2> QED BY <1>0, <1>5, <2>3, <2>4, FilledOK DEF Fitting, Slices, Cells
<1>6. CASE x \in Slices /\ e.k = "copyof" /\ AtomIs(Bound(sc), e.of)
  <2>1. o = [val |-> heap, c |-> heap, holds |-> {v}]
    BY <1>6 DEF Outcomes, Out
  <2>2. tg = [prov |-> "HEAP", elem |-> i.prov] /\ i.prov # "STACK"
    BY <1>1, <1>6 DEF ExprTags, check_alloc_value, Tags, CopiesStack
  <2>3. /\ o.val = heap /\ o.c = heap /\ o.holds = {v} /\ o.c # "none" /\ o.c \in Cells
        /\ "frame" \notin o.holds /\ o.holds \in (SUBSET Places) \ {{}}
    BY <1>1, <1>6, <2>1, <2>2 DEF Cells, Outliving
  <2>4. Held(x, tg, o.val, Filled(o))
    BY <1>0, <1>6, <2>2, <2>3, FilledOK DEF Held, Slices
  <2> QED BY <1>0, <1>6, <2>3, <2>4, FilledOK DEF Fitting, Slices, Cells
<1>7. CASE x \in Slices /\ e.k = "copy" /\ e.of.k = "name" /\ e.of.v \in Slices \cap Bound(sc)
  <2>1. v = mem[e.of.v] /\ o = [val |-> heap, c |-> heap, holds |-> {InCell(v)}]
    BY <1>7 DEF Outcomes, Out, AtomValue
  <2>2. tg = [prov |-> "HEAP", elem |-> i.elem] /\ i.elem # "STACK" /\ i = Look(sc, e.of.v)
    BY <1>2, <1>7 DEF ExprTags, check_alloc_value, Tags, CopiesStack
  <2>3. v \in Cells /\ "frame" \notin cell[v]
    BY <1>0, <1>7, <2>1, <2>2 DEF Held, Slices, Cells
  <2>4. InCell(v) # "frame" /\ InCell(v) \in Places
    BY <1>0, <2>3, InCellOK
  <2>5. /\ o.val = heap /\ o.c = heap /\ o.holds = {InCell(v)} /\ o.c # "none" /\ o.c \in Cells
        /\ "frame" \notin o.holds /\ o.holds \in (SUBSET Places) \ {{}}
    BY <1>7, <2>1, <2>4 DEF Cells, Outliving
  <2>6. Held(x, tg, o.val, Filled(o))
    BY <1>0, <1>7, <2>2, <2>5, FilledOK DEF Held, Slices
  <2> QED BY <1>0, <1>7, <2>5, <2>6, FilledOK DEF Fitting, Slices, Cells
<1>8. CASE x = "t" /\ e.k = "value" /\ e.of.k = "name" /\ e.of.v \in Slices \cap Bound(sc)
  <2>1. v = mem[e.of.v] /\ o = [val |-> v, c |-> "none", holds |-> {}]
    BY <1>8 DEF Outcomes, Out, AtomValue
  <2>2. tg = Look(sc, e.of.v)
    BY <1>2, <1>8 DEF ExprTags
  <2>3. o.val = mem[e.of.v] /\ Filled(o) = cell
    BY <2>1 DEF Filled
  <2>4. Held(x, tg, o.val, Filled(o))
    BY <1>0, <1>8, <2>2, <2>3 DEF Held, Slices
  <2>5. o.val \in {"S", "SH"} => "s" \in Bound(sc)
    BY <1>0, <1>8, <2>3 DEF Held, Slices, MemOK
  <2> QED BY <1>8, <2>3, <2>4, <2>5 DEF Fitting, MemOK
<1>9. CASE x = "h" /\ e.k = "newbox" /\ AtomIs(Bound(sc), e.of)
  <2>1. o = [val |-> "HB", c |-> "HB", holds |-> {v}]
    BY <1>9 DEF Outcomes, Out
  <2>2. i.prov # "STACK"
    BY <1>9 DEF CopiesStack
  <2>3. /\ o.val = "HB" /\ o.c = "HB" /\ o.holds = {v} /\ o.c \in Cells
        /\ "frame" \notin o.holds /\ o.holds \in (SUBSET Places) \ {{}}
    BY <1>1, <1>9, <2>1, <2>2 DEF Cells
  <2> QED BY <1>0, <1>9, <2>3, FilledOK DEF Fitting, Held, Slices, Cells
<1>10. CASE x = "f" /\ e.k \in {"fun", "newfun"} /\ e.of.k = "name" /\ e.of.v \in {"q", "s", "f"} \cap Bound(sc)
  <2>1. o = [val |-> IF e.k = "fun" THEN "FX" ELSE "HX", c |-> IF e.k = "fun" THEN "FX" ELSE "HX",
             holds |-> Reach(e.of.v)]
    BY <1>10 DEF Outcomes, Out
  <2>2. e.k = "fun" => tg.prov = "STACK"
    BY <1>2, <1>10 DEF ExprTags, Tags
  <2>3. e.k = "newfun" => Look(sc, e.of.v).prov # "STACK"
    BY <1>2, <1>10 DEF CopiesStack
  <2>4. Reach(e.of.v) \in (SUBSET Places) \ {{}} /\ (e.k = "newfun" => "frame" \notin Reach(e.of.v))
    BY <1>10, <2>3, ReachOK
  <2>5. /\ o.val = o.c /\ o.c \in {"FX", "HX"} /\ o.holds \in (SUBSET Places) \ {{}} /\ o.c \in Cells
        /\ (o.c = "HX" => "frame" \notin o.holds) /\ (o.c = "FX" => tg.prov = "STACK")
    BY <1>10, <2>1, <2>2, <2>4 DEF Cells
  <2>6. o.c \in Outliving => "frame" \notin o.holds
    BY <2>5 DEF Outliving
  <2>7. /\ Filled(o) \in [Cells -> (SUBSET Places) \ {{}}]
        /\ \A c \in Outliving : "frame" \notin Filled(o)[c]
        /\ \A c \in Cells : c # o.c => Filled(o)[c] = cell[c]
    BY <2>5, <2>6, FilledOK
  <2> QED BY <1>10, <2>5, <2>7 DEF Fitting, Held, Slices, Cells
<1> QED BY <1>3, <1>4, <1>5, <1>6, <1>7, <1>8, <1>9, <1>10 DEF InitIs, Given

LEMMA GiveSound ==
    ASSUME Features = {}, NEW sc, ScopeOK(sc), TagsOK(sc), MemOK(sc, mem, cell),
           NEW st, StIs(Bound(sc), Len(sc) = 2, st), st.k \in {"let", "set"}, Check(st, sc).ok,
           NEW o \in Outcomes(st.v, st.e)
    PROVE  MemOK(Check(st, sc).sc, With(mem, st.v, o.val), Filled(o))
<1> DEFINE d == Check(st, sc).sc
           x == st.v
           m == With(mem, x, o.val)
           tg == ExprTags(st.e, sc)
<1>1. /\ \A y \in Bound(sc) : Held(y, Look(sc, y), mem[y], cell)
      /\ Bound(sc) \subseteq DOMAIN mem /\ mem["g"] # "frame"
      /\ Bound(sc) \subseteq Names /\ Param \subseteq Bound(sc) /\ Len(sc) \in {1, 2}
  BY ScopeFacts DEF MemOK, ScopeOK
<1>2. /\ x \in Names \ {"a", "c"} /\ InitIs(Bound(sc), x, st.e)
      /\ st.k = "let" => x \notin Bound(sc) /\ x # "g"
      /\ st.k = "set" => x \in Bound(sc) \ {"s"} /\ (x = "t" => Len(sc) = 1)
  BY <1>1 DEF StIs, Param
<1>3. /\ ScopeOK(d) /\ Effect(st, sc, d) /\ ~CopiesStack(st.e, sc)
  BY CheckEffect
<1>4. Fitting(x, st.e, sc, o)
  BY <1>2, <1>3, OutcomeOK
<1>5. DOMAIN m = DOMAIN mem \cup {x} /\ m[x] = o.val /\ \A y \in DOMAIN mem : y # x => m[y] = mem[y]
  BY DEF With
<1>6. Bound(d) = Bound(sc) \cup {x} /\ \A y \in Bound(sc) : y # x => Look(d, y) = Look(sc, y)
  BY <1>2, <1>3 DEF Effect, Retags
<1> HIDE DEF d, m, tg
<1>7. Held(x, Look(d, x), o.val, Filled(o)) /\ (x = "g" => o.val # "frame")
  <2>1. Held(x, tg, o.val, Filled(o))
    BY <1>4 DEF Fitting, tg
  <2>2. CASE st.k = "let"
    BY <1>2, <1>3, <2>1, <2>2 DEF Effect, Retags, NewTags, tg
  <2>3. CASE st.k = "set" /\ x # "g"
    <3>1. Look(d, x) = Join(Look(sc, x), tg)
      BY <1>3, <2>3 DEF Effect, Retags, NewTags, tg
    <3>2. tg.prov = "STACK" => Look(d, x).prov = "STACK"
      BY <3>1 DEF Join, Tags, Merge
    <3>3. tg.elem = "STACK" => Look(d, x).elem = "STACK"
      BY <3>1 DEF Join, Tags, Merge
    <3> QED BY <1>2, <2>1, <2>3, <3>2, <3>3, HeldUp
  <2>4. CASE st.k = "set" /\ x = "g"
    <3>1. tg.prov # "STACK"
      BY <2>4 DEF Check, check_assign, Verdict, tg
    <3>2. o.val \in Places /\ o.val # "frame"
      BY <2>1, <2>4, <3>1 DEF Held
    <3> QED BY <2>4, <3>2 DEF Held, Slices
  <2> QED BY <2>2, <2>3, <2>4
<1>8. ASSUME NEW y \in Bound(sc), y # x PROVE Held(y, Look(d, y), m[y], Filled(o))
  <2>1. Held(y, Look(sc, y), mem[y], cell) /\ Look(d, y) = Look(sc, y) /\ m[y] = mem[y]
    BY <1>1, <1>5, <1>6, <1>8
  <2>2. CASE y \notin Slices
    BY <2>1, <2>2 DEF Held
  <2>3. CASE y \in Slices
    <3>1. mem[y] \in {"S", "SH", "T", "TH", "C"}
      BY <2>1, <2>3 DEF Held, Slices
    <3>2. Filled(o)[mem[y]] = cell[mem[y]]
      <4>1. SUFFICES ASSUME Filled(o)[mem[y]] # cell[mem[y]] PROVE FALSE
        OBVIOUS
      <4>2. x = IF mem[y] \in {"S", "SH"} THEN "s" ELSE "t"
        BY <1>4, <3>1, <4>1 DEF Fitting
      <4>3. mem[y] # "C"
        BY <1>4, <4>1 DEF Fitting
      <4>4. CASE mem[y] \in {"S", "SH"}
        <5>1. y = "t" /\ x = "s"
          BY <1>8, <2>1, <2>3, <4>2, <4>4 DEF Held, Slices
        <5>2. "s" \in Bound(sc)
          BY <4>4, <5>1 DEF MemOK
        <5> QED BY <1>2, <5>1, <5>2
      <4>5. CASE mem[y] \in {"T", "TH"}
        BY <1>8, <2>1, <2>3, <4>2, <4>5 DEF Held, Slices
      <4> QED BY <3>1, <4>3, <4>4, <4>5
    <3> QED BY <2>1, <3>2 DEF Held
  <2> QED BY <2>2, <2>3
<1>9. ASSUME "t" \in Bound(d), m["t"] \in {"S", "SH"}
      PROVE  "s" \in Bound(d) /\ ("t" \in DOMAIN d[1] => "s" \in DOMAIN d[1])
  <2>1. /\ DOMAIN sc = 1 .. Len(sc) /\ 1 \in DOMAIN sc /\ Len(d) = Len(sc)
        /\ Len(sc) = 1 => Bound(sc) = DOMAIN sc[1] /\ Bound(d) = DOMAIN d[1]
        /\ DOMAIN sc[1] \subseteq Bound(sc)
    <3>1. Len(d) = Len(sc)
      BY <1>3 DEF Effect
    <3>2. DOMAIN sc = 1 .. Len(sc) /\ 1 \in DOMAIN sc /\ (Len(sc) = 1 => Bound(sc) = DOMAIN sc[1])
      BY ScopeFacts
    <3>3. Len(sc) = 1 => Bound(d) = DOMAIN d[1]
      BY <1>3, <3>1, ScopeFacts
    <3>4. DOMAIN sc[1] \subseteq Bound(sc)
      BY <3>2 DEF Bound
    <3> QED BY <3>1, <3>2, <3>3, <3>4
  <2>2. DOMAIN d[1] = IF st.k = "let" /\ 1 = Len(sc) THEN DOMAIN sc[1] \cup {x} ELSE DOMAIN sc[1]
    BY <1>3, <2>1 DEF Effect
  <2>3. CASE x = "t"
    <3>1. "s" \in Bound(sc)
      BY <1>4, <1>5, <1>9, <2>3 DEF Fitting
    <3>2. CASE Len(sc) = 1
      BY <1>6, <2>1, <3>1, <3>2
    <3>3. CASE Len(sc) = 2
      BY <1>2, <1>6, <2>1, <2>2, <2>3, <3>1, <3>3
    <3> QED BY <1>1, <3>2, <3>3
  <2>4. CASE x # "t"
    <3>1. "t" \in Bound(sc) /\ mem["t"] = m["t"]
      BY <1>1, <1>5, <1>6, <1>9, <2>4
    <3>2. "s" \in Bound(sc) /\ ("t" \in DOMAIN sc[1] => "s" \in DOMAIN sc[1])
      BY <1>9, <3>1 DEF MemOK
    <3> QED BY <1>6, <2>2, <2>4, <3>2
  <2> QED BY <2>3, <2>4
<1>10. m["g"] # "frame"
  BY <1>1, <1>5, <1>7 DEF Param
<1>11. Bound(d) \subseteq DOMAIN m /\ \A y \in Bound(d) : Held(y, Look(d, y), m[y], Filled(o))
  BY <1>1, <1>5, <1>6, <1>7, <1>8
<1>12. MemOK(d, m, Filled(o))
  BY <1>4, <1>9, <1>10, <1>11 DEF MemOK, Fitting
<1> QED BY <1>12 DEF d, m

(* An element of s, or the field of the box h.                              *)
LEMMA StoreSound ==
    ASSUME Features = {}, NEW sc, ScopeOK(sc), TagsOK(sc), MemOK(sc, mem, cell),
           NEW st, StIs(Bound(sc), Len(sc) = 2, st), st.k \in {"seti", "setf"}, Check(st, sc).ok
    PROVE  /\ mem[st.v] \in Cells
           /\ MemOK(Check(st, sc).sc, mem, [cell EXCEPT ![mem[st.v]] = {AtomValue(st.e.of)}])
<1> DEFINE d == Check(st, sc).sc
           val == AtomValue(st.e.of)
           tg == ExprTags(st.e, sc)
           cl == [cell EXCEPT ![mem[st.v]] = {val}]
<1>1. /\ \A y \in Bound(sc) : Held(y, Look(sc, y), mem[y], cell)
      /\ cell \in [Cells -> (SUBSET Places) \ {{}}]
      /\ Outliving \subseteq Cells
  BY DEF MemOK, Outliving, Cells
<1>2. /\ st.e.k = "value" /\ AtomIs(Bound(sc), st.e.of) /\ st.v \in Bound(sc)
      /\ st.k = "seti" => st.v = "s" /\ "t" \notin shape.names
      /\ st.k = "setf" => st.v = "h"
  BY DEF StIs
<1>3. ScopeOK(d) /\ Effect(st, sc, d)
  BY CheckEffect
<1>4. val \in Places /\ (val = "frame" => tg.prov = "STACK") /\ tg.prov \in Prov
  BY <1>2, AtomValueOK, ValueTags
<1>5. mem[st.v] \in {"S", "SH", "HB"} /\ (st.k = "setf" => mem[st.v] = "HB")
      /\ (st.k = "seti" => mem[st.v] \in {"S", "SH"})
      /\ (mem[st.v] = "SH" => Look(sc, st.v).prov = "HEAP")
      /\ (mem[st.v] = "HB" => st.v = "h")
  BY <1>1, <1>2 DEF Held
<1>6. mem[st.v] \in Cells
  BY <1>5 DEF Cells
<1>7. mem[st.v] \in Outliving => val # "frame"
  <2>1. SUFFICES ASSUME mem[st.v] \in {"SH", "HB"} PROVE val # "frame"
    BY <1>5 DEF Outliving
  <2>2. Look(sc, st.v).prov = "HEAP"
    BY <1>2, <1>5, <2>1 DEF TagsOK
  <2>3. lvalue_storage_prov(sc, st.v) = "HEAP"
    BY <1>2, <2>2 DEF lvalue_storage_prov, Slices
  <2>4. tg.prov # "STACK"
    BY <2>3 DEF Check, check_assign, Verdict
  <2> QED BY <1>4, <2>4
<1> HIDE DEF d, val, tg
<1>8. /\ cl \in [Cells -> (SUBSET Places) \ {{}}] /\ \A c \in Outliving : "frame" \notin cl[c]
      /\ cl[mem[st.v]] = {val} /\ \A c \in Cells : c # mem[st.v] => cl[c] = cell[c]
  <2>1. \A c \in Outliving : "frame" \notin cell[c]
    BY DEF MemOK
  <2> QED BY <1>1, <1>4, <1>6, <1>7, <2>1
<1> HIDE DEF cl
<1>9. Bound(d) = Bound(sc) /\ DOMAIN d[1] = DOMAIN sc[1]
  <2>1. 1 \in DOMAIN sc
    BY ScopeFacts
  <2> QED BY <1>2, <1>3, <2>1 DEF Effect, Retags
<1>10. ASSUME NEW y \in Bound(sc) PROVE Held(y, Look(d, y), mem[y], cl)
  <2>1. Held(y, Look(sc, y), mem[y], cell)
    BY <1>1
  <2>2. CASE st.k = "setf"
    <3>1. y \in Slices => mem[y] \in Cells /\ mem[y] # "HB"
      BY <2>1 DEF Held, Slices, Cells
    <3>2. Look(d, y) = Look(sc, y)
      BY <1>3, <2>2 DEF Effect, Retags
    <3> QED BY <1>5, <1>8, <2>1, <2>2, <3>1, <3>2 DEF Held
  <2>3. CASE st.k = "seti" /\ y = "s"
    <3>1. /\ Look(d, y).prov = Look(sc, y).prov
          /\ Look(d, y).elem = Merge(Look(sc, y).elem, tg.prov)
      BY <1>2, <1>3, <2>3 DEF Effect, Retags, NewTags, Tags, tg
    <3>2. tg.prov = "STACK" => Look(d, y).elem = "STACK"
      BY <3>1 DEF Merge
    <3> QED BY <1>2, <1>4, <1>8, <2>1, <2>3, <3>1, <3>2 DEF Held
  <2>4. CASE st.k = "seti" /\ y # "s"
    <3>1. Look(d, y) = Look(sc, y)
      BY <1>2, <1>3, <2>4 DEF Effect, Retags
    <3>2. y # "t"
      BY <1>2, <2>4 DEF ScopeOK, Names, Param
    <3>3. y \in Slices => mem[y] = "C"
      BY <2>1, <2>4, <3>2 DEF Held, Slices
    <3> QED BY <1>5, <1>8, <2>1, <2>4, <3>1, <3>3 DEF Held, Cells
  <2> QED BY <2>2, <2>3, <2>4
<1>11. MemOK(d, mem, cl)
  BY <1>8, <1>9, <1>10 DEF MemOK
<1> QED BY <1>6, <1>11 DEF d, cl, val

LEMMA ExecuteSound ==
    ASSUME Features = {}, NEW sc, ScopeOK(sc), TagsOK(sc), MemOK(sc, mem, cell),
           NEW st, StIs(Bound(sc), Len(sc) = 2, st), st.k # "ret", Check(st, sc).ok, Execute(st)
    PROVE  MemOK(Check(st, sc).sc, mem', cell') /\ freed' # "frame" /\ out' = out
<1>1. st.k \in {"let", "set", "seti", "setf", "free"}
  BY DEF StIs
<1>2. CASE st.k \in {"let", "set"}
  <2>1. PICK o \in Outcomes(st.v, st.e) : mem' = With(mem, st.v, o.val) /\ cell' = Filled(o)
    BY <1>2 DEF Execute
  <2>2. freed' # "frame" /\ out' = out
    BY <1>2 DEF Execute
  <2> QED BY <1>2, <2>1, <2>2, GiveSound
<1>3. CASE st.k \in {"seti", "setf"}
  <2>1. st.v \in {"s", "h"} /\ st.e.k = "value"
    BY <1>3 DEF StIs
  <2>2. mem[st.v] \in Cells
    BY <1>3, StoreSound
  <2>3. Outcomes(st.v, st.e) = {[val |-> AtomValue(st.e.of), c |-> "none", holds |-> {}]}
    BY <2>1 DEF Outcomes, Out
  <2>4. mem' = mem /\ cell' = [cell EXCEPT ![mem[st.v]] = {AtomValue(st.e.of)}]
    BY <1>3, <2>1, <2>2, <2>3 DEF Execute
  <2>5. freed' # "frame" /\ out' = out
    BY <1>3 DEF Execute
  <2> QED BY <1>3, <2>4, <2>5, StoreSound
<1>4. CASE st.k = "free"
  <2>1. mem' = mem /\ cell' = cell /\ out' = out
    BY <1>4 DEF Execute
  <2>2. Check(st, sc).sc = sc
    BY <1>4 DEF Check, check_free, Verdict
  <2> DEFINE v == st.e.of.v
  <2>3. v \in {"p", "q", "s", "t", "h", "f"} \cap Bound(sc) /\ st.e.k = "value" /\ st.e.of.k = "name"
    BY <1>4 DEF StIs
  <2>4. ExprTags(st.e, sc) = Look(sc, v)
    BY <2>3, NameTagsOK DEF ExprTags
  <2>5. Look(sc, v).prov # "STACK"
    BY <1>4, <2>4 DEF Check, check_free, Verdict
  <2>6. Held(v, Look(sc, v), mem[v], cell)
    BY <2>3 DEF MemOK
  <2>7. CASE v \in {"p", "q"}
    <3>1. freed' = mem[v]
      BY <1>4, <2>7 DEF Execute, Pointers
    <3>2. mem[v] # "frame"
      BY <2>5, <2>6, <2>7 DEF Held
    <3> QED BY <2>1, <2>2, <3>1, <3>2
  <2>8. CASE v \in {"s", "t", "h", "f"}
    <3>1. freed' = PlaceOf(mem[v])
      BY <1>4, <2>8 DEF Execute, Pointers
    <3>2. mem[v] \in {"SH", "TH", "C", "HB", "HX"}
      BY <2>5, <2>6, <2>8 DEF Held
    <3>3. PlaceOf(mem[v]) # "frame"
      BY <3>2 DEF PlaceOf
    <3> QED BY <2>1, <2>2, <3>1, <3>3
  <2> QED BY <2>3, <2>7, <2>8
<1> QED BY <1>1, <1>2, <1>3, <1>4

LEMMA ReturnSound ==
    ASSUME Features = {}, NEW sc, ScopeOK(sc), TagsOK(sc), MemOK(sc, mem, cell),
           NEW loop \in BOOLEAN, NEW st, StIs(Bound(sc), loop, st), st.k = "ret", Check(st, sc).ok
    PROVE  "frame" \notin Returned(st.e)
<1> DEFINE e == st.e
           i == AtomTags(e.of, sc)
           v == AtomValue(e.of)
           tg == ExprTags(e, sc)
           Handed(o) == (IF o.val \in Cells THEN {PlaceOf(o.val)} ELSE {o.val}) \cup o.holds
<1>1. ~CopiesStack(e, sc) /\ tg.prov # "STACK"
  BY DEF Check, check_returned_value, Verdict
<1>2. CASE e.k = "value" /\ e.of.k = "name" /\ e.of.v \in Bound(sc)
  <2>1. tg = Look(sc, e.of.v)
    BY <1>2, NameTagsOK DEF ExprTags
  <2>2. Returned(e) = Reach(e.of.v)
    BY <1>2 DEF Returned
  <2> QED BY <1>1, <1>2, <2>1, <2>2, ReachOK
<1>3. ASSUME ~(e.k = "value" /\ e.of.k = "name"),
             \A o \in Outcomes("s", e) : "frame" \notin Handed(o)
      PROVE  "frame" \notin Returned(e)
  <2>1. Returned(e) = UNION {Handed(o) : o \in Outcomes("s", e)}
    BY <1>3 DEF Returned
  <2> HIDE DEF Handed
  <2> QED BY <1>3, <2>1
<1>4. ASSUME AtomIs(Bound(sc), e.of)
      PROVE  /\ v \in Places /\ v \notin Cells /\ (v = "frame" => i.prov = "STACK")
             /\ ~(e.of.k = "name" /\ e.of.v = NoName)
             /\ e.of.k = "name" => e.of.v \in Bound(sc)
  <2>1. Places \cap Cells = {}
    BY DEF Places, Cells
  <2>2. e.of.k = "name" => e.of.v \in Bound(sc)
    BY <1>4 DEF AtomIs
  <2> QED BY <1>4, <2>1, <2>2, AtomValueOK, AtomTagsOK
<1>5. CASE AtomIs(Bound(sc), e.of) /\ e.k \in {"value", "box", "inline"}
  <2>1. i.prov # "STACK"
    <3>1. e.k = "value" => tg = i
      BY <1>4, <1>5 DEF ExprTags
    <3>2. e.k \in {"box", "inline"} => tg.prov = StackOrUnknown(i.prov)
      BY <1>4, <1>5 DEF ExprTags, check_struct_lit, field_init_prov, Tags
    <3> QED BY <1>1, <1>5, <3>1, <3>2 DEF StackOrUnknown
  <2>2. Outcomes("s", e) = {[val |-> v, c |-> "none", holds |-> {}]}
    BY <1>5 DEF Outcomes, Out
  <2>3. \A o \in Outcomes("s", e) : "frame" \notin Handed(o)
    BY <1>4, <1>5, <2>1, <2>2
  <2> HIDE DEF Handed, i, tg, v
  <2> QED BY <1>2, <1>3, <1>4, <1>5, <2>3
<1>6. CASE AtomIs(Bound(sc), e.of) /\ e.k = "join" /\ e.of.k = "addr"
  <2>1. tg = Join(i, Unknown)
    BY <1>4, <1>6 DEF ExprTags, JoinOfBranches
  <2>2. i.prov = "STACK"
    BY <1>6 DEF AtomTags, check_address_of, Tags
  <2> QED BY <1>1, <2>1, <2>2 DEF Join, Tags, Merge
<1>7. CASE e.k \in {"slice", "empty", "fun"}
  <2>1. tg.prov = "STACK"
    BY <1>7 DEF ExprTags, check_array_lit, Tags
  <2> QED BY <1>1, <2>1
<1>8. CASE AtomIs(Bound(sc), e.of) /\ e.k \in {"copyof", "newbox"}
  <2>1. v # "frame"
    BY <1>1, <1>4, <1>8 DEF CopiesStack
  <2>2. Outcomes("s", e) = {LET c == IF e.k = "copyof" THEN "SH" ELSE "HB"
                            IN  [val |-> c, c |-> c, holds |-> {v}]}
    BY <1>8 DEF Outcomes, Out
  <2>3. \A o \in Outcomes("s", e) : "frame" \notin Handed(o)
    BY <2>1, <2>2 DEF PlaceOf
  <2> HIDE DEF Handed, i, tg, v
  <2> QED BY <1>3, <1>8, <2>3
<1>9. CASE e.k = "copy" /\ e.of.k = "name" /\ e.of.v \in Slices \cap Bound(sc)
  <2>1. v = mem[e.of.v] /\ i = Look(sc, e.of.v)
    BY <1>9, NameTagsOK DEF AtomValue
  <2>2. Held(e.of.v, Look(sc, e.of.v), mem[e.of.v], cell) /\ Look(sc, e.of.v).elem # "STACK"
    BY <1>1, <1>9, <2>1 DEF MemOK, CopiesStack
  <2>3. v \in Cells /\ "frame" \notin cell[v]
    BY <1>9, <2>1, <2>2 DEF Held, Slices, Cells
  <2>4. InCell(v) # "frame"
    BY <2>3, InCellOK DEF MemOK
  <2>5. Outcomes("s", e) = {[val |-> "SH", c |-> "SH", holds |-> {InCell(v)}]}
    BY <1>9 DEF Outcomes, Out
  <2>6. \A o \in Outcomes("s", e) : "frame" \notin Handed(o)
    BY <2>4, <2>5 DEF PlaceOf, Cells
  <2> HIDE DEF Handed, i, tg, v
  <2> QED BY <1>3, <1>9, <2>6
<1>10. CASE e.k = "newfun" /\ e.of.k = "name" /\ e.of.v \in Bound(sc)
  <2>1. Look(sc, e.of.v).prov # "STACK"
    BY <1>1, <1>10, NameTagsOK DEF CopiesStack
  <2>2. "frame" \notin Reach(e.of.v)
    BY <1>10, <2>1, ReachOK
  <2>3. Outcomes("s", e) = {[val |-> "HX", c |-> "HX", holds |-> Reach(e.of.v)]}
    BY <1>10 DEF Outcomes, Out
  <2>4. \A o \in Outcomes("s", e) : "frame" \notin Handed(o)
    BY <2>2, <2>3 DEF PlaceOf, Cells
  <2> HIDE DEF Handed, i, tg, v
  <2> QED BY <1>3, <1>10, <2>4
<1>11. ASSUME NEW x \in Names, InitIs(Bound(sc), x, e) PROVE "frame" \notin Returned(e)
  BY <1>2, <1>5, <1>6, <1>7, <1>8, <1>9, <1>10, <1>11 DEF InitIs, Given
<1> QED BY <1>2, <1>5, <1>11 DEF StIs

-----------------------------------------------------------------------------
(* Checking is monotone: with fewer taints it accepts what it accepted, and  *)
(* ends with fewer taints.                                                   *)

Below(u, v) == (u = "STACK" => v = "STACK") /\ (u = "STATIC" => v = "STATIC")

TagsBelow(x, t, u) ==
    /\ Below(t.prov, u.prov)
    /\ x \in Slices => Below(t.elem, u.elem)
    /\ x \in {"s", "h"} => t.prov = u.prov

ScopeBelow(sc, d) ==
    Bound(sc) = Bound(d) /\ \A x \in Bound(sc) : TagsBelow(x, Look(sc, x), Look(d, x))

LEMMA MergeBelow ==
    ASSUME NEW u \in Prov, NEW v \in Prov, NEW w \in Prov, NEW z \in Prov, Below(u, v), Below(w, z)
    PROVE  Below(Merge(u, w), Merge(v, z))
BY DEF Below, Merge, Prov

LEMMA AtomBelow ==
    ASSUME NEW sc, NEW d, ScopeOK(sc), ScopeOK(d), ScopeBelow(sc, d), NEW o, AtomIs(Bound(sc), o)
    PROVE  Below(AtomTags(o, sc).prov, AtomTags(o, d).prov)
<1>0. \A x \in Bound(sc) : TagsBelow(x, Look(sc, x), Look(d, x))
  BY DEF ScopeBelow
<1>1. CASE o.k \in {"addr", "static"}
  BY <1>1 DEF AtomTags, check_address_of, Below
<1>2. CASE o.k \in {"name", "field"} /\ o.v \in Bound(sc)
  BY <1>0, <1>2 DEF AtomTags, TagsBelow
<1>3. CASE o.k = "elem" /\ o.v \in Slices \cap Bound(sc)
  BY <1>0, <1>3 DEF AtomTags, TagsBelow, check_index, Tags
<1>4. CASE o.k = "addrin" /\ o.v \in {"b", "h"} \cap Bound(sc)
  <2>1. lvalue_storage_prov(sc, o.v) = lvalue_storage_prov(d, o.v)
    BY <1>0, <1>4 DEF lvalue_storage_prov, TagsBelow, Slices
  <2> QED BY <1>4, <2>1 DEF AtomTags, check_address_of, Below, Tags
<1> QED BY <1>1, <1>2, <1>3, <1>4 DEF AtomIs

LEMMA InitBelow ==
    ASSUME NEW sc, NEW d, ScopeOK(sc), ScopeOK(d), TagsOK(sc), TagsOK(d), ScopeBelow(sc, d),
           NEW x \in Names, NEW e, InitIs(Bound(sc), x, e)
    PROVE  /\ TagsBelow(x, ExprTags(e, sc), ExprTags(e, d))
           /\ CopiesStack(e, sc) => CopiesStack(e, d)
<1> DEFINE i == AtomTags(e.of, sc)
           j == AtomTags(e.of, d)
<1>0. Bound(sc) = Bound(d) /\ \A y \in Bound(sc) : TagsBelow(y, Look(sc, y), Look(d, y))
  BY DEF ScopeBelow
<1>1. ASSUME AtomIs(Bound(sc), e.of)
      PROVE  /\ Below(i.prov, j.prov) /\ i.prov \in Prov /\ j.prov \in Prov
             /\ ~(e.of.k = "name" /\ e.of.v = NoName)
  BY <1>0, <1>1, AtomBelow, AtomTagsOK DEF TagPair
<1>2. ASSUME e.of.k = "name", e.of.v \in Bound(sc)
      PROVE  i = Look(sc, e.of.v) /\ j = Look(d, e.of.v) /\ e.of.v # NoName
  BY <1>0, <1>2, NameTagsOK
<1>3. CASE x \in Pointers \cup {"b"} /\ e.k \in {"value", "box"} /\ AtomIs(Bound(sc), e.of)
  <2>1. CASE e.k = "value"
    BY <1>1, <1>3, <2>1 DEF ExprTags, TagsBelow, CopiesStack, Pointers, Slices
  <2>2. CASE e.k = "box"
    <3>1. ExprTags(e, sc).prov = StackOrUnknown(i.prov) /\ ExprTags(e, d).prov = StackOrUnknown(j.prov)
      BY <1>1, <1>3, <2>2 DEF ExprTags, check_struct_lit, field_init_prov, Tags
    <3> QED BY <1>1, <1>3, <2>2, <3>1 DEF TagsBelow, Below, StackOrUnknown, CopiesStack, Pointers, Slices
  <2> QED BY <1>3, <2>1, <2>2
<1>4. CASE x \in Pointers /\ e.k = "join" /\ e.of.k = "addr"
  <2>1. ExprTags(e, d).prov = "STACK" /\ ExprTags(e, sc).prov = "STACK"
    BY <1>4 DEF ExprTags, JoinOfBranches, Join, Tags, Unknown, AtomTags, check_address_of, Merge
  <2> QED BY <1>4, <2>1 DEF TagsBelow, Below, CopiesStack, Pointers, Slices
<1>5. CASE x \in Slices /\ e.k \in {"slice", "copyof"} /\ AtomIs(Bound(sc), e.of)
  <2>1. /\ ExprTags(e, sc) = [prov |-> IF e.k = "slice" THEN "STACK" ELSE "HEAP", elem |-> i.prov]
        /\ ExprTags(e, d) = [prov |-> IF e.k = "slice" THEN "STACK" ELSE "HEAP", elem |-> j.prov]
    BY <1>1, <1>5 DEF ExprTags, check_alloc_value, check_array_lit, Tags
  <2>2. TagsBelow(x, ExprTags(e, sc), ExprTags(e, d))
    BY <1>1, <1>5, <2>1 DEF TagsBelow, Below
  <2>3. CopiesStack(e, sc) => CopiesStack(e, d)
    BY <1>1, <1>5 DEF CopiesStack, Below
  <2> QED BY <2>2, <2>3
<1>6. CASE x \in Slices /\ e.k = "empty" /\ e.of.k = "name" /\ e.of.v = NoName
  <2>1. ExprTags(e, sc) = ExprTags(e, d) /\ ~CopiesStack(e, sc)
    BY <1>6 DEF ExprTags, check_array_lit, CopiesStack
  <2> QED BY <2>1 DEF TagsBelow, Below
<1>7. CASE e.k \in {"copy", "value"} /\ x \in Slices /\ e.of.k = "name" /\ e.of.v \in Slices \cap Bound(sc)
           /\ (e.k = "value" => x = "t")
  <2>1. TagsBelow(e.of.v, i, j)
    BY <1>0, <1>2, <1>7
  <2>2. /\ ExprTags(e, sc) = IF e.k = "copy" THEN [prov |-> "HEAP", elem |-> i.elem] ELSE i
        /\ ExprTags(e, d) = IF e.k = "copy" THEN [prov |-> "HEAP", elem |-> j.elem] ELSE j
    BY <1>2, <1>7 DEF ExprTags, check_alloc_value, Tags
  <2>3. TagsBelow(x, ExprTags(e, sc), ExprTags(e, d))
    BY <1>7, <2>1, <2>2 DEF TagsBelow, Below
  <2>4. CopiesStack(e, sc) => CopiesStack(e, d)
    BY <1>7, <2>1 DEF CopiesStack, TagsBelow, Below
  <2> QED BY <2>3, <2>4
<1>8. CASE x = "h" /\ e.k = "newbox" /\ AtomIs(Bound(sc), e.of)
  <2>1. ExprTags(e, sc).prov = "HEAP" /\ ExprTags(e, d).prov = "HEAP"
    BY <1>8 DEF ExprTags, check_alloc_value, Tags
  <2>2. CopiesStack(e, sc) => CopiesStack(e, d)
    BY <1>1, <1>8 DEF CopiesStack, Below
  <2> QED BY <1>8, <2>1, <2>2 DEF TagsBelow, Below, Slices
<1>9. CASE x = "f" /\ e.k \in {"fun", "newfun"} /\ e.of.k = "name" /\ e.of.v \in {"q", "s", "f"} \cap Bound(sc)
  <2>1. ExprTags(e, sc).prov = ExprTags(e, d).prov
    BY <1>9 DEF ExprTags, check_alloc_value, Tags
  <2>2. TagsBelow(e.of.v, i, j)
    BY <1>0, <1>2, <1>9
  <2>3. i.elem = "STACK" => i.prov = "STACK" \/ e.of.v = "s"
    BY <1>2, <1>9 DEF TagsOK
  <2>4. "STACK" \in {i.prov, i.elem} => "STACK" \in {j.prov, j.elem}
    BY <2>2, <2>3 DEF TagsBelow, Below, Slices
  <2>5. CopiesStack(e, sc) => CopiesStack(e, d)
    BY <1>9, <2>4 DEF CopiesStack
  <2> QED BY <1>9, <2>1, <2>5 DEF TagsBelow, Below, Slices
<1> QED BY <1>3, <1>4, <1>5, <1>6, <1>7, <1>8, <1>9 DEF InitIs, Given, Slices

LEMMA ValueBelow ==
    ASSUME NEW sc, NEW d, ScopeOK(sc), ScopeOK(d), TagsOK(sc), TagsOK(d), ScopeBelow(sc, d),
           NEW e, e.k = "value", AtomIs(Bound(sc), e.of) \/ (e.of.k = "name" /\ e.of.v \in Bound(sc))
    PROVE  Below(ExprTags(e, sc).prov, ExprTags(e, d).prov)
<1>0. Bound(sc) = Bound(d) /\ \A y \in Bound(sc) : TagsBelow(y, Look(sc, y), Look(d, y))
  BY DEF ScopeBelow
<1>1. CASE AtomIs(Bound(sc), e.of)
  BY <1>0, <1>1, AtomBelow, ValueTags
<1>2. CASE e.of.k = "name" /\ e.of.v \in Bound(sc)
  <2>1. ExprTags(e, sc) = Look(sc, e.of.v) /\ ExprTags(e, d) = Look(d, e.of.v)
    BY <1>0, <1>2, NameTagsOK DEF ExprTags
  <2> QED BY <1>0, <1>2, <2>1 DEF TagsBelow
<1> QED BY <1>1, <1>2

LEMMA CheckBelow ==
    ASSUME Features = {}, NEW sc, NEW d, ScopeOK(sc), ScopeOK(d), TagsOK(sc), TagsOK(d), ScopeBelow(sc, d),
           NEW loop \in BOOLEAN, NEW st, StIs(Bound(sc), loop, st), Check(st, d).ok
    PROVE  Check(st, sc).ok /\ ScopeBelow(Check(st, sc).sc, Check(st, d).sc)
<1> DEFINE x == st.v
           t == ExprTags(st.e, sc)
           u == ExprTags(st.e, d)
           c == Check(st, sc).sc
           e == Check(st, d).sc
<1>0. Bound(sc) = Bound(d) /\ \A y \in Bound(sc) : TagsBelow(y, Look(sc, y), Look(d, y))
      /\ Bound(sc) \subseteq Names
  BY DEF ScopeBelow, ScopeOK
<1>1. StIs(Bound(d), loop, st)
  BY <1>0
<1>2. Effect(st, sc, c) /\ Effect(st, d, e) /\ ~CopiesStack(st.e, d)
  BY <1>1, CheckEffect
<1>3. /\ st.k \in {"let", "set"} => x \in Names /\ TagsBelow(x, t, u) /\ ~CopiesStack(st.e, sc)
      /\ st.k \in {"let", "set"} => t \in TagPair /\ u \in TagPair
  <2>1. st.k \in {"let", "set"} => x \in Names /\ InitIs(Bound(sc), x, st.e)
    BY <1>0 DEF StIs
  <2> QED BY <1>0, <1>2, <2>1, InitBelow, InitTagsOK
<1>4. st.k \in {"seti", "setf", "free"} =>
         Below(t.prov, u.prov) /\ ~CopiesStack(st.e, sc)
  <2>1. st.k \in {"seti", "setf", "free"} =>
           /\ st.e.k = "value"
           /\ AtomIs(Bound(sc), st.e.of) \/ (st.e.of.k = "name" /\ st.e.of.v \in Bound(sc))
    BY DEF StIs
  <2>2. st.e.k = "value" => ~CopiesStack(st.e, sc)
    BY DEF CopiesStack
  <2> QED BY <2>1, <2>2, ValueBelow
<1>5. ASSUME st.k = "ret" PROVE Below(t.prov, u.prov) /\ ~CopiesStack(st.e, sc)
  <2>1. CASE \E y \in Names : InitIs(Bound(sc), y, st.e)
    BY <1>2, <2>1, InitBelow DEF TagsBelow
  <2>2. CASE st.e.k = "value" /\ (AtomIs(Bound(sc), st.e.of) \/ (st.e.of.k = "name" /\ st.e.of.v \in Bound(sc)))
    <3>1. ~CopiesStack(st.e, sc)
      BY <2>2 DEF CopiesStack
    <3> QED BY <2>2, <3>1, ValueBelow
  <2>3. CASE st.e.k = "inline" /\ AtomIs(Bound(sc), st.e.of)
    <3>1. ~CopiesStack(st.e, sc)
      BY <2>3 DEF CopiesStack
    <3>2. Below(AtomTags(st.e.of, sc).prov, AtomTags(st.e.of, d).prov)
      BY <2>3, AtomBelow
    <3>3. ~(st.e.of.k = "name" /\ st.e.of.v = NoName)
      BY <2>3, AtomTagsOK
    <3>4. /\ t.prov = StackOrUnknown(AtomTags(st.e.of, sc).prov)
          /\ u.prov = StackOrUnknown(AtomTags(st.e.of, d).prov)
      BY <2>3, <3>3 DEF ExprTags, check_struct_lit, field_init_prov, Tags
    <3> QED BY <3>1, <3>2, <3>4 DEF Below, StackOrUnknown
  <2> QED BY <1>5, <2>1, <2>2, <2>3 DEF StIs
<1>6. Check(st, sc).ok
  <2>1. CASE st.k = "let"
    BY <1>3, <2>1 DEF Check, check_let, Verdict
  <2>2. CASE st.k = "ret"
    <3>1. u.prov # "STACK"
      BY <2>2 DEF Check, check_returned_value, Verdict
    <3> QED BY <1>5, <2>2, <3>1 DEF Check, check_returned_value, Verdict, Below
  <2>3. CASE st.k = "free"
    <3>1. u.prov \notin {"STACK", "STATIC"}
      BY <2>3 DEF Check, check_free, Verdict
    <3> QED BY <1>4, <2>3, <3>1 DEF Check, check_free, Verdict, Below
  <2>4. CASE st.k \in {"set", "seti", "setf"}
    <3>1. t.prov = "STACK" => u.prov = "STACK"
      BY <1>3, <1>4, <2>4 DEF TagsBelow, Below
    <3>2. st.k # "set" => lvalue_storage_prov(sc, x) = lvalue_storage_prov(d, x)
      <4>1. st.k # "set" => x \in {"s", "h"} \cap Bound(sc)
        BY <2>4 DEF StIs
      <4> QED BY <1>0, <4>1 DEF lvalue_storage_prov, TagsBelow, Slices
    <3>3. ~(u.prov = "STACK" /\ (IF st.k = "set" THEN IF st.v = "g" THEN "STATIC" ELSE "STACK"
                                 ELSE lvalue_storage_prov(d, x)) \in {"HEAP", "STATIC"})
      BY <2>4 DEF Check, check_assign, Verdict
    <3>4. ~(t.prov = "STACK" /\ (IF st.k = "set" THEN IF st.v = "g" THEN "STATIC" ELSE "STACK"
                                 ELSE lvalue_storage_prov(sc, x)) \in {"HEAP", "STATIC"})
      BY <3>1, <3>2, <3>3
    <3>5. ~CopiesStack(st.e, sc)
      BY <1>3, <1>4, <2>4
    <3> HIDE DEF t
    <3> QED BY <2>4, <3>4, <3>5 DEF Check, check_assign, Verdict, t
  <2> QED BY <2>1, <2>2, <2>3, <2>4 DEF StIs
<1>7. Retags(st) => TagsBelow(x, NewTags(st, sc), NewTags(st, d))
  <2>1. CASE st.k = "let"
    BY <1>3, <2>1 DEF NewTags
  <2>2. CASE st.k = "set"
    <3>1. /\ x \in Bound(sc) /\ x \notin {"s", "h"}
          /\ Look(sc, x) \in TagPair /\ Look(d, x) \in TagPair
      BY <1>0, <2>2, LookFacts DEF StIs
    <3>2. /\ NewTags(st, sc) = [prov |-> Merge(Look(sc, x).prov, t.prov), elem |-> Merge(Look(sc, x).elem, t.elem)]
          /\ NewTags(st, d) = [prov |-> Merge(Look(d, x).prov, u.prov), elem |-> Merge(Look(d, x).elem, u.elem)]
      BY <2>2 DEF NewTags, Join, Tags
    <3>3. TagsBelow(x, Look(sc, x), Look(d, x)) /\ TagsBelow(x, t, u) /\ t \in TagPair /\ u \in TagPair
      BY <1>0, <1>3, <2>2, <3>1
    <3> HIDE DEF t, u
    <3>4. Below(Merge(Look(sc, x).prov, t.prov), Merge(Look(d, x).prov, u.prov))
      BY <3>1, <3>3, MergeBelow DEF TagsBelow, TagPair
    <3>5. x \in Slices => Below(Merge(Look(sc, x).elem, t.elem), Merge(Look(d, x).elem, u.elem))
      BY <3>1, <3>3, MergeBelow DEF TagsBelow, TagPair
    <3> QED BY <3>1, <3>2, <3>4, <3>5 DEF TagsBelow
  <2>3. CASE st.k = "seti"
    <3>1. /\ x \in Bound(sc) /\ st.e.k = "value" /\ AtomIs(Bound(sc), st.e.of) /\ x \in Slices
          /\ Look(sc, x) \in TagPair /\ Look(d, x) \in TagPair
      BY <1>0, <2>3, LookFacts DEF StIs, Slices
    <3>2. /\ NewTags(st, sc) = [prov |-> Look(sc, x).prov, elem |-> Merge(Look(sc, x).elem, t.prov)]
          /\ NewTags(st, d) = [prov |-> Look(d, x).prov, elem |-> Merge(Look(d, x).elem, u.prov)]
      BY <2>3 DEF NewTags, Tags
    <3>3. TagsBelow(x, Look(sc, x), Look(d, x)) /\ Below(t.prov, u.prov) /\ t.prov \in Prov /\ u.prov \in Prov
      BY <1>0, <1>4, <2>3, <3>1, ValueTags
    <3> HIDE DEF t, u
    <3>4. Below(Merge(Look(sc, x).elem, t.prov), Merge(Look(d, x).elem, u.prov))
      BY <3>1, <3>3, MergeBelow DEF TagsBelow, TagPair
    <3> QED BY <3>1, <3>2, <3>3, <3>4 DEF TagsBelow
  <2> QED BY <2>1, <2>2, <2>3 DEF Retags
<1>8. ScopeBelow(c, e)
  <2> HIDE DEF c, e
  <2>1. CASE Retags(st)
    BY <1>0, <1>2, <1>7, <2>1 DEF ScopeBelow, Effect
  <2>2. CASE ~Retags(st)
    BY <1>2, <2>2 DEF Effect
  <2> QED BY <2>1, <2>2
<1> QED BY <1>6, <1>8

-----------------------------------------------------------------------------
(* The sweeps before a loop body.                                            *)

WalksEq(w, N, pt, stmts) ==
    w = [n \in 0 .. N |-> IF n = 0 THEN pt ELSE pretaint_walk(w[n - 1], stmts[n])]

LEMMA WalksExist ==
    ASSUME NEW pt, NEW stmts, NEW N \in Nat
    PROVE  \E w : WalksEq(w, N, pt, stmts)
<1> DEFINE S == {n \in Nat : \E w : WalksEq(w, n, pt, stmts)}
<1>1. 0 \in S
  <2>1. WalksEq([n \in 0 .. 0 |-> pt], 0, pt, stmts)
    BY DEF WalksEq
  <2> QED BY <2>1
<1>2. ASSUME NEW n \in Nat, n \in S PROVE n + 1 \in S
  <2>1. PICK w : WalksEq(w, n, pt, stmts)
    BY <1>2
  <2> DEFINE last == pretaint_walk(w[n], stmts[n + 1])
             d == [m \in 0 .. n + 1 |-> IF m = n + 1 THEN last ELSE w[m]]
  <2>2. (\A m \in 0 .. n : d[m] = w[m]) /\ d[n + 1] = last /\ d = [m \in 0 .. n + 1 |-> d[m]]
    OBVIOUS
  <2> HIDE DEF d
  <2>3. ASSUME NEW m \in 0 .. n + 1
        PROVE  d[m] = IF m = 0 THEN pt ELSE pretaint_walk(d[m - 1], stmts[m])
    <3>1. CASE m = n + 1
      <4>1. m # 0 /\ m - 1 = n /\ n \in 0 .. n
        BY <3>1
      <4> QED BY <2>2, <3>1, <4>1
    <3>2. CASE m # n + 1
      <4>1. m \in 0 .. n /\ (m # 0 => m - 1 \in 0 .. n)
        BY <3>2
      <4> QED BY <2>1, <2>2, <4>1 DEF WalksEq
    <3> QED BY <3>1, <3>2
  <2>4. WalksEq(d, n + 1, pt, stmts)
    BY <2>2, <2>3 DEF WalksEq
  <2> QED BY <2>4
<1> HIDE DEF S
<1> QED BY <1>1, <1>2, SetInduction DEF S

LEMMA WalksDef ==
    ASSUME NEW pt, NEW stmts, Len(stmts) \in Nat
    PROVE  /\ Walks(pt, stmts)[0] = pt
           /\ \A n \in 1 .. Len(stmts) :
                 Walks(pt, stmts)[n] = pretaint_walk(Walks(pt, stmts)[n - 1], stmts[n])
<1>1. WalksEq(Walks(pt, stmts), Len(stmts), pt, stmts)
  <2>1. Walks(pt, stmts) = CHOOSE w : WalksEq(w, Len(stmts), pt, stmts)
    BY DEF Walks, WalksEq
  <2> QED BY <2>1, WalksExist
<1> HIDE DEF Walks
<1> QED BY <1>1 DEF WalksEq

SweepsEq(w, N, sc, stmts) ==
    w = [n \in 0 .. N |-> IF n = 0 THEN [sc |-> sc, names |-> {}]
                          ELSE Walks(w[n - 1], stmts)[Len(stmts)]]

LEMMA SweepsExist ==
    ASSUME NEW sc, NEW stmts, NEW N \in Nat
    PROVE  \E w : SweepsEq(w, N, sc, stmts)
<1> DEFINE S == {n \in Nat : \E w : SweepsEq(w, n, sc, stmts)}
<1>1. 0 \in S
  <2>1. SweepsEq([n \in 0 .. 0 |-> [sc |-> sc, names |-> {}]], 0, sc, stmts)
    BY DEF SweepsEq
  <2> QED BY <2>1
<1>2. ASSUME NEW n \in Nat, n \in S PROVE n + 1 \in S
  <2>1. PICK w : SweepsEq(w, n, sc, stmts)
    BY <1>2
  <2> DEFINE last == Walks(w[n], stmts)[Len(stmts)]
             d == [m \in 0 .. n + 1 |-> IF m = n + 1 THEN last ELSE w[m]]
  <2>2. (\A m \in 0 .. n : d[m] = w[m]) /\ d[n + 1] = last /\ d = [m \in 0 .. n + 1 |-> d[m]]
    OBVIOUS
  <2> HIDE DEF d
  <2>3. ASSUME NEW m \in 0 .. n + 1
        PROVE  d[m] = IF m = 0 THEN [sc |-> sc, names |-> {}] ELSE Walks(d[m - 1], stmts)[Len(stmts)]
    <3>1. CASE m = n + 1
      <4>1. m # 0 /\ m - 1 = n /\ n \in 0 .. n
        BY <3>1
      <4> QED BY <2>2, <3>1, <4>1
    <3>2. CASE m # n + 1
      <4>1. m \in 0 .. n /\ (m # 0 => m - 1 \in 0 .. n)
        BY <3>2
      <4> QED BY <2>1, <2>2, <4>1 DEF SweepsEq
    <3> QED BY <3>1, <3>2
  <2>4. SweepsEq(d, n + 1, sc, stmts)
    BY <2>2, <2>3 DEF SweepsEq
  <2> QED BY <2>4
<1> HIDE DEF S
<1> QED BY <1>1, <1>2, SetInduction DEF S

LEMMA SweepsDef ==
    ASSUME NEW sc, NEW stmts, Len(stmts) \in Nat
    PROVE  /\ Sweeps(sc, stmts)[0] = [sc |-> sc, names |-> {}]
           /\ \A n \in 1 .. 3 * Len(stmts) :
                 Sweeps(sc, stmts)[n] = Walks(Sweeps(sc, stmts)[n - 1], stmts)[Len(stmts)]
<1> DEFINE N == 3 * Len(stmts)
<1>0. N \in Nat
  OBVIOUS
<1>1. SweepsEq(Sweeps(sc, stmts), N, sc, stmts)
  <2>1. Sweeps(sc, stmts) = CHOOSE w : SweepsEq(w, N, sc, stmts)
    BY DEF Sweeps, SweepsEq
  <2> QED BY <1>0, <2>1, SweepsExist
<1> HIDE DEF Sweeps, N
<1>2. \A n \in 1 .. N : n - 1 \in 0 .. N /\ n \in 0 .. N /\ n # 0
  BY <1>0
<1> DEFINE w == Sweeps(sc, stmts)
           first == [sc |-> sc, names |-> {}]
           Once(v) == Walks(v, stmts)[Len(stmts)]
<1>3. w = [n \in 0 .. N |-> IF n = 0 THEN first ELSE Once(w[n - 1])]
  BY <1>1 DEF SweepsEq
<1> HIDE DEF w, first, Once
<1>4. w[0] = first /\ \A n \in 1 .. N : w[n] = Once(w[n - 1])
  BY <1>0, <1>2, <1>3
<1> QED BY <1>4 DEF N, w, first, Once

(* A statement of a loop, as far as the sweep cares.                        *)
Swept(st) ==
    /\ st.k \in {"let", "set", "seti"} => st.v \in Names
    /\ st.k = "set" => st.v \in {"p", "r", "b", "g"}
    /\ st.k = "seti" => st.v = "s" /\ "t" \notin shape.names

(* The sweep only ever adds taints.                                         *)
Raised(t, u, x) ==
    /\ u.prov \in {"STACK", t.prov} /\ u.elem \in {"STACK", t.elem}
    /\ t.prov = "STACK" => u.prov = "STACK"
    /\ t.elem = "STACK" => u.elem = "STACK"
    /\ x \in {"s", "h"} => u.prov = t.prov

SweepOK(pt, sc) ==
    /\ pt = [sc |-> pt.sc, names |-> pt.names]
    /\ ScopeOK(pt.sc) /\ TagsOK(pt.sc) /\ SameNames(sc, pt.sc)
    /\ \A x \in Bound(sc) : Raised(Look(sc, x), Look(pt.sc, x), x)

Marks(pt) ==
    {<<1, x>> : x \in pt.names}
    \cup {<<2, x>> : x \in {x \in Bound(pt.sc) : Look(pt.sc, x).prov = "STACK"}}
    \cup {<<3, x>> : x \in {x \in Bound(pt.sc) : Look(pt.sc, x).elem = "STACK"}}

(* A walk over a statement changes nothing, or adds a mark to its name.     *)
LEMMA WalkEffect ==
    ASSUME NEW sc, ScopeOK(sc), Len(sc) = 1, NEW pt, SweepOK(pt, sc), NEW st, Swept(st)
    PROVE  LET d == pretaint_walk(pt, st)
           IN  /\ SweepOK(d, sc)
               /\ \/ d = pt
                  \/ \E m \in {1, 2, 3} \X {st.v} : m \notin Marks(pt) /\ Marks(d) = Marks(pt) \cup {m}
<1> DEFINE x == st.v
           d == pretaint_walk(pt, st)
<1>0. /\ ScopeOK(pt.sc) /\ TagsOK(pt.sc) /\ SameNames(sc, pt.sc) /\ Len(pt.sc) = 1
      /\ Bound(pt.sc) = DOMAIN pt.sc[1]
      /\ pt = [sc |-> pt.sc, names |-> pt.names]
      /\ \A y \in Bound(sc) : Raised(Look(sc, y), Look(pt.sc, y), y)
  BY ScopeFacts DEF SweepOK, SameNames
<1>1. CASE d = pt
  BY <1>1
<1>2. CASE d = [pt EXCEPT !.names = @ \cup {x}]
  <2>1. d = [sc |-> pt.sc, names |-> pt.names \cup {x}]
    BY <1>0, <1>2
  <2> HIDE DEF d
  <2>2. SweepOK(d, sc)
    BY <1>0, <2>1 DEF SweepOK
  <2>3. CASE x \in pt.names
    <3>1. pt.names \cup {x} = pt.names
      BY <2>3
    <3>2. d = pt
      BY <1>0, <2>1, <3>1
    <3> QED BY <2>2, <3>2 DEF d
  <2>4. CASE x \notin pt.names
    <3>1. <<1, x>> \notin Marks(pt)
      BY <2>4 DEF Marks
    <3>2. Marks(d) = Marks(pt) \cup {<<1, x>>}
      <4>1. d.sc = pt.sc /\ d.names = pt.names \cup {x}
        BY <2>1
      <4> QED BY <4>1 DEF Marks
    <3> QED BY <2>2, <3>1, <3>2 DEF d
  <2> QED BY <2>3, <2>4
<1>3. ASSUME NEW tags \in TagPair, x \in Bound(pt.sc), d = [pt EXCEPT !.sc = Retag(pt.sc, x, tags)],
             \/ tags.prov = "STACK" /\ tags.elem = Look(pt.sc, x).elem /\ x \notin {"s", "h"}
             \/ tags.elem = "STACK" /\ tags.prov = Look(pt.sc, x).prov /\ x = "s" /\ "t" \notin shape.names
      PROVE  /\ SweepOK(d, sc)
             /\ \/ d = pt
                \/ \E m \in {1, 2, 3} \X {x} : m \notin Marks(pt) /\ Marks(d) = Marks(pt) \cup {m}
  <2> DEFINE e == Retag(pt.sc, x, tags)
  <2>1. d = [sc |-> e, names |-> pt.names]
    BY <1>0, <1>3
  <2>2. /\ ScopeOK(e) /\ SameNames(pt.sc, e) /\ Look(e, x) = tags
        /\ \A y \in Bound(pt.sc) : y # x => Look(e, y) = Look(pt.sc, y)
    BY <1>0, <1>3, RetagEffect
  <2>3. d.sc = e /\ d.names = pt.names /\ Bound(e) = Bound(pt.sc)
    BY <2>1, <2>2 DEF SameNames
  <2>h. Look(pt.sc, x) = [prov |-> Look(pt.sc, x).prov, elem |-> Look(pt.sc, x).elem]
        /\ tags = [prov |-> tags.prov, elem |-> tags.elem]
    <3>1. Look(pt.sc, x) \in TagPair
      BY <1>0, <1>3, LookFacts
    <3> QED BY <3>1 DEF TagPair
  <2> DEFINE same == tags = Look(pt.sc, x)
  <2>4. same => e = pt.sc
    <3>1. SUFFICES ASSUME same PROVE e = pt.sc
      OBVIOUS
    <3>2. Look(pt.sc, x) = pt.sc[Level(pt.sc, x)][x].t
      BY DEF Look
    <3>3. /\ Level(pt.sc, x) \in DOMAIN pt.sc /\ x \in DOMAIN pt.sc[Level(pt.sc, x)]
          /\ pt.sc[Level(pt.sc, x)][x] \in Binding
          /\ pt.sc[Level(pt.sc, x)] \in [DOMAIN pt.sc[Level(pt.sc, x)] -> Binding]
          /\ pt.sc \in Seq(UNION {[ns -> Binding] : ns \in SUBSET Var})
      <4>1. Level(pt.sc, x) \in DOMAIN pt.sc /\ x \in DOMAIN pt.sc[Level(pt.sc, x)]
        BY <1>0, <1>3, LookFacts
      <4> QED BY <1>0, <4>1, ScopeFacts DEF ScopeOK
    <3>4. [pt.sc[Level(pt.sc, x)][x] EXCEPT !.t = tags] = pt.sc[Level(pt.sc, x)][x]
      BY <3>1, <3>2, <3>3 DEF Binding
    <3>5. [pt.sc[Level(pt.sc, x)] EXCEPT ![x] = pt.sc[Level(pt.sc, x)][x]] = pt.sc[Level(pt.sc, x)]
      BY <3>3
    <3>6. e = [pt.sc EXCEPT ![Level(pt.sc, x)] =
                 [pt.sc[Level(pt.sc, x)] EXCEPT ![x] = [pt.sc[Level(pt.sc, x)][x] EXCEPT !.t = tags]]]
      BY DEF Retag
    <3> HIDE DEF e
    <3> QED BY <3>3, <3>4, <3>5, <3>6
  <2> HIDE DEF e, d
  <2>5. TagsOK(e)
    BY <1>0, <1>3, <2>2, <2>3 DEF TagsOK
  <2>6. \A y \in Bound(sc) : Raised(Look(sc, y), Look(e, y), y)
    <3> SUFFICES ASSUME NEW y \in Bound(sc) PROVE Raised(Look(sc, y), Look(e, y), y)
      OBVIOUS
    <3>1. Raised(Look(sc, y), Look(pt.sc, y), y) /\ y \in Bound(pt.sc)
      BY <1>0 DEF SameNames
    <3>2. CASE y = x
      BY <1>3, <2>2, <3>1, <3>2 DEF Raised
    <3>3. CASE y # x
      BY <2>2, <3>1, <3>3
    <3> QED BY <3>2, <3>3
  <2>7. SweepOK(d, sc)
    <3>1. SameNames(sc, e)
      BY <1>0, <2>2 DEF SameNames
    <3> QED BY <2>1, <2>2, <2>3, <2>5, <2>6, <3>1 DEF SweepOK
  <2>8. CASE same
    <3>1. d = pt
      BY <1>0, <2>1, <2>4, <2>8
    <3> QED BY <2>7, <3>1
  <2>9. CASE ~same /\ tags.elem = Look(pt.sc, x).elem /\ tags.prov = "STACK"
    <3>1. Look(pt.sc, x).prov # "STACK"
      BY <2>9, <2>h
    <3>2. <<2, x>> \notin Marks(pt)
      BY <3>1 DEF Marks
    <3>3. Marks(d) = Marks(pt) \cup {<<2, x>>}
      BY <1>3, <2>2, <2>3, <2>9 DEF Marks
    <3> QED BY <2>7, <3>2, <3>3
  <2>10. CASE ~same /\ tags.prov = Look(pt.sc, x).prov /\ tags.elem = "STACK"
    <3>1. Look(pt.sc, x).elem # "STACK"
      BY <2>10, <2>h
    <3>2. <<3, x>> \notin Marks(pt)
      BY <3>1 DEF Marks
    <3>3. Marks(d) = Marks(pt) \cup {<<3, x>>}
      BY <1>3, <2>2, <2>3, <2>10 DEF Marks
    <3> QED BY <2>7, <3>2, <3>3
  <2> QED BY <1>3, <2>8, <2>9, <2>10
<1> QED
  <2>1. \/ d = pt
        \/ d = [pt EXCEPT !.names = @ \cup {x}]
        \/ st.k = "seti" /\ x \in DOMAIN pt.sc[1] /\ d = [pt EXCEPT !.sc[1][x].t.elem = "STACK"]
        \/ st.k = "set" /\ x \in DOMAIN pt.sc[1] /\ d = [pt EXCEPT !.sc[1][x].t.prov = "STACK"]
    BY DEF pretaint_walk
  <2> DEFINE t == Look(pt.sc, x)
  <2>2. x \in DOMAIN pt.sc[1] => /\ t = pt.sc[1][x].t /\ t \in TagPair /\ x \in Bound(pt.sc) /\ Level(pt.sc, x) = 1
                                 /\ t = [prov |-> t.prov, elem |-> t.elem]
    <3>1. ASSUME x \in DOMAIN pt.sc[1]
          PROVE  t = pt.sc[1][x].t /\ t \in TagPair /\ x \in Bound(pt.sc) /\ Level(pt.sc, x) = 1
      BY <1>0, <3>1, LookFacts DEF Level, Look
    <3> QED BY <3>1 DEF TagPair
  <2> HIDE DEF d, t
  <2>3. CASE st.k = "seti" /\ x \in DOMAIN pt.sc[1] /\ d = [pt EXCEPT !.sc[1][x].t.elem = "STACK"]
    <3>1. [prov |-> t.prov, elem |-> "STACK"] \in TagPair
      BY <2>2, <2>3 DEF TagPair, Prov
    <3>2. [pt.sc[1][x].t EXCEPT !.elem = "STACK"] = [prov |-> t.prov, elem |-> "STACK"]
      BY <2>2, <2>3
    <3>3. d = [pt EXCEPT !.sc = Retag(pt.sc, x, [prov |-> t.prov, elem |-> "STACK"])]
      BY <2>2, <2>3, <3>2 DEF Retag
    <3> QED BY <1>3, <2>2, <2>3, <3>1, <3>3 DEF d, t, Swept
  <2>4. CASE st.k = "set" /\ x \in DOMAIN pt.sc[1] /\ d = [pt EXCEPT !.sc[1][x].t.prov = "STACK"]
    <3>1. [prov |-> "STACK", elem |-> t.elem] \in TagPair
      BY <2>2, <2>4 DEF TagPair, Prov
    <3>2. [pt.sc[1][x].t EXCEPT !.prov = "STACK"] = [prov |-> "STACK", elem |-> t.elem]
      BY <2>2, <2>4
    <3>3. d = [pt EXCEPT !.sc = Retag(pt.sc, x, [prov |-> "STACK", elem |-> t.elem])]
      BY <2>2, <2>4, <3>2 DEF Retag
    <3> QED BY <1>3, <2>2, <2>4, <3>1, <3>3 DEF d, t, Swept
  <2> QED BY <1>1, <1>2, <2>1, <2>3, <2>4 DEF d

Still(pt, stmts) == \A n \in 1 .. Len(stmts) : pretaint_walk(pt, stmts[n]) = pt

Markable(stmts) == (1 .. 3) \X {stmts[m].v : m \in 1 .. Len(stmts)}

(* A sweep that is not still adds a mark.                                    *)
LEMMA SweepGrows ==
    ASSUME NEW sc, ScopeOK(sc), Len(sc) = 1, NEW pt, SweepOK(pt, sc), NEW stmts, Len(stmts) \in Nat,
           \A n \in 1 .. Len(stmts) : Swept(stmts[n])
    PROVE  LET d == Walks(pt, stmts)[Len(stmts)]
           IN  /\ SweepOK(d, sc)
               /\ Marks(d) \subseteq Marks(pt) \cup Markable(stmts)
               /\ \/ Still(pt, stmts) /\ d = pt
                  \/ Marks(pt) \subseteq Marks(d) /\ Marks(pt) # Marks(d)
<1> DEFINE w == Walks(pt, stmts)
           Changed(n) == Marks(pt) \subseteq Marks(w[n]) /\ Marks(pt) # Marks(w[n])
           S == {n \in 0 .. Len(stmts) :
                   /\ SweepOK(w[n], sc)
                   /\ Marks(w[n]) \subseteq Marks(pt) \cup Markable(stmts)
                   /\ (\A m \in 0 .. n : w[m] = pt) \/ Changed(n)}
<1>1. 0 \in S
  <2>1. w[0] = pt /\ \A m \in 0 .. 0 : w[m] = pt
    BY WalksDef
  <2> QED BY <2>1
<1>2. ASSUME NEW n \in 1 .. Len(stmts), n - 1 \in S PROVE n \in S
  <2>1. w[n] = pretaint_walk(w[n - 1], stmts[n])
    BY WalksDef
  <2>2. SweepOK(w[n - 1], sc)
    BY <1>2
  <2>3. /\ SweepOK(w[n], sc)
        /\ \/ w[n] = w[n - 1]
           \/ \E m \in {1, 2, 3} \X {stmts[n].v} :
                 m \notin Marks(w[n - 1]) /\ Marks(w[n]) = Marks(w[n - 1]) \cup {m}
    BY <2>1, <2>2, WalkEffect
  <2>4. {1, 2, 3} \X {stmts[n].v} \subseteq Markable(stmts)
    BY DEF Markable
  <2>5. Marks(w[n]) \subseteq Marks(pt) \cup Markable(stmts)
    BY <1>2, <2>3, <2>4
  <2>6. (\A m \in 0 .. n : w[m] = pt) \/ Changed(n)
    <3>1. CASE Changed(n - 1)
      BY <2>3, <3>1
    <3>2. CASE \A m \in 0 .. n - 1 : w[m] = pt
      <4>1. w[n - 1] = pt
        BY <3>2
      <4>2. CASE w[n] = w[n - 1]
        <5>1. \A m \in 0 .. n : m \in 0 .. n - 1 \/ m = n
          OBVIOUS
        <5> QED BY <3>2, <4>1, <4>2, <5>1
      <4>3. CASE w[n] # w[n - 1]
        BY <2>3, <4>1, <4>3
      <4> QED BY <4>2, <4>3
    <3> QED BY <1>2, <3>1, <3>2
  <2> QED BY <2>3, <2>5, <2>6
<1> HIDE DEF S
<1>3. Len(stmts) \in S
  <2>1. \A n \in 0 .. Len(stmts) : n \in S
    BY <1>1, <1>2, UpToInduction
  <2> QED BY <2>1
<1>4. ASSUME \A m \in 0 .. Len(stmts) : w[m] = pt PROVE Still(pt, stmts) /\ w[Len(stmts)] = pt
  <2>1. ASSUME NEW n \in 1 .. Len(stmts) PROVE pretaint_walk(pt, stmts[n]) = pt
    <3>1. w[n] = pretaint_walk(w[n - 1], stmts[n]) /\ n \in 0 .. Len(stmts) /\ n - 1 \in 0 .. Len(stmts)
      BY WalksDef
    <3> QED BY <1>4, <3>1
  <2> QED BY <1>4, <2>1 DEF Still
<1> QED BY <1>3, <1>4 DEF S

LEMMA MarkableCounted ==
    ASSUME NEW stmts, Len(stmts) \in Nat
    PROVE  IsFiniteSet(Markable(stmts)) /\ Cardinality(Markable(stmts)) \in Nat
           /\ Cardinality(Markable(stmts)) <= 3 * Len(stmts)
<1> DEFINE V == {stmts[m].v : m \in 1 .. Len(stmts)}
           f == [m \in 1 .. Len(stmts) |-> stmts[m].v]
<1>1. f \in Surjection(1 .. Len(stmts), V)
  BY DEF Surjection
<1>2. ExistsSurjection(1 .. Len(stmts), V)
  BY <1>1 DEF ExistsSurjection
<1>3. IsFiniteSet(1 .. Len(stmts))
  BY FS_Interval
<1> HIDE DEF V
<1>4. IsFiniteSet(V)
  BY <1>1, <1>3, FS_Surjection
<1>5. Cardinality(V) <= Len(stmts) /\ Cardinality(V) \in Nat
  BY <1>2, <1>4, FS_SurjCardinalityBound, FS_CardinalityType
<1>6. IsFiniteSet(1 .. 3) /\ Cardinality(1 .. 3) = 3
  <2>1. 1 \in Int /\ 3 \in Int /\ ~(1 > 3) /\ 3 - 1 + 1 = 3
    OBVIOUS
  <2> QED BY <2>1, FS_Interval
<1>7. IsFiniteSet((1 .. 3) \X V) /\ Cardinality((1 .. 3) \X V) = Cardinality(1 .. 3) * Cardinality(V)
  BY <1>4, <1>6, FS_Product
<1>8. IsFiniteSet((1 .. 3) \X V) /\ Cardinality((1 .. 3) \X V) = 3 * Cardinality(V)
  BY <1>6, <1>7
<1>9. Markable(stmts) = (1 .. 3) \X V
  BY DEF Markable, V
<1> QED BY <1>5, <1>8, <1>9

(* As many sweeps as there can be marks reach the end of it.                 *)
LEMMA SweepsReachTheEnd ==
    ASSUME NEW sc, ScopeOK(sc), TagsOK(sc), Len(sc) = 1, NEW stmts, Len(stmts) \in Nat,
           \A n \in 1 .. Len(stmts) : Swept(stmts[n])
    PROVE  LET pt == Sweeps(sc, stmts)[3 * Len(stmts)]
           IN  SweepOK(pt, sc) /\ Still(pt, stmts)
<1> DEFINE w == Sweeps(sc, stmts)
           N == 3 * Len(stmts)
           R == Markable(stmts)
           Added(n) == Marks(w[n]) \ Marks(w[0])
           S == {n \in 0 .. N : /\ SweepOK(w[n], sc)
                                /\ Marks(w[0]) \subseteq Marks(w[n])
                                /\ Added(n) \subseteq R
                                /\ Still(w[n], stmts) \/ Cardinality(Added(n)) >= n}
<1>0. /\ N \in Nat /\ w[0] = [sc |-> sc, names |-> {}]
      /\ \A n \in 1 .. N : w[n] = Walks(w[n - 1], stmts)[Len(stmts)]
  BY SweepsDef
<1>1. IsFiniteSet(R) /\ Cardinality(R) \in Nat /\ Cardinality(R) <= N
  BY MarkableCounted
<1>2. \A n \in 0 .. N : Added(n) \subseteq R => IsFiniteSet(Added(n)) /\ Cardinality(Added(n)) \in Nat
                                                /\ Cardinality(Added(n)) <= Cardinality(R)
                                                /\ (Cardinality(R) = Cardinality(Added(n)) => R = Added(n))
  BY <1>1, FS_Subset, FS_CardinalityType
<1> HIDE DEF w, N, R
<1>3. 0 \in S
  <2>1. SweepOK(w[0], sc)
    <3>1. w[0].sc = sc /\ w[0] = [sc |-> w[0].sc, names |-> w[0].names]
      BY <1>0
    <3> QED BY <3>1 DEF SweepOK, SameNames, Raised
  <2>2. Added(0) = {}
    OBVIOUS
  <2>3. Cardinality(Added(0)) >= 0
    <3>1. 0 \in 0 .. N /\ Added(0) \subseteq R
      BY <1>0, <2>2
    <3>2. Cardinality(Added(0)) \in Nat
      BY <1>2, <3>1
    <3> HIDE DEF Added
    <3> QED BY <3>2
  <2>4. 0 \in 0 .. N /\ Added(0) \subseteq R
    BY <1>0, <2>2
  <2> HIDE DEF Added
  <2> QED BY <2>1, <2>3, <2>4
<1>4. ASSUME NEW n \in 1 .. N, n - 1 \in S PROVE n \in S
  <2>0. n \in 0 .. N /\ n - 1 \in 0 .. N
    BY <1>0
  <2>1. w[n] = Walks(w[n - 1], stmts)[Len(stmts)] /\ SweepOK(w[n - 1], sc)
    BY <1>0, <1>4
  <2>2. /\ SweepOK(w[n], sc)
        /\ Marks(w[n]) \subseteq Marks(w[n - 1]) \cup R
        /\ \/ Still(w[n - 1], stmts) /\ w[n] = w[n - 1]
           \/ Marks(w[n - 1]) \subseteq Marks(w[n]) /\ Marks(w[n - 1]) # Marks(w[n])
    BY <2>1, SweepGrows DEF R
  <2>3. Marks(w[0]) \subseteq Marks(w[n]) /\ Added(n) \subseteq R
    BY <1>4, <2>2
  <2>4. CASE Still(w[n - 1], stmts) /\ w[n] = w[n - 1]
    BY <2>0, <2>2, <2>3, <2>4
  <2>5. CASE /\ Cardinality(Added(n - 1)) >= n - 1
             /\ Marks(w[n - 1]) \subseteq Marks(w[n]) /\ Marks(w[n - 1]) # Marks(w[n])
    <3>1. Added(n - 1) \subseteq Added(n) /\ Added(n - 1) # Added(n)
      BY <1>4, <2>5
    <3>2. /\ IsFiniteSet(Added(n)) /\ Cardinality(Added(n)) \in Nat /\ Cardinality(Added(n - 1)) \in Nat
      BY <1>2, <1>4, <2>0, <2>3
    <3>3. Cardinality(Added(n - 1)) <= Cardinality(Added(n)) /\ Cardinality(Added(n - 1)) # Cardinality(Added(n))
      BY <3>1, <3>2, FS_Subset
    <3>4. Cardinality(Added(n)) >= n
      <4> DEFINE k == Cardinality(Added(n - 1))
                 l == Cardinality(Added(n))
      <4>1. k \in Nat /\ l \in Nat /\ k >= n - 1 /\ k <= l /\ k # l
        BY <2>5, <3>2, <3>3
      <4> HIDE DEF k, l
      <4>2. l >= n
        BY <4>1
      <4> QED BY <4>2 DEF l
    <3> QED BY <2>0, <2>2, <2>3, <3>4
  <2>6. CASE Still(w[n - 1], stmts) /\ w[n] # w[n - 1]
    <3>1. \A m \in 0 .. Len(stmts) : Walks(w[n - 1], stmts)[m] = w[n - 1]
      <4> DEFINE T == {m \in 0 .. Len(stmts) : Walks(w[n - 1], stmts)[m] = w[n - 1]}
      <4>1. 0 \in T
        BY WalksDef
      <4>2. ASSUME NEW m \in 1 .. Len(stmts), m - 1 \in T PROVE m \in T
        <5>1. Walks(w[n - 1], stmts)[m] = pretaint_walk(Walks(w[n - 1], stmts)[m - 1], stmts[m])
          BY WalksDef
        <5> QED BY <2>6, <4>2, <5>1 DEF Still
      <4> HIDE DEF T
      <4>3. \A m \in 0 .. Len(stmts) : m \in T
        BY <4>1, <4>2, UpToInduction
      <4> QED BY <4>3 DEF T
    <3>2. w[n] = w[n - 1]
      BY <2>1, <3>1
    <3> QED BY <2>6, <3>2
  <2> QED BY <1>4, <2>2, <2>4, <2>5, <2>6
<1>5. N \in S
  <2> HIDE DEF S
  <2>1. \A n \in 0 .. N : n \in S
    BY <1>0, <1>3, <1>4, UpToInduction
  <2> QED BY <1>0, <2>1
<1>6. Still(w[N], stmts)
  <2>1. SUFFICES ASSUME ~Still(w[N], stmts) PROVE FALSE
    OBVIOUS
  <2>2. Added(N) \subseteq R /\ N \in 0 .. N /\ SweepOK(w[N], sc)
    BY <1>0, <1>5
  <2>3. Cardinality(Added(N)) = Cardinality(R)
    <3> DEFINE k == Cardinality(Added(N))
               l == Cardinality(R)
    <3>1. k >= N
      BY <1>5, <2>1
    <3>2. k \in Nat /\ k <= l /\ l \in Nat /\ l <= N
      BY <1>1, <1>2, <2>2
    <3> HIDE DEF k, l
    <3>3. k = l
      BY <1>0, <3>1, <3>2
    <3> QED BY <3>3 DEF k, l
  <2>4. R = Added(N)
    BY <1>2, <2>2, <2>3
  <2> DEFINE d == Walks(w[N], stmts)[Len(stmts)]
  <2>5. /\ Marks(d) \subseteq Marks(w[N]) \cup R
        /\ Marks(w[N]) \subseteq Marks(d) /\ Marks(w[N]) # Marks(d)
    BY <2>1, <2>2, SweepGrows DEF R
  <2> QED BY <2>4, <2>5
<1> QED BY <1>5, <1>6 DEF w, N

-----------------------------------------------------------------------------
(* The check of a loop body, with its own scope.                             *)

(* The names bound after n statements, and what each statement may be.       *)
After(names, stmts, n) == names \cup {stmts[m].v : m \in {m \in 1 .. n : stmts[m].k = "let"}}

LoopOK(names, stmts) ==
    \A n \in 1 .. Len(stmts) : StIs(After(names, stmts, n - 1), TRUE, stmts[n])

RunAt(v, names, stmts, n) ==
    /\ v.ok
    /\ ScopeOK(v.sc) /\ TagsOK(v.sc) /\ Len(v.sc) = 2
    /\ DOMAIN v.sc[1] = names /\ Bound(v.sc) = After(names, stmts, n)

LEMMA AfterStep ==
    ASSUME NEW names, NEW stmts, NEW n \in Nat \ {0}
    PROVE  After(names, stmts, n) =
               IF stmts[n].k = "let" THEN After(names, stmts, n - 1) \cup {stmts[n].v}
               ELSE After(names, stmts, n - 1)
<1>1. \A m : m \in 1 .. n <=> m \in 1 .. n - 1 \/ m = n
  OBVIOUS
<1> QED BY <1>1 DEF After

LEMMA RunStep ==
    ASSUME Features = {}, NEW names, NEW stmts, Len(stmts) \in Nat, LoopOK(names, stmts),
           NEW n \in 1 .. Len(stmts), NEW v, RunAt(v, names, stmts, n - 1), Check(stmts[n], v.sc).ok
    PROVE  /\ StIs(Bound(v.sc), TRUE, stmts[n])
           /\ RunAt(Verdict(v.ok /\ Check(stmts[n], v.sc).ok, Check(stmts[n], v.sc).sc), names, stmts, n)
<1> DEFINE st == stmts[n]
           d == Check(st, v.sc).sc
<1>1. StIs(Bound(v.sc), TRUE, st)
  BY DEF LoopOK, RunAt
<1>2. ScopeOK(d) /\ Effect(st, v.sc, d) /\ TagsOK(d)
  BY <1>1, CheckEffect DEF RunAt
<1>3. DOMAIN v.sc = {1, 2}
  BY ScopeFacts DEF RunAt
<1> HIDE DEF d, st
<1>4. Len(d) = 2 /\ DOMAIN d[1] = names
  BY <1>2, <1>3 DEF Effect, RunAt
<1>5. Bound(d) = IF st.k = "let" THEN Bound(v.sc) \cup {st.v} ELSE Bound(v.sc)
  <2>1. CASE st.k = "let"
    BY <1>2, <2>1 DEF Effect, Retags
  <2>2. CASE Retags(st) /\ st.k # "let"
    <3>1. st.v \in Bound(v.sc)
      BY <1>1, <2>2 DEF Retags, StIs
    <3> QED BY <1>2, <2>2, <3>1 DEF Effect
  <2>3. CASE ~Retags(st)
    BY <1>2, <2>3 DEF Effect, Retags
  <2> QED BY <2>1, <2>2, <2>3
<1>6. Bound(d) = After(names, stmts, n)
  BY <1>5, AfterStep DEF RunAt, st
<1>7. RunAt(Verdict(v.ok /\ Check(st, v.sc).ok, d), names, stmts, n)
  <2>1. v.ok /\ Check(st, v.sc).ok
    BY DEF RunAt, st
  <2>2. Verdict(v.ok /\ Check(st, v.sc).ok, d).ok /\ Verdict(v.ok /\ Check(st, v.sc).ok, d).sc = d
    BY <2>1 DEF Verdict
  <2> QED BY <1>2, <1>4, <1>6, <2>2 DEF RunAt
<1> QED BY <1>1, <1>7 DEF d, st

LEMMA AppendToOne ==
    ASSUME NEW S, NEW s \in Seq(S), Len(s) = 1, NEW x \in S
    PROVE  Append(s, x) = <<s[1], x>>
<1> DEFINE both == Append(s, x)
<1>1. both \in Seq(S)
  OBVIOUS
<1>2. Len(both) = 2 /\ both[2] = x
  <2>1. ASSUME NEW T, NEW r \in Seq(T), NEW y \in T
        PROVE  Len(Append(r, y)) = Len(r) + 1 /\ Append(r, y)[Len(r) + 1] = y
    OBVIOUS
  <2>2. Len(both) = Len(s) + 1 /\ both[Len(s) + 1] = x
    BY <2>1
  <2> HIDE DEF both
  <2> QED BY <2>2
<1>3. both[1] = s[1]
  OBVIOUS
<1> HIDE DEF both
<1>5. both = <<s[1], x>>
  BY <1>1, <1>2, <1>3
<1> QED BY <1>5 DEF both

(* One level, and the same with an empty one for the body.                  *)
LEMMA Nested ==
    ASSUME NEW sc, ScopeOK(sc), TagsOK(sc), Len(sc) = 1
    PROVE  /\ sc = <<sc[1]>> /\ Append(sc, <<>>) = <<sc[1], <<>>>>
           /\ ScopeOK(<<sc[1], <<>>>>) /\ TagsOK(<<sc[1], <<>>>>)
           /\ Bound(<<sc[1], <<>>>>) = Bound(sc) /\ Bound(sc) = DOMAIN sc[1]
           /\ \A x \in Bound(sc) : Look(<<sc[1], <<>>>>, x) = Look(sc, x) /\ Look(sc, x) = sc[1][x].t
<1> DEFINE d == <<sc[1], <<>>>>
           Levels == UNION {[ns -> Binding] : ns \in SUBSET Var}
<1>1. sc \in Seq(Levels) /\ DOMAIN sc = {1} /\ Bound(sc) = DOMAIN sc[1] /\ sc[1] \in Levels
  <2>1. sc \in Seq(Levels)
    BY DEF ScopeOK
  <2>2. DOMAIN sc = {1} /\ Bound(sc) = DOMAIN sc[1]
    BY ScopeFacts
  <2> HIDE DEF Levels
  <2> QED BY <2>1, <2>2
<1>2. <<>> \in Levels /\ DOMAIN <<>> = {}
  <2>1. <<>> = [x \in {} |-> <<>>] /\ DOMAIN <<>> = {}
    OBVIOUS
  <2>2. [x \in {} |-> <<>>] \in [{} -> Binding]
    OBVIOUS
  <2>3. {} \in SUBSET Var
    OBVIOUS
  <2> QED BY <2>1, <2>2, <2>3
<1> HIDE DEF Levels
<1>3. sc = <<sc[1]>> /\ Append(sc, <<>>) = d
  <2>1. sc = <<sc[1]>>
    BY <1>1
  <2>2. Append(sc, <<>>) = d
    BY <1>1, <1>2, AppendToOne DEF d
  <2> QED BY <2>1, <2>2
<1>4. d \in Seq(Levels) /\ Len(d) = 2 /\ DOMAIN d = {1, 2} /\ d[1] = sc[1] /\ d[2] = <<>>
  BY <1>1, <1>2
<1> HIDE DEF d
<1>5. Bound(d) = Bound(sc)
  BY <1>1, <1>2, <1>4 DEF Bound
<1>6. \A x \in Bound(sc) : Look(d, x) = Look(sc, x) /\ Look(sc, x) = sc[1][x].t
  BY <1>1, <1>4 DEF Look, Level
<1>7. ScopeOK(d)
  BY <1>1, <1>2, <1>4, <1>5 DEF ScopeOK, Levels
<1>8. TagsOK(d)
  BY <1>5, <1>6 DEF TagsOK
<1> QED BY <1>1, <1>3, <1>5, <1>6, <1>7, <1>8 DEF d

(* The bindings of the function, taken out of a loop.                       *)
LEMMA OuterLevel ==
    ASSUME NEW sc, ScopeOK(sc), TagsOK(sc)
    PROVE  /\ ScopeOK(<<sc[1]>>) /\ TagsOK(<<sc[1]>>) /\ Bound(<<sc[1]>>) = DOMAIN sc[1]
           /\ DOMAIN sc[1] \subseteq Bound(sc)
           /\ \A x \in DOMAIN sc[1] : Look(<<sc[1]>>, x) = Look(sc, x) /\ Look(sc, x) = sc[1][x].t
<1> DEFINE d == <<sc[1]>>
           Levels == UNION {[ns -> Binding] : ns \in SUBSET Var}
<1>1. 1 \in DOMAIN sc /\ sc[1] \in Levels
  <2>1. sc \in Seq(Levels) /\ 1 \in DOMAIN sc
    BY ScopeFacts DEF ScopeOK
  <2> HIDE DEF Levels
  <2> QED BY <2>1
<1> HIDE DEF Levels
<1>2. d \in Seq(Levels) /\ Len(d) = 1 /\ DOMAIN d = {1} /\ d[1] = sc[1]
  BY <1>1
<1> HIDE DEF d
<1>3. Bound(d) = DOMAIN sc[1] /\ DOMAIN sc[1] \subseteq Bound(sc)
  BY <1>1, <1>2 DEF Bound
<1>4. \A x \in DOMAIN sc[1] : Look(d, x) = Look(sc, x) /\ Look(sc, x) = sc[1][x].t
  BY <1>2 DEF Look, Level
<1>5. ScopeOK(d)
  BY <1>1, <1>2, <1>3 DEF ScopeOK, Levels
<1>6. TagsOK(d)
  BY <1>3, <1>4 DEF TagsOK
<1> QED BY <1>3, <1>4, <1>5, <1>6 DEF d

(* While a body is checked, what is on the stack was foreseen by the sweep.  *)
Foreseen(x, u, pt) ==
    /\ x \in Bound(pt.sc) => /\ TagsBelow(x, u, Look(pt.sc, x))
                             /\ Look(pt.sc, x).prov = "STACK" => u.prov = "STACK"
                             /\ Look(pt.sc, x).elem = "STACK" => u.elem = "STACK"
    /\ x \notin Bound(pt.sc) => /\ u.prov = "STACK" => x \in pt.names
                                /\ x \in Slices /\ u.elem = "STACK" => x \in pt.names

Link(sc, pt) == \A x \in Bound(sc) : Foreseen(x, Look(sc, x), pt)

LEMMA OuterIs ==
    ASSUME NEW sc, NEW pt, ScopeOK(sc), Len(sc) = 1, SweepOK(pt, sc), NEW x
    PROVE  /\ x \in DOMAIN pt.sc[1] <=> x \in Bound(pt.sc)
           /\ Outer(pt, x) = IF x \in Bound(pt.sc) THEN Look(pt.sc, x) ELSE Unknown
<1>1. ScopeOK(pt.sc) /\ Len(pt.sc) = 1
  BY DEF SweepOK, SameNames
<1>2. Bound(pt.sc) = DOMAIN pt.sc[1]
  BY <1>1, ScopeFacts
<1> QED BY <1>2 DEF Outer, Look, Level

LEMMA LinkAtom ==
    ASSUME NEW base, NEW pt, ScopeOK(base), Len(base) = 1, SweepOK(pt, base), NEW sc, ScopeOK(sc), Link(sc, pt),
           NEW o, AtomIs(Bound(sc), o) \/ (o.k = "name" /\ o.v \in Bound(sc)),
           AtomTags(o, sc).prov = "STACK"
    PROVE  AtomMayYield(pt, o)
<1>0. Outer(pt, o.v) = IF o.v \in Bound(pt.sc) THEN Look(pt.sc, o.v) ELSE Unknown
  BY OuterIs
<1>1. CASE o.k \in {"addr", "static", "addrin"}
  BY <1>1 DEF AtomMayYield
<1>2. CASE o.k \in {"name", "field"} /\ o.v \in Bound(sc)
  <2>1. Look(sc, o.v).prov = "STACK"
    BY <1>2 DEF AtomTags
  <2>2. Foreseen(o.v, Look(sc, o.v), pt)
    BY <1>2 DEF Link
  <2>3. o.v \in pt.names \/ Outer(pt, o.v).prov = "STACK"
    BY <1>0, <2>1, <2>2 DEF Foreseen, TagsBelow, Below
  <2> QED BY <1>2, <2>3 DEF AtomMayYield
<1>3. CASE o.k = "elem" /\ o.v \in Slices \cap Bound(sc)
  <2>1. Look(sc, o.v).elem = "STACK" /\ o.v # "d"
    BY <1>3 DEF AtomTags, check_index, Tags, Slices
  <2>2. Foreseen(o.v, Look(sc, o.v), pt)
    BY <1>3 DEF Link
  <2>3. o.v \in pt.names \/ Outer(pt, o.v).elem = "STACK"
    BY <1>0, <1>3, <2>1, <2>2 DEF Foreseen, TagsBelow, Below
  <2> QED BY <1>3, <2>1, <2>3 DEF AtomMayYield
<1> QED BY <1>1, <1>2, <1>3 DEF AtomIs

LEMMA LinkExpr ==
    ASSUME NEW base, NEW pt, ScopeOK(base), Len(base) = 1, SweepOK(pt, base),
           NEW sc, ScopeOK(sc), TagsOK(sc), Link(sc, pt),
           NEW e, (\E x \in Names : InitIs(Bound(sc), x, e)) \/ (e.k = "value" /\ AtomIs(Bound(sc), e.of)),
           ExprTags(e, sc).prov = "STACK"
    PROVE  expr_may_yield_stack(pt, e)
<1>1. CASE e.k \in {"slice", "empty", "fun"}
  BY <1>1 DEF expr_may_yield_stack
<1>2. CASE e.k \in {"copy", "copyof", "newbox", "newfun"}
  BY <1>2 DEF ExprTags, check_alloc_value, Tags
<1>3. CASE e.k = "join" /\ e.of.k = "addr"
  BY <1>3 DEF expr_may_yield_stack, AtomMayYield
<1>4. CASE e.k \in {"value", "box"} /\ (AtomIs(Bound(sc), e.of) \/ (e.of.k = "name" /\ e.of.v \in Bound(sc)))
  <2>1. ~(e.of.k = "name" /\ e.of.v = NoName)
    BY <1>4, AtomTagsOK, NameTagsOK
  <2>2. AtomTags(e.of, sc).prov = "STACK"
    BY <1>4, <2>1 DEF ExprTags, check_struct_lit, field_init_prov, Tags, StackOrUnknown
  <2>3. AtomMayYield(pt, e.of)
    BY <1>4, <2>2, LinkAtom
  <2> QED BY <1>4, <2>3 DEF expr_may_yield_stack
<1> QED BY <1>1, <1>2, <1>3, <1>4 DEF InitIs, Given

(* The sweep has nothing left to add, so what a statement taints has marks.  *)
LEMMA StillMarks ==
    ASSUME NEW base, NEW pt, ScopeOK(base), Len(base) = 1, SweepOK(pt, base),
           NEW st, pretaint_walk(pt, st) = pt, st.k \in {"let", "set", "seti"}, st.k = "set" => st.v \in Mutable,
           expr_may_yield_stack(pt, st.e)
    PROVE  /\ st.k = "let" \/ st.v \notin Bound(pt.sc) => st.v \in pt.names
           /\ st.k = "set" /\ st.v \in Bound(pt.sc) => Look(pt.sc, st.v).prov = "STACK"
           /\ st.k = "seti" /\ st.v \in Bound(pt.sc) => Look(pt.sc, st.v).elem = "STACK"
<1> DEFINE x == st.v
<1>0. /\ pt = [sc |-> pt.sc, names |-> pt.names] /\ ScopeOK(pt.sc) /\ Len(pt.sc) = 1
      /\ x \in DOMAIN pt.sc[1] <=> x \in Bound(pt.sc)
  BY OuterIs DEF SweepOK, SameNames
<1>1. CASE st.k = "let" \/ x \notin Bound(pt.sc)
  <2>1. pt = [pt EXCEPT !.names = @ \cup {x}]
    BY <1>0, <1>1 DEF pretaint_walk
  <2>2. pt = [sc |-> pt.sc, names |-> pt.names \cup {x}]
    BY <1>0, <2>1
  <2>3. pt.names = pt.names \cup {x}
    BY <2>2
  <2>4. x \in pt.names
    BY <2>3
  <2>5. st.k = "let" => x \in pt.names
    BY <2>4
  <2> QED BY <1>1, <2>4
<1>2. CASE st.k # "let" /\ x \in Bound(pt.sc)
  <2>1. /\ 1 \in DOMAIN pt.sc /\ x \in DOMAIN pt.sc[1] /\ pt.sc[1][x] \in Binding /\ pt.sc[1][x].t \in TagPair
        /\ Look(pt.sc, x) = pt.sc[1][x].t /\ pt.sc[1][x].mut = (x \in Mutable)
    <3>1. 1 \in DOMAIN pt.sc /\ x \in DOMAIN pt.sc[1]
      BY <1>0, <1>2, ScopeFacts
    <3>2. pt.sc[1][x] \in Binding
      BY <1>0, <3>1, ScopeFacts
    <3> QED BY <1>0, <3>1, <3>2 DEF Binding, Look, Level, ScopeOK
  <2>2. CASE st.k = "seti"
    <3>1. pt = [pt EXCEPT !.sc[1][x].t.elem = "STACK"]
      BY <1>2, <2>1, <2>2 DEF pretaint_walk
    <3>2. [pt EXCEPT !.sc[1][x].t.elem = "STACK"].sc[1][x].t.elem = "STACK"
      BY <1>0, <2>1 DEF Binding, TagPair
    <3> QED BY <1>2, <2>1, <2>2, <3>1, <3>2
  <2>3. CASE st.k = "set"
    <3>1. pt = [pt EXCEPT !.sc[1][x].t.prov = "STACK"]
      BY <1>2, <2>1, <2>3 DEF pretaint_walk
    <3>2. [pt EXCEPT !.sc[1][x].t.prov = "STACK"].sc[1][x].t.prov = "STACK"
      BY <1>0, <2>1 DEF Binding, TagPair
    <3> QED BY <1>2, <2>1, <2>3, <3>1, <3>2
  <2> QED BY <1>2, <2>2, <2>3
<1> QED BY <1>1, <1>2

LEMMA LinkStep ==
    ASSUME Features = {}, NEW base, NEW pt, ScopeOK(base), Len(base) = 1, SweepOK(pt, base),
           NEW sc, ScopeOK(sc), TagsOK(sc), Link(sc, pt), DOMAIN sc[1] = Bound(pt.sc),
           NEW st, pretaint_walk(pt, st) = pt, StIs(Bound(sc), TRUE, st), Check(st, sc).ok
    PROVE  Link(Check(st, sc).sc, pt)
<1> DEFINE x == st.v
           d == Check(st, sc).sc
           tg == ExprTags(st.e, sc)
           t == Look(sc, x)
           p == Look(pt.sc, x)
<1>1. /\ Effect(st, sc, d) /\ ~CopiesStack(st.e, sc) /\ (Retags(st) => NewTags(st, sc) \in TagPair)
  BY CheckEffect
<1>2. Bound(pt.sc) \subseteq Bound(sc) /\ ScopeOK(pt.sc) /\ Bound(sc) \subseteq Names
  BY OuterLevel DEF SweepOK, ScopeOK
<1>3. \A y \in Bound(sc) : Foreseen(y, Look(sc, y), pt)
  BY DEF Link
<1>4. x \in Bound(pt.sc) => p \in TagPair
  BY <1>2, LookFacts
<1>5. st.k = "set" => x \in Mutable
  BY DEF StIs, Mutable
<1>6. tg.prov = "STACK" /\ st.k \in {"let", "set", "seti"} => expr_may_yield_stack(pt, st.e)
  <2>1. st.k \in {"let", "set"} => \E y \in Names : InitIs(Bound(sc), y, st.e)
    BY <1>2 DEF StIs
  <2>2. st.k = "seti" => st.e.k = "value" /\ AtomIs(Bound(sc), st.e.of)
    BY DEF StIs
  <2> QED BY <2>1, <2>2, LinkExpr
<1>7. tg.prov = "STACK" /\ st.k \in {"let", "set", "seti"} =>
           /\ st.k = "let" \/ x \notin Bound(pt.sc) => x \in pt.names
           /\ st.k = "set" /\ x \in Bound(pt.sc) => p.prov = "STACK"
           /\ st.k = "seti" /\ x \in Bound(pt.sc) => p.elem = "STACK"
  BY <1>5, <1>6, StillMarks
<1> HIDE DEF d, tg, p, t
<1>8. CASE ~Retags(st)
  BY <1>1, <1>8 DEF Effect, d
<1>9. ASSUME Retags(st), Foreseen(x, NewTags(st, sc), pt) PROVE Link(d, pt)
  BY <1>1, <1>3, <1>9 DEF Effect, Link
<1>10. CASE st.k = "let"
  <2>1. x \in Names /\ x \notin Bound(sc) /\ InitIs(Bound(sc), x, st.e)
    BY <1>10 DEF StIs
  <2>2. tg.elem = "STACK" => tg.prov = "STACK"
    BY <1>1, <2>1, InitTagsOK DEF tg
  <2>3. NewTags(st, sc) = tg
    BY <1>10 DEF NewTags, tg
  <2>4. Foreseen(x, tg, pt)
    BY <1>2, <1>7, <1>10, <2>1, <2>2 DEF Foreseen
  <2> QED BY <1>9, <1>10, <2>3, <2>4 DEF Retags, d
<1>11. CASE st.k = "set" /\ Retags(st)
  <2>1. x \in {"p", "r", "b"} /\ x \in Bound(sc) /\ InitIs(Bound(sc), x, st.e) /\ x \in Names
    BY <1>2, <1>11 DEF StIs, Retags
  <2>2. tg \in TagPair /\ t \in TagPair /\ Foreseen(x, t, pt)
    BY <1>3, <2>1, InitTagsOK, LookFacts DEF tg, t
  <2>3. NewTags(st, sc) = [prov |-> Merge(t.prov, tg.prov), elem |-> Merge(t.elem, tg.elem)]
    BY <1>11 DEF NewTags, tg, t, Join, Tags
  <2>4. /\ Merge(t.prov, tg.prov) = "STACK" <=> t.prov = "STACK" \/ tg.prov = "STACK"
        /\ Merge(t.prov, tg.prov) = "STATIC" => t.prov = "STATIC"
        /\ t.elem = "STACK" => Merge(t.elem, tg.elem) = "STACK"
    BY <2>2, MergeType DEF TagPair
  <2>5. Foreseen(x, NewTags(st, sc), pt)
    BY <1>7, <1>11, <2>1, <2>2, <2>3, <2>4 DEF Foreseen, TagsBelow, Below, Slices, p
  <2> QED BY <1>9, <1>11, <2>5 DEF d
<1>12. CASE st.k = "seti"
  <2>1. x = "s" /\ x \in Bound(sc) /\ st.e.k = "value" /\ AtomIs(Bound(sc), st.e.of)
    BY <1>12 DEF StIs
  <2>2. tg.prov \in Prov /\ t \in TagPair /\ Foreseen(x, t, pt)
    BY <1>3, <2>1, ValueTags, LookFacts DEF tg, t
  <2>3. NewTags(st, sc) = [prov |-> t.prov, elem |-> Merge(t.elem, tg.prov)]
    BY <1>12 DEF NewTags, tg, t, Tags
  <2>4. /\ Merge(t.elem, tg.prov) = "STACK" <=> t.elem = "STACK" \/ tg.prov = "STACK"
        /\ Merge(t.elem, tg.prov) = "STATIC" => t.elem = "STATIC"
    BY <2>2, MergeType DEF TagPair
  <2>5. Foreseen(x, NewTags(st, sc), pt)
    BY <1>7, <1>12, <2>1, <2>2, <2>3, <2>4 DEF Foreseen, TagsBelow, Below, Slices, p
  <2> QED BY <1>9, <1>12, <2>5 DEF Retags, d
<1> QED BY <1>8, <1>10, <1>11, <1>12 DEF Retags, d

-----------------------------------------------------------------------------
(* One check of the body is enough.                                          *)

LEMMA RunAll ==
    ASSUME Features = {}, NEW names, NEW stmts, Len(stmts) \in Nat, LoopOK(names, stmts),
           NEW sc, RunAt(Verdict(TRUE, sc), names, stmts, 0), CheckAll(stmts, sc).ok
    PROVE  \A n \in 0 .. Len(stmts) : RunAt(Checks(stmts, sc)[n], names, stmts, n)
<1> DEFINE c == Checks(stmts, sc)
           N == Len(stmts)
           Accepted == {k \in 0 .. N : c[N - k].ok}
           S == {n \in 0 .. N : RunAt(c[n], names, stmts, n)}
<1>1. /\ c[0] = Verdict(TRUE, sc)
      /\ \A n \in 1 .. N : /\ c[n] = Verdict(c[n - 1].ok /\ Check(stmts[n], c[n - 1].sc).ok,
                                             Check(stmts[n], c[n - 1].sc).sc)
                           /\ c[n].ok => c[n - 1].ok /\ Check(stmts[n], c[n - 1].sc).ok
  BY ChecksDef
<1>2. c[N].ok
  BY DEF CheckAll
<1> HIDE DEF c
<1>3. \A n \in 0 .. N : c[n].ok
  <2>1. 0 \in Accepted
    <3>1. N - 0 = N
      OBVIOUS
    <3> QED BY <1>2, <3>1
  <2>2. ASSUME NEW k \in 1 .. N, k - 1 \in Accepted PROVE k \in Accepted
    <3>1. N - (k - 1) \in 1 .. N /\ (N - (k - 1)) - 1 = N - k /\ k \in 0 .. N
      OBVIOUS
    <3>2. c[N - (k - 1)].ok
      BY <2>2
    <3>3. c[(N - (k - 1)) - 1].ok
      BY <1>1, <3>1, <3>2
    <3> QED BY <3>1, <3>3
  <2> HIDE DEF Accepted
  <2>3. \A k \in 0 .. N : k \in Accepted
    BY <2>1, <2>2, UpToInduction
  <2>4. ASSUME NEW n \in 0 .. N PROVE c[n].ok
    <3>1. N - n \in 0 .. N /\ N - (N - n) = n
      OBVIOUS
    <3>2. c[N - (N - n)].ok
      BY <2>3, <3>1 DEF Accepted
    <3> QED BY <3>1, <3>2
  <2> QED BY <2>4
<1>4. 0 \in S
  <2>1. RunAt(c[0], names, stmts, 0)
    BY <1>1, Zenon
  <2> QED BY <2>1
<1>5. ASSUME NEW n \in 1 .. N, n - 1 \in S PROVE n \in S
  <2>1. n \in 0 .. N /\ c[n].ok /\ RunAt(c[n - 1], names, stmts, n - 1)
    BY <1>3, <1>5
  <2>2. Check(stmts[n], c[n - 1].sc).ok
    BY <1>1, <2>1
  <2>3. RunAt(Verdict(c[n - 1].ok /\ Check(stmts[n], c[n - 1].sc).ok, Check(stmts[n], c[n - 1].sc).sc),
              names, stmts, n)
    BY <2>1, <2>2, RunStep
  <2>4. RunAt(c[n], names, stmts, n)
    BY <1>1, <2>3, Zenon
  <2> QED BY <2>1, <2>4
<1> HIDE DEF S
<1>6. \A n \in 0 .. N : n \in S
  BY <1>4, <1>5, UpToInduction
<1> QED BY <1>6 DEF S, c

LEMMA RunStarts ==
    ASSUME NEW sc, ScopeOK(sc), TagsOK(sc), Len(sc) = 1, NEW stmts
    PROVE  RunAt(Verdict(TRUE, <<sc[1], <<>>>>), Bound(sc), stmts, 0)
<1> DEFINE d == <<sc[1], <<>>>>
<1>1. ScopeOK(d) /\ TagsOK(d) /\ Bound(d) = Bound(sc) /\ Bound(sc) = DOMAIN sc[1] /\ Len(d) = 2 /\ d[1] = sc[1]
  BY Nested
<1>2. After(Bound(sc), stmts, 0) = Bound(sc)
  BY DEF After
<1> HIDE DEF d
<1> QED BY <1>1, <1>2 DEF RunAt, Verdict, d

LEMMA LoopIsSwept ==
    ASSUME NEW names \in SUBSET Names, NEW stmts, Len(stmts) \in Nat, LoopOK(names, stmts)
    PROVE  \A n \in 1 .. Len(stmts) : Swept(stmts[n])
<1>1. \A n \in 1 .. Len(stmts) : stmts[n].k = "let" => stmts[n].v \in Names
  BY DEF LoopOK, StIs
<1>2. ASSUME NEW n \in 1 .. Len(stmts) PROVE Swept(stmts[n])
  <2>1. \A m \in 1 .. n - 1 : m \in 1 .. Len(stmts)
    OBVIOUS
  <2>2. After(names, stmts, n - 1) \subseteq Names
    BY <1>1, <2>1 DEF After
  <2> QED BY <2>2 DEF LoopOK, StIs, Swept
<1> QED BY <1>2

(* The check that accepts the body: each binding as the sweep foresaw it.    *)
LEMMA FirstCheck ==
    ASSUME Features = {}, NEW sc, ScopeOK(sc), TagsOK(sc), Len(sc) = 1,
           NEW stmts, Len(stmts) \in Nat, LoopOK(Bound(sc), stmts),
           CheckAll(stmts, Append(pretaint_loop_body(sc, stmts), <<>>)).ok
    PROVE  LET pt == Sweeps(sc, stmts)[3 * Len(stmts)]
               c == Checks(stmts, <<pt.sc[1], <<>>>>)
           IN  /\ SweepOK(pt, sc) /\ Bound(pt.sc) = Bound(sc) /\ Len(pt.sc) = 1
               /\ CheckAll(stmts, Append(pretaint_loop_body(sc, stmts), <<>>)) = c[Len(stmts)]
               /\ \A n \in 0 .. Len(stmts) : RunAt(c[n], Bound(sc), stmts, n) /\ Link(c[n].sc, pt)
<1> DEFINE pt == Sweeps(sc, stmts)[3 * Len(stmts)]
           start == <<pt.sc[1], <<>>>>
           c == Checks(stmts, start)
           S == {n \in 0 .. Len(stmts) : Link(c[n].sc, pt)}
<1>1. Bound(sc) \subseteq Names
  BY DEF ScopeOK
<1>2. SweepOK(pt, sc) /\ Still(pt, stmts)
  BY <1>1, LoopIsSwept, SweepsReachTheEnd
<1>3. pretaint_loop_body(sc, stmts) = pt.sc
  BY DEF pretaint_loop_body
<1> HIDE DEF pt
<1>4. ScopeOK(pt.sc) /\ TagsOK(pt.sc) /\ Len(pt.sc) = 1 /\ Bound(pt.sc) = Bound(sc)
  BY <1>2 DEF SweepOK, SameNames
<1>5. Append(pt.sc, <<>>) = start /\ Bound(start) = Bound(sc) /\ \A x \in Bound(sc) : Look(start, x) = Look(pt.sc, x)
  BY <1>4, Nested
<1>6. RunAt(Verdict(TRUE, start), Bound(sc), stmts, 0)
  BY <1>4, RunStarts
<1> HIDE DEF start
<1>7. \A n \in 0 .. Len(stmts) : RunAt(c[n], Bound(sc), stmts, n)
  BY <1>3, <1>5, <1>6, RunAll
<1>8. /\ c[0] = Verdict(TRUE, start)
      /\ \A n \in 1 .. Len(stmts) : /\ c[n].ok => Check(stmts[n], c[n - 1].sc).ok
                                    /\ c[n].sc = Check(stmts[n], c[n - 1].sc).sc
  <2>1. /\ c[0] = Verdict(TRUE, start)
        /\ \A n \in 1 .. Len(stmts) :
              /\ c[n] = Verdict(c[n - 1].ok /\ Check(stmts[n], c[n - 1].sc).ok, Check(stmts[n], c[n - 1].sc).sc)
              /\ c[n].ok => c[n - 1].ok /\ Check(stmts[n], c[n - 1].sc).ok
    BY ChecksDef
  <2> HIDE DEF c
  <2>2. ASSUME NEW n \in 1 .. Len(stmts) PROVE c[n].sc = Check(stmts[n], c[n - 1].sc).sc
    <3>1. \A u, v : Verdict(u, v).sc = v
      BY DEF Verdict
    <3>2. Verdict(c[n - 1].ok /\ Check(stmts[n], c[n - 1].sc).ok, Check(stmts[n], c[n - 1].sc).sc).sc
            = Check(stmts[n], c[n - 1].sc).sc
      BY <3>1
    <3> QED BY <2>1, <3>2, Zenon
  <2> QED BY <2>1, <2>2
<1>9. CheckAll(stmts, start) = c[Len(stmts)]
  BY DEF CheckAll
<1> HIDE DEF c
<1>10. 0 \in S
  <2>1. Link(start, pt)
    BY <1>4, <1>5 DEF Link, Foreseen, TagsBelow, Below
  <2> QED BY <1>8, <2>1 DEF Verdict
<1>11. ASSUME NEW n \in 1 .. Len(stmts), n - 1 \in S PROVE n \in S
  <2>1. n \in 0 .. Len(stmts) /\ n - 1 \in 0 .. Len(stmts) /\ Link(c[n - 1].sc, pt)
    BY <1>11
  <2>2. RunAt(c[n - 1], Bound(sc), stmts, n - 1) /\ c[n].ok
    BY <1>7, <2>1 DEF RunAt
  <2>3. StIs(Bound(c[n - 1].sc), TRUE, stmts[n]) /\ Check(stmts[n], c[n - 1].sc).ok
    BY <1>8, <2>2 DEF LoopOK, RunAt
  <2>4. pretaint_walk(pt, stmts[n]) = pt
    BY <1>2 DEF Still
  <2>5. Link(Check(stmts[n], c[n - 1].sc).sc, pt)
    BY <1>2, <1>4, <2>1, <2>2, <2>3, <2>4, LinkStep DEF RunAt
  <2> QED BY <1>8, <2>1, <2>5
<1> HIDE DEF S
<1>12. \A n \in 0 .. Len(stmts) : n \in S
  BY <1>10, <1>11, UpToInduction
<1>13. \A n \in 0 .. Len(stmts) : Link(c[n].sc, pt)
  BY <1>12 DEF S
<1> QED BY <1>2, <1>3, <1>4, <1>5, <1>7, <1>9, <1>13 DEF pt, start, c

(* The check of the next iteration, with the bindings the first one ended    *)
(* with: all of it accepted, and it ends with no taint of its own.           *)
Turning(level, stmts) ==
    LET c == Checks(stmts, <<level, <<>>>>)
    IN  /\ \A n \in 0 .. Len(stmts) : RunAt(c[n], DOMAIN level, stmts, n)
        /\ ScopeBelow(<<c[Len(stmts)].sc[1]>>, <<level>>)

LEMMA SecondCheck ==
    ASSUME Features = {}, NEW names, NEW stmts, Len(stmts) \in Nat, LoopOK(names, stmts),
           NEW sc, NEW d, RunAt(Verdict(TRUE, sc), names, stmts, 0), RunAt(Verdict(TRUE, d), names, stmts, 0),
           ScopeBelow(sc, d), CheckAll(stmts, d).ok
    PROVE  \A n \in 0 .. Len(stmts) :
              /\ RunAt(Checks(stmts, sc)[n], names, stmts, n)
              /\ RunAt(Checks(stmts, d)[n], names, stmts, n)
              /\ ScopeBelow(Checks(stmts, sc)[n].sc, Checks(stmts, d)[n].sc)
<1> DEFINE c == Checks(stmts, sc)
           e == Checks(stmts, d)
           S == {n \in 0 .. Len(stmts) : RunAt(c[n], names, stmts, n) /\ ScopeBelow(c[n].sc, e[n].sc)}
<1>1. \A n \in 0 .. Len(stmts) : RunAt(e[n], names, stmts, n)
  BY RunAll
<1>2. /\ c[0] = Verdict(TRUE, sc)
      /\ \A n \in 1 .. Len(stmts) :
            c[n] = Verdict(c[n - 1].ok /\ Check(stmts[n], c[n - 1].sc).ok, Check(stmts[n], c[n - 1].sc).sc)
  BY ChecksDef
<1>3. /\ e[0] = Verdict(TRUE, d)
      /\ \A n \in 1 .. Len(stmts) :
            /\ e[n] = Verdict(e[n - 1].ok /\ Check(stmts[n], e[n - 1].sc).ok, Check(stmts[n], e[n - 1].sc).sc)
            /\ e[n].ok => e[n - 1].ok /\ Check(stmts[n], e[n - 1].sc).ok
  BY ChecksDef
<1>4. \A u, v : Verdict(u, v).sc = v
  BY DEF Verdict
<1> HIDE DEF c, e
<1>5. 0 \in S
  <2>1. c[0].sc = sc /\ e[0].sc = d
    <3>1. Verdict(TRUE, sc).sc = sc /\ Verdict(TRUE, d).sc = d
      BY <1>4
    <3> QED BY <1>2, <1>3, <3>1, Zenon
  <2>2. RunAt(c[0], names, stmts, 0)
    BY <1>2, Zenon
  <2> QED BY <2>1, <2>2
<1>6. ASSUME NEW n \in 1 .. Len(stmts), n - 1 \in S PROVE n \in S
  <2>1. n \in 0 .. Len(stmts) /\ n - 1 \in 0 .. Len(stmts)
    OBVIOUS
  <2>2. RunAt(c[n - 1], names, stmts, n - 1) /\ ScopeBelow(c[n - 1].sc, e[n - 1].sc)
    BY <1>6
  <2>3. RunAt(e[n - 1], names, stmts, n - 1) /\ e[n].ok
    BY <1>1, <2>1 DEF RunAt
  <2>4. Check(stmts[n], e[n - 1].sc).ok
    BY <1>3, <2>3
  <2>5. StIs(Bound(c[n - 1].sc), TRUE, stmts[n])
    BY <2>2 DEF LoopOK, RunAt
  <2>6. /\ Check(stmts[n], c[n - 1].sc).ok
        /\ ScopeBelow(Check(stmts[n], c[n - 1].sc).sc, Check(stmts[n], e[n - 1].sc).sc)
    BY <2>2, <2>3, <2>4, <2>5, CheckBelow DEF RunAt
  <2>7. RunAt(Verdict(c[n - 1].ok /\ Check(stmts[n], c[n - 1].sc).ok, Check(stmts[n], c[n - 1].sc).sc),
              names, stmts, n)
    BY <2>2, <2>6, RunStep
  <2>8. RunAt(c[n], names, stmts, n)
    BY <1>2, <2>7, Zenon
  <2>9. /\ Verdict(c[n - 1].ok /\ Check(stmts[n], c[n - 1].sc).ok, Check(stmts[n], c[n - 1].sc).sc).sc
             = Check(stmts[n], c[n - 1].sc).sc
        /\ Verdict(e[n - 1].ok /\ Check(stmts[n], e[n - 1].sc).ok, Check(stmts[n], e[n - 1].sc).sc).sc
             = Check(stmts[n], e[n - 1].sc).sc
    BY <1>4
  <2>10. c[n].sc = Check(stmts[n], c[n - 1].sc).sc /\ e[n].sc = Check(stmts[n], e[n - 1].sc).sc
    BY <1>2, <1>3, <2>9, Zenon
  <2> QED BY <2>1, <2>6, <2>8, <2>10
<1> HIDE DEF S
<1>7. \A n \in 0 .. Len(stmts) : n \in S
  BY <1>5, <1>6, UpToInduction
<1> QED BY <1>1, <1>7 DEF S, c, e

LEMMA LoopIsClosed ==
    ASSUME Features = {}, NEW sc, ScopeOK(sc), TagsOK(sc), Len(sc) = 1,
           NEW stmts, Len(stmts) \in Nat, LoopOK(Bound(sc), stmts),
           CheckAll(stmts, Append(pretaint_loop_body(sc, stmts), <<>>)).ok
    PROVE  LET d == CheckAll(stmts, Append(pretaint_loop_body(sc, stmts), <<>>)).sc
           IN  /\ ScopeOK(d) /\ TagsOK(d) /\ Len(d) = 2 /\ DOMAIN d[1] = Bound(sc)
               /\ Turning(d[1], stmts)
               /\ \A x \in Bound(sc) : /\ Look(sc, x).prov = "STACK" => d[1][x].t.prov = "STACK"
                                       /\ Look(sc, x).elem = "STACK" => d[1][x].t.elem = "STACK"
                                       /\ x = "s" => d[1][x].t.prov = Look(sc, x).prov
<1> DEFINE pt == Sweeps(sc, stmts)[3 * Len(stmts)]
           start == <<pt.sc[1], <<>>>>
           c == Checks(stmts, start)
           d == c[Len(stmts)].sc
           next == <<d[1], <<>>>>
<1>1. /\ SweepOK(pt, sc) /\ Bound(pt.sc) = Bound(sc) /\ Len(pt.sc) = 1
      /\ CheckAll(stmts, Append(pretaint_loop_body(sc, stmts), <<>>)) = c[Len(stmts)]
      /\ \A n \in 0 .. Len(stmts) : RunAt(c[n], Bound(sc), stmts, n) /\ Link(c[n].sc, pt)
  BY FirstCheck
<1>2. CheckAll(stmts, start) = c[Len(stmts)]
  BY DEF CheckAll
<1> HIDE DEF pt
<1>3. ScopeOK(pt.sc) /\ TagsOK(pt.sc) /\ \A x \in Bound(sc) : Raised(Look(sc, x), Look(pt.sc, x), x)
  BY <1>1 DEF SweepOK
<1>4. /\ Bound(start) = Bound(sc) /\ \A x \in Bound(sc) : Look(start, x) = Look(pt.sc, x)
  BY <1>1, <1>3, Nested
<1>5. RunAt(Verdict(TRUE, start), Bound(sc), stmts, 0)
  BY <1>1, <1>3, RunStarts
<1> HIDE DEF c
<1>6. /\ c[Len(stmts)].ok /\ ScopeOK(d) /\ TagsOK(d) /\ Len(d) = 2 /\ DOMAIN d[1] = Bound(sc) /\ Link(d, pt)
  <2>1. Len(stmts) \in 0 .. Len(stmts)
    OBVIOUS
  <2> QED BY <1>1, <2>1 DEF RunAt
<1> HIDE DEF d, start
<1>7. /\ ScopeOK(<<d[1]>>) /\ TagsOK(<<d[1]>>) /\ Bound(<<d[1]>>) = Bound(sc) /\ Bound(sc) \subseteq Bound(d)
      /\ \A x \in Bound(sc) : Look(<<d[1]>>, x) = Look(d, x) /\ Look(d, x) = d[1][x].t
  BY <1>6, OuterLevel
<1>8. /\ Bound(next) = Bound(sc)
      /\ \A x \in Bound(sc) : Look(next, x) = Look(d, x)
      /\ RunAt(Verdict(TRUE, next), Bound(sc), stmts, 0)
  <2> DEFINE one == <<d[1]>>
  <2>1. Len(one) = 1 /\ one[1] = d[1]
    OBVIOUS
  <2>2. ScopeOK(one) /\ TagsOK(one) /\ Bound(one) = Bound(sc) /\ \A x \in Bound(sc) : Look(one, x) = Look(d, x)
    BY <1>7
  <2> HIDE DEF one
  <2> QED BY <2>1, <2>2, Nested, RunStarts
<1>9. \A x \in Bound(sc) : Foreseen(x, Look(d, x), pt)
  BY <1>6, <1>7 DEF Link
<1> HIDE DEF next
<1>10. ScopeBelow(next, start)
  BY <1>1, <1>4, <1>8, <1>9 DEF ScopeBelow, Foreseen
<1>11. \A n \in 0 .. Len(stmts) :
          /\ RunAt(Checks(stmts, next)[n], Bound(sc), stmts, n)
          /\ ScopeBelow(Checks(stmts, next)[n].sc, c[n].sc)
  BY <1>2, <1>5, <1>6, <1>8, <1>10, SecondCheck DEF c
<1> DEFINE f == Checks(stmts, next)[Len(stmts)].sc
<1>12. /\ ScopeOK(f) /\ TagsOK(f) /\ DOMAIN f[1] = Bound(sc) /\ ScopeBelow(f, d)
  <2>1. Len(stmts) \in 0 .. Len(stmts)
    OBVIOUS
  <2> QED BY <1>11, <2>1 DEF RunAt, d
<1> HIDE DEF f
<1>13. /\ Bound(<<f[1]>>) = Bound(sc)
       /\ \A x \in Bound(sc) : Look(<<f[1]>>, x) = Look(f, x)
       /\ Bound(sc) \subseteq Bound(f)
  BY <1>12, OuterLevel
<1>14. ScopeBelow(<<f[1]>>, <<d[1]>>)
  BY <1>7, <1>12, <1>13 DEF ScopeBelow
<1>15. Turning(d[1], stmts)
  BY <1>6, <1>11, <1>14 DEF Turning, f, next
<1>16. \A x \in Bound(sc) : /\ Look(sc, x).prov = "STACK" => d[1][x].t.prov = "STACK"
                            /\ Look(sc, x).elem = "STACK" => d[1][x].t.elem = "STACK"
                            /\ x = "s" => d[1][x].t.prov = Look(sc, x).prov
  BY <1>1, <1>3, <1>7, <1>9 DEF Raised, Foreseen, TagsBelow
<1> QED BY <1>1, <1>6, <1>15, <1>16 DEF d

(* The bindings of the function hold what a body has left in memory.         *)
LEMMA MemOut ==
    ASSUME NEW sc, ScopeOK(sc), NEW m, NEW cl, MemOK(sc, m, cl),
           NEW d, ScopeOK(d), Bound(d) = DOMAIN d[1], DOMAIN d[1] = DOMAIN sc[1],
           \A x \in Bound(d) : /\ Look(sc, x).prov = "STACK" => Look(d, x).prov = "STACK"
                               /\ x \in Slices => (Look(sc, x).elem = "STACK" => Look(d, x).elem = "STACK")
                               /\ x = "s" => Look(d, x).prov = Look(sc, x).prov,
           NEW out2, Bound(d) \subseteq DOMAIN out2, \A x \in Bound(d) : out2[x] = m[x]
    PROVE  MemOK(d, out2, cl)
<1>1. Bound(d) \subseteq Bound(sc) /\ "g" \in Bound(d)
  <2>1. DOMAIN sc[1] \subseteq Bound(sc) /\ "g" \in DOMAIN sc[1]
    BY ScopeFacts DEF Bound, ScopeOK, Param
  <2> QED BY <2>1
<1>2. ASSUME NEW x \in Bound(d) PROVE Held(x, Look(d, x), out2[x], cl)
  <2>1. Held(x, Look(sc, x), m[x], cl)
    BY <1>1 DEF MemOK
  <2> QED BY <2>1, HeldUp
<1> QED BY <1>1, <1>2 DEF MemOK

-----------------------------------------------------------------------------
(* The inductive invariant.                                                  *)

OnLine(sc, m, cl) == Len(sc) = 1 /\ ScopeOK(sc) /\ TagsOK(sc) /\ MemOK(sc, m, cl)

(* The body is written: the names its statements will bind are known.        *)
InBody(sc, stmts, m, cl) ==
    /\ sc = <<sc[1], sc[2]>>
    /\ OnLine(<<sc[1]>>, m, cl)
    /\ \E S : stmts \in Seq(S)
    /\ LoopOK(DOMAIN sc[1], stmts)
    /\ Bound(sc) = After(DOMAIN sc[1], stmts, Len(stmts))

(* The body runs: its memory is within the tags a check of this iteration    *)
(* would have reached.                                                       *)
InTurn(level, stmts, n, m, cl) ==
    /\ ScopeOK(<<level>>) /\ TagsOK(<<level>>)
    /\ Len(stmts) \in Nat /\ LoopOK(DOMAIN level, stmts)
    /\ Turning(level, stmts)
    /\ n \in 1 .. Len(stmts) + 1
    /\ MemOK(Checks(stmts, <<level, <<>>>>)[n - 1].sc, m, cl)

EInv ==
    /\ shape \in Shapes
    /\ mem["g"] # "frame" /\ \A c \in Outliving : "frame" \notin cell[c]
    /\ freed # "frame" /\ "frame" \notin out
    /\ at = "line" => OnLine(scope, mem, cell) /\ body = <<>>
    /\ at = "body" => InBody(scope, body, mem, cell)
    /\ at = "turn" => InTurn(scope[1], body, pc, mem, cell)

(* The shape of a function is settled, so these say the same of a step's end. *)
LEMMA OnLineNext ==
    ASSUME shape' = shape, NEW sc, NEW m, NEW cl, OnLine(sc, m, cl), scope' = sc, mem' = m, cell' = cl
    PROVE  OnLine(scope, mem, cell)'
<1>1. ScopeOK(scope)'
  BY DEF OnLine, ScopeOK, Names, Bound
<1>2. TagsOK(scope)'
  BY DEF OnLine, TagsOK, Bound, Look, Level
<1>3. MemOK(scope, mem, cell)'
  BY DEF OnLine, MemOK, Bound, Look, Level, Held
<1> QED BY <1>1, <1>2, <1>3 DEF OnLine

LEMMA InBodyNext ==
    ASSUME shape' = shape, NEW sc, NEW stmts, NEW m, NEW cl, InBody(sc, stmts, m, cl),
           scope' = sc, body' = stmts, mem' = m, cell' = cl
    PROVE  InBody(scope, body, mem, cell)'
<1>1. ScopeOK(<<scope[1]>>)'
  BY DEF InBody, OnLine, ScopeOK, Names, Bound
<1>2. TagsOK(<<scope[1]>>)'
  BY DEF InBody, OnLine, TagsOK, Bound, Look, Level
<1>3. MemOK(<<scope[1]>>, mem, cell)'
  BY DEF InBody, OnLine, MemOK, Bound, Look, Level, Held
<1>4. LoopOK(DOMAIN scope[1], body)'
  BY DEF InBody, LoopOK, StIs, Names
<1>5. (Bound(scope) = After(DOMAIN scope[1], body, Len(body)))'
  BY DEF InBody, Bound, After
<1> QED BY <1>1, <1>2, <1>3, <1>4, <1>5 DEF InBody, OnLine

LEMMA InTurnNext ==
    ASSUME shape' = shape, NEW level, NEW stmts, NEW n, NEW m, NEW cl, InTurn(level, stmts, n, m, cl),
           scope'[1] = level, body' = stmts, pc' = n, mem' = m, cell' = cl
    PROVE  InTurn(scope[1], body, pc, mem, cell)'
<1>1. ScopeOK(<<scope[1]>>)'
  BY DEF InTurn, ScopeOK, Names, Bound
<1>2. TagsOK(<<scope[1]>>)'
  BY DEF InTurn, TagsOK, Bound, Look, Level
<1>3. MemOK(Checks(body, <<scope[1], <<>>>>)[pc - 1].sc, mem, cell)'
  BY DEF InTurn
<1>4. LoopOK(DOMAIN scope[1], body)'
  BY DEF InTurn, LoopOK, StIs, Names
<1>5. Turning(scope[1], body)'
  <2> DEFINE c == Checks(body, <<scope[1], <<>>>>)
             d == Checks(stmts, <<level, <<>>>>)
  <2>1. c' = d
    OBVIOUS
  <2>2. ASSUME NEW k \in 0 .. Len(stmts) PROVE RunAt(c[k], DOMAIN scope[1], body, k)'
    <3>1. RunAt(d[k], DOMAIN level, stmts, k)
      BY DEF InTurn, Turning
    <3> HIDE DEF c, d
    <3>2. ScopeOK(c[k].sc)'
      BY <2>1, <3>1 DEF RunAt, ScopeOK, Names
    <3>3. TagsOK(c[k].sc)'
      BY <2>1, <3>1 DEF RunAt, TagsOK
    <3> QED BY <2>1, <3>1, <3>2, <3>3 DEF RunAt
  <2>3. ScopeBelow(<<c[Len(body)].sc[1]>>, <<scope[1]>>)'
    BY <2>1 DEF InTurn, Turning
  <2> HIDE DEF c, d
  <2> QED BY <2>2, <2>3 DEF Turning, c
<1> QED BY <1>1, <1>2, <1>3, <1>4, <1>5 DEF InTurn

LEMMA InitHolds == Init => EInv
<1> SUFFICES ASSUME Init PROVE EInv
  OBVIOUS
<1> DEFINE Levels == UNION {[ns -> Binding] : ns \in SUBSET Var}
           tags == [prov |-> "UNKNOWN", elem |-> "UNKNOWN"]
<1>1. scope = <<Params>> /\ at = "line" /\ body = <<>> /\ shape \in Shapes /\ freed = "null" /\ out = {}
  BY DEF Init
<1>2. /\ DOMAIN Params = Param /\ Params \in [Param -> Binding]
      /\ \A x \in Param : Params[x].t = tags /\ Params[x].mut = (x \in Mutable)
  BY DEF Params, Param, Unknown, Tags, Binding, TagPair, Prov, Mutable
<1>3. Params \in Levels
  BY <1>2 DEF Var
<1> HIDE DEF Levels
<1>4. scope \in Seq(Levels) /\ Len(scope) = 1 /\ DOMAIN scope = {1} /\ scope[1] = Params
  BY <1>1, <1>3
<1>5. Bound(scope) = Param /\ \A x \in Param : Look(scope, x) = tags
  BY <1>2, <1>4 DEF Bound, Look, Level
<1>6. ScopeOK(scope)
  BY <1>2, <1>4, <1>5 DEF ScopeOK, Levels, Names
<1>7. TagsOK(scope)
  BY <1>5 DEF TagsOK, Param
<1>8. MemOK(scope, mem, cell)
  <2>1. /\ DOMAIN mem = Param /\ mem["a"] = "caller" /\ mem["c"] = "C" /\ mem["g"] = "null"
        /\ cell \in [Cells -> (SUBSET Places) \ {{}}] /\ \A c \in Cells : "frame" \notin cell[c]
    BY DEF Init, Param, Places
  <2>2. Outliving \subseteq Cells /\ "C" \in Cells
    BY DEF Outliving, Cells
  <2>3. \A x \in Param : Held(x, Look(scope, x), mem[x], cell)
    BY <2>1, <2>2 DEF Held, Param, Places, Slices
  <2>4. "t" \notin Bound(scope)
    BY <1>5 DEF Param
  <2> QED BY <1>5, <2>1, <2>2, <2>3, <2>4 DEF MemOK
<1>9. mem["g"] # "frame" /\ \A c \in Outliving : "frame" \notin cell[c]
  BY <1>8 DEF MemOK
<1> QED BY <1>1, <1>4, <1>6, <1>7, <1>8, <1>9 DEF EInv, OnLine

LEMMA WriteHolds ==
    ASSUME Features = {}, EInv, Write
    PROVE  EInv'
<1>1. PICK st \in Statements(Bound(scope), FALSE) :
        /\ Check(st, scope).ok /\ scope' = Check(st, scope).sc
        /\ IF st.k = "ret" THEN Return(st.e) ELSE Execute(st) /\ UNCHANGED at
  BY DEF Write
<1>2. /\ Len(scope) = 1 /\ ScopeOK(scope) /\ TagsOK(scope) /\ MemOK(scope, mem, cell)
      /\ at = "line" /\ body = <<>> /\ shape' = shape /\ body' = body
      /\ shape \in Shapes /\ freed # "frame" /\ "frame" \notin out
  BY DEF Write, EInv, OnLine
<1>3. StIs(Bound(scope), FALSE, st)
  BY <1>1, <1>2, StatementsAre DEF ScopeOK
<1> DEFINE d == Check(st, scope).sc
<1>4. ScopeOK(d) /\ TagsOK(d) /\ Len(d) = 1
  BY <1>1, <1>2, <1>3, CheckEffect DEF Effect
<1>5. CASE st.k = "ret"
  <2>1. out' = Returned(st.e) /\ at' = "stop" /\ mem' = mem /\ cell' = cell /\ freed' = freed
    BY <1>1, <1>5 DEF Return
  <2>2. "frame" \notin out'
    BY <1>1, <1>2, <1>3, <1>5, <2>1, ReturnSound
  <2> QED BY <1>2, <2>1, <2>2 DEF EInv
<1>6. CASE st.k # "ret"
  <2>1. Execute(st) /\ at' = at
    BY <1>1, <1>6
  <2>2. StIs(Bound(scope), Len(scope) = 2, st)
    <3>1. ~(Len(scope) = 2)
      BY <1>2
    <3> QED BY <1>3, <3>1 DEF StIs
  <2>3. MemOK(d, mem', cell') /\ freed' # "frame" /\ out' = out
    BY <1>1, <1>2, <1>6, <2>1, <2>2, ExecuteSound
  <2>4. OnLine(d, mem', cell')
    BY <1>4, <2>3 DEF OnLine
  <2>5. OnLine(scope, mem, cell)'
    BY <1>1, <1>2, <2>4, OnLineNext
  <2>6. mem'["g"] # "frame" /\ \A c \in Outliving : "frame" \notin cell'[c]
    BY <2>3 DEF MemOK
  <2> QED BY <1>2, <2>1, <2>3, <2>5, <2>6 DEF EInv
<1> QED BY <1>5, <1>6

LEMMA OpenLoopHolds ==
    ASSUME EInv, OpenLoop
    PROVE  EInv'
<1>1. /\ at' = "body" /\ scope' = Append(scope, <<>>) /\ freed' = "null" /\ shape' = shape
      /\ body' = body /\ mem' = mem /\ cell' = cell /\ out' = out
      /\ OnLine(scope, mem, cell) /\ body = <<>>
      /\ shape \in Shapes /\ mem["g"] # "frame" /\ "frame" \notin out
      /\ \A c \in Outliving : "frame" \notin cell[c]
  BY DEF OpenLoop, EInv
<1> DEFINE d == <<scope[1], <<>>>>
<1>2. scope = <<scope[1]>> /\ scope' = d /\ Bound(d) = Bound(scope) /\ Bound(scope) = DOMAIN scope[1]
  BY <1>1, Nested DEF OnLine
<1>3. InBody(d, <<>>, mem, cell)
  <2>1. d[1] = scope[1] /\ d = <<d[1], d[2]>>
    OBVIOUS
  <2>2. <<>> \in Seq({}) /\ Len(<<>>) = 0
    OBVIOUS
  <2>3. LoopOK(DOMAIN d[1], <<>>)
    BY <2>2 DEF LoopOK
  <2>4. Bound(d) = After(DOMAIN d[1], <<>>, Len(<<>>))
    BY <1>2, <2>1, <2>2 DEF After
  <2>5. OnLine(<<d[1]>>, mem, cell)
    BY <1>1, <1>2, <2>1
  <2> QED BY <2>1, <2>2, <2>3, <2>4, <2>5 DEF InBody
<1>4. InBody(scope, body, mem, cell)'
  BY <1>1, <1>2, <1>3, InBodyNext
<1> QED BY <1>1, <1>4 DEF EInv

LEMMA WriteBodyHolds ==
    ASSUME Features = {}, EInv, WriteBody
    PROVE  EInv'
<1>1. /\ at' = at /\ at = "body" /\ InBody(scope, body, mem, cell)
      /\ shape' = shape /\ mem' = mem /\ cell' = cell /\ freed' = freed /\ out' = out
      /\ shape \in Shapes /\ mem["g"] # "frame" /\ "frame" \notin out /\ freed # "frame"
      /\ \A c \in Outliving : "frame" \notin cell[c]
  BY DEF WriteBody, EInv
<1>2. PICK st \in Statements(Bound(scope), TRUE) :
        /\ body' = Append(body, st)
        /\ scope' = IF st.k = "let" THEN Bind(scope, st.v, Unknown, FALSE) ELSE scope
  BY DEF WriteBody
<1> DEFINE names == DOMAIN scope[1]
           stmts == Append(body, st)
<1>3. PICK S : body \in Seq(S)
  BY <1>1 DEF InBody
<1>4. /\ stmts \in Seq(S \cup {st}) /\ Len(body) \in Nat /\ Len(stmts) = Len(body) + 1
      /\ stmts[Len(stmts)] = st /\ \A n \in 1 .. Len(body) : stmts[n] = body[n]
  <2>1. ASSUME NEW T, NEW r \in Seq(T), NEW y \in T
        PROVE  /\ Append(r, y) \in Seq(T) /\ Len(r) \in Nat /\ Len(Append(r, y)) = Len(r) + 1
               /\ Append(r, y)[Len(r) + 1] = y /\ \A n \in 1 .. Len(r) : Append(r, y)[n] = r[n]
    OBVIOUS
  <2>2. body \in Seq(S \cup {st}) /\ st \in S \cup {st}
    BY <1>3
  <2>3. /\ Append(body, st) \in Seq(S \cup {st}) /\ Len(body) \in Nat
        /\ Len(Append(body, st)) = Len(body) + 1
        /\ Append(body, st)[Len(body) + 1] = st
        /\ \A n \in 1 .. Len(body) : Append(body, st)[n] = body[n]
    BY <2>1, <2>2
  <2> HIDE DEF stmts
  <2> QED BY <2>3 DEF stmts
<1> HIDE DEF stmts
<1>5. /\ scope = <<scope[1], scope[2]>> /\ OnLine(<<scope[1]>>, mem, cell)
      /\ LoopOK(names, body) /\ Bound(scope) = After(names, body, Len(body))
  BY <1>1 DEF InBody
<1>6. \A n \in 0 .. Len(body) : After(names, stmts, n) = After(names, body, n)
  <2>1. ASSUME NEW n \in 0 .. Len(body) PROVE \A m \in 1 .. n : stmts[m] = body[m]
    BY <1>4
  <2> QED BY <2>1 DEF After
<1>7. Bound(scope) \in SUBSET Names
  <2>1. names \subseteq Names
    <3>1. ScopeOK(<<scope[1]>>)
      BY <1>5 DEF OnLine
    <3>2. Bound(<<scope[1]>>) = names
      <4>1. DOMAIN <<scope[1]>> = {1} /\ <<scope[1]>>[1] = scope[1]
        OBVIOUS
      <4> QED BY <4>1 DEF Bound
    <3> QED BY <3>1, <3>2 DEF ScopeOK
  <2>2. \A n \in 1 .. Len(body) : body[n].k = "let" => body[n].v \in Names
    BY <1>5 DEF LoopOK, StIs
  <2> QED BY <1>5, <2>1, <2>2 DEF After
<1>8. StIs(Bound(scope), TRUE, st)
  BY <1>1, <1>7, StatementsAre
<1>9. LoopOK(names, stmts)
  <2>1. ASSUME NEW n \in 1 .. Len(stmts) PROVE StIs(After(names, stmts, n - 1), TRUE, stmts[n])
    <3>1. CASE n = Len(stmts)
      <4>1. n - 1 = Len(body) /\ Len(body) \in 0 .. Len(body)
        BY <1>4, <3>1
      <4> QED BY <1>4, <1>5, <1>6, <1>8, <3>1, <4>1
    <3>2. CASE n # Len(stmts)
      <4>1. n \in 1 .. Len(body) /\ n - 1 \in 0 .. Len(body)
        BY <1>4, <3>2
      <4> QED BY <1>4, <1>5, <1>6, <4>1 DEF LoopOK
    <3> QED BY <3>1, <3>2
  <2> QED BY <2>1 DEF LoopOK
<1>10. /\ scope'[1] = scope[1] /\ scope' = <<scope'[1], scope'[2]>>
       /\ Bound(scope') = IF st.k = "let" THEN Bound(scope) \cup {st.v} ELSE Bound(scope)
  <2>1. CASE st.k # "let"
    BY <1>2, <1>5, <2>1
  <2>2. CASE st.k = "let"
    <3> DEFINE inner == With(scope[2], st.v, [t |-> Unknown, mut |-> FALSE])
    <3>1. Len(scope) = 2 /\ DOMAIN scope = {1, 2}
      BY <1>5
    <3>2. scope' = [scope EXCEPT ![2] = inner]
      BY <1>2, <2>2, <3>1 DEF Bind
    <3>3. DOMAIN inner = DOMAIN scope[2] \cup {st.v}
      BY DEF With
    <3> HIDE DEF inner
    <3>4. scope' = <<scope[1], inner>>
      <4>1. ASSUME NEW u, NEW v, NEW w PROVE [<<u, v>> EXCEPT ![2] = w] = <<u, w>>
        OBVIOUS
      <4> QED BY <1>5, <3>2, <4>1
    <3>5. DOMAIN scope' = {1, 2} /\ scope'[1] = scope[1] /\ scope'[2] = inner
      BY <3>4
    <3>6. Bound(scope') = Bound(scope) \cup {st.v}
      BY <3>1, <3>3, <3>5 DEF Bound
    <3> QED BY <2>2, <3>4, <3>5, <3>6
  <2> QED BY <2>1, <2>2
<1>11. Bound(scope') = After(names, stmts, Len(stmts))
  <2>1. Len(stmts) \in Nat \ {0} /\ Len(stmts) - 1 = Len(body) /\ Len(body) \in 0 .. Len(body)
    BY <1>4
  <2>2. After(names, stmts, Len(stmts)) =
          IF st.k = "let" THEN After(names, stmts, Len(stmts) - 1) \cup {st.v}
          ELSE After(names, stmts, Len(stmts) - 1)
    <3>1. After(names, stmts, Len(stmts)) =
            IF stmts[Len(stmts)].k = "let" THEN After(names, stmts, Len(stmts) - 1) \cup {stmts[Len(stmts)].v}
            ELSE After(names, stmts, Len(stmts) - 1)
      BY <2>1, AfterStep
    <3> QED BY <1>4, <3>1
  <2>3. After(names, stmts, Len(stmts) - 1) = Bound(scope)
    BY <1>5, <1>6, <2>1
  <2> QED BY <1>10, <2>2, <2>3
<1>12. InBody(scope', stmts, mem, cell)
  <2>1. scope' = <<scope'[1], scope'[2]>> /\ scope'[1] = scope[1]
    BY <1>10
  <2>2. OnLine(<<scope'[1]>>, mem, cell)
    BY <1>5, <2>1
  <2>3. LoopOK(DOMAIN scope'[1], stmts) /\ Bound(scope') = After(DOMAIN scope'[1], stmts, Len(stmts))
    BY <1>9, <1>11, <2>1
  <2> HIDE DEF names
  <2> QED BY <1>4, <2>1, <2>2, <2>3 DEF InBody
<1>13. InBody(scope, body, mem, cell)'
  BY <1>1, <1>2, <1>12, InBodyNext DEF stmts
<1> QED BY <1>1, <1>13 DEF EInv

LEMMA CloseLoopHolds ==
    ASSUME Features = {}, EInv, CloseLoop
    PROVE  EInv'
<1> DEFINE c == CheckAll(body, Append(pretaint_loop_body(<<scope[1]>>, body), <<>>))
           start == <<scope[1]>>
           level == c.sc[1]
<1>1. /\ c.ok /\ scope' = c.sc /\ at' = "turn" /\ pc' = 1
      /\ shape' = shape /\ body' = body /\ mem' = mem /\ cell' = cell /\ freed' = freed /\ out' = out
  BY DEF CloseLoop
<1>2. /\ InBody(scope, body, mem, cell)
      /\ shape \in Shapes /\ mem["g"] # "frame" /\ "frame" \notin out /\ freed # "frame"
      /\ \A k \in Outliving : "frame" \notin cell[k]
  BY DEF CloseLoop, EInv
<1>3. /\ Len(start) = 1 /\ ScopeOK(start) /\ TagsOK(start) /\ MemOK(start, mem, cell)
      /\ start[1] = scope[1] /\ Len(body) \in Nat /\ LoopOK(DOMAIN scope[1], body)
  BY <1>2 DEF InBody, OnLine
<1> HIDE DEF start
<1>4. Bound(start) = DOMAIN scope[1]
  BY <1>3, ScopeFacts
<1>5. /\ ScopeOK(c.sc) /\ TagsOK(c.sc) /\ Len(c.sc) = 2 /\ DOMAIN level = Bound(start)
      /\ Turning(level, body)
      /\ \A x \in Bound(start) : /\ Look(start, x).prov = "STACK" => level[x].t.prov = "STACK"
                                 /\ Look(start, x).elem = "STACK" => level[x].t.elem = "STACK"
                                 /\ x = "s" => level[x].t.prov = Look(start, x).prov
  BY <1>1, <1>3, <1>4, LoopIsClosed DEF start
<1> HIDE DEF c
<1> DEFINE next == <<level, <<>>>>
           one == <<level>>
<1>6. /\ ScopeOK(one) /\ TagsOK(one) /\ Len(one) = 1 /\ one[1] = level /\ Bound(one) = DOMAIN level
      /\ \A x \in DOMAIN level : Look(one, x) = level[x].t
  BY <1>5, OuterLevel
<1>7. /\ ScopeOK(next) /\ next[1] = level /\ Bound(next) = DOMAIN level
      /\ \A x \in DOMAIN level : Look(next, x) = level[x].t
  <2> HIDE DEF one, level
  <2>1. next[1] = level /\ next = <<one[1], <<>>>>
    BY <1>6
  <2> QED BY <1>6, <2>1, Nested
<1> HIDE DEF next, one, level
<1>8. MemOK(next, mem, cell)
  <2>1. Bound(start) \subseteq DOMAIN mem
    BY <1>3 DEF MemOK
  <2> QED BY <1>3, <1>4, <1>5, <1>7, <2>1, MemOut
<1>9. Checks(body, next)[1 - 1].sc = next
  <2>1. Checks(body, next)[0] = Verdict(TRUE, next)
    BY <1>3, ChecksDef
  <2>2. Verdict(TRUE, next).sc = next
    BY DEF Verdict
  <2>3. 1 - 1 = 0
    OBVIOUS
  <2> QED BY <2>1, <2>2, <2>3, Zenon
<1>10. InTurn(level, body, 1, mem, cell)
  <2>1. LoopOK(DOMAIN level, body)
    BY <1>3, <1>4, <1>5
  <2>2. 1 \in 1 .. Len(body) + 1
    BY <1>3
  <2> QED BY <1>3, <1>5, <1>6, <1>8, <1>9, <2>1, <2>2 DEF InTurn, next, one
<1>11. InTurn(scope[1], body, pc, mem, cell)'
  BY <1>1, <1>10, InTurnNext DEF level
<1> QED BY <1>1, <1>2, <1>11 DEF EInv

(* The statement about to run, as the check of this iteration found it.      *)
LEMMA NextStatement ==
    ASSUME Features = {}, NEW level, NEW stmts, NEW n, NEW m, NEW cl, InTurn(level, stmts, n, m, cl),
           n <= Len(stmts)
    PROVE  LET c == Checks(stmts, <<level, <<>>>>)
               sc == c[n - 1].sc
           IN  /\ ScopeOK(sc) /\ TagsOK(sc) /\ Len(sc) = 2 /\ MemOK(sc, m, cl)
               /\ StIs(Bound(sc), TRUE, stmts[n]) /\ Check(stmts[n], sc).ok
               /\ c[n].sc = Check(stmts[n], sc).sc
               /\ n + 1 \in 1 .. Len(stmts) + 1 /\ (n + 1) - 1 = n
<1> DEFINE c == Checks(stmts, <<level, <<>>>>)
           N == Len(stmts)
<1>1. /\ N \in Nat /\ n \in 1 .. N + 1 /\ MemOK(c[n - 1].sc, m, cl)
      /\ \A k \in 0 .. N : RunAt(c[k], DOMAIN level, stmts, k)
      /\ LoopOK(DOMAIN level, stmts)
  BY DEF InTurn, Turning
<1>2. /\ n \in 1 .. N /\ n \in 0 .. N /\ n - 1 \in 0 .. N /\ n + 1 \in 1 .. N + 1 /\ (n + 1) - 1 = n
  BY <1>1
<1>3. /\ c[n] = Verdict(c[n - 1].ok /\ Check(stmts[n], c[n - 1].sc).ok, Check(stmts[n], c[n - 1].sc).sc)
      /\ c[n].ok => c[n - 1].ok /\ Check(stmts[n], c[n - 1].sc).ok
  BY <1>1, <1>2, ChecksDef
<1> HIDE DEF c
<1>4. c[n].sc = Check(stmts[n], c[n - 1].sc).sc
  <2>1. Verdict(c[n - 1].ok /\ Check(stmts[n], c[n - 1].sc).ok, Check(stmts[n], c[n - 1].sc).sc).sc
          = Check(stmts[n], c[n - 1].sc).sc
    BY DEF Verdict
  <2> QED BY <1>3, <2>1, Zenon
<1>5. RunAt(c[n - 1], DOMAIN level, stmts, n - 1) /\ c[n].ok
  BY <1>1, <1>2 DEF RunAt
<1>6. StIs(Bound(c[n - 1].sc), TRUE, stmts[n])
  BY <1>1, <1>2, <1>5 DEF LoopOK, RunAt
<1> QED BY <1>1, <1>2, <1>3, <1>4, <1>5, <1>6 DEF RunAt, c

LEMMA TurnHolds ==
    ASSUME Features = {}, EInv, Turn
    PROVE  EInv'
<1> DEFINE st == body[pc]
           c == Checks(body, <<scope[1], <<>>>>)
           sc == c[pc - 1].sc
<1>1. /\ at = "turn" /\ pc <= Len(body) /\ InTurn(scope[1], body, pc, mem, cell)
      /\ shape' = shape /\ scope' = scope /\ body' = body
      /\ shape \in Shapes /\ mem["g"] # "frame" /\ "frame" \notin out /\ freed # "frame"
      /\ \A k \in Outliving : "frame" \notin cell[k]
  BY DEF Turn, EInv
<1>2. /\ ScopeOK(sc) /\ TagsOK(sc) /\ Len(sc) = 2 /\ MemOK(sc, mem, cell)
      /\ StIs(Bound(sc), TRUE, st) /\ Check(st, sc).ok
      /\ c[pc].sc = Check(st, sc).sc
      /\ pc + 1 \in 1 .. Len(body) + 1 /\ (pc + 1) - 1 = pc
  BY <1>1, NextStatement
<1>3. \/ st.k # "ret" /\ Execute(st) /\ pc' = pc + 1 /\ at' = at
      \/ st.k = "ret" /\ Return(st.e)
      \/ st.k = "ret" /\ pc' = pc + 1 /\ at' = at /\ mem' = mem /\ cell' = cell /\ freed' = freed /\ out' = out
  BY DEF Turn
<1> HIDE DEF c, sc, st
<1>4. ASSUME MemOK(Check(st, sc).sc, mem', cell'), pc' = pc + 1
      PROVE  InTurn(scope[1], body, pc, mem, cell)' /\ mem'["g"] # "frame"
             /\ \A k \in Outliving : "frame" \notin cell'[k]
  <2>1. MemOK(c[(pc + 1) - 1].sc, mem', cell')
    BY <1>2, <1>4
  <2>2. InTurn(scope[1], body, pc + 1, mem', cell')
    BY <1>1, <1>2, <2>1 DEF InTurn, c
  <2>3. InTurn(scope[1], body, pc, mem, cell)'
    BY <1>1, <1>4, <2>2, InTurnNext
  <2> QED BY <1>4, <2>3 DEF MemOK
<1>5. CASE st.k # "ret" /\ Execute(st) /\ pc' = pc + 1 /\ at' = at
  <2>1. StIs(Bound(sc), Len(sc) = 2, st)
    BY <1>2 DEF StIs
  <2>2. MemOK(Check(st, sc).sc, mem', cell') /\ freed' # "frame" /\ out' = out
    BY <1>2, <1>5, <2>1, ExecuteSound
  <2> QED BY <1>1, <1>4, <1>5, <2>2 DEF EInv
<1>6. CASE st.k = "ret" /\ Return(st.e)
  <2>1. out' = Returned(st.e) /\ at' = "stop" /\ mem' = mem /\ cell' = cell /\ freed' = freed
    BY <1>6 DEF Return
  <2>2. "frame" \notin out'
    BY <1>2, <1>6, <2>1, ReturnSound
  <2> QED BY <1>1, <2>1, <2>2 DEF EInv
<1>7. CASE st.k = "ret" /\ pc' = pc + 1 /\ at' = at /\ mem' = mem /\ cell' = cell /\ freed' = freed /\ out' = out
  <2>1. Check(st, sc).sc = sc
    BY <1>7 DEF Check, check_returned_value, Verdict
  <2>2. MemOK(Check(st, sc).sc, mem', cell')
    BY <1>2, <1>7, <2>1
  <2> QED BY <1>1, <1>4, <1>7, <2>2 DEF EInv
<1> QED BY <1>3, <1>5, <1>6, <1>7

(* Between iterations: the bindings of the function, and what they hold.     *)
LEMMA Between ==
    ASSUME NEW level, NEW stmts, NEW n, NEW m, NEW cl, InTurn(level, stmts, n, m, cl), n > Len(stmts),
           NEW d, d = <<level>> \/ d = <<level, <<>>>>,
           NEW m2, DOMAIN level \subseteq DOMAIN m2, \A x \in DOMAIN level : m2[x] = m[x]
    PROVE  MemOK(d, m2, cl) /\ DOMAIN level \subseteq DOMAIN m
<1> DEFINE c == Checks(stmts, <<level, <<>>>>)
           f == c[Len(stmts)].sc
           one == <<level>>
<1>1. /\ ScopeOK(one) /\ TagsOK(one) /\ Len(stmts) \in Nat /\ n \in 1 .. Len(stmts) + 1
      /\ MemOK(c[n - 1].sc, m, cl) /\ ScopeBelow(<<f[1]>>, one)
      /\ \A k \in 0 .. Len(stmts) : RunAt(c[k], DOMAIN level, stmts, k)
  BY DEF InTurn, Turning
<1>2. n - 1 = Len(stmts) /\ Len(stmts) \in 0 .. Len(stmts)
  BY <1>1
<1>3. ScopeOK(f) /\ TagsOK(f) /\ DOMAIN f[1] = DOMAIN level /\ MemOK(f, m, cl)
  BY <1>1, <1>2 DEF RunAt
<1>4. Len(one) = 1 /\ one[1] = level
  OBVIOUS
<1> HIDE DEF c, f
<1>5. /\ Bound(<<f[1]>>) = DOMAIN level /\ DOMAIN level \subseteq Bound(f)
      /\ \A x \in DOMAIN level : Look(<<f[1]>>, x) = Look(f, x)
  BY <1>3, OuterLevel
<1>6. d[1] = level /\ ScopeOK(d) /\ Bound(d) = DOMAIN level /\ \A x \in DOMAIN level : Look(d, x) = Look(one, x)
  <2>1. d = one \/ d = <<one[1], <<>>>>
    BY <1>4
  <2>2. d[1] = level
    OBVIOUS
  <2> HIDE DEF one
  <2> QED BY <1>1, <1>4, <2>1, <2>2, Nested
<1> HIDE DEF one
<1>7. \A x \in DOMAIN level : TagsBelow(x, Look(f, x), Look(d, x))
  BY <1>1, <1>5, <1>6 DEF ScopeBelow
<1>8. \A x \in Bound(d) : /\ Look(f, x).prov = "STACK" => Look(d, x).prov = "STACK"
                          /\ x \in Slices => (Look(f, x).elem = "STACK" => Look(d, x).elem = "STACK")
                          /\ x = "s" => Look(d, x).prov = Look(f, x).prov
  BY <1>6, <1>7 DEF TagsBelow, Below
<1>9. MemOK(d, m2, cl)
  BY <1>3, <1>6, <1>8, MemOut
<1> QED BY <1>3, <1>5, <1>9 DEF MemOK

LEMMA AgainHolds ==
    ASSUME EInv, Again
    PROVE  EInv'
<1> DEFINE next == <<scope[1], <<>>>>
<1>1. /\ at = "turn" /\ at' = at /\ pc > Len(body) /\ pc' = 1 /\ InTurn(scope[1], body, pc, mem, cell)
      /\ shape' = shape /\ scope' = scope /\ body' = body /\ mem' = mem /\ cell' = cell
      /\ freed' = freed /\ out' = out
      /\ shape \in Shapes /\ mem["g"] # "frame" /\ "frame" \notin out /\ freed # "frame"
      /\ \A k \in Outliving : "frame" \notin cell[k]
  BY DEF Again, EInv
<1>2. DOMAIN scope[1] \subseteq DOMAIN mem
  <2> DEFINE held == [x \in DOMAIN scope[1] |-> mem[x]]
             one == <<scope[1]>>
  <2>1. DOMAIN scope[1] \subseteq DOMAIN held /\ \A x \in DOMAIN scope[1] : held[x] = mem[x]
    OBVIOUS
  <2> HIDE DEF held
  <2>2. one = <<scope[1]>> \/ one = <<scope[1], <<>>>>
    OBVIOUS
  <2> HIDE DEF one
  <2> QED BY <1>1, <2>1, <2>2, Between
<1>3. MemOK(next, mem, cell)
  BY <1>1, <1>2, Between
<1>4. Len(body) \in Nat
  BY <1>1 DEF InTurn
<1> HIDE DEF next
<1>5. Checks(body, next)[1 - 1].sc = next
  <2>1. Checks(body, next)[0] = Verdict(TRUE, next)
    BY <1>4, ChecksDef
  <2>2. Verdict(TRUE, next).sc = next
    BY DEF Verdict
  <2>3. 1 - 1 = 0
    OBVIOUS
  <2> QED BY <2>1, <2>2, <2>3, Zenon
<1>6. InTurn(scope[1], body, 1, mem, cell)
  <2>1. 1 \in 1 .. Len(body) + 1
    BY <1>4
  <2> QED BY <1>1, <1>3, <1>5, <2>1 DEF InTurn, next
<1>7. InTurn(scope[1], body, pc, mem, cell)'
  BY <1>1, <1>6, InTurnNext
<1> QED BY <1>1, <1>7 DEF EInv

LEMMA LeaveHolds ==
    ASSUME EInv, Leave
    PROVE  EInv'
<1> DEFINE one == <<scope[1]>>
           held == [x \in DOMAIN scope[1] |-> mem[x]]
<1>1. /\ at' = "line" /\ body' = <<>> /\ scope' = one /\ mem' = held
      /\ pc > Len(body) /\ InTurn(scope[1], body, pc, mem, cell)
      /\ shape' = shape /\ cell' = cell /\ freed' = freed /\ out' = out
      /\ shape \in Shapes /\ "frame" \notin out /\ freed # "frame"
      /\ \A k \in Outliving : "frame" \notin cell[k]
  BY DEF Leave, EInv
<1>2. DOMAIN held = DOMAIN scope[1] /\ \A x \in DOMAIN scope[1] : held[x] = mem[x]
  OBVIOUS
<1> HIDE DEF held
<1>3. MemOK(one, held, cell)
  BY <1>1, <1>2, Between
<1>4. OnLine(one, held, cell)
  <2>1. Len(one) = 1
    OBVIOUS
  <2> QED BY <1>1, <1>3, <2>1 DEF OnLine, InTurn
<1> HIDE DEF one
<1>5. OnLine(scope, mem, cell)'
  BY <1>1, <1>4, OnLineNext
<1>6. mem'["g"] # "frame"
  BY <1>1, <1>3 DEF MemOK
<1> QED BY <1>1, <1>5, <1>6 DEF EInv

LEMMA StutterHolds ==
    ASSUME EInv, UNCHANGED vars
    PROVE  EInv'
<1>1. /\ shape' = shape /\ scope' = scope /\ body' = body /\ at' = at /\ pc' = pc
      /\ mem' = mem /\ cell' = cell /\ freed' = freed /\ out' = out
  BY DEF vars
<1>2. at = "line" => OnLine(scope, mem, cell)'
  BY <1>1, OnLineNext DEF EInv
<1>3. at = "body" => InBody(scope, body, mem, cell)'
  BY <1>1, InBodyNext DEF EInv
<1>4. at = "turn" => InTurn(scope[1], body, pc, mem, cell)'
  BY <1>1, InTurnNext DEF EInv
<1> QED BY <1>1, <1>2, <1>3, <1>4 DEF EInv

-----------------------------------------------------------------------------
(* The theorems.                                                             *)

(* The invariant that carries them: what is in memory never says more than   *)
(* the tags of check_let and check_assign allow, and a loop that runs is one *)
(* whose next iteration would be accepted too.                               *)
THEOREM MemoryIsTagged == ASSUME Features = {} PROVE Spec => []EInv
<1>1. EInv /\ [Next]_vars => EInv'
  <2> SUFFICES ASSUME EInv, [Next]_vars PROVE EInv'
    OBVIOUS
  <2>1. CASE Write
    BY <2>1, WriteHolds
  <2>2. CASE OpenLoop
    BY <2>2, OpenLoopHolds
  <2>3. CASE WriteBody
    BY <2>3, WriteBodyHolds
  <2>4. CASE CloseLoop
    BY <2>4, CloseLoopHolds
  <2>5. CASE Turn
    BY <2>5, TurnHolds
  <2>6. CASE Again
    BY <2>6, AgainHolds
  <2>7. CASE Leave
    BY <2>7, LeaveHolds
  <2>8. CASE Done \/ UNCHANGED vars
    BY <2>8, StutterHolds DEF Done
  <2> QED BY <2>1, <2>2, <2>3, <2>4, <2>5, <2>6, <2>7, <2>8 DEF Next
<1> QED BY <1>1, InitHolds, PTL DEF Spec

(* What outlives the frame never holds a pointer into it: not the global,    *)
(* not a heap block, not what check_returned_value let through.              *)
THEOREM FrameDoesNotEscape == ASSUME Features = {} PROVE Spec => []NothingEscapes
<1>1. EInv => NothingEscapes
  BY DEF EInv, NothingEscapes
<1> QED BY <1>1, MemoryIsTagged, PTL

(* free is never given the frame's memory, whatever the function did to the  *)
(* variable it names (EXPR_FREE).                                            *)
THEOREM FrameIsNeverFreed == ASSUME Features = {} PROVE Spec => []FreesNoFrame
<1>1. EInv => FreesNoFrame
  BY DEF EInv, FreesNoFrame
<1> QED BY <1>1, MemoryIsTagged, PTL

(* The tags pretaint_loop_body leaves a loop with are final: checked again   *)
(* with the bindings it ends with, the body is accepted again, as often as   *)
(* it runs.                                                                  *)
THEOREM LoopsAreCheckedOnce == ASSUME Features = {} PROVE Spec => []OnePassIsEnough
<1>1. EInv => OnePassIsEnough
  <2> SUFFICES ASSUME EInv, at = "turn" PROVE CheckAll(body, <<scope[1], <<>>>>).ok
    BY DEF OnePassIsEnough
  <2>1. Len(body) \in Nat /\ Turning(scope[1], body)
    BY DEF EInv, InTurn
  <2>2. Len(body) \in 0 .. Len(body)
    BY <2>1
  <2> QED BY <2>1, <2>2 DEF Turning, RunAt, CheckAll
<1> QED BY <1>1, MemoryIsTagged, PTL
=============================================================================
