----------------------------- MODULE FrontProofs -----------------------------
(* What holds of the front end for every set of response files, every command  *)
(* line, every text and every limit.                                         *)
EXTENDS Front, SequenceTheorems, FiniteSetTheorems, WellFoundedInduction, TLAPS

-----------------------------------------------------------------------------
(* The #if filter: its two stacks against the conditions of the open #ifs.    *)

CondTyped ==
    /\ active \in Seq(BOOLEAN) /\ done \in Seq(BOOLEAN)
    /\ groups \in Seq(Seq(BOOLEAN))
    /\ Len(done) = Len(active) /\ Len(active) = Len(groups) + 1
    /\ Len(active) <= MaxCondDepth
    /\ active[1] = TRUE
    /\ \A d \in 1 .. Len(groups) : Len(groups[d]) >= 1

ActiveAt(d) == active[d + 1] <=> \A e \in 1 .. d : Selected(groups[e])
DoneAt(d) == done[d + 1] <=> \E k \in DOMAIN groups[d] : groups[d][k]

CondInv ==
    /\ CondTyped
    /\ \A d \in 1 .. Len(groups) : ActiveAt(d) /\ DoneAt(d)

LEMMA CondInvInit == ASSUME CondInit PROVE CondInv
<1>1. active = <<TRUE>> /\ done = <<TRUE>> /\ groups = <<>>
  BY DEF CondInit
<1>2. <<TRUE>> \in Seq(BOOLEAN) /\ Len(<<TRUE>>) = 1 /\ <<TRUE>>[1] = TRUE
  OBVIOUS
<1>3. groups \in Seq(Seq(BOOLEAN)) /\ Len(groups) = 0 /\ 1 .. Len(groups) = {}
  BY <1>1
<1>4. 1 <= MaxCondDepth
  BY CondAssumption
<1> QED
  BY <1>1, <1>2, <1>3, <1>4 DEF CondInv, CondTyped

(* The branch before the innermost #if is kept when the ones around it are.   *)
LEMMA AroundSelected ==
    ASSUME CondInv, NEW d \in 0 .. Len(groups)
    PROVE  active[d + 1] <=> \A e \in 1 .. d : Selected(groups[e])
<1>1. CASE d = 0
  BY <1>1 DEF CondInv, CondTyped
<1>2. CASE d # 0
  BY <1>2 DEF CondInv, CondTyped, ActiveAt
<1> QED
  BY <1>1, <1>2

(* A branch added to a group is selected when it is true and none was.        *)
LEMMA SelectedAppend ==
    ASSUME NEW branches \in Seq(BOOLEAN), Len(branches) >= 1, NEW c \in BOOLEAN
    PROVE  /\ Append(branches, c) \in Seq(BOOLEAN)
           /\ Len(Append(branches, c)) >= 1
           /\ Selected(Append(branches, c))
                <=> c /\ ~\E k \in DOMAIN branches : branches[k]
           /\ (\E k \in DOMAIN Append(branches, c) : Append(branches, c)[k])
                <=> c \/ \E k \in DOMAIN branches : branches[k]
<1> DEFINE all == Append(branches, c)
           n == Len(branches)
<1>1. /\ all \in Seq(BOOLEAN) /\ Len(all) = n + 1 /\ all[n + 1] = c /\ n \in Nat
      /\ \A k \in 1 .. n : all[k] = branches[k]
      /\ DOMAIN all = 1 .. n + 1 /\ DOMAIN branches = 1 .. n
  BY AppendProperties
<1> HIDE DEF all, n
<1>2. Selected(all) <=> c /\ ~\E k \in 1 .. n : branches[k]
  BY <1>1 DEF Selected
<1>3. (\E k \in 1 .. n + 1 : all[k]) <=> c \/ \E k \in 1 .. n : branches[k]
  <2>1. \A k \in 1 .. n + 1 : k \in 1 .. n \/ k = n + 1
    BY <1>1
  <2>2. \A k \in 1 .. n : k \in 1 .. n + 1
    BY <1>1
  <2>3. n + 1 \in 1 .. n + 1
    BY <1>1
  <2> QED
    BY <1>1, <2>1, <2>2, <2>3, Zenon
<1> QED
  BY <1>1, <1>2, <1>3 DEF all, n

(* A new group: its branch under the ones around it.                          *)
LEMMA PushInv ==
    ASSUME CondInv, NEW c \in BOOLEAN, Len(active) < MaxCondDepth,
           active' = Append(active, active[Len(active)] /\ c),
           done' = Append(done, c), groups' = Append(groups, <<c>>)
    PROVE  CondInv'
<1> DEFINE n == Len(groups)
<1>1. /\ n \in Nat /\ Len(active) = n + 1 /\ Len(done) = n + 1
      /\ active \in Seq(BOOLEAN) /\ done \in Seq(BOOLEAN) /\ groups \in Seq(Seq(BOOLEAN))
  BY DEF CondInv, CondTyped
<1>2. /\ groups' \in Seq(Seq(BOOLEAN)) /\ Len(groups') = n + 1 /\ groups'[n + 1] = <<c>>
      /\ \A d \in 1 .. n : groups'[d] = groups[d]
  <2>1. <<c>> \in Seq(BOOLEAN)
    OBVIOUS
  <2> QED
    BY <1>1, <2>1, AppendProperties
<1>3. /\ active' \in Seq(BOOLEAN) /\ Len(active') = n + 2
      /\ active'[n + 2] = (active[n + 1] /\ c)
      /\ \A d \in 1 .. n + 1 : active'[d] = active[d]
  <2>1. (active[n + 1] /\ c) \in BOOLEAN
    OBVIOUS
  <2> QED
    BY <1>1, <2>1, AppendProperties
<1>4. /\ done' \in Seq(BOOLEAN) /\ Len(done') = n + 2 /\ done'[n + 2] = c
      /\ \A d \in 1 .. n + 1 : done'[d] = done[d]
  BY <1>1, AppendProperties
<1>5. CondTyped'
  <2>1. \A d \in 1 .. n + 1 : Len(groups'[d]) >= 1
    <3>1. \A d \in 1 .. n : Len(groups[d]) >= 1
      BY DEF CondInv, CondTyped
    <3>2. Len(<<c>>) >= 1
      OBVIOUS
    <3> QED
      BY <1>1, <1>2, <3>1, <3>2
  <2>2. active'[1] = TRUE
    BY <1>1, <1>3 DEF CondInv, CondTyped
  <2>3. n + 2 <= MaxCondDepth
    BY <1>1, CondAssumption
  <2> QED
    BY <1>1, <1>2, <1>3, <1>4, <2>1, <2>2, <2>3 DEF CondTyped
<1>6. Selected(<<c>>) <=> c
  BY DEF Selected
<1>7. ASSUME NEW d \in 1 .. n + 1 PROVE ActiveAt(d)'
  <2>1. CASE d = n + 1
    <3>1. active[n + 1] <=> \A e \in 1 .. n : Selected(groups[e])
      BY <1>1, AroundSelected
    <3>2. (\A e \in 1 .. n + 1 : Selected(groups'[e]))
            <=> (\A e \in 1 .. n : Selected(groups[e])) /\ c
      <4>1. \A e \in 1 .. n + 1 : e \in 1 .. n \/ e = n + 1
        BY <1>1
      <4>2. \A e \in 1 .. n : e \in 1 .. n + 1 /\ Selected(groups'[e]) = Selected(groups[e])
        BY <1>1, <1>2
      <4>3. n + 1 \in 1 .. n + 1 /\ (Selected(groups'[n + 1]) <=> c)
        BY <1>1, <1>2, <1>6
      <4> QED
        BY <4>1, <4>2, <4>3, Zenon
    <3>3. active'[d + 1] <=> active[n + 1] /\ c
      BY <2>1, <1>1, <1>3
    <3> QED
      BY <2>1, <3>1, <3>2, <3>3 DEF ActiveAt
  <2>2. CASE d # n + 1
    <3>1. d \in 1 .. n /\ ActiveAt(d)
      BY <2>2, <1>1 DEF CondInv
    <3>2. \A e \in 1 .. d : groups'[e] = groups[e]
      BY <3>1, <1>1, <1>2
    <3>3. active'[d + 1] = active[d + 1]
      BY <3>1, <1>1, <1>3
    <3> HIDE DEF n
    <3> QED
      BY <3>1, <3>2, <3>3 DEF ActiveAt
  <2> QED
    BY <2>1, <2>2
<1>8. ASSUME NEW d \in 1 .. n + 1 PROVE DoneAt(d)'
  <2>1. CASE d = n + 1
    BY <2>1, <1>1, <1>2, <1>4 DEF DoneAt
  <2>2. CASE d # n + 1
    BY <2>2, <1>1, <1>2, <1>4 DEF DoneAt, CondInv
  <2> QED
    BY <2>1, <2>2
<1> QED
  BY <1>2, <1>5, <1>7, <1>8 DEF CondInv

(* The next branch of the innermost group.                                    *)
LEMMA BranchInv ==
    ASSUME CondInv, NEW c \in BOOLEAN, Depth # 0,
           active' = SetLast(active, ParentActive /\ ~done[Len(done)] /\ c),
           done' = SetLast(done, done[Len(done)] \/ c),
           groups' = SetLast(groups, Append(groups[Len(groups)], c))
    PROVE  CondInv'
<1> DEFINE n == Len(groups)
<1>1. /\ n \in Nat /\ n >= 1 /\ Len(active) = n + 1 /\ Len(done) = n + 1
      /\ active \in Seq(BOOLEAN) /\ done \in Seq(BOOLEAN) /\ groups \in Seq(Seq(BOOLEAN))
  BY DEF CondInv, CondTyped, Depth
<1>2. groups[n] \in Seq(BOOLEAN) /\ Len(groups[n]) >= 1
  BY <1>1 DEF CondInv, CondTyped
<1>3. /\ groups' \in Seq(Seq(BOOLEAN)) /\ Len(groups') = n /\ groups'[n] = Append(groups[n], c)
      /\ \A d \in 1 .. n - 1 : groups'[d] = groups[d]
  <2>1. Append(groups[n], c) \in Seq(BOOLEAN)
    BY <1>2, AppendProperties
  <2> QED
    BY <1>1, <2>1 DEF SetLast
<1>4. /\ active' \in Seq(BOOLEAN) /\ Len(active') = n + 1
      /\ active'[n + 1] = (ParentActive /\ ~done[n + 1] /\ c)
      /\ \A d \in 1 .. n : active'[d] = active[d]
  <2>1. (ParentActive /\ ~done[n + 1] /\ c) \in BOOLEAN
    OBVIOUS
  <2> QED
    BY <1>1, <2>1 DEF SetLast
<1>5. /\ done' \in Seq(BOOLEAN) /\ Len(done') = n + 1 /\ done'[n + 1] = (done[n + 1] \/ c)
      /\ \A d \in 1 .. n : done'[d] = done[d]
  <2>1. (done[n + 1] \/ c) \in BOOLEAN
    OBVIOUS
  <2> QED
    BY <1>1, <2>1 DEF SetLast
<1>6. /\ Len(groups'[n]) >= 1
      /\ Selected(groups'[n]) <=> c /\ ~\E k \in DOMAIN groups[n] : groups[n][k]
      /\ (\E k \in DOMAIN groups'[n] : groups'[n][k])
           <=> c \/ \E k \in DOMAIN groups[n] : groups[n][k]
  <2> DEFINE b == groups[n]
  <2>1. /\ Len(Append(b, c)) >= 1
        /\ Selected(Append(b, c)) <=> c /\ ~\E k \in DOMAIN b : b[k]
        /\ (\E k \in DOMAIN Append(b, c) : Append(b, c)[k]) <=> c \/ \E k \in DOMAIN b : b[k]
    <3> HIDE DEF b
    <3>1. b \in Seq(BOOLEAN) /\ Len(b) >= 1
      BY <1>2 DEF b
    <3> QED
      BY <3>1, SelectedAppend
  <2>2. groups'[n] = Append(b, c)
    BY <1>3
  <2> QED
    BY <2>1, <2>2, Zenon
<1>7. done[n + 1] <=> \E k \in DOMAIN groups[n] : groups[n][k]
  BY <1>1 DEF CondInv, DoneAt
<1>8. ParentActive <=> \A e \in 1 .. n - 1 : Selected(groups[e])
  <2>1. n - 1 \in 0 .. Len(groups)
    BY <1>1
  <2>2. active[(n - 1) + 1] <=> \A e \in 1 .. n - 1 : Selected(groups[e])
    BY <2>1, AroundSelected
  <2>3. CASE Depth >= 2
    BY <2>2, <2>3, <1>1 DEF ParentActive
  <2>4. CASE ~(Depth >= 2)
    <3>1. Depth = n
      BY <1>1 DEF Depth
    <3>2. n = 1
      BY <3>1, <2>4, <1>1
    <3>3. ParentActive
      BY <2>4 DEF ParentActive
    <3> QED
      BY <3>2, <3>3
  <2> QED
    BY <2>3, <2>4
<1>9. CondTyped'
  <2>1. \A d \in 1 .. n : Len(groups'[d]) >= 1
    <3>1. \A d \in 1 .. n : Len(groups[d]) >= 1
      BY DEF CondInv, CondTyped
    <3>2. \A d \in 1 .. n : d \in 1 .. n - 1 \/ d = n
      BY <1>1
    <3>3. \A d \in 1 .. n - 1 : Len(groups'[d]) >= 1
      BY <3>1, <1>1, <1>3
    <3> HIDE DEF n
    <3> QED
      BY <3>2, <3>3, <1>6
  <2>2. active'[1] = TRUE /\ n + 1 <= MaxCondDepth
    BY <1>1, <1>4 DEF CondInv, CondTyped
  <2> QED
    BY <1>1, <1>3, <1>4, <1>5, <2>1, <2>2 DEF CondTyped
<1>10. ASSUME NEW d \in 1 .. n PROVE ActiveAt(d)' /\ DoneAt(d)'
  <2>1. CASE d = n
    <3>1. (\A e \in 1 .. n : Selected(groups'[e]))
            <=> (\A e \in 1 .. n - 1 : Selected(groups[e])) /\ Selected(groups'[n])
      <4>1. \A e \in 1 .. n : e \in 1 .. n - 1 \/ e = n
        BY <1>1
      <4>2. \A e \in 1 .. n - 1 : e \in 1 .. n /\ Selected(groups'[e]) = Selected(groups[e])
        BY <1>1, <1>3
      <4>3. n \in 1 .. n
        BY <1>1
      <4> QED
        BY <4>1, <4>2, <4>3, Zenon
    <3>2. active'[n + 1] <=> ParentActive /\ ~done[n + 1] /\ c
      BY <1>4
    <3>3. done'[n + 1] <=> done[n + 1] \/ c
      BY <1>5
    <3> HIDE DEF n
    <3>4. active'[n + 1] <=> \A e \in 1 .. n : Selected(groups'[e])
      BY <3>1, <3>2, <1>6, <1>7, <1>8, Zenon
    <3>5. done'[n + 1] <=> \E k \in DOMAIN groups'[n] : groups'[n][k]
      BY <3>3, <1>6, <1>7, Zenon
    <3> QED
      BY <2>1, <3>4, <3>5 DEF ActiveAt, DoneAt
  <2>2. CASE d # n
    <3>1. d \in 1 .. n - 1 /\ ActiveAt(d) /\ DoneAt(d)
      BY <2>2, <1>1 DEF CondInv
    <3>2. \A e \in 1 .. d : groups'[e] = groups[e]
      <4>1. \A e \in 1 .. d : e \in 1 .. n - 1
        BY <3>1, <1>1
      <4> HIDE DEF n
      <4> QED
        BY <4>1, <1>3
    <3>3. active'[d + 1] = active[d + 1] /\ done'[d + 1] = done[d + 1] /\ groups'[d] = groups[d]
      <4>1. d + 1 \in 1 .. n /\ d \in 1 .. n - 1
        BY <3>1, <1>1
      <4> HIDE DEF n
      <4> QED
        BY <4>1, <1>3, <1>4, <1>5
    <3> HIDE DEF n
    <3> QED
      BY <3>1, <3>2, <3>3 DEF ActiveAt, DoneAt
  <2> QED
    BY <2>1, <2>2
<1> QED
  BY <1>3, <1>9, <1>10 DEF CondInv

LEMMA AllButLastKeeps ==
    ASSUME NEW S, NEW s \in Seq(S), Len(s) >= 1
    PROVE  /\ AllButLast(s) \in Seq(S) /\ Len(AllButLast(s)) = Len(s) - 1
           /\ \A k \in 1 .. Len(s) - 1 : AllButLast(s)[k] = s[k]
<1>1. \A k \in 1 .. Len(s) - 1 : s[k] \in S
  BY ElementOfSeq
<1>2. Len(s) \in Nat /\ 1 <= Len(s) /\ Len(s) - 1 \in 0 .. Len(s)
  OBVIOUS
<1> DEFINE m == Len(s) - 1
<1>3. m \in Int /\ m \in Nat /\ m <= Len(s)
  BY <1>2
<1> HIDE DEF m
<1>4. \A k \in 1 .. m : s[k] \in S
  BY <1>1 DEF m
<1>5. /\ SubSeq(s, 1, m) \in Seq(S) /\ Len(SubSeq(s, 1, m)) = (IF 1 <= m THEN m - 1 + 1 ELSE 0)
      /\ \A k \in 1 .. m - 1 + 1 : SubSeq(s, 1, m)[k] = s[1 + k - 1]
  BY <1>3, <1>4, SubSeqProperties
<1>6. /\ AllButLast(s) \in Seq(S) /\ Len(AllButLast(s)) = m
      /\ \A k \in 1 .. m : AllButLast(s)[k] = s[k]
  <2>1. m - 1 + 1 = m /\ (IF 1 <= m THEN m ELSE 0) = m /\ \A k \in 1 .. m : 1 + k - 1 = k
    BY <1>3
  <2>2. AllButLast(s) = SubSeq(s, 1, m)
    BY DEF AllButLast, m
  <2> QED
    BY <1>5, <2>1, <2>2
<1> QED
  BY <1>6 DEF m

LEMMA CondValue == ASSUME NEW toks PROVE eval_cond_expr(toks).value \in BOOLEAN
<1> DEFINE r == Descend(toks)
<1>1. eval_cond_expr(toks) = [ok |-> r.ok /\ r.pos = Len(toks) + 1, value |-> r.value = TRUE]
  BY DEF eval_cond_expr
<1> HIDE DEF r
<1> QED
  BY <1>1

(* The innermost group ends.                                                  *)
LEMMA PopInv ==
    ASSUME CondInv, Depth # 0, active' = AllButLast(active), done' = AllButLast(done),
           groups' = AllButLast(groups)
    PROVE  CondInv'
<1> DEFINE n == Len(groups)
<1>1. /\ n \in Nat /\ n >= 1 /\ Len(active) = n + 1 /\ Len(done) = n + 1
      /\ active \in Seq(BOOLEAN) /\ done \in Seq(BOOLEAN) /\ groups \in Seq(Seq(BOOLEAN))
  BY DEF CondInv, CondTyped, Depth
<1>2. /\ active' \in Seq(BOOLEAN) /\ Len(active') = n /\ \A d \in 1 .. n : active'[d] = active[d]
      /\ done' \in Seq(BOOLEAN) /\ Len(done') = n /\ \A d \in 1 .. n : done'[d] = done[d]
      /\ groups' \in Seq(Seq(BOOLEAN)) /\ Len(groups') = n - 1
      /\ \A d \in 1 .. n - 1 : groups'[d] = groups[d]
  <2>1. /\ AllButLast(active) \in Seq(BOOLEAN) /\ Len(AllButLast(active)) = n
        /\ \A d \in 1 .. n : AllButLast(active)[d] = active[d]
    <3>1. Len(active) >= 1 /\ Len(active) - 1 = n
      BY <1>1
    <3>2. /\ AllButLast(active) \in Seq(BOOLEAN) /\ Len(AllButLast(active)) = Len(active) - 1
          /\ \A k \in 1 .. Len(active) - 1 : AllButLast(active)[k] = active[k]
      BY <1>1, <3>1, AllButLastKeeps, Zenon
    <3> QED
      BY <3>1, <3>2, Zenon
  <2>2. /\ AllButLast(done) \in Seq(BOOLEAN) /\ Len(AllButLast(done)) = n
        /\ \A d \in 1 .. n : AllButLast(done)[d] = done[d]
    <3>1. Len(done) >= 1 /\ Len(done) - 1 = n
      BY <1>1
    <3>2. /\ AllButLast(done) \in Seq(BOOLEAN) /\ Len(AllButLast(done)) = Len(done) - 1
          /\ \A k \in 1 .. Len(done) - 1 : AllButLast(done)[k] = done[k]
      BY <1>1, <3>1, AllButLastKeeps, Zenon
    <3> QED
      BY <3>1, <3>2, Zenon
  <2>3. /\ AllButLast(groups) \in Seq(Seq(BOOLEAN)) /\ Len(AllButLast(groups)) = n - 1
        /\ \A d \in 1 .. n - 1 : AllButLast(groups)[d] = groups[d]
    BY <1>1, AllButLastKeeps
  <2> HIDE DEF n
  <2> QED
    BY <2>1, <2>2, <2>3
<1>3. CondTyped'
  <2>1. \A d \in 1 .. n - 1 : Len(groups'[d]) >= 1
    BY <1>1, <1>2 DEF CondInv, CondTyped
  <2>2. active'[1] = TRUE /\ n <= MaxCondDepth
    BY <1>1, <1>2, CondAssumption DEF CondInv, CondTyped
  <2> QED
    BY <1>1, <1>2, <2>1, <2>2 DEF CondTyped
<1>4. ASSUME NEW d \in 1 .. n - 1 PROVE ActiveAt(d)' /\ DoneAt(d)'
  <2>1. ActiveAt(d) /\ DoneAt(d)
    BY <1>1 DEF CondInv
  <2>2. \A e \in 1 .. d : groups'[e] = groups[e]
    <3>1. \A e \in 1 .. d : e \in 1 .. n - 1
      BY <1>1
    <3> HIDE DEF n
    <3> QED
      BY <3>1, <1>2
  <2>3. active'[d + 1] = active[d + 1] /\ done'[d + 1] = done[d + 1] /\ groups'[d] = groups[d]
    BY <1>1, <1>2
  <2> HIDE DEF n
  <2> QED
    BY <2>1, <2>2, <2>3 DEF ActiveAt, DoneAt
<1> QED
  BY <1>2, <1>3, <1>4 DEF CondInv

LEMMA CondStays == ASSUME CondInv, UNCHANGED <<active, done, groups>> PROVE CondInv'
BY DEF CondInv, CondTyped, ActiveAt, DoneAt

LEMMA FilterInv == ASSUME CondInv, NEW line, Filter(line) PROVE CondInv'
<1>1. CASE HashIf(line)
  <2>1. PICK c \in {eval_cond_expr(line.cond)} :
           \/ UNCHANGED <<active, done, groups>>
           \/ /\ Depth + 1 < MaxCondDepth
              /\ active' = Append(active, active[Len(active)] /\ c.value)
              /\ done' = Append(done, c.value) /\ groups' = Append(groups, <<c.value>>)
    <3>1. Len(active) \in Nat /\ Depth + 1 = Len(active) /\ MaxCondDepth \in Nat
      BY CondAssumption DEF Depth, CondInv, CondTyped
    <3>2. ~(Depth + 1 >= MaxCondDepth) => Depth + 1 < MaxCondDepth
      BY <3>1
    <3> QED
      BY <1>1, <3>2, Zenon DEF HashIf, Abort
  <2>2. c.value \in BOOLEAN
    BY CondValue
  <2>3. Depth + 1 = Len(active)
    BY DEF Depth, CondInv, CondTyped
  <2> QED
    BY <2>1, <2>2, <2>3, CondStays, PushInv
<1>2. CASE HashElseIf(line)
  <2>1. PICK c \in {eval_cond_expr(line.cond)} :
           \/ UNCHANGED <<active, done, groups>>
           \/ /\ Depth # 0
              /\ active' = SetLast(active, ParentActive /\ ~done[Len(done)] /\ c.value)
              /\ done' = SetLast(done, done[Len(done)] \/ c.value)
              /\ groups' = SetLast(groups, Append(groups[Len(groups)], c.value))
    BY <1>2 DEF HashElseIf, Abort
  <2>2. c.value \in BOOLEAN
    BY CondValue
  <2> QED
    BY <2>1, <2>2, CondStays, BranchInv
<1>3. CASE HashElse(line)
  <2>1. CASE UNCHANGED <<active, done, groups>>
    BY <2>1, CondStays
  <2>2. CASE /\ Depth # 0
             /\ active' = SetLast(active, ParentActive /\ ~done[Len(done)])
             /\ done' = SetLast(done, TRUE)
             /\ groups' = SetLast(groups, Append(groups[Len(groups)], TRUE))
    <3>1. /\ (ParentActive /\ ~done[Len(done)]) = (ParentActive /\ ~done[Len(done)] /\ TRUE)
          /\ TRUE = (done[Len(done)] \/ TRUE)
      OBVIOUS
    <3> QED
      BY <2>2, <3>1, BranchInv
  <2> QED
    BY <1>3, <2>1, <2>2 DEF HashElse, Abort
<1>4. CASE HashEnd(line)
  BY <1>4, CondStays, PopInv DEF HashEnd, Abort
<1>5. CASE TextLine(line)
  BY <1>5, CondStays DEF TextLine
<1> QED
  BY <1>1, <1>2, <1>3, <1>4, <1>5 DEF Filter

(* The lines the filter keeps are those all of whose #ifs have selected the   *)
(* branch the line is in, at any depth of nesting.                           *)
THEOREM FilterSelects == Spec => []BranchSelected
<1>1. Init => CondInv
  BY CondInvInit DEF Init
<1>2. ASSUME CondInv, [Next]_vars PROVE CondInv'
  <2>1. CASE FilterLine
    BY <2>1, <1>2, FilterInv DEF FilterLine
  <2>2. CASE Lex \/ EndFilter
    BY <2>2, <1>2, CondStays DEF Lex, EndFilter, Unclosed, Abort
  <2>3. CASE UNCHANGED <<active, done, groups>>
    BY <2>3, <1>2, CondStays
  <2> QED
    BY <1>2, <2>1, <2>2, <2>3
       DEF Next, vars, cond, ReadArgs, LayLine, EndLayout, Stop, Done
<1>3. CondInv => BranchSelected
  BY DEF CondInv, CondTyped, BranchSelected, ActiveAt, DoneAt, Depth
<1> QED
  BY <1>1, <1>2, <1>3, PTL DEF Spec

-----------------------------------------------------------------------------
(* The layout: the columns of the open blocks.                                *)

Block == [col : Nat, is_match_block : BOOLEAN]
LayoutInv == indent_stack \in Seq(Block) /\ NestedColumns

(* Blocks are closed from the inside.                                         *)
Outer(blocks) ==
    /\ blocks \in Seq(Block) /\ Len(blocks) \in 1 .. Len(indent_stack)
    /\ \A k \in 1 .. Len(blocks) : blocks[k] = indent_stack[k]

LEMMA KeepOuter ==
    ASSUME NEW blocks, Outer(blocks), NEW Closes(_), NEW kept \in KeepFrom(blocks, Closes)
    PROVE  Outer(kept)
<1>1. PICK n \in 1 .. Len(blocks) : kept = SubSeq(blocks, 1, n)
  BY DEF KeepFrom
<1>2. blocks \in Seq(Block) /\ Len(blocks) \in Nat /\ Len(blocks) <= Len(indent_stack)
  BY DEF Outer
<1>3. \A k \in 1 .. n : blocks[k] \in Block /\ blocks[k] = indent_stack[k]
  BY <1>2 DEF Outer
<1>4. /\ kept \in Seq(Block) /\ Len(kept) = n
      /\ \A k \in 1 .. n : kept[k] = blocks[k]
  <2>1. n \in Nat /\ 1 <= n /\ n - 1 + 1 = n /\ \A k \in 1 .. n : 1 + k - 1 = k
    BY <1>2
  <2>2. /\ SubSeq(blocks, 1, n) \in Seq(Block) /\ Len(SubSeq(blocks, 1, n)) = n - 1 + 1
        /\ \A k \in 1 .. n - 1 + 1 : SubSeq(blocks, 1, n)[k] = blocks[1 + k - 1]
    BY <1>3, <2>1, SubSeqProperties
  <2> QED
    BY <1>1, <2>1, <2>2
<1>5. n \in 1 .. Len(indent_stack)
  BY <1>2 DEF Outer
<1> QED
  BY <1>3, <1>4, <1>5 DEF Outer

LEMMA KeptInv ==
    ASSUME LayoutInv, NEW blocks, Outer(blocks), indent_stack' = blocks
    PROVE  LayoutInv'
<1>1. /\ Len(blocks) \in Nat /\ 1 <= Len(blocks) /\ Len(blocks) <= Len(indent_stack)
      /\ Len(indent_stack) \in Nat /\ Len(indent_stack) <= MaxIndent /\ MaxIndent \in Nat
  BY LayoutAssumption DEF LayoutInv, NestedColumns, Outer
<1>2. Len(blocks) \in 1 .. MaxIndent
  BY <1>1
<1>3. blocks[1] = [col |-> 1, is_match_block |-> FALSE]
  BY <1>1 DEF LayoutInv, NestedColumns, Outer
<1>4. ASSUME NEW k \in 2 .. Len(blocks)
      PROVE  \/ blocks[k - 1].col < blocks[k].col
             \/ blocks[k].is_match_block /\ blocks[k - 1].col = blocks[k].col
  <2>1. k \in 1 .. Len(blocks) /\ k - 1 \in 1 .. Len(blocks) /\ k \in 2 .. Len(indent_stack)
    BY <1>1
  <2>2. blocks[k] = indent_stack[k] /\ blocks[k - 1] = indent_stack[k - 1]
    BY <2>1 DEF Outer
  <2> QED
    BY <2>1, <2>2 DEF LayoutInv, NestedColumns
<1> QED
  BY <1>2, <1>3, <1>4 DEF LayoutInv, NestedColumns, Outer

LEMMA OpenedInv ==
    ASSUME LayoutInv, NEW blocks, Outer(blocks), Len(blocks) < MaxIndent,
           NEW b \in Block, indent_stack' = Append(blocks, b),
           \/ TopBlock(blocks).col < b.col
           \/ b.is_match_block /\ TopBlock(blocks).col = b.col
    PROVE  LayoutInv'
<1> DEFINE n == Len(blocks)
<1>1. n \in Nat /\ n >= 1 /\ n < MaxIndent /\ n <= Len(indent_stack) /\ MaxIndent \in Nat
  BY LayoutAssumption DEF Outer, LayoutInv
<1>2. /\ indent_stack' \in Seq(Block) /\ Len(indent_stack') = n + 1 /\ indent_stack'[n + 1] = b
      /\ \A k \in 1 .. n : indent_stack'[k] = indent_stack[k]
  BY <1>1, AppendProperties DEF Outer
<1>3. indent_stack[n] = TopBlock(blocks)
  BY <1>1 DEF TopBlock, Outer
<1>4. ASSUME NEW k \in 2 .. n + 1
      PROVE  \/ indent_stack'[k - 1].col < indent_stack'[k].col
             \/ indent_stack'[k].is_match_block /\ indent_stack'[k - 1].col = indent_stack'[k].col
  <2>1. CASE k = n + 1
    <3>1. indent_stack'[k] = b /\ k - 1 = n /\ indent_stack'[n] = TopBlock(blocks)
      BY <2>1, <1>1, <1>2, <1>3
    <3> QED
      BY <3>1
  <2>2. CASE k # n + 1
    <3>1. /\ indent_stack'[k] = indent_stack[k] /\ indent_stack'[k - 1] = indent_stack[k - 1]
          /\ k \in 2 .. Len(indent_stack)
      BY <2>2, <1>1, <1>2
    <3> QED
      BY <3>1 DEF LayoutInv, NestedColumns
  <2> QED
    BY <2>1, <2>2
<1>5. indent_stack'[1] = [col |-> 1, is_match_block |-> FALSE]
  BY <1>1, <1>2 DEF LayoutInv, NestedColumns
<1>6. n + 1 \in 1 .. MaxIndent
  BY <1>1
<1> QED
  BY <1>2, <1>4, <1>5, <1>6 DEF LayoutInv, NestedColumns

LEMMA LayInv == ASSUME LayoutInv, NEW line \in Shape, Lay(line) PROVE LayoutInv'
<1>1. line.col \in Nat
  BY FrontAssumption
<1>2. CASE NoBreak(line)
  BY <1>2 DEF NoBreak, LayoutInv, NestedColumns
<1>3. CASE LineBreak(line)
  <2>1. Outer(indent_stack)
    BY DEF Outer, LayoutInv, NestedColumns
  <2>2. PICK open, marks :
          /\ open \in CloseMatchBlocks(indent_stack, line)
          /\ LET top == TopBlock(open).col
             IN  IF Opens(open, line) THEN NewBlock(line, open, FALSE, marks)
                 ELSE IF OpensMatch(open, line) THEN NewBlock(line, open, TRUE, marks)
                 ELSE IF line.col = top THEN Place(line, open, Append(marks, Mark("NEWLINE")))
                 ELSE IF line.col > top THEN Place(line, open, marks)
                 ELSE \E inside \in CloseDeeper(open, line) :
                      \E outer \in CloseMatchBlocks(inside, line) :
                        IF line.col # TopBlock(outer).col
                        THEN Misplace("inconsistent indentation")
                        ELSE Place(line, outer,
                                   Append(Dedents(indent_stack, outer), Mark("NEWLINE")))
    BY <1>3 DEF LineBreak
  <2>3. Outer(open)
    BY <2>1, <2>2, KeepOuter DEF CloseMatchBlocks
  <2>4. ASSUME NEW is_match \in BOOLEAN, NewBlock(line, open, is_match, marks),
               \/ TopBlock(open).col < line.col
               \/ is_match /\ TopBlock(open).col = line.col
        PROVE  LayoutInv'
    <3> DEFINE b == [col |-> line.col, is_match_block |-> is_match]
    <3>1. b \in Block /\ b.col = line.col /\ b.is_match_block = is_match
      BY <1>1 DEF Block
    <3>2. CASE UNCHANGED indent_stack
      BY <3>2, <2>1, KeptInv
    <3>3. CASE ~(Len(open) >= MaxIndent) /\ indent_stack' = Append(open, b)
      <4>1. Len(open) < MaxIndent
        BY <3>3, <2>3, LayoutAssumption DEF Outer
      <4> HIDE DEF b
      <4> QED
        BY <3>1, <3>3, <4>1, <2>3, <2>4, OpenedInv
    <3> QED
      BY <2>4, <3>2, <3>3 DEF NewBlock, Misplace, Place
  <2>5. ASSUME NEW blocks, NEW more, Outer(blocks), Place(line, blocks, more) PROVE LayoutInv'
    BY <2>5, KeptInv DEF Place
  <2>6. CASE Opens(open, line)
    <3>1. TopBlock(open).col < line.col
      <4>1. TopBlock(open) \in Block
        BY <2>3 DEF Outer, TopBlock
      <4> QED
        BY <4>1, <1>1, <2>6 DEF Opens, Block
    <3> QED
      BY <2>2, <2>4, <2>6, <3>1
  <2>7. CASE ~Opens(open, line) /\ OpensMatch(open, line)
    BY <2>2, <2>4, <2>7 DEF OpensMatch, Peer
  <2>8. CASE ~Opens(open, line) /\ ~OpensMatch(open, line)
    <3>1. CASE UNCHANGED indent_stack
      BY <3>1, <2>1, KeptInv
    <3>2. ASSUME NEW inside \in CloseDeeper(open, line), NEW outer \in CloseMatchBlocks(inside, line)
          PROVE  Outer(outer)
      <4>1. Outer(inside)
        BY <2>3, KeepOuter DEF CloseDeeper
      <4> QED
        BY <4>1, KeepOuter DEF CloseMatchBlocks
    <3> QED
      BY <2>2, <2>3, <2>5, <2>8, <3>1, <3>2 DEF Misplace
  <2> QED
    BY <2>6, <2>7, <2>8
<1> QED
  BY <1>2, <1>3 DEF Lay

(* Whatever the text, the open blocks nest to the right, within MAX_INDENT.   *)
THEOREM BlocksNest == Spec => []NestedColumns
<1>1. Init => LayoutInv
  <2> SUFFICES ASSUME Init PROVE LayoutInv
    OBVIOUS
  <2> DEFINE file == [col |-> 1, is_match_block |-> FALSE]
  <2>1. file \in Block /\ indent_stack = <<file>>
    BY DEF Init, LayoutInit, Block
  <2> HIDE DEF file
  <2>2. indent_stack \in Seq(Block) /\ Len(indent_stack) = 1 /\ indent_stack[1] = file
    BY <2>1
  <2>3. 1 \in 1 .. MaxIndent /\ 2 .. 1 = {}
    BY LayoutAssumption
  <2> QED
    BY <2>2, <2>3 DEF LayoutInv, NestedColumns, file
<1>2. ASSUME LayoutInv, [Next]_vars PROVE LayoutInv'
  <2>1. CASE LayLine
    BY <2>1, <1>2, LayInv DEF LayLine
  <2>2. CASE EndLayout
    <3>1. indent_stack' = SubSeq(indent_stack, 1, 1)
      BY <2>2 DEF EndLayout, EndOfText
    <3>2. Outer(SubSeq(indent_stack, 1, 1))
      <4>1. indent_stack \in Seq(Block) /\ 1 \in 1 .. Len(indent_stack)
        BY <1>2 DEF LayoutInv, NestedColumns
      <4>2. \A k \in 1 .. 1 : indent_stack[k] \in Block
        BY <4>1
      <4>3. /\ SubSeq(indent_stack, 1, 1) \in Seq(Block) /\ Len(SubSeq(indent_stack, 1, 1)) = 1
            /\ \A k \in 1 .. 1 : SubSeq(indent_stack, 1, 1)[k] = indent_stack[k]
        BY <4>2, SubSeqProperties
      <4> QED
        BY <4>1, <4>3 DEF Outer
    <3> QED
      BY <3>1, <3>2, <1>2, KeptInv
  <2>3. CASE UNCHANGED indent_stack
    BY <2>3, <1>2 DEF LayoutInv, NestedColumns
  <2> QED
    BY <1>2, <2>1, <2>2, <2>3
       DEF Next, vars, layout, ReadArgs, Lex, FilterLine, EndFilter, Stop, Done
<1>3. LayoutInv => NestedColumns
  BY DEF LayoutInv
<1> QED
  BY <1>1, <1>2, <1>3, PTL DEF Spec

-----------------------------------------------------------------------------
(* Response files: the files that are being expanded.                         *)

Frame == [path : Dir \X Base, rest : Seq(Token)]
Distinct(frames) ==
    \A k, l \in 1 .. Len(frames) : Canon[frames[k].path] = Canon[frames[l].path] => k = l

StackInv ==
    /\ argv \in Seq(Token) /\ arg \in Nat \ {0}
    /\ disk \in [Rsp -> Seq(Token) \cup {None}]
    /\ stack \in Seq(Frame) /\ Len(stack) <= ArgsMaxDepth + 1 /\ Distinct(stack)

LEMMA NamedTyped ==
    ASSUME NEW dir \in Dir, NEW tok \in Token, tok.kind = "@"
    PROVE  Named(dir, tok) \in Dir \X Base /\ Named(dir, tok)[1] \in Dir
<1>1. tok \in [kind : {"@"}, sub : Sub, base : Base]
  BY DEF Token, OpenQuote
<1> QED
  BY <1>1, ArgsAssumption DEF Named

LEMMA StackStays ==
    ASSUME StackInv, UNCHANGED <<argv, disk, stack>>, arg' \in Nat \ {0} PROVE StackInv'
BY DEF StackInv, Distinct

LEMMA RejectInv == ASSUME StackInv, NEW message, Reject(message) PROVE StackInv'
BY ArgsAssumption DEF StackInv, Distinct, Reject

(* The callers keep their files while the called one is expanded.             *)
LEMMA OpenInv ==
    ASSUME StackInv, NEW path \in Dir \X Base, NEW under \in Seq(Frame), Len(under) = Len(stack),
           \A k \in 1 .. Len(stack) : under[k].path = stack[k].path,
           NEW to \in Nat \ {0}, Open(path, under, to)
    PROVE  StackInv'
<1>1. CASE \E message : Reject(message)
  BY <1>1, RejectInv
<1>2. CASE ~\E message : Reject(message)
  <2>1. /\ ~(Len(stack) > ArgsMaxDepth) /\ Canon[path] # Missing /\ ~Active(path)
    BY <1>2 DEF Open
  <2>2. PICK held \in IF disk[Canon[path]] # None THEN {disk[Canon[path]]}
                     ELSE Contents[Canon[path]] :
           /\ disk' = [disk EXCEPT ![Canon[path]] = held]
           /\ stack' = Append(under, [path |-> path, rest |-> held])
           /\ arg' = to /\ argv' = argv
    BY <2>1 DEF Open
  <2>3. Canon[path] \in Rsp
    BY <2>1, ArgsAssumption
  <2>4. held \in Seq(Token)
    <3>1. disk[Canon[path]] \in Seq(Token) \cup {None}
      BY <2>3 DEF StackInv
    <3>2. Contents[Canon[path]] \in SUBSET Seq(Token)
      BY <2>3, ArgsAssumption
    <3> QED
      BY <2>2, <3>1, <3>2
  <2> DEFINE n == Len(stack)
             frame == [path |-> path, rest |-> held]
  <2>5. n \in Nat /\ n <= ArgsMaxDepth /\ ArgsMaxDepth \in Nat
    BY <2>1, ArgsAssumption DEF StackInv
  <2>6. /\ stack' \in Seq(Frame) /\ Len(stack') = n + 1 /\ stack'[n + 1] = frame
        /\ \A k \in 1 .. n : stack'[k] = under[k]
    <3>1. frame \in Frame
      BY <2>4 DEF Frame
    <3> HIDE DEF frame
    <3> QED
      BY <2>2, <3>1, AppendProperties DEF frame
  <2>7. ASSUME NEW k \in 1 .. n + 1, NEW l \in 1 .. n + 1,
               Canon[stack'[k].path] = Canon[stack'[l].path]
        PROVE  k = l
    <3>1. \A m \in 1 .. n : stack'[m].path = stack[m].path /\ Canon[stack[m].path] # Canon[path]
      <4>1. DOMAIN stack = 1 .. n
        BY DEF StackInv
      <4> QED
        BY <2>1, <2>6, <4>1 DEF Active
    <3>2. stack'[n + 1].path = path
      BY <2>6
    <3>3. \A m \in 1 .. n + 1 : m \in 1 .. n \/ m = n + 1
      BY <2>5
    <3>4. Distinct(stack)
      BY DEF StackInv
    <3>5. CASE k \in 1 .. n /\ l \in 1 .. n
      <4>1. stack'[k].path = stack[k].path /\ stack'[l].path = stack[l].path
        BY <3>1, <3>5
      <4>2. Canon[stack[k].path] = Canon[stack[l].path]
        BY <2>7, <4>1
      <4> QED
        BY <3>4, <3>5, <4>2 DEF Distinct
    <3>6. CASE ~(k \in 1 .. n /\ l \in 1 .. n)
      <4> HIDE DEF n
      <4> QED
        BY <2>7, <3>1, <3>2, <3>3, <3>6
    <3> QED
      BY <3>5, <3>6
  <2> QED
    BY <2>2, <2>3, <2>4, <2>5, <2>6, <2>7 DEF StackInv, Distinct
<1> QED
  BY <1>1, <1>2

LEMMA ConsumedTyped ==
    ASSUME StackInv, stack # <<>>, Top.rest # <<>>
    PROVE  /\ Consumed \in Seq(Frame) /\ Len(Consumed) = Len(stack)
           /\ \A k \in 1 .. Len(stack) : Consumed[k].path = stack[k].path
           /\ TopDir \in Dir /\ Top.rest[1] \in Token
<1> DEFINE n == Len(stack)
<1>1. n \in Nat /\ n >= 1 /\ stack \in Seq(Frame) /\ stack[n] \in Frame
  BY DEF StackInv
<1>2. Top.rest \in Seq(Token) /\ Top.path \in Dir \X Base
  BY <1>1 DEF Top, Frame
<1>3. Tail(Top.rest) \in Seq(Token) /\ Top.rest[1] \in Token
  BY <1>2
<1>4. [stack[n] EXCEPT !.rest = Tail(@)] \in Frame
  BY <1>1, <1>3 DEF Frame, Top
<1>5. Consumed = [stack EXCEPT ![n] = [stack[n] EXCEPT !.rest = Tail(@)]]
  BY DEF Consumed
<1>6. [stack[n] EXCEPT !.rest = Tail(@)].path = stack[n].path
  BY <1>1 DEF Frame
<1> QED
  BY <1>1, <1>2, <1>3, <1>4, <1>5, <1>6 DEF TopDir

LEMMA NextTokenInv == ASSUME StackInv, NextToken PROVE StackInv'
<1> DEFINE tok == Top.rest[1]
<1>1. stack # <<>> /\ Top.rest # <<>>
  BY DEF NextToken
<1>2. /\ Consumed \in Seq(Frame) /\ Len(Consumed) = Len(stack)
      /\ \A k \in 1 .. Len(stack) : Consumed[k].path = stack[k].path
      /\ TopDir \in Dir /\ tok \in Token
  BY <1>1, ConsumedTyped
<1>3. CASE tok.kind = "quote"
  BY <1>3, RejectInv DEF NextToken
<1>4. CASE tok.kind = "@"
  <2>1. Open(Named(TopDir, tok), Consumed, arg)
    BY <1>4 DEF NextToken
  <2>2. Named(TopDir, tok) \in Dir \X Base /\ arg \in Nat \ {0}
    BY <1>2, <1>4, NamedTyped DEF StackInv
  <2> HIDE DEF tok
  <2> QED
    BY <2>1, <2>2, <1>2, OpenInv
<1>5. CASE tok.kind # "quote" /\ tok.kind # "@"
  <2>1. stack' = Consumed /\ UNCHANGED <<argv, arg, disk>>
    BY <1>5 DEF NextToken
  <2>2. Distinct(Consumed)
    BY <1>2 DEF StackInv, Distinct
  <2> QED
    BY <1>2, <2>1, <2>2 DEF StackInv
<1> QED
  BY <1>3, <1>4, <1>5

LEMMA NextArgInv == ASSUME StackInv, NextArg PROVE StackInv'
<1> DEFINE tok == argv[arg]
<1>1. stack = <<>> /\ arg <= Len(argv)
  BY DEF NextArg, Expanding
<1>2. tok \in Token /\ arg + 1 \in Nat \ {0}
  BY <1>1 DEF StackInv
<1>3. CASE tok.kind = "@"
  <2>1. Open(Named(Cwd, tok), <<>>, arg + 1)
    BY <1>3 DEF NextArg
  <2>2. Named(Cwd, tok) \in Dir \X Base
    BY <1>2, <1>3, NamedTyped, ArgsAssumption
  <2>3. <<>> \in Seq(Frame) /\ Len(<<>>) = Len(stack) /\ 1 .. Len(stack) = {}
    BY <1>1
  <2> HIDE DEF tok
  <2> QED
    BY <2>1, <2>2, <2>3, <1>2, OpenInv
<1>4. CASE tok.kind # "@"
  <2>1. arg' = arg + 1 /\ UNCHANGED <<argv, stack, disk>>
    BY <1>4 DEF NextArg
  <2> HIDE DEF tok
  <2> QED
    BY <2>1, <1>2, StackStays
<1> QED
  BY <1>3, <1>4

LEMMA ArgsStepInv == ASSUME StackInv, ArgsStep PROVE StackInv'
<1>1. CASE EndOfFile
  <2> DEFINE n == Len(stack)
  <2>1. /\ n \in Nat /\ n >= 1 /\ stack \in Seq(Frame)
        /\ stack' = SubSeq(stack, 1, n - 1) /\ UNCHANGED <<argv, arg, disk>>
    BY <1>1 DEF EndOfFile, StackInv
  <2>2. /\ stack' \in Seq(Frame) /\ Len(stack') = n - 1
        /\ \A k \in 1 .. n - 1 : stack'[k] = stack[k]
    BY <2>1, AllButLastKeeps DEF AllButLast
  <2>3. Distinct(stack')
    <3>1. \A k \in 1 .. n - 1 : k \in 1 .. n
      BY <2>1
    <3> QED
      BY <2>1, <2>2, <3>1 DEF StackInv, Distinct
  <2>4. n - 1 <= ArgsMaxDepth + 1
    BY <2>1, ArgsAssumption DEF StackInv
  <2> QED
    BY <2>1, <2>2, <2>3, <2>4 DEF StackInv
<1>2. CASE UNCHANGED <<argv, arg, disk, stack>>
  BY <1>2, StackStays DEF StackInv
<1> QED
  BY <1>1, <1>2, NextArgInv, NextTokenInv
     DEF ArgsStep, args_parse, MissingValue, OutputOption, LenRepr, FlagOption, NoAutoDetect,
         Backtraces, Positional, UnknownOption, NoInput, Accept, Fail

(* However response files mention each other, and under whatever names, the   *)
(* recursion of expand_file is on distinct files and within its limit.        *)
THEOREM ExpansionIsFinite == Spec => []NoFileOpenTwice
<1>1. Init => StackInv
  <2> SUFFICES ASSUME Init PROVE StackInv
    OBVIOUS
  <2>1. argv \in Seq(Token)
    <3>1. argv \in Seq(Token \ {OpenQuote})
      BY ArgsAssumption DEF Init, ArgsInit
    <3> QED
      BY <3>1
  <2> QED
    BY <2>1, ArgsAssumption DEF Init, ArgsInit, StackInv, Distinct
<1>2. ASSUME StackInv, [Next]_vars PROVE StackInv'
  <2>1. CASE ReadArgs
    BY <2>1, <1>2, ArgsStepInv DEF ReadArgs
  <2>2. CASE Lex
    BY <2>2, <1>2 DEF Lex, StackInv
  <2>3. CASE UNCHANGED args
    BY <2>3, <1>2, StackStays DEF args, StackInv
  <2> QED
    BY <1>2, <2>1, <2>2, <2>3
       DEF Next, vars, FilterLine, EndFilter, LayLine, EndLayout, Stop, Done
<1>3. StackInv => NoFileOpenTwice
  BY DEF StackInv, NoFileOpenTwice, Distinct
<1> QED
  BY <1>1, <1>2, <1>3, PTL DEF Spec

-----------------------------------------------------------------------------
(* The offside rule.  Its notions are those of Layout, of any output s.       *)

OfKind(s, p, kind) == {q \in 1 .. p : s[q].kind = kind}
Count(s, p, kind) == Cardinality(OfKind(s, p, kind))
BlocksIn(s, p)    == Count(s, p, "INDENT") - Count(s, p, "DEDENT")
LineIn(s, p)      == s[p].kind = "line"
StartsIn(s, p)    == LineIn(s, p) /\ (p = 1 \/ ~LineIn(s, p - 1))
OpenedIn(s, p)    == p > 1 /\ s[p - 1].kind = "INDENT"

(* The block a position is in is still open.                                 *)
Live(s, p) == \A r \in p .. Len(s) : BlocksIn(s, r) >= BlocksIn(s, p)

LEMMA KindsFinite ==
    ASSUME NEW s, NEW p \in Nat, NEW kind
    PROVE  IsFiniteSet(OfKind(s, p, kind)) /\ Cardinality(OfKind(s, p, kind)) \in Nat
<1>1. IsFiniteSet(1 .. p)
  BY FS_Interval
<1>2. OfKind(s, p, kind) \in SUBSET (1 .. p)
  BY DEF OfKind
<1> QED BY <1>1, <1>2, FS_Subset, FS_CardinalityType

LEMMA CountType ==
    ASSUME NEW s, NEW p \in Nat, NEW kind
    PROVE  Count(s, p, kind) \in Nat /\ Count(s, 0, kind) = 0
<1>1. OfKind(s, 0, kind) = {}
  BY DEF OfKind
<1> QED BY <1>1, KindsFinite, FS_EmptySet DEF Count

(* What is counted is what is before the position.                           *)
LEMMA CountSame ==
    ASSUME NEW s, NEW t, NEW p \in Nat, \A q \in 1 .. p : s[q] = t[q], NEW kind
    PROVE  Count(s, p, kind) = Count(t, p, kind)
<1>1. OfKind(s, p, kind) = OfKind(t, p, kind)
  BY DEF OfKind
<1> QED BY <1>1 DEF Count

(* A stretch of tokens of one kind.                                          *)
LEMMA CountAll ==
    ASSUME NEW s, NEW p \in Nat, NEW m \in Nat, NEW kind,
           \A q \in p + 1 .. p + m : s[q].kind = kind
    PROVE  Count(s, p + m, kind) = Count(s, p, kind) + m
<1> DEFINE A == OfKind(s, p, kind)
           B == p + 1 .. p + m
<1>1. OfKind(s, p + m, kind) = A \cup B
  BY DEF OfKind
<1>2. A \cap B = {}
  BY DEF OfKind
<1>3. IsFiniteSet(A) /\ Cardinality(A) \in Nat
  BY KindsFinite
<1>4. IsFiniteSet(B) /\ Cardinality(B) = m
  BY FS_Interval
<1> HIDE DEF B
<1>5. Cardinality(A \cup B) = Cardinality(A) + Cardinality(B) - Cardinality(A \cap B)
  BY <1>3, <1>4, FS_Union
<1>6. Cardinality(A \cap B) = 0
  BY <1>2, FS_EmptySet
<1>7. Count(s, p + m, kind) = Cardinality(A \cup B) /\ Count(s, p, kind) = Cardinality(A)
  BY <1>1 DEF Count
<1> HIDE DEF A
<1> QED BY <1>3, <1>4, <1>5, <1>6, <1>7

LEMMA CountNone ==
    ASSUME NEW s, NEW p \in Nat, NEW r \in Nat, p <= r, NEW kind,
           \A q \in p + 1 .. r : s[q].kind # kind
    PROVE  Count(s, r, kind) = Count(s, p, kind)
<1>1. OfKind(s, r, kind) = OfKind(s, p, kind)
  BY DEF OfKind
<1> QED BY <1>1 DEF Count

LEMMA BlocksType ==
    ASSUME NEW s, NEW p \in Nat
    PROVE  BlocksIn(s, p) \in Int /\ BlocksIn(s, 0) = 0
BY CountType DEF BlocksIn

-----------------------------------------------------------------------------
(* A line's share of the output: d blocks end, then perhaps a mark, then the *)
(* item, a line or the end of the file.                                      *)
Grows(s, t, d, mark, item) ==
    LET n == Len(s) + d
    IN  /\ Len(t) = IF mark = "none" THEN n + 1 ELSE n + 2
        /\ \A i \in 1 .. Len(s) : t[i] = s[i]
        /\ \A i \in Len(s) + 1 .. n : t[i].kind = "DEDENT"
        /\ mark # "none" => t[n + 1].kind = mark
        /\ t[Len(t)] = item

(* How deep every token of the new output is.                                *)
LEMMA BlocksGrow ==
    ASSUME NEW s, NEW t, Len(s) \in Nat, NEW d \in Nat, NEW mark \in {"none", "INDENT", "NEWLINE"}, NEW item,
           item.kind \in {"line", "EOF"}, Grows(s, t, d, mark, item)
    PROVE  /\ \A p \in 0 .. Len(s) : BlocksIn(t, p) = BlocksIn(s, p)
           /\ \A i \in 0 .. d : BlocksIn(t, Len(s) + i) = BlocksIn(s, Len(s)) - i
           /\ \A p \in Len(s) + d + 1 .. Len(t) :
                 BlocksIn(t, p) = BlocksIn(s, Len(s)) - d + (IF mark = "INDENT" THEN 1 ELSE 0)
<1> DEFINE n == Len(s) + d
           up == IF mark = "INDENT" THEN 1 ELSE 0
<1>0. n \in Nat /\ Len(t) \in {n + 1, n + 2}
  BY DEF Grows
<1>1. ASSUME NEW p \in 0 .. Len(s) PROVE BlocksIn(t, p) = BlocksIn(s, p)
  <2>1. \A q \in 1 .. p : s[q] = t[q]
    BY DEF Grows
  <2> QED BY <2>1, CountSame DEF BlocksIn
<1>2. ASSUME NEW i \in 0 .. d PROVE BlocksIn(t, Len(s) + i) = BlocksIn(s, Len(s)) - i
  <2>1. \A q \in Len(s) + 1 .. Len(s) + i : t[q].kind = "DEDENT"
    BY DEF Grows
  <2>2. Count(t, Len(s) + i, "DEDENT") = Count(t, Len(s), "DEDENT") + i
    BY <2>1, CountAll
  <2>3. Count(t, Len(s) + i, "INDENT") = Count(t, Len(s), "INDENT")
    <3>1. \A q \in Len(s) + 1 .. Len(s) + i : t[q].kind # "INDENT"
      BY <2>1
    <3>2. Len(s) + i \in Nat /\ Len(s) <= Len(s) + i
      OBVIOUS
    <3> QED BY <3>1, <3>2, CountNone
  <2>4. BlocksIn(t, Len(s)) = BlocksIn(s, Len(s))
    BY <1>1
  <2> QED BY <2>2, <2>3, <2>4, CountType DEF BlocksIn
<1>3. ASSUME mark # "none"
      PROVE  BlocksIn(t, n + 1) = BlocksIn(t, n) + up
  <2>1. \A q \in n + 1 .. n + 1 : t[q].kind = mark
    BY <1>0, <1>3 DEF Grows
  <2>2. Count(t, n + 1, "DEDENT") = Count(t, n, "DEDENT")
    <3>1. \A q \in n + 1 .. n + 1 : t[q].kind # "DEDENT"
      BY <2>1, <1>3
    <3>2. n + 1 \in Nat /\ n <= n + 1
      BY <1>0
    <3> HIDE DEF n
    <3> QED BY <1>0, <3>1, <3>2, CountNone
  <2>3. Count(t, n + 1, "INDENT") = Count(t, n, "INDENT") + up
    <3>1. CASE mark = "INDENT"
      BY <1>0, <2>1, <3>1, CountAll
    <3>2. CASE mark = "NEWLINE"
      <4>2. Count(t, n + 1, "INDENT") = Count(t, n, "INDENT")
        <5>1. \A q \in n + 1 .. n + 1 : t[q].kind # "INDENT"
          BY <2>1, <3>2
        <5>2. n + 1 \in Nat /\ n <= n + 1
          BY <1>0
        <5> HIDE DEF n
        <5> QED BY <1>0, <5>1, <5>2, CountNone
      <4> QED BY <1>0, <3>2, <4>2, CountType
    <3> QED BY <1>3, <3>1, <3>2
  <2> HIDE DEF n, up
  <2>4. /\ Count(t, n, "INDENT") \in Nat /\ Count(t, n, "DEDENT") \in Nat
        /\ up \in {0, 1}
    BY <1>0, CountType DEF up
  <2> QED BY <2>2, <2>3, <2>4 DEF BlocksIn
<1>4. ASSUME NEW m \in Nat, m + 1 = Len(t)
      PROVE  BlocksIn(t, m + 1) = BlocksIn(t, m)
  <2>1. \A q \in m + 1 .. m + 1 : t[q].kind # "INDENT" /\ t[q].kind # "DEDENT"
    BY <1>4 DEF Grows
  <2>2. m + 1 \in Nat /\ m <= m + 1
    OBVIOUS
  <2>3. Count(t, m + 1, "INDENT") = Count(t, m, "INDENT")
    BY <2>1, <2>2, CountNone
  <2>4. Count(t, m + 1, "DEDENT") = Count(t, m, "DEDENT")
    BY <2>1, <2>2, CountNone
  <2> QED BY <2>3, <2>4 DEF BlocksIn
<1>5. ASSUME NEW p \in n + 1 .. Len(t)
      PROVE  BlocksIn(t, p) = BlocksIn(s, Len(s)) - d + up
  <2>1. BlocksIn(t, n) = BlocksIn(s, Len(s)) - d /\ BlocksIn(s, Len(s)) \in Int
    BY <1>2, BlocksType
  <2>2. CASE mark = "none"
    <3>1. Len(t) = n + 1 /\ p = n + 1 /\ up = 0
      BY <1>0, <2>2 DEF Grows
    <3> QED BY <1>0, <1>4, <2>1, <3>1
  <2>3. CASE mark # "none"
    <3>1. Len(t) = n + 2 /\ n + 1 \in Nat /\ n + 1 + 1 = n + 2
      BY <1>0, <2>3 DEF Grows
    <3>2. BlocksIn(t, n + 2) = BlocksIn(t, n + 1)
      BY <1>4, <3>1
    <3>3. p = n + 1 \/ p = n + 2
      BY <1>0, <3>1
    <3> QED BY <1>0, <1>3, <2>1, <2>3, <3>2, <3>3
  <2> QED BY <2>2, <2>3
<1> QED BY <1>1, <1>2, <1>5
-----------------------------------------------------------------------------
(* The output against the open blocks: a live item of a block is in its       *)
(* column, and each block has begun somewhere.                                *)
InColumn(line, block) == line.col = block.col /\ (block.is_match_block => line.pipe)

Begun(s, k) ==
    \E p \in 1 .. Len(s) : OpenedIn(s, p) /\ BlocksIn(s, p) = k - 1
                             /\ \A r \in p .. Len(s) : BlocksIn(s, r) >= k - 1

ItemsInColumn(s, blocks) ==
    /\ BlocksIn(s, Len(s)) = Len(blocks) - 1
    /\ \A p \in 0 .. Len(s) : BlocksIn(s, p) >= 0
    /\ \A p \in 1 .. Len(s) :
         (p # 1 /\ StartsIn(s, p) /\ Live(s, p)) => InColumn(s[p].line, blocks[BlocksIn(s, p) + 1])
    /\ \A k \in 2 .. Len(blocks) : Begun(s, k)

SiblingsIn(s, p, q) ==
    p < q /\ BlocksIn(s, p) = BlocksIn(s, q) /\ \A r \in p .. q : BlocksIn(s, r) >= BlocksIn(s, p)
OneColumn(s, p, q) ==
    (StartsIn(s, p) /\ StartsIn(s, q) /\ SiblingsIn(s, p, q))
       => s[q].line.col = IF p = 1 THEN 1 ELSE s[p].line.col
ToTheRight(s, p, q) ==
    (/\ StartsIn(s, p) /\ StartsIn(s, q)
     /\ p # 1 /\ p < q /\ OpenedIn(s, q) /\ BlocksIn(s, p) = BlocksIn(s, q) - 1
     /\ \A r \in p .. q - 2 : BlocksIn(s, r) >= BlocksIn(s, p))
       => \/ s[p].line.col < s[q].line.col
          \/ s[p].line.col = s[q].line.col /\ s[q].line.pipe
Offside(s) == \A p, q \in 1 .. Len(s) : OneColumn(s, p, q) /\ ToTheRight(s, p, q)

(* What a line with its marks does to the open blocks.                        *)
Fits(s, blocks, d, mark, item, after) ==
    /\ d \in Nat /\ d < Len(blocks)
    /\ mark \in {"none", "INDENT", "NEWLINE"} /\ item.kind \in {"line", "EOF"}
    /\ Len(after) = Len(blocks) - d + (IF mark = "INDENT" THEN 1 ELSE 0)
    /\ \A k \in 1 .. Len(blocks) - d : after[k] = blocks[k]
    /\ mark # "none" => item.kind = "line" /\ InColumn(item.line, after[Len(after)])
    /\ mark = "INDENT" =>
         \/ blocks[Len(blocks) - d].col < item.line.col
         \/ blocks[Len(blocks) - d].col = item.line.col /\ item.line.pipe
    /\ (mark = "none" /\ item.kind = "line") => d = 0 /\ (Len(s) = 0 \/ LineIn(s, Len(s)))

(* A live item before the new line is in a block the line does not end, so    *)
(* the line is compared with the columns of the blocks left.                  *)
LEMMA OffsideStep ==
    ASSUME NEW blocks \in Seq(Block), blocks[1] = [col |-> 1, is_match_block |-> FALSE],
           NEW after \in Seq(Block), NEW s, NEW t, Len(s) \in Nat, NEW d, NEW mark, NEW item,
           ItemsInColumn(s, blocks), Offside(s),
           Fits(s, blocks, d, mark, item, after), Grows(s, t, d, mark, item)
    PROVE  ItemsInColumn(t, after) /\ Offside(t)
<1> DEFINE n == Len(s)
           low == Len(blocks) - 1 - d
<1>1. /\ n \in Nat /\ low \in Nat /\ d \in Nat /\ Len(after) \in Nat /\ Len(blocks) \in Nat
      /\ Len(t) \in {n + d + 1, n + d + 2} /\ Len(after) >= 1
      /\ mark \in {"none", "INDENT", "NEWLINE"} /\ item.kind \in {"line", "EOF"}
      /\ Len(after) = IF mark = "INDENT" THEN low + 2 ELSE low + 1
      /\ \A k \in 1 .. low + 1 : after[k] = blocks[k]
  BY DEF Fits, Grows
<1>2. /\ \A p \in 1 .. n : t[p] = s[p]
      /\ t[Len(t)] = item
      /\ \A p \in n + 1 .. n + d : t[p].kind = "DEDENT"
      /\ mark = "none" => Len(t) = n + d + 1
      /\ mark # "none" => Len(t) = n + d + 2 /\ t[n + d + 1].kind = mark
  BY DEF Grows
<1>3. /\ \A p \in 0 .. n : BlocksIn(t, p) = BlocksIn(s, p)
      /\ \A i \in 0 .. d : BlocksIn(t, n + i) = BlocksIn(s, n) - i
      /\ \A p \in n + d + 1 .. Len(t) :
            BlocksIn(t, p) = BlocksIn(s, n) - d + (IF mark = "INDENT" THEN 1 ELSE 0)
  BY <1>1, BlocksGrow
<1>4. BlocksIn(s, n) = Len(blocks) - 1
  BY DEF ItemsInColumn
<1>5. \A p \in 0 .. Len(t) : BlocksIn(t, p) \in Int
  BY BlocksType, <1>1
<1> HIDE DEF n, low
<1>6. ASSUME NEW p \in 1 .. n
      PROVE  (StartsIn(t, p) <=> StartsIn(s, p)) /\ (OpenedIn(t, p) <=> OpenedIn(s, p))
  <2>1. t[p] = s[p] /\ (p # 1 => t[p - 1] = s[p - 1])
    BY <1>1, <1>2
  <2> QED BY <1>1, <2>1 DEF StartsIn, OpenedIn, LineIn
<1>7. /\ \A p \in n + d + 1 .. Len(t) : BlocksIn(t, p) = Len(after) - 1
      /\ \A p \in n .. Len(t) : BlocksIn(t, p) >= low
      /\ BlocksIn(t, n + d) = low
  <2>1. BlocksIn(s, n) = low + d
    BY <1>1, <1>4 DEF low
  <2>2. \A p \in n + d + 1 .. Len(t) : BlocksIn(t, p) = Len(after) - 1
    BY <1>1, <1>3, <2>1
  <2>3. ASSUME NEW p \in n .. n + d PROVE BlocksIn(t, p) >= low
    <3>1. PICK i \in 0 .. d : p = n + i
      BY <1>1
    <3>2. BlocksIn(t, n + i) = BlocksIn(s, n) - i
      BY <1>3
    <3>3. BlocksIn(t, p) = low + d - i
      BY <1>1, <2>1, <3>1, <3>2
    <3> QED BY <1>1, <3>3
  <2>4. BlocksIn(t, n + d) = low
    BY <1>1, <1>3, <2>1
  <2> QED BY <1>1, <2>2, <2>3, <2>4
<1>8. \A p \in 0 .. Len(t) : BlocksIn(t, p) >= 0
  <2>1. \A p \in 0 .. n : BlocksIn(t, p) >= 0
    BY <1>3 DEF ItemsInColumn, n
  <2>2. ASSUME NEW p \in n .. Len(t) PROVE BlocksIn(t, p) >= 0
    <3>1. BlocksIn(t, p) >= low /\ BlocksIn(t, p) \in Int
      BY <1>1, <1>5, <1>7
    <3> QED BY <1>1, <3>1
  <2> QED BY <1>1, <2>1, <2>2
<1>9. ASSUME NEW p \in 1 .. n, Live(t, p)
      PROVE  Live(s, p) /\ BlocksIn(t, p) = BlocksIn(s, p) /\ BlocksIn(t, p) \in 0 .. low
  <2>1. /\ n + d \in p .. Len(t) /\ p \in 0 .. n /\ p \in 0 .. Len(t)
        /\ \A r \in p .. n : r \in p .. Len(t) /\ r \in 0 .. n
    BY <1>1
  <2>2. BlocksIn(t, p) <= low
    BY <1>1, <1>5, <1>7, <1>9, <2>1 DEF Live
  <2>3. \A r \in p .. n : BlocksIn(s, r) >= BlocksIn(s, p)
    BY <1>3, <1>9, <2>1 DEF Live
  <2> QED BY <1>1, <1>3, <1>5, <1>8, <2>1, <2>2, <2>3 DEF Live, n
<1>10. ASSUME NEW p \in n + 1 .. Len(t), StartsIn(t, p)
       PROVE  p = Len(t) /\ item.kind = "line" /\ (p = 1 \/ mark # "none")
  <2>1. t[p].kind = "line" /\ (p = 1 \/ t[p - 1].kind # "line")
    BY <1>10 DEF StartsIn, LineIn
  <2>2. p = Len(t)
    <3>1. ~ p \in n + 1 .. n + d
      BY <1>2, <2>1
    <3>2. ~(mark # "none" /\ p = n + d + 1)
      BY <1>1, <1>2, <2>1
    <3> QED BY <1>1, <1>2, <3>1, <3>2
  <2>3. item.kind = "line"
    BY <1>2, <2>1, <2>2
  <2>4. CASE mark = "none"
    <3>1. d = 0 /\ p = n + 1 /\ (n = 0 \/ s[n].kind = "line")
      BY <1>1, <1>2, <2>2, <2>3, <2>4 DEF Fits, n, LineIn
    <3>2. n = 0 \/ t[p - 1].kind = "line"
      BY <1>1, <1>2, <3>1
    <3> QED BY <1>1, <2>1, <2>2, <2>3, <3>1, <3>2
  <2> QED BY <2>2, <2>3, <2>4
<1>11. ASSUME NEW p \in 1 .. Len(t), p # 1, StartsIn(t, p), Live(t, p)
       PROVE  InColumn(t[p].line, after[BlocksIn(t, p) + 1])
  <2>1. CASE p \in 1 .. n
    <3>1. t[p] = s[p] /\ BlocksIn(t, p) = BlocksIn(s, p) /\ BlocksIn(s, p) + 1 \in 1 .. low + 1
      BY <1>1, <1>2, <1>9, <1>11, <2>1
    <3>2. InColumn(s[p].line, blocks[BlocksIn(s, p) + 1])
      BY <1>6, <1>9, <1>11, <2>1 DEF ItemsInColumn, n
    <3> QED BY <1>1, <3>1, <3>2
  <2>2. CASE p \in n + 1 .. Len(t)
    <3>1. p = Len(t) /\ mark # "none"
      BY <1>10, <1>11, <2>2
    <3>2. BlocksIn(t, p) + 1 = Len(after)
      <4>1. BlocksIn(t, p) = Len(after) - 1
        BY <1>1, <1>7, <3>1
      <4> QED BY <1>1, <4>1
    <3>3. InColumn(item.line, after[Len(after)])
      BY <3>1 DEF Fits
    <3> QED BY <1>2, <3>1, <3>2, <3>3
  <2> QED BY <1>1, <2>1, <2>2
<1>12. ASSUME NEW k \in 2 .. Len(after) PROVE Begun(t, k)
  <2>1. CASE k \in 2 .. low + 1
    <3>1. k \in 2 .. Len(blocks)
      BY <1>1, <2>1 DEF low
    <3>2. PICK p \in 1 .. n : OpenedIn(s, p) /\ BlocksIn(s, p) = k - 1
                              /\ \A r \in p .. n : BlocksIn(s, r) >= k - 1
      BY <3>1 DEF ItemsInColumn, Begun, n
    <3>3. OpenedIn(t, p) /\ BlocksIn(t, p) = k - 1 /\ p \in 1 .. Len(t)
      BY <1>1, <1>3, <1>6, <3>2
    <3>4. ASSUME NEW r \in p .. Len(t) PROVE BlocksIn(t, r) >= k - 1
      <4>1. CASE r \in p .. n
        <5>1. BlocksIn(t, r) = BlocksIn(s, r)
          BY <1>1, <1>3, <4>1
        <5> QED BY <3>2, <4>1, <5>1
      <4>2. CASE r \in n .. Len(t)
        BY <1>1, <1>5, <1>7, <2>1, <4>2
      <4> QED BY <1>1, <4>1, <4>2
    <3> QED BY <3>3, <3>4 DEF Begun
  <2>2. CASE ~ k \in 2 .. low + 1
    <3>1. mark = "INDENT" /\ k = Len(after)
      BY <1>1, <2>2
    <3>2. /\ Len(t) = n + d + 2 /\ Len(t) - 1 = n + d + 1 /\ Len(t) > 1
          /\ BlocksIn(t, Len(t)) = k - 1 /\ \A r \in Len(t) .. Len(t) : r = Len(t)
      BY <1>1, <1>2, <1>7, <3>1
    <3>3. OpenedIn(t, Len(t))
      BY <1>2, <3>1, <3>2 DEF OpenedIn
    <3>4. Len(t) \in 1 .. Len(t) /\ k - 1 >= k - 1
      BY <1>1, <3>2
    <3> QED BY <3>2, <3>3, <3>4 DEF Begun
  <2> QED BY <2>1, <2>2
<1>13. ItemsInColumn(t, after)
  <2>1. BlocksIn(t, Len(t)) = Len(after) - 1
    BY <1>1, <1>7
  <2> QED BY <1>8, <1>11, <1>12, <2>1 DEF ItemsInColumn
<1>14. ASSUME NEW p \in 1 .. Len(t), NEW q \in 1 .. Len(t) PROVE OneColumn(t, p, q)
  <2> SUFFICES ASSUME StartsIn(t, p), StartsIn(t, q), SiblingsIn(t, p, q)
               PROVE  t[q].line.col = IF p = 1 THEN 1 ELSE t[p].line.col
    BY DEF OneColumn
  <2>1. CASE q \in 1 .. n
    <3>1. /\ p \in 1 .. n /\ p < q /\ p \in 0 .. n /\ q \in 0 .. n
          /\ \A r \in p .. q : r \in 0 .. n
      BY <1>1, <2>1 DEF SiblingsIn
    <3>2. SiblingsIn(s, p, q)
      BY <1>3, <3>1 DEF SiblingsIn
    <3>3. StartsIn(s, p) /\ StartsIn(s, q) /\ t[p] = s[p] /\ t[q] = s[q]
      BY <1>2, <1>6, <2>1, <3>1
    <3> QED BY <2>1, <3>1, <3>2, <3>3 DEF Offside, OneColumn, n
  <2>2. CASE q \in n + 1 .. Len(t)
    <3>1. q = Len(t) /\ p < q /\ q # 1 /\ BlocksIn(t, p) = BlocksIn(t, q)
      BY <1>1, <1>10, <2>2 DEF SiblingsIn
    <3>2. Live(t, p) /\ Live(t, q)
      <4>1. Live(t, p)
        BY <3>1 DEF SiblingsIn, Live
      <4>2. \A r \in q .. Len(t) : r = q
        BY <1>1, <3>1
      <4>3. BlocksIn(t, q) >= BlocksIn(t, q)
        BY <1>1, <1>5, <3>1
      <4> QED BY <4>1, <4>2, <4>3 DEF Live
    <3>3. InColumn(t[q].line, after[BlocksIn(t, p) + 1])
      BY <1>11, <3>1, <3>2
    <3>4. CASE p = 1
      <4>1. BlocksIn(t, 1) = 0
        <5>1. \A r \in 0 + 1 .. 1 : t[r].kind # "INDENT" /\ t[r].kind # "DEDENT"
          BY <3>4 DEF StartsIn, LineIn
        <5>2. /\ Count(t, 1, "INDENT") = Count(t, 0, "INDENT")
              /\ Count(t, 1, "DEDENT") = Count(t, 0, "DEDENT")
          BY <5>1, CountNone
        <5> QED BY <5>2, CountType DEF BlocksIn
      <4>2. after[1] = blocks[1] /\ after[1].col = 1
        BY <1>1
      <4> QED BY <3>3, <3>4, <4>1, <4>2 DEF InColumn
    <3>5. CASE p # 1
      BY <1>11, <3>2, <3>3, <3>5 DEF InColumn
    <3> QED BY <3>4, <3>5
  <2> QED BY <1>1, <2>1, <2>2
<1>15. ASSUME NEW p \in 1 .. Len(t), NEW q \in 1 .. Len(t) PROVE ToTheRight(t, p, q)
  <2> SUFFICES ASSUME StartsIn(t, p), StartsIn(t, q), p # 1, p < q, OpenedIn(t, q),
                      BlocksIn(t, p) = BlocksIn(t, q) - 1,
                      \A r \in p .. q - 2 : BlocksIn(t, r) >= BlocksIn(t, p)
               PROVE  \/ t[p].line.col < t[q].line.col
                      \/ t[p].line.col = t[q].line.col /\ t[q].line.pipe
    BY DEF ToTheRight
  <2>1. CASE q \in 1 .. n
    <3>1. /\ p \in 1 .. n /\ p \in 0 .. n /\ q \in 0 .. n
          /\ \A r \in p .. q - 2 : r \in 0 .. n
      BY <1>1, <2>1
    <3>2. /\ BlocksIn(s, p) = BlocksIn(s, q) - 1
          /\ \A r \in p .. q - 2 : BlocksIn(s, r) >= BlocksIn(s, p)
      BY <1>3, <3>1
    <3>3. StartsIn(s, p) /\ StartsIn(s, q) /\ OpenedIn(s, q) /\ t[p] = s[p] /\ t[q] = s[q]
      BY <1>2, <1>6, <2>1, <3>1
    <3> QED BY <2>1, <3>1, <3>2, <3>3 DEF Offside, ToTheRight, n
  <2>2. CASE q \in n + 1 .. Len(t)
    <3>1. q = Len(t) /\ q # 1 /\ mark # "none" /\ t[q - 1].kind = "INDENT"
      BY <1>1, <1>10, <2>2 DEF OpenedIn
    <3>2. q = n + d + 2 /\ mark = "INDENT" /\ t[q] = item
      <4>1. q = n + d + 2 /\ t[q] = item /\ t[n + d + 1].kind = mark
        BY <1>2, <3>1
      <4>2. q - 1 = n + d + 1
        BY <1>1, <4>1
      <4> QED BY <3>1, <4>1, <4>2
    <3>3. BlocksIn(t, p) = low /\ low \in Int
      <4>1. BlocksIn(t, q) = low + 1
        BY <1>1, <1>7, <3>1, <3>2
      <4> QED BY <1>1, <4>1
    <3>4. Live(t, p)
      <4>1. ASSUME NEW r \in p .. Len(t) PROVE BlocksIn(t, r) >= low
        <5>1. CASE r \in p .. q - 2
          BY <3>3, <5>1
        <5>2. CASE r \in n .. Len(t)
          BY <1>7, <5>2
        <5> QED BY <1>1, <3>1, <3>2, <5>1, <5>2
      <4> QED BY <3>3, <4>1 DEF Live
    <3>5. InColumn(t[p].line, after[low + 1])
      BY <1>11, <3>3, <3>4
    <3>6. after[low + 1] = blocks[Len(blocks) - d]
      <4>1. low + 1 = Len(blocks) - d
        BY <1>1 DEF low
      <4>2. low + 1 \in 1 .. low + 1
        BY <1>1
      <4>3. after[low + 1] = blocks[low + 1]
        BY <1>1, <4>2
      <4> QED BY <4>1, <4>3
    <3>7. \/ blocks[Len(blocks) - d].col < item.line.col
          \/ blocks[Len(blocks) - d].col = item.line.col /\ item.line.pipe
      BY <3>2 DEF Fits
    <3> QED BY <3>2, <3>5, <3>6, <3>7 DEF InColumn
  <2> QED BY <1>1, <2>1, <2>2
<1> QED BY <1>13, <1>14, <1>15 DEF Offside

-----------------------------------------------------------------------------
(* The tokens, and what a line adds to them.                                  *)
MarkKind == {"INDENT", "DEDENT", "NEWLINE", "EOF"}
Tok == [kind : MarkKind] \cup [kind : {"line"}, line : Shape]
(* The arms of a match are in the column of the block the match is in.         *)
ArmsInColumn(blocks) ==
    \A k \in 2 .. Len(blocks) : blocks[k].is_match_block => blocks[k].col = blocks[k - 1].col
(* Until the end of the file, the output ends with a line.                    *)
Ends(s) == s = <<>> \/ LineIn(s, Len(s))

LaidInv ==
    /\ LayoutInv /\ laid \in Seq(Tok)
    /\ ArmsInColumn(indent_stack)
    /\ ItemsInColumn(laid, indent_stack) /\ Offside(laid)

LEMMA Primed ==
    ASSUME NEW t, laid' = t, NEW after, indent_stack' = after, LayoutInv', t \in Seq(Tok),
           ArmsInColumn(after), ItemsInColumn(t, after), Offside(t)
    PROVE  LaidInv'
BY DEF LaidInv

LEMMA OneMore ==
    ASSUME NEW S, NEW s \in Seq(S), NEW one \in Seq(S), Len(one) = 1
    PROVE  /\ s \o one \in Seq(S) /\ Len(s \o one) = Len(s) + 1 /\ (s \o one)[Len(s) + 1] = one[1]
           /\ \A i \in 1 .. Len(s) : (s \o one)[i] = s[i]
<1>1. /\ s \o one \in Seq(S) /\ Len(s \o one) = Len(s) + 1
      /\ \A i \in 1 .. Len(s) + 1 : (s \o one)[i] = IF i <= Len(s) THEN s[i] ELSE one[i - Len(s)]
  <2>1. /\ s \o one \in Seq(S) /\ Len(s \o one) = Len(s) + Len(one)
        /\ \A i \in 1 .. Len(s) + Len(one) : (s \o one)[i] = IF i <= Len(s) THEN s[i] ELSE one[i - Len(s)]
    BY ConcatProperties, Zenon
  <2> QED
    BY <2>1
<1>2. Len(s) \in Nat /\ Len(s) + 1 - Len(s) = 1
  OBVIOUS
<1> QED BY <1>1, <1>2

(* d blocks end.                                                             *)
Dedenting(ded, d) == ded \in Seq(Tok) /\ Len(ded) = d /\ \A i \in 1 .. d : ded[i].kind = "DEDENT"

LEMMA DedentsEnd ==
    ASSUME NEW before, NEW after, NEW d \in Nat, d = Len(before) - Len(after)
    PROVE  Dedenting(Dedents(before, after), d)
<1>1. Mark("DEDENT") \in Tok /\ Mark("DEDENT").kind = "DEDENT"
  BY DEF Tok, Mark, MarkKind
<1> QED BY <1>1 DEF Dedents, Dedenting

LEMMA Dedented ==
    ASSUME NEW s \in Seq(Tok), NEW d \in Nat, NEW ded, Dedenting(ded, d)
    PROVE  /\ s \o ded \in Seq(Tok) /\ Len(s \o ded) = Len(s) + d
           /\ \A i \in 1 .. Len(s) : (s \o ded)[i] = s[i]
           /\ \A i \in Len(s) + 1 .. Len(s) + d : (s \o ded)[i].kind = "DEDENT"
<1>1. ded \in Seq(Tok) /\ Len(ded) = d /\ \A i \in 1 .. d : ded[i].kind = "DEDENT"
  BY DEF Dedenting
<1>2. /\ s \o ded \in Seq(Tok) /\ Len(s \o ded) = Len(s) + d
      /\ \A i \in 1 .. Len(s) + d : (s \o ded)[i] = IF i <= Len(s) THEN s[i] ELSE ded[i - Len(s)]
  BY <1>1, ConcatProperties
<1>3. ASSUME NEW i \in Len(s) + 1 .. Len(s) + d PROVE (s \o ded)[i].kind = "DEDENT"
  <2>1. i - Len(s) \in 1 .. d /\ i \in 1 .. Len(s) + d /\ ~(i <= Len(s))
    OBVIOUS
  <2> QED BY <1>1, <1>2, <2>1
<1> QED BY <1>1, <1>2, <1>3

(* The output after a line with no mark of its own, and after one with.       *)
LEMMA GrowsPlain ==
    ASSUME NEW s \in Seq(Tok), NEW d \in Nat, NEW ded, Dedenting(ded, d), NEW item \in Tok
    PROVE  s \o ded \o <<item>> \in Seq(Tok) /\ Grows(s, s \o ded \o <<item>>, d, "none", item)
<1> DEFINE one == <<item>>
           a == s \o ded
           t == a \o one
<1>1. /\ a \in Seq(Tok) /\ Len(a) = Len(s) + d
      /\ \A i \in 1 .. Len(s) : a[i] = s[i]
      /\ \A i \in Len(s) + 1 .. Len(s) + d : a[i].kind = "DEDENT"
  BY Dedented
<1>2. one \in Seq(Tok) /\ Len(one) = 1 /\ one[1] = item
  OBVIOUS
<1> HIDE DEF one, a
<1>3. /\ t \in Seq(Tok) /\ Len(t) = Len(a) + 1 /\ t[Len(a) + 1] = item
      /\ \A i \in 1 .. Len(a) : t[i] = a[i]
  BY <1>1, <1>2, OneMore
<1> HIDE DEF t
<1>4. t \in Seq(Tok) /\ Grows(s, t, d, "none", item)
  BY <1>1, <1>3 DEF Grows
<1> QED BY <1>4 DEF t, a, one

LEMMA GrowsMarked ==
    ASSUME NEW s \in Seq(Tok), NEW d \in Nat, NEW ded, Dedenting(ded, d), NEW item \in Tok,
           NEW mark \in {"INDENT", "NEWLINE"}
    PROVE  /\ s \o Append(ded, Mark(mark)) \o <<item>> \in Seq(Tok)
           /\ Grows(s, s \o Append(ded, Mark(mark)) \o <<item>>, d, mark, item)
<1> DEFINE one == <<item>>
           two == <<Mark(mark)>>
           a == s \o ded
           b == s \o Append(ded, Mark(mark))
           t == b \o one
<1>1. /\ a \in Seq(Tok) /\ Len(a) = Len(s) + d /\ ded \in Seq(Tok)
      /\ \A i \in 1 .. Len(s) : a[i] = s[i]
      /\ \A i \in Len(s) + 1 .. Len(s) + d : a[i].kind = "DEDENT"
  BY Dedented DEF Dedenting
<1>2. Mark(mark) \in Tok /\ Mark(mark).kind = mark
  BY DEF Tok, Mark, MarkKind
<1>3. /\ one \in Seq(Tok) /\ Len(one) = 1 /\ one[1] = item
      /\ two \in Seq(Tok) /\ Len(two) = 1 /\ two[1].kind = mark
  BY <1>2
<1>4. b = a \o two
  <2>1. Append(ded, Mark(mark)) = ded \o two
    BY <1>1, <1>2
  <2>2. (s \o ded) \o two = s \o (ded \o two)
    <3> HIDE DEF two
    <3> QED BY <1>1, <1>3, ConcatAssociative
  <2> QED BY <2>1, <2>2, Zenon
<1> HIDE DEF one, two, a
<1>5. /\ a \o two \in Seq(Tok) /\ Len(a \o two) = Len(a) + 1 /\ (a \o two)[Len(a) + 1] = two[1]
      /\ \A i \in 1 .. Len(a) : (a \o two)[i] = a[i]
  <2>1. a \in Seq(Tok) /\ two \in Seq(Tok) /\ Len(two) = 1
    BY <1>1, <1>3
  <2> QED BY ONLY <2>1, OneMore, SMTT(30)
<1> HIDE DEF b
<1>6. /\ b \in Seq(Tok) /\ Len(b) = Len(a) + 1 /\ b[Len(a) + 1] = two[1]
      /\ \A i \in 1 .. Len(a) : b[i] = a[i]
  BY <1>4, <1>5, Zenon
<1>7. /\ t \in Seq(Tok) /\ Len(t) = Len(b) + 1 /\ t[Len(b) + 1] = item
      /\ \A i \in 1 .. Len(b) : t[i] = b[i]
  BY <1>3, <1>6, OneMore
<1> HIDE DEF t
<1>8. t \in Seq(Tok) /\ Grows(s, t, d, mark, item)
  <2> DEFINE n == Len(s) + d
  <2>1. n \in Nat /\ Len(a) = n /\ Len(b) = n + 1 /\ Len(t) = n + 2 /\ Len(s) \in Nat /\ Len(s) <= n
    BY <1>1, <1>6, <1>7
  <2>2. t[n + 1] = b[n + 1]
    BY <1>7, <2>1
  <2>3. t[n + 1].kind = mark
    BY <1>3, <1>6, <2>1, <2>2
  <2>4. \A i \in 1 .. n : t[i] = a[i]
    BY <1>6, <1>7, <2>1
  <2>5. t[n + 2] = item
    BY <1>7, <2>1
  <2>6. /\ \A i \in 1 .. Len(s) : t[i] = s[i]
        /\ \A i \in Len(s) + 1 .. n : t[i].kind = "DEDENT"
    BY <1>1, <2>1, <2>4
  <2> HIDE DEF n
  <2> QED BY <1>7, <2>1, <2>3, <2>5, <2>6 DEF Grows, n
<1> QED BY <1>8 DEF t, b, one

(* The blocks CloseMatchBlocks leaves: the innermost is the file or stays,    *)
(* and the one inside it ended.                                              *)
ArmsEnd(block, line) == block.is_match_block /\ line.col <= block.col /\ ~Peer(block, line)

LEMMA KeepMatch ==
    ASSUME NEW blocks, Outer(blocks), NEW line, NEW kept \in CloseMatchBlocks(blocks, line)
    PROVE  /\ Outer(kept)
           /\ Len(kept) = 1 \/ ~ArmsEnd(TopBlock(kept), line)
           /\ Len(kept) < Len(blocks) => ArmsEnd(blocks[Len(kept) + 1], line)
<1>0. Outer(kept)
  BY KeepOuter DEF CloseMatchBlocks
<1>1. PICK n \in 1 .. Len(blocks) :
        /\ kept = SubSeq(blocks, 1, n)
        /\ n = 1 \/ ~ArmsEnd(blocks[n], line)
        /\ \A m \in n + 1 .. Len(blocks) : ArmsEnd(blocks[m], line)
  BY DEF CloseMatchBlocks, KeepFrom, ArmsEnd
<1>2. blocks \in Seq(Block) /\ Len(blocks) \in Nat
  BY DEF Outer
<1>3. Len(kept) = n /\ TopBlock(kept) = blocks[n]
  <2>1. n \in Nat /\ 1 <= n /\ n - 1 + 1 = n /\ 1 + n - 1 = n /\ n \in 1 .. n - 1 + 1
        /\ \A k \in 1 .. n : blocks[k] \in Block
    BY <1>2
  <2>2. /\ Len(SubSeq(blocks, 1, n)) = n - 1 + 1
        /\ \A k \in 1 .. n - 1 + 1 : SubSeq(blocks, 1, n)[k] = blocks[1 + k - 1]
    BY <2>1, SubSeqProperties
  <2> QED BY <1>1, <2>1, <2>2 DEF TopBlock
<1>4. n < Len(blocks) => n + 1 \in n + 1 .. Len(blocks)
  BY <1>2
<1>5. n < Len(blocks) => ArmsEnd(blocks[n + 1], line)
  BY <1>1, <1>4
<1> QED BY <1>0, <1>1, <1>3, <1>5

(* A line in the column of the innermost block left is one of its items.      *)
LEMMA Lands ==
    ASSUME LayoutInv, NEW blocks, Outer(blocks), NEW line \in Shape,
           NEW kept \in CloseMatchBlocks(blocks, line), line.col = TopBlock(kept).col
    PROVE  InColumn(line, TopBlock(kept))
<1>1. Outer(kept) /\ (Len(kept) = 1 \/ ~ArmsEnd(TopBlock(kept), line))
  BY KeepMatch
<1>2. CASE Len(kept) = 1
  <2>1. TopBlock(kept) = [col |-> 1, is_match_block |-> FALSE]
    BY <1>1, <1>2 DEF TopBlock, Outer, LayoutInv, NestedColumns
  <2> QED BY <2>1 DEF InColumn
<1>3. CASE ~ArmsEnd(TopBlock(kept), line)
  <2>1. TopBlock(kept) \in Block /\ line.col \in Nat
    BY <1>1, FrontAssumption DEF TopBlock, Outer
  <2> QED BY <1>3, <2>1 DEF InColumn, ArmsEnd, Peer, Block
<1> QED BY <1>1, <1>2, <1>3

(* What is known of the blocks left when some have ended.                     *)
LEMMA OuterLeft ==
    ASSUME LaidInv, NEW blocks, Outer(blocks)
    PROVE  /\ ArmsInColumn(blocks) /\ blocks \in Seq(Block)
           /\ Len(indent_stack) - Len(blocks) \in Nat
           /\ Len(indent_stack) - Len(blocks) < Len(indent_stack)
           /\ Dedenting(Dedents(indent_stack, blocks), Len(indent_stack) - Len(blocks))
           /\ TopBlock(blocks) = blocks[Len(blocks)] /\ TopBlock(blocks) = indent_stack[Len(blocks)]
           /\ Len(blocks) \in Nat /\ Len(blocks) >= 1
<1>1. /\ blocks \in Seq(Block) /\ Len(blocks) \in 1 .. Len(indent_stack) /\ Len(indent_stack) \in Nat
      /\ \A k \in 1 .. Len(blocks) : blocks[k] = indent_stack[k]
  BY DEF Outer, LaidInv, LayoutInv
<1>2. ArmsInColumn(blocks)
  <2> SUFFICES ASSUME NEW k \in 2 .. Len(blocks), blocks[k].is_match_block
               PROVE  blocks[k].col = blocks[k - 1].col
    BY DEF ArmsInColumn
  <2>1. k \in 1 .. Len(blocks) /\ k - 1 \in 1 .. Len(blocks) /\ k \in 2 .. Len(indent_stack)
    BY <1>1
  <2> QED BY <1>1, <2>1 DEF LaidInv, ArmsInColumn
<1>3. Dedenting(Dedents(indent_stack, blocks), Len(indent_stack) - Len(blocks))
  BY <1>1, DedentsEnd
<1> QED BY <1>1, <1>2, <1>3 DEF TopBlock

LEMMA LaidFacts ==
    ASSUME LaidInv
    PROVE  /\ laid \in Seq(Tok) /\ Len(laid) \in Nat /\ indent_stack \in Seq(Block)
           /\ indent_stack[1] = [col |-> 1, is_match_block |-> FALSE]
           /\ ItemsInColumn(laid, indent_stack) /\ Offside(laid)
BY DEF LaidInv, LayoutInv, NestedColumns

(* The four ways a line is placed: after a NEWLINE, after an INDENT, going on  *)
(* with the item before it, and at the end of the file.                       *)
LEMMA Placed ==
    ASSUME LaidInv, LayoutInv', NEW t \in Seq(Tok), NEW after, NEW d, NEW mark, NEW item,
           laid' = t, indent_stack' = after, ArmsInColumn(after),
           Grows(laid, t, d, mark, item), Fits(laid, indent_stack, d, mark, item, after)
    PROVE  LaidInv' /\ (item.kind = "line" => Ends(laid)')
<1>1. after \in Seq(Block)
  BY DEF LayoutInv
<1>2. ItemsInColumn(t, after) /\ Offside(t)
  BY <1>1, LaidFacts, OffsideStep
<1>3. item.kind = "line" => LineIn(t, Len(t))
  BY DEF Grows, LineIn
<1> QED BY <1>2, <1>3, Primed DEF Ends

LEMMA ItemKind ==
    ASSUME NEW line \in Shape
    PROVE  Item(line) \in Tok /\ Item(line).kind = "line" /\ Item(line).line = line
BY DEF Item, Tok

LEMMA PlaceOnLine ==
    ASSUME LaidInv, LayoutInv', NEW line \in Shape, NEW blocks, Outer(blocks),
           Place(line, blocks, Append(Dedents(indent_stack, blocks), Mark("NEWLINE"))),
           InColumn(line, TopBlock(blocks))
    PROVE  LaidInv' /\ Ends(laid)'
<1> DEFINE d == Len(indent_stack) - Len(blocks)
           t == laid \o Append(Dedents(indent_stack, blocks), Mark("NEWLINE")) \o <<Item(line)>>
<1>1. /\ ArmsInColumn(blocks) /\ blocks \in Seq(Block) /\ d \in Nat /\ d < Len(indent_stack)
      /\ Dedenting(Dedents(indent_stack, blocks), d) /\ TopBlock(blocks) = blocks[Len(blocks)]
      /\ Len(blocks) \in Nat /\ Len(blocks) >= 1
  BY OuterLeft
<1>2. Item(line) \in Tok /\ Item(line).kind = "line" /\ Item(line).line = line
  BY ItemKind
<1>3. laid' = t /\ indent_stack' = blocks
  BY DEF Place
<1>4. Len(blocks) = Len(indent_stack) - d /\ \A k \in 1 .. Len(blocks) : blocks[k] = indent_stack[k]
  BY <1>1 DEF Outer
<1> HIDE DEF d
<1>5. t \in Seq(Tok) /\ Grows(laid, t, d, "NEWLINE", Item(line))
  BY <1>1, <1>2, LaidFacts, GrowsMarked
<1>6. Fits(laid, indent_stack, d, "NEWLINE", Item(line), blocks)
  BY <1>1, <1>2, <1>4 DEF Fits
<1> HIDE DEF t
<1> QED BY <1>1, <1>2, <1>3, <1>5, <1>6, Placed

LEMMA OpenOnLine ==
    ASSUME LaidInv, LayoutInv', NEW line \in Shape, NEW blocks, Outer(blocks), NEW is_match \in BOOLEAN,
           indent_stack' = Append(blocks, [col |-> line.col, is_match_block |-> is_match]),
           laid' = laid \o Append(Dedents(indent_stack, blocks), Mark("INDENT")) \o <<Item(line)>>,
           IF is_match THEN Peer(TopBlock(blocks), line) ELSE TopBlock(blocks).col < line.col
    PROVE  LaidInv' /\ Ends(laid)'
<1> DEFINE d == Len(indent_stack) - Len(blocks)
           b == [col |-> line.col, is_match_block |-> is_match]
           t == laid \o Append(Dedents(indent_stack, blocks), Mark("INDENT")) \o <<Item(line)>>
           after == Append(blocks, b)
<1>1. /\ ArmsInColumn(blocks) /\ blocks \in Seq(Block) /\ d \in Nat /\ d < Len(indent_stack)
      /\ Dedenting(Dedents(indent_stack, blocks), d)
      /\ TopBlock(blocks) = blocks[Len(blocks)] /\ TopBlock(blocks) = indent_stack[Len(blocks)]
      /\ Len(blocks) \in Nat /\ Len(blocks) >= 1
  BY OuterLeft
<1>2. Item(line) \in Tok /\ Item(line).kind = "line" /\ Item(line).line = line
  BY ItemKind
<1>3. laid' = t /\ indent_stack' = after
  OBVIOUS
<1>4. Len(blocks) = Len(indent_stack) - d /\ \A k \in 1 .. Len(blocks) : blocks[k] = indent_stack[k]
  BY <1>1 DEF Outer
<1>5. b \in Block /\ b.col = line.col /\ b.is_match_block = is_match /\ line.col \in Nat /\ line.pipe \in BOOLEAN
  BY FrontAssumption DEF Block
<1>6. /\ InColumn(line, b)
      /\ \/ TopBlock(blocks).col < line.col
         \/ TopBlock(blocks).col = line.col /\ line.pipe
  <2>1. CASE is_match
    <3>1. line.col = TopBlock(blocks).col /\ line.pipe
      BY <2>1 DEF Peer
    <3> HIDE DEF b
    <3> QED BY <1>5, <3>1 DEF InColumn
  <2>2. CASE ~is_match
    <3>1. TopBlock(blocks).col < line.col
      BY <2>2
    <3>2. ~b.is_match_block
      BY <2>2
    <3> HIDE DEF b
    <3>3. InColumn(line, b)
      BY <1>5, <3>2, Zenon DEF InColumn
    <3> QED BY <3>1, <3>3
  <2> QED BY <2>1, <2>2
<1> HIDE DEF b, d
<1>7. /\ after \in Seq(Block) /\ Len(after) = Len(blocks) + 1 /\ after[Len(blocks) + 1] = b
      /\ \A k \in 1 .. Len(blocks) : after[k] = blocks[k]
  BY <1>1, <1>5, AppendProperties
<1> HIDE DEF after
<1>8. ArmsInColumn(after)
  <2> SUFFICES ASSUME NEW k \in 2 .. Len(after), after[k].is_match_block
               PROVE  after[k].col = after[k - 1].col
    BY DEF ArmsInColumn
  <2>1. CASE k \in 2 .. Len(blocks)
    <3>1. after[k] = blocks[k] /\ after[k - 1] = blocks[k - 1]
      <4>1. k \in 1 .. Len(blocks) /\ k - 1 \in 1 .. Len(blocks)
        BY <1>1, <2>1
      <4> QED BY <1>7, <4>1
    <3> QED BY <1>1, <2>1, <3>1 DEF ArmsInColumn
  <2>2. CASE k = Len(blocks) + 1
    <3>1. after[k] = b /\ after[k - 1] = TopBlock(blocks)
      <4>1. Len(blocks) \in 1 .. Len(blocks) /\ k - 1 = Len(blocks)
        BY <1>1, <2>2
      <4> QED BY <1>1, <1>7, <2>2, <4>1
    <3>2. is_match
      BY <1>5, <3>1
    <3>3. line.col = TopBlock(blocks).col
      BY <3>2 DEF Peer
    <3> QED BY <1>5, <3>1, <3>3
  <2> QED BY <1>1, <1>7, <2>1, <2>2
<1>9. t \in Seq(Tok) /\ Grows(laid, t, d, "INDENT", Item(line))
  BY <1>1, <1>2, LaidFacts, GrowsMarked
<1>10. Fits(laid, indent_stack, d, "INDENT", Item(line), after)
  <2>1. Len(after) = Len(indent_stack) - d + 1 /\ after[Len(after)] = b
    BY <1>1, <1>4, <1>7
  <2>2. \A k \in 1 .. Len(indent_stack) - d : after[k] = indent_stack[k]
    BY <1>4, <1>7
  <2>3. indent_stack[Len(indent_stack) - d] = TopBlock(blocks)
    BY <1>1, <1>4
  <2> QED BY <1>1, <1>2, <1>6, <2>1, <2>2, <2>3 DEF Fits
<1> HIDE DEF t
<1> QED BY <1>2, <1>3, <1>8, <1>9, <1>10, Placed

(* A line that goes on with the item before it.                              *)
LEMMA PlaceInside ==
    ASSUME LaidInv, LayoutInv', Ends(laid), NEW line \in Shape, NEW ded, Dedenting(ded, 0),
           laid' = laid \o ded \o <<Item(line)>>, indent_stack' = indent_stack
    PROVE  LaidInv' /\ Ends(laid)'
<1> DEFINE t == laid \o ded \o <<Item(line)>>
<1>1. Item(line) \in Tok /\ Item(line).kind = "line" /\ Item(line).line = line
  BY ItemKind
<1>2. t \in Seq(Tok) /\ Grows(laid, t, 0, "none", Item(line))
  BY <1>1, LaidFacts, GrowsPlain
<1>3. laid' = t
  OBVIOUS
<1> HIDE DEF t
<1>4. Len(laid) = 0 \/ LineIn(laid, Len(laid))
  BY DEF Ends
<1>5. 0 < Len(indent_stack) /\ Len(indent_stack) \in Nat
  BY DEF LaidInv, LayoutInv, NestedColumns
<1>6. Fits(laid, indent_stack, 0, "none", Item(line), indent_stack)
  BY <1>1, <1>4, <1>5 DEF Fits
<1>7. ArmsInColumn(indent_stack)
  BY DEF LaidInv
<1> QED BY <1>1, <1>2, <1>3, <1>6, <1>7, Placed

LEMMA LineLaid ==
    ASSUME LaidInv, Ends(laid), NEW line \in Shape, Lay(line) PROVE LaidInv' /\ Ends(laid)'
<1>0. LayoutInv'
  BY LayInv DEF LaidInv
<1>1. CASE UNCHANGED <<laid, indent_stack>>
  BY <1>1, <1>0, LaidFacts, Primed DEF LaidInv, Ends
<1>2. CASE NoBreak(line)
  <2>1. laid' = Append(laid, Item(line)) /\ indent_stack' = indent_stack
    BY <1>2 DEF NoBreak
  <2>2. <<>> \in Seq(Tok) /\ Dedenting(<<>>, 0)
    BY DEF Dedenting
  <2>3. Append(laid, Item(line)) = laid \o <<>> \o <<Item(line)>>
    <3>1. laid \o <<>> = laid /\ Item(line) \in Tok
      BY LaidFacts, ItemKind, ConcatEmptySeq
    <3>2. Append(laid, Item(line)) = laid \o <<Item(line)>>
      BY <3>1, LaidFacts
    <3> QED BY <3>1, <3>2, Zenon
  <2>4. laid' = laid \o <<>> \o <<Item(line)>>
    BY <2>1, <2>3, Zenon
  <2> QED BY <1>0, <2>1, <2>2, <2>4, PlaceInside, Zenon
<1>3. CASE LineBreak(line)
  <2>1. Outer(indent_stack)
    BY DEF Outer, LaidInv, LayoutInv, NestedColumns
  <2>2. PICK open \in CloseMatchBlocks(indent_stack, line) :
          LET top == TopBlock(open).col
              marks == Dedents(indent_stack, open)
          IN  IF Opens(open, line) THEN NewBlock(line, open, FALSE, marks)
              ELSE IF OpensMatch(open, line) THEN NewBlock(line, open, TRUE, marks)
              ELSE IF line.col = top THEN Place(line, open, Append(marks, Mark("NEWLINE")))
              ELSE IF line.col > top THEN Place(line, open, marks)
              ELSE \E inside \in CloseDeeper(open, line) :
                   \E outer \in CloseMatchBlocks(inside, line) :
                     IF line.col # TopBlock(outer).col
                     THEN Misplace("inconsistent indentation")
                     ELSE Place(line, outer,
                                Append(Dedents(indent_stack, outer), Mark("NEWLINE")))
    BY <1>3 DEF LineBreak
  <2>3. Outer(open)
    BY <2>1, <2>2, KeepMatch
  <2>4. TopBlock(open) \in Block /\ line.col \in Nat
    BY <2>3, FrontAssumption DEF Outer, TopBlock
  <2>5. ASSUME NEW is_match \in BOOLEAN, NewBlock(line, open, is_match, Dedents(indent_stack, open)),
               IF is_match THEN Peer(TopBlock(open), line) ELSE TopBlock(open).col < line.col
        PROVE  LaidInv' /\ Ends(laid)'
    <3>1. CASE /\ indent_stack' = Append(open, [col |-> line.col, is_match_block |-> is_match])
               /\ laid' = laid \o Append(Dedents(indent_stack, open), Mark("INDENT")) \o <<Item(line)>>
      BY <1>0, <2>3, <2>5, <3>1, OpenOnLine, Zenon
    <3> QED BY <1>1, <2>5, <3>1, Zenon DEF NewBlock, Place, Misplace
  <2>6. CASE Opens(open, line)
    <3>1. TopBlock(open).col < line.col
      BY <2>4, <2>6 DEF Opens, Block
    <3> QED BY <2>2, <2>5, <2>6, <3>1, Zenon
  <2>7. CASE ~Opens(open, line) /\ OpensMatch(open, line)
    <3>1. Peer(TopBlock(open), line)
      BY <2>7 DEF OpensMatch
    <3> QED BY <2>2, <2>5, <2>7, <3>1, Zenon
  <2>8. CASE ~Opens(open, line) /\ ~OpensMatch(open, line)
    <3>1. CASE line.col = TopBlock(open).col
      <4>1. InColumn(line, TopBlock(open))
        BY <2>1, <3>1, Lands DEF LaidInv
      <4>2. Place(line, open, Append(Dedents(indent_stack, open), Mark("NEWLINE")))
        BY <2>2, <2>8, <3>1, Zenon
      <4> QED BY <1>0, <2>3, <4>1, <4>2, PlaceOnLine
    <3>2. CASE line.col > TopBlock(open).col
      <4>1. Place(line, open, Dedents(indent_stack, open))
        <5>1. line.col # TopBlock(open).col
          BY <2>4, <3>2 DEF Block
        <5> QED BY <2>2, <2>8, <3>2, <5>1, Zenon
      <4>2. Len(open) = Len(indent_stack)
        <5> SUFFICES ASSUME Len(open) # Len(indent_stack) PROVE FALSE
          OBVIOUS
        <5> DEFINE k == Len(open) + 1
        <5>1. /\ Len(open) \in Nat /\ Len(open) >= 1 /\ Len(open) < Len(indent_stack)
              /\ TopBlock(open) = indent_stack[Len(open)] /\ Len(indent_stack) \in Nat
          BY <2>3, OuterLeft DEF Outer, LaidInv, LayoutInv
        <5>2. ArmsEnd(indent_stack[k], line)
          BY <2>1, <2>2, <5>1, KeepMatch
        <5>3. k \in 2 .. Len(indent_stack) /\ k - 1 = Len(open)
          BY <5>1
        <5> HIDE DEF k
        <5>4. indent_stack[k].col = TopBlock(open).col
          BY <5>1, <5>2, <5>3 DEF ArmsEnd, LaidInv, ArmsInColumn
        <5>5. line.col <= TopBlock(open).col
          BY <5>2, <5>4 DEF ArmsEnd
        <5> QED BY <2>4, <3>2, <5>5 DEF Block
      <4>3. open = indent_stack
        <5>1. \A k \in 1 .. Len(open) : open[k] = indent_stack[k]
          BY <2>3 DEF Outer
        <5>2. open \in Seq(Block) /\ indent_stack \in Seq(Block)
          BY <2>3, LaidFacts DEF Outer
        <5> QED BY <4>2, <5>1, <5>2, SeqEqual
      <4>4. Dedenting(Dedents(indent_stack, open), 0)
        <5>1. 0 = Len(indent_stack) - Len(open)
          BY <4>2, <2>3, LaidFacts
        <5> QED BY <5>1, DedentsEnd
      <4>5. /\ laid' = laid \o Dedents(indent_stack, open) \o <<Item(line)>>
            /\ indent_stack' = indent_stack
        BY <4>1, <4>3, Zenon DEF Place
      <4> QED BY <1>0, <4>4, <4>5, PlaceInside, Zenon
    <3>3. CASE ~(line.col = TopBlock(open).col) /\ ~(line.col > TopBlock(open).col)
      <4>1. PICK inside, outer :
              /\ inside \in CloseDeeper(open, line) /\ outer \in CloseMatchBlocks(inside, line)
              /\ IF line.col # TopBlock(outer).col
                 THEN Misplace("inconsistent indentation")
                 ELSE Place(line, outer, Append(Dedents(indent_stack, outer), Mark("NEWLINE")))
        BY <2>2, <2>8, <3>3, Zenon
      <4>2. Outer(inside)
        BY <2>3, <4>1, KeepOuter DEF CloseDeeper
      <4>3. Outer(outer)
        BY <4>1, <4>2, KeepMatch
      <4>4. CASE line.col # TopBlock(outer).col
        BY <1>1, <4>1, <4>4, Zenon DEF Misplace
      <4>5. CASE line.col = TopBlock(outer).col
        <5>1. InColumn(line, TopBlock(outer))
          BY <4>1, <4>2, <4>5, Lands DEF LaidInv
        <5>2. Place(line, outer, Append(Dedents(indent_stack, outer), Mark("NEWLINE")))
          BY <4>1, <4>5, Zenon
        <5> QED BY <1>0, <4>3, <5>1, <5>2, PlaceOnLine
      <4> QED BY <4>4, <4>5
    <3> QED BY <3>1, <3>2, <3>3
  <2> QED BY <2>6, <2>7, <2>8
<1> QED BY <1>2, <1>3, Zenon DEF Lay

LEMMA EndLaid ==
    ASSUME LaidInv, EndOfText PROVE LaidInv'
<1> DEFINE file == SubSeq(indent_stack, 1, 1)
           d == Len(indent_stack) - 1
           t == laid \o Dedents(indent_stack, file) \o <<Mark("EOF")>>
<1>1. laid' = t /\ indent_stack' = file
  BY DEF EndOfText
<1>2. Len(indent_stack) \in Nat /\ Len(indent_stack) >= 1 /\ indent_stack[1] \in Block
  BY DEF LaidInv, LayoutInv, NestedColumns
<1>3. file \in Seq(Block) /\ Len(file) = 1 /\ file[1] = indent_stack[1]
  <2>1. \A k \in 1 .. 1 : indent_stack[k] \in Block
    BY <1>2
  <2>2. /\ SubSeq(indent_stack, 1, 1) \in Seq(Block) /\ Len(SubSeq(indent_stack, 1, 1)) = 1
        /\ \A k \in 1 .. 1 : SubSeq(indent_stack, 1, 1)[k] = indent_stack[k]
    BY <2>1, SubSeqProperties
  <2> QED BY <2>2
<1> HIDE DEF file
<1>4. Outer(file)
  BY <1>2, <1>3 DEF Outer
<1>5. LayoutInv'
  BY <1>1, <1>4, KeptInv DEF LaidInv
<1>6. /\ ArmsInColumn(file) /\ d \in Nat /\ d < Len(indent_stack)
      /\ Dedenting(Dedents(indent_stack, file), d)
  BY <1>3, <1>4, OuterLeft
<1>7. Mark("EOF") \in Tok /\ Mark("EOF").kind = "EOF"
  BY DEF Tok, Mark, MarkKind
<1>8. Len(file) = Len(indent_stack) - d /\ \A k \in 1 .. Len(indent_stack) - d : file[k] = indent_stack[k]
  BY <1>2, <1>3
<1> HIDE DEF d
<1>9. t \in Seq(Tok) /\ Grows(laid, t, d, "none", Mark("EOF"))
  BY <1>6, <1>7, LaidFacts, GrowsPlain
<1>10. Fits(laid, indent_stack, d, "none", Mark("EOF"), file)
  BY <1>6, <1>7, <1>8 DEF Fits
<1> HIDE DEF t
<1> QED BY <1>1, <1>5, <1>6, <1>9, <1>10, Placed

(* The blocks of the invariant are the ones OffsideRule reads off the output. *)
LEMMA LaidOffside == ASSUME LaidInv PROVE OffsideRule
<1>1. DOMAIN laid = 1 .. Len(laid) /\ Len(laid) \in Nat
  BY LaidFacts, LenProperties
<1>2. \A p : /\ Blocks(p) = BlocksIn(laid, p)
             /\ Starts(p) <=> StartsIn(laid, p)
             /\ Opened(p) <=> OpenedIn(laid, p)
  BY DEF Blocks, BlocksIn, Count, OfKind, Starts, StartsIn, IsLine, LineIn, Opened, OpenedIn
<1>3. ASSUME NEW p \in DOMAIN laid, NEW q \in DOMAIN laid, Starts(p), Starts(q), Siblings(p, q)
      PROVE  laid[q].line.col = IF p = 1 THEN 1 ELSE laid[p].line.col
  <2>1. OneColumn(laid, p, q)
    BY <1>1, LaidFacts DEF Offside
  <2>2. SiblingsIn(laid, p, q)
    BY <1>2, <1>3 DEF Siblings, SiblingsIn
  <2> QED BY <1>2, <1>3, <2>1, <2>2 DEF OneColumn
<1>4. ASSUME NEW p \in DOMAIN laid, NEW q \in DOMAIN laid, Starts(p), Starts(q),
             p # 1, p < q, Opened(q), Blocks(p) = Blocks(q) - 1,
             \A r \in p .. q - 2 : Blocks(r) >= Blocks(p)
      PROVE  \/ laid[p].line.col < laid[q].line.col
             \/ laid[p].line.col = laid[q].line.col /\ laid[q].line.pipe
  <2>1. ToTheRight(laid, p, q)
    BY <1>1, LaidFacts DEF Offside
  <2> QED BY <1>2, <1>4, <2>1 DEF ToTheRight
<1>5. \A p \in DOMAIN laid : Blocks(p) >= 0
  BY <1>1, <1>2, LaidFacts DEF ItemsInColumn
<1>6. ArmsEndWithTheMatch
  <2> SUFFICES ASSUME NEW k \in 2 .. Len(indent_stack), indent_stack[k].is_match_block,
                      NEW start,
                      start = CHOOSE p \in DOMAIN laid :
                                /\ Opened(p) /\ Blocks(p) = k - 1
                                /\ \A r \in p .. Len(laid) : Blocks(r) >= k - 1,
                      NEW p \in start .. Len(laid), Starts(p), Blocks(p) = k - 1
               PROVE  laid[p].line.pipe
    BY DEF ArmsEndWithTheMatch
  <2>1. \E b \in DOMAIN laid : /\ Opened(b) /\ Blocks(b) = k - 1
                               /\ \A r \in b .. Len(laid) : Blocks(r) >= k - 1
    BY <1>1, <1>2, LaidFacts DEF ItemsInColumn, Begun
  <2>2. /\ start \in DOMAIN laid /\ Opened(start)
        /\ \A r \in start .. Len(laid) : Blocks(r) >= k - 1
    BY <2>1
  <2>3. p \in 1 .. Len(laid) /\ p # 1
    BY <1>1, <2>2 DEF Opened
  <2>4. Live(laid, p)
    BY <1>1, <1>2, <2>2 DEF Live
  <2>5. InColumn(laid[p].line, indent_stack[BlocksIn(laid, p) + 1])
    BY <1>2, <2>3, <2>4, LaidFacts DEF ItemsInColumn
  <2>6. BlocksIn(laid, p) + 1 = k
    BY <1>2
  <2> QED BY <2>5, <2>6 DEF InColumn
<1> QED BY <1>3, <1>4, <1>5, <1>6 DEF OffsideRule

(* The offside rule, read from the output alone: the items of a block share a *)
(* column, what is inside an item is to its right, and the arms of a match    *)
(* end with the first line that is no arm.                                    *)
THEOREM ItemsShareAColumn == Spec => []OffsideRule
<1> DEFINE Laying == phase \notin {"parse", "failed"} => Ends(laid)
<1>1. Init => LaidInv /\ Laying
  <2> SUFFICES ASSUME Init PROVE LaidInv /\ Laying
    OBVIOUS
  <2> DEFINE file == [col |-> 1, is_match_block |-> FALSE]
  <2>1. laid = <<>> /\ indent_stack = <<file>> /\ file \in Block
    BY DEF Init, LayoutInit, Block
  <2> HIDE DEF file
  <2>2. /\ indent_stack \in Seq(Block) /\ Len(indent_stack) = 1 /\ indent_stack[1] = file
        /\ laid \in Seq(Tok) /\ Len(laid) = 0
    BY <2>1
  <2>3. 1 \in 1 .. MaxIndent /\ 2 .. 1 = {} /\ 1 .. 0 = {} /\ 0 .. 0 = {0}
    BY LayoutAssumption
  <2>4. LayoutInv
    BY <2>2, <2>3 DEF LayoutInv, NestedColumns, file
  <2>5. BlocksIn(laid, 0) = 0
    BY BlocksType
  <2>6. ItemsInColumn(laid, indent_stack)
    BY <2>2, <2>3, <2>5 DEF ItemsInColumn
  <2>7. Offside(laid) /\ ArmsInColumn(indent_stack)
    BY <2>2, <2>3 DEF Offside, ArmsInColumn
  <2> QED BY <2>1, <2>2, <2>4, <2>6, <2>7 DEF LaidInv, Ends
<1>2. LaidInv /\ Laying /\ [Next]_vars => LaidInv' /\ Laying'
  <2> SUFFICES ASSUME LaidInv, Laying, [Next]_vars PROVE LaidInv' /\ Laying'
    OBVIOUS
  <2>0. LayoutInv' => (UNCHANGED <<laid, indent_stack>> => LaidInv')
    BY LaidFacts, Primed DEF LaidInv
  <2>1. CASE LayLine
    <3>1. phase = "layout" /\ phase' = phase /\ \E line \in Shape : Lay(line)
      BY <2>1 DEF LayLine
    <3> QED BY <3>1, LineLaid
  <2>2. CASE EndLayout
    <3>1. EndOfText /\ phase' = "parse"
      BY <2>2 DEF EndLayout
    <3> QED BY <3>1, EndLaid
  <2>3. CASE UNCHANGED layout /\ (phase' \in {"parse", "failed"} \/ phase \notin {"parse", "failed"} \/ phase' = phase)
    <3>1. UNCHANGED <<laid, indent_stack>>
      BY <2>3 DEF layout
    <3>2. LaidInv'
      <4>1. LayoutInv'
        BY <3>1 DEF LaidInv, LayoutInv, NestedColumns
      <4> QED BY <2>0, <3>1, <4>1
    <3>3. Laying'
      <4>1. phase' \notin {"parse", "failed"} => Ends(laid)
        BY <2>3
      <4> QED BY <3>1, <4>1 DEF Ends, LineIn
    <3> QED BY <3>2, <3>3
  <2>4. CASE ReadArgs \/ Lex \/ FilterLine \/ EndFilter \/ Stop \/ Done \/ UNCHANGED vars
    BY <2>3, <2>4 DEF ReadArgs, Lex, FilterLine, EndFilter, Stop, Done, vars, front
  <2> QED BY <2>1, <2>2, <2>4 DEF Next
<1>3. LaidInv => OffsideRule
  BY LaidOffside
<1> HIDE DEF Laying
<1> QED BY <1>1, <1>2, <1>3, PTL DEF Spec
-----------------------------------------------------------------------------
(* Induction, stated over sets.                                              *)

LEMMA SetInduction ==
    ASSUME NEW S, 0 \in S, \A n \in Nat : n \in S => n + 1 \in S
    PROVE  Nat \subseteq S
<1> SUFFICES ASSUME Nat \ S # {} PROVE FALSE
  OBVIOUS
<1>1. PICK n \in Nat \ S : \A m \in Nat \ S : ~(<<m, n>> \in OpToRel(<, Nat))
  BY WFMin, NatLessThanWellFounded
<1>2. n # 0 /\ n - 1 \in Nat
  OBVIOUS
<1>3. n - 1 \notin S
  BY <1>2
<1>4. <<n - 1, n>> \in OpToRel(<, Nat)
  BY <1>2 DEF OpToRel
<1> QED BY <1>1, <1>2, <1>3, <1>4

LEMMA UpToInduction ==
    ASSUME NEW N \in Nat, NEW S, 0 \in S, \A n \in 1 .. N : n - 1 \in S => n \in S
    PROVE  \A n \in 0 .. N : n \in S
<1> DEFINE T == {n \in Nat : n <= N => n \in S}
<1>1. 0 \in T /\ \A n \in Nat : n \in T => n + 1 \in T
  <2> SUFFICES ASSUME NEW n \in Nat, n \in T, n + 1 <= N PROVE n + 1 \in S
    OBVIOUS
  <2>1. n + 1 \in 1 .. N /\ (n + 1) - 1 = n
    OBVIOUS
  <2> QED BY <2>1
<1> HIDE DEF T
<1>2. Nat \subseteq T
  BY <1>1, SetInduction
<1> QED BY <1>2 DEF T

-----------------------------------------------------------------------------
(* Response files: what the arguments stand for.  The recursive functions     *)
(* first: that there are functions that satisfy their equations.              *)

(* Concatenation, with what the proofs need of it.                            *)
Cat(s, t) == s \o t

LEMMA CatFacts ==
    ASSUME NEW S
    PROVE  /\ \A a, b \in Seq(S) : Cat(a, b) \in Seq(S)
           /\ \A a, b, c \in Seq(S) : Cat(Cat(a, b), c) = Cat(a, Cat(b, c))
           /\ \A a \in Seq(S) : Cat(<<>>, a) = a /\ Cat(a, <<>>) = a
<1>1. ASSUME NEW a \in Seq(S), NEW b \in Seq(S) PROVE Cat(a, b) \in Seq(S)
  BY DEF Cat
<1>2. ASSUME NEW a \in Seq(S), NEW b \in Seq(S), NEW c \in Seq(S)
      PROVE  Cat(Cat(a, b), c) = Cat(a, Cat(b, c))
  BY ConcatAssociative DEF Cat
<1>3. ASSUME NEW a \in Seq(S) PROVE Cat(<<>>, a) = a /\ Cat(a, <<>>) = a
  BY ConcatEmptySeq DEF Cat
<1> QED BY <1>1, <1>2, <1>3

UpToEq(c, m, list, dir, typed, files, below) ==
    c = [i \in 0 .. m |->
            IF i = 0 THEN <<>> ELSE Cat(c[i - 1], StandsFor(list[i], dir, typed, files, below))]

LEMMA UpToExists ==
    ASSUME NEW list, NEW dir, NEW typed, NEW files, NEW below, NEW N \in Nat
    PROVE  \E c : UpToEq(c, N, list, dir, typed, files, below)
<1> DEFINE S == {m \in Nat : \E c : UpToEq(c, m, list, dir, typed, files, below)}
<1>1. 0 \in S
  <2>1. UpToEq([i \in 0 .. 0 |-> <<>>], 0, list, dir, typed, files, below)
    BY DEF UpToEq
  <2> QED BY <2>1
<1>2. ASSUME NEW m \in Nat, m \in S PROVE m + 1 \in S
  <2>1. PICK c : UpToEq(c, m, list, dir, typed, files, below)
    BY <1>2
  <2> DEFINE last == Cat(c[m], StandsFor(list[m + 1], dir, typed, files, below))
             d == [i \in 0 .. m + 1 |-> IF i = m + 1 THEN last ELSE c[i]]
  <2>2. \A i \in 0 .. m : d[i] = c[i]
    OBVIOUS
  <2>3. d[m + 1] = last
    <3>1. m + 1 \in 0 .. m + 1
      OBVIOUS
    <3> QED BY <3>1, Zenon
  <2>4. d = [i \in 0 .. m + 1 |-> d[i]]
    OBVIOUS
  <2> HIDE DEF d
  <2>5. ASSUME NEW i \in 0 .. m + 1
        PROVE  d[i] = IF i = 0 THEN <<>>
                      ELSE Cat(d[i - 1], StandsFor(list[i], dir, typed, files, below))
    <3>1. CASE i = m + 1
      <4>1. i # 0 /\ i - 1 = m /\ m \in 0 .. m
        BY <3>1
      <4> QED BY <3>1, <4>1, <2>2, <2>3
    <3>2. CASE i # m + 1
      <4>1. i \in 0 .. m /\ (i # 0 => i - 1 \in 0 .. m)
        BY <3>2
      <4> QED BY <4>1, <2>1, <2>2 DEF UpToEq
    <3> QED BY <3>1, <3>2
  <2>6. UpToEq(d, m + 1, list, dir, typed, files, below)
    BY <2>4, <2>5 DEF UpToEq
  <2> QED BY <2>6
<1> HIDE DEF S
<1> QED BY <1>1, <1>2, SetInduction DEF S

LEMMA UpToDef ==
    ASSUME NEW list, NEW dir, NEW typed, NEW files, NEW below, Len(list) \in Nat
    PROVE  /\ UpToToken(list, dir, typed, files, below)[0] = <<>>
           /\ \A i \in 1 .. Len(list) :
                 UpToToken(list, dir, typed, files, below)[i] =
                     Cat(UpToToken(list, dir, typed, files, below)[i - 1],
                         StandsFor(list[i], dir, typed, files, below))
<1> DEFINE c == UpToToken(list, dir, typed, files, below)
<1>1. UpToEq(c, Len(list), list, dir, typed, files, below)
  <2>1. c = CHOOSE d : UpToEq(d, Len(list), list, dir, typed, files, below)
    BY DEF UpToToken, UpToEq, Cat
  <2> QED BY <2>1, UpToExists
<1> HIDE DEF c
<1>2. \A i \in 0 .. Len(list) :
          c[i] = IF i = 0 THEN <<>>
                 ELSE Cat(c[i - 1], StandsFor(list[i], dir, typed, files, below))
  BY <1>1, Zenon DEF UpToEq
<1>3. 0 \in 0 .. Len(list) /\ \A i \in 1 .. Len(list) : i \in 0 .. Len(list) /\ i # 0
  OBVIOUS
<1> QED BY <1>2, <1>3, Zenon DEF c

Deepest == ArgsMaxDepth + 2

Level(below, n, files) ==
    [l \in Seq(Token) \X Dir \X BOOLEAN |->
        IF n = 0 THEN <<Missing>>
        ELSE UpToToken(l[1], l[2], l[3], files, below)[Len(l[1])]]

FlatEq(c, m, files) == c = [n \in 0 .. m |-> Level(c[n - 1], n, files)]

LEMMA FlatExists == ASSUME NEW files, NEW N \in Nat PROVE \E c : FlatEq(c, N, files)
<1> DEFINE S == {m \in Nat : \E c : FlatEq(c, m, files)}
<1>0. \A u, v : Level(u, 0, files) = Level(v, 0, files)
  BY DEF Level
<1>1. 0 \in S
  <2> DEFINE c == [n \in 0 .. 0 |-> Level(n, 0, files)]
  <2>1. c[0] = Level(0, 0, files)
    OBVIOUS
  <2>2. Level(c[0 - 1], 0, files) = Level(0, 0, files)
    BY <1>0
  <2>3. \A n \in 0 .. 0 : Level(n, 0, files) = Level(c[n - 1], n, files)
    BY <2>2
  <2>4. c = [n \in 0 .. 0 |-> Level(c[n - 1], n, files)]
    BY <2>3
  <2>5. FlatEq(c, 0, files)
    BY <2>4 DEF FlatEq
  <2> QED BY <2>5
<1>2. ASSUME NEW m \in Nat, m \in S PROVE m + 1 \in S
  <2>1. PICK c : FlatEq(c, m, files)
    BY <1>2
  <2> DEFINE last == Level(c[m], m + 1, files)
             d == [n \in 0 .. m + 1 |-> IF n = m + 1 THEN last ELSE c[n]]
  <2>2. \A n \in 0 .. m : d[n] = c[n]
    OBVIOUS
  <2>3. d[m + 1] = last
    OBVIOUS
  <2>4. d = [n \in 0 .. m + 1 |-> d[n]]
    OBVIOUS
  <2> HIDE DEF d
  <2>5. ASSUME NEW n \in 0 .. m + 1 PROVE d[n] = Level(d[n - 1], n, files)
    <3>1. CASE n = m + 1
      <4>1. n - 1 = m /\ m \in 0 .. m
        BY <3>1
      <4> QED BY <3>1, <4>1, <2>2, <2>3
    <3>2. CASE n = 0
      <4>1. d[0] = Level(c[0 - 1], 0, files)
        BY <2>1, <2>2 DEF FlatEq
      <4> QED BY <3>2, <4>1, <1>0
    <3>3. CASE n # 0 /\ n # m + 1
      <4>1. n \in 0 .. m /\ n - 1 \in 0 .. m
        BY <3>3
      <4> QED BY <4>1, <2>1, <2>2 DEF FlatEq
    <3> QED BY <3>1, <3>2, <3>3
  <2>6. FlatEq(d, m + 1, files)
    BY <2>4, <2>5 DEF FlatEq
  <2> QED BY <2>6
<1> HIDE DEF S
<1> QED BY <1>1, <1>2, SetInduction DEF S

LEMMA FlatDef ==
    ASSUME NEW files, NEW list \in Seq(Token), NEW dir \in Dir, NEW typed \in BOOLEAN,
           NEW n \in 0 .. Deepest
    PROVE  Flat(files)[n][<<list, dir, typed>>] =
               IF n = 0 THEN <<Missing>>
               ELSE UpToToken(list, dir, typed, files, Flat(files)[n - 1])[Len(list)]
<1> DEFINE c == Flat(files)
<1>0. Deepest \in Nat
  BY ArgsAssumption DEF Deepest
<1>1. FlatEq(c, Deepest, files)
  <2>1. c = CHOOSE d : FlatEq(d, Deepest, files)
    BY DEF Flat, FlatEq, Level, Deepest
  <2> QED BY <2>1, <1>0, FlatExists
<1> HIDE DEF c
<1>2. c[n] = Level(c[n - 1], n, files)
  BY <1>1 DEF FlatEq
<1>3. c[n][<<list, dir, typed>>] =
          IF n = 0 THEN <<Missing>> ELSE UpToToken(list, dir, typed, files, c[n - 1])[Len(list)]
  BY <1>2 DEF Level
<1> QED BY <1>3 DEF c

(* What they yield: tokens, and the mark of a list that cannot be spliced.    *)
Out == [word : Word, dir : Dir \cup {None}] \cup {Missing}
Files == [Rsp -> Seq(Token) \cup {None}]
Listing == Seq(Token) \X Dir \X BOOLEAN

LEMMA CatOut ==
    /\ \A a, b \in Seq(Out) : Cat(a, b) \in Seq(Out)
    /\ \A a, b, c \in Seq(Out) : Cat(Cat(a, b), c) = Cat(a, Cat(b, c))
    /\ \A a \in Seq(Out) : Cat(<<>>, a) = a /\ Cat(a, <<>>) = a
<1> DEFINE S == Out
<1> HIDE DEF S
<1>1. /\ \A a, b \in Seq(S) : Cat(a, b) \in Seq(S)
      /\ \A a, b, c \in Seq(S) : Cat(Cat(a, b), c) = Cat(a, Cat(b, c))
      /\ \A a \in Seq(S) : Cat(<<>>, a) = a /\ Cat(a, <<>>) = a
  BY CatFacts
<1> QED BY <1>1 DEF S

LEMMA StandsTyped ==
    ASSUME NEW tok \in Token, NEW dir \in Dir, NEW typed \in BOOLEAN, NEW files \in Files,
           NEW below, \A l \in Listing : below[l] \in Seq(Out)
    PROVE  StandsFor(tok, dir, typed, files, below) \in Seq(Out)
<1>1. CASE tok.kind = "word"
  <2>1. tok.word \in Word
    BY <1>1 DEF Token, OpenQuote
  <2> DEFINE d == IF typed THEN None ELSE dir
  <2>2. [word |-> tok.word, dir |-> d] \in Out
    BY <2>1 DEF Out
  <2> HIDE DEF d
  <2>3. <<[word |-> tok.word, dir |-> d]>> \in Seq(Out)
    BY <2>2
  <2> QED BY <1>1, <2>3 DEF StandsFor, d
<1>2. CASE tok.kind = "@" /\ Canon[Named(dir, tok)] # Missing /\ files[Canon[Named(dir, tok)]] # None
  <2> DEFINE path == Named(dir, tok)
  <2>1. path \in Dir \X Base /\ path[1] \in Dir
    BY <1>2, NamedTyped
  <2>2. files[Canon[path]] \in Seq(Token)
    BY <1>2, <2>1, ArgsAssumption DEF Files
  <2>3. <<files[Canon[path]], path[1], FALSE>> \in Listing
    BY <2>1, <2>2 DEF Listing
  <2> QED BY <1>2, <2>3 DEF StandsFor
<1>3. <<Missing>> \in Seq(Out)
  BY DEF Out
<1> QED BY <1>1, <1>2, <1>3 DEF StandsFor

LEMMA UpToTyped ==
    ASSUME NEW list \in Seq(Token), NEW dir \in Dir, NEW typed \in BOOLEAN, NEW files \in Files,
           NEW below, \A l \in Listing : below[l] \in Seq(Out)
    PROVE  \A i \in 0 .. Len(list) : UpToToken(list, dir, typed, files, below)[i] \in Seq(Out)
<1> DEFINE u == UpToToken(list, dir, typed, files, below)
           S == {i \in 0 .. Len(list) : u[i] \in Seq(Out)}
<1>0. Len(list) \in Nat
  OBVIOUS
<1>1. 0 \in S
  <2>1. u[0] = <<>> /\ <<>> \in Seq(Out) /\ 0 \in 0 .. Len(list)
    BY <1>0, UpToDef
  <2> QED BY <2>1
<1>2. ASSUME NEW i \in 1 .. Len(list), i - 1 \in S PROVE i \in S
  <2>1. u[i] = Cat(u[i - 1], StandsFor(list[i], dir, typed, files, below))
    BY <1>0, UpToDef
  <2>2. StandsFor(list[i], dir, typed, files, below) \in Seq(Out)
    BY StandsTyped
  <2>3. u[i - 1] \in Seq(Out) /\ i \in 0 .. Len(list)
    BY <1>2
  <2> HIDE DEF u
  <2>4. u[i] \in Seq(Out)
    BY <2>1, <2>2, <2>3, CatOut
  <2> QED BY <2>3, <2>4
<1>3. \A i \in 0 .. Len(list) : i \in S
  <2> HIDE DEF S
  <2> QED BY <1>0, <1>1, <1>2, UpToInduction
<1> QED BY <1>3

LEMMA FlatTyped ==
    ASSUME NEW files \in Files, NEW n \in 0 .. Deepest, NEW l \in Listing
    PROVE  Flat(files)[n][l] \in Seq(Out)
<1> DEFINE S == {m \in 0 .. Deepest : \A k \in Listing : Flat(files)[m][k] \in Seq(Out)}
<1>0. Deepest \in Nat
  BY ArgsAssumption DEF Deepest
<1>1. ASSUME NEW m \in 0 .. Deepest, NEW k \in Listing, m = 0 \/ m - 1 \in S
      PROVE  Flat(files)[m][k] \in Seq(Out)
  <2>1. k[1] \in Seq(Token) /\ k[2] \in Dir /\ k[3] \in BOOLEAN /\ k = <<k[1], k[2], k[3]>>
    BY DEF Listing
  <2>2. Flat(files)[m][k] =
            IF m = 0 THEN <<Missing>>
            ELSE UpToToken(k[1], k[2], k[3], files, Flat(files)[m - 1])[Len(k[1])]
    BY <2>1, FlatDef
  <2>3. <<Missing>> \in Seq(Out)
    BY DEF Out
  <2>4. CASE m # 0
    <3>1. \A j \in Listing : Flat(files)[m - 1][j] \in Seq(Out)
      BY <1>1, <2>4
    <3>2. Len(k[1]) \in 0 .. Len(k[1])
      BY <2>1
    <3> QED BY <2>1, <2>2, <2>4, <3>1, <3>2, UpToTyped
  <2> QED BY <2>2, <2>3, <2>4
<1>2. 0 \in S
  BY <1>0, <1>1
<1>3. \A m \in 1 .. Deepest : m - 1 \in S => m \in S
  BY <1>0, <1>1
<1>4. \A m \in 0 .. Deepest : m \in S
  <2> HIDE DEF S
  <2> QED BY <1>0, <1>2, <1>3, UpToInduction
<1> QED BY <1>4

(* A list stands for what its first token stands for and what the others do.  *)
LEMMA UpToTail ==
    ASSUME NEW list \in Seq(Token), list # <<>>, NEW dir \in Dir, NEW typed \in BOOLEAN,
           NEW files \in Files, NEW below, \A l \in Listing : below[l] \in Seq(Out)
    PROVE  UpToToken(list, dir, typed, files, below)[Len(list)] =
               Cat(StandsFor(list[1], dir, typed, files, below),
                   UpToToken(Tail(list), dir, typed, files, below)[Len(Tail(list))])
<1> DEFINE st(i) == StandsFor(list[i], dir, typed, files, below)
           u == UpToToken(list, dir, typed, files, below)
           w == UpToToken(Tail(list), dir, typed, files, below)
           m == Len(Tail(list))
           S == {i \in 0 .. m : u[i + 1] = Cat(st(1), w[i])}
<1>0. /\ m \in Nat /\ Len(list) = m + 1 /\ Tail(list) \in Seq(Token)
      /\ \A i \in 1 .. m : Tail(list)[i] = list[i + 1]
  OBVIOUS
<1>1. \A i \in 1 .. m + 1 : st(i) \in Seq(Out)
  <2>1. \A i \in 1 .. m + 1 : list[i] \in Token
    BY <1>0
  <2> QED BY <2>1, StandsTyped
<1>2. \A i \in 0 .. m : w[i] \in Seq(Out)
  BY <1>0, UpToTyped
<1>3. /\ u[0] = <<>> /\ w[0] = <<>>
      /\ \A i \in 1 .. m + 1 : u[i] = Cat(u[i - 1], st(i))
  <2>1. Len(list) \in Nat
    OBVIOUS
  <2>2. u[0] = <<>> /\ \A i \in 1 .. Len(list) : u[i] = Cat(u[i - 1], st(i))
    BY <2>1, UpToDef
  <2>3. w[0] = <<>>
    BY <1>0, UpToDef
  <2> HIDE DEF u, w, st, m
  <2> QED BY <1>0, <2>2, <2>3
<1>4. \A i \in 1 .. m : w[i] = Cat(w[i - 1], st(i + 1))
  <2> SUFFICES ASSUME NEW i \in 1 .. m PROVE w[i] = Cat(w[i - 1], st(i + 1))
    OBVIOUS
  <2> DEFINE t == Tail(list)
  <2>1. Len(t) \in Nat /\ i \in 1 .. Len(t) /\ t[i] = list[i + 1]
    BY <1>0
  <2> HIDE DEF t
  <2>2. UpToToken(t, dir, typed, files, below)[i] =
            Cat(UpToToken(t, dir, typed, files, below)[i - 1],
                StandsFor(t[i], dir, typed, files, below))
    BY <2>1, UpToDef
  <2> QED BY <2>1, <2>2 DEF t
<1> HIDE DEF u, w, st, m
<1>5. 0 \in S
  <2>1. u[1] = Cat(u[0], st(1)) /\ st(1) \in Seq(Out)
    <3>1. 1 \in 1 .. m + 1 /\ 1 - 1 = 0
      BY <1>0
    <3> QED BY <1>1, <1>3, <3>1
  <2>2. Cat(<<>>, st(1)) = st(1) /\ Cat(st(1), <<>>) = st(1)
    BY <2>1, CatOut
  <2> QED BY <1>0, <1>3, <2>1, <2>2
<1>6. ASSUME NEW i \in 1 .. m, i - 1 \in S PROVE i \in S
  <2>1. u[i + 1] = Cat(u[i], st(i + 1)) /\ u[i] = Cat(st(1), w[i - 1])
    <3>1. i + 1 \in 1 .. m + 1 /\ (i + 1) - 1 = i /\ (i - 1) + 1 = i
      BY <1>0
    <3> QED BY <1>3, <1>6, <3>1
  <2>2. st(1) \in Seq(Out) /\ w[i - 1] \in Seq(Out) /\ st(i + 1) \in Seq(Out)
    <3>1. 1 \in 1 .. m + 1 /\ i + 1 \in 1 .. m + 1 /\ i - 1 \in 0 .. m
      BY <1>0
    <3> QED BY <1>1, <1>2, <3>1
  <2>3. Cat(Cat(st(1), w[i - 1]), st(i + 1)) = Cat(st(1), Cat(w[i - 1], st(i + 1)))
    BY <2>2, CatOut
  <2>4. u[i + 1] = Cat(st(1), w[i])
    BY <1>4, <2>1, <2>3
  <2> QED BY <1>0, <2>4
<1>7. m \in S
  <2> HIDE DEF S
  <2>1. \A i \in 0 .. m : i \in S
    BY <1>0, <1>5, <1>6, UpToInduction
  <2> QED BY <1>0, <2>1
<1> QED BY <1>0, <1>7 DEF u, w, st, m

LEMMA FlatTail ==
    ASSUME NEW files \in Files, NEW n \in 1 .. Deepest,
           NEW list \in Seq(Token), list # <<>>, NEW dir \in Dir, NEW typed \in BOOLEAN
    PROVE  Flat(files)[n][<<list, dir, typed>>] =
               Cat(StandsFor(list[1], dir, typed, files, Flat(files)[n - 1]),
                   Flat(files)[n][<<Tail(list), dir, typed>>])
<1>0. Deepest \in Nat
  BY ArgsAssumption DEF Deepest
<1>1. n \in 0 .. Deepest /\ n # 0 /\ n - 1 \in 0 .. Deepest /\ Tail(list) \in Seq(Token)
  BY <1>0
<1>2. \A l \in Listing : Flat(files)[n - 1][l] \in Seq(Out)
  BY <1>1, FlatTyped
<1>3. \A t \in Seq(Token) :
          Flat(files)[n][<<t, dir, typed>>] =
              UpToToken(t, dir, typed, files, Flat(files)[n - 1])[Len(t)]
  BY <1>1, FlatDef
<1>4. UpToToken(list, dir, typed, files, Flat(files)[n - 1])[Len(list)] =
          Cat(StandsFor(list[1], dir, typed, files, Flat(files)[n - 1]),
              UpToToken(Tail(list), dir, typed, files, Flat(files)[n - 1])[Len(Tail(list))])
  BY <1>2, UpToTail
<1> QED BY <1>1, <1>3, <1>4

LEMMA FlatEmpty ==
    ASSUME NEW files \in Files, NEW n \in 1 .. Deepest, NEW dir \in Dir, NEW typed \in BOOLEAN
    PROVE  Flat(files)[n][<<<<>>, dir, typed>>] = <<>>
<1>0. Deepest \in Nat
  BY ArgsAssumption DEF Deepest
<1>1. <<>> \in Seq(Token) /\ Len(<<>>) = 0 /\ n \in 0 .. Deepest /\ n # 0
  BY <1>0
<1>2. \A t \in Seq(Token) :
          Flat(files)[n][<<t, dir, typed>>] =
              UpToToken(t, dir, typed, files, Flat(files)[n - 1])[Len(t)]
  BY <1>1, FlatDef
<1>3. UpToToken(<<>>, dir, typed, files, Flat(files)[n - 1])[0] = <<>>
  <2>1. Len(<<>>) \in Nat
    OBVIOUS
  <2> QED BY <2>1, UpToDef
<1> QED BY <1>1, <1>2, <1>3

(* The lists that are being spliced: the arguments, then the files on the     *)
(* stack.  What is left of each, the innermost first, follows the tokens.     *)
LeftOf(e, av, ar, st) ==
    [k \in 1 .. Len(st) + 1 |->
        IF k = 1 THEN Flat(e)[Deepest][<<SubSeq(av, ar, Len(av)), Cwd, TRUE>>]
        ELSE Flat(e)[Deepest + 1 - k][<<st[k - 1].rest, st[k - 1].path[1], FALSE>>]]

Sums(r, g, m) ==
    /\ r \in [0 .. m -> Seq(Out)] /\ r[0] = <<>>
    /\ \A k \in 1 .. m : r[k] = Cat(g[k], r[k - 1])

Extends(e, d) == \A f \in Rsp : d[f] # None => e[f] = d[f]

(* Whatever the files not yet read hold.                                      *)
Spliced(av, ar, st, d, ts) ==
    \A e \in Files : Extends(e, d) =>
        \E r : /\ Sums(r, LeftOf(e, av, ar, st), Len(st) + 1)
               /\ Flat(e)[Deepest][<<av, Cwd, TRUE>>] = Cat(ts, r[Len(st) + 1])

TopIs(g, m, x) == g[m] = x
Spent(g, m) == g[m] = <<>>

TopSum(r, h, m) == [k \in 0 .. m |-> IF k = m THEN Cat(h[m], r[m - 1]) ELSE r[k]]
PopSum(r, m) == [k \in 0 .. m |-> r[k]]

LEMMA SumTop ==
    ASSUME NEW m \in Nat \ {0}, NEW r, NEW g, NEW h, Sums(r, g, m),
           \A k \in 1 .. m - 1 : h[k] = g[k],
           NEW x \in Seq(Out), h[m] \in Seq(Out), TopIs(g, m, Cat(x, h[m]))
    PROVE  Sums(TopSum(r, h, m), h, m) /\ r[m] = Cat(x, TopSum(r, h, m)[m])
<1> DEFINE last == Cat(h[m], r[m - 1])
           q == TopSum(r, h, m)
<1>1. /\ r[m - 1] \in Seq(Out) /\ r[m] = Cat(Cat(x, h[m]), r[m - 1])
      /\ r[0] = <<>> /\ \A k \in 0 .. m : r[k] \in Seq(Out)
      /\ \A k \in 1 .. m - 1 : r[k] = Cat(g[k], r[k - 1])
  <2>1. m \in 1 .. m /\ m - 1 \in 0 .. m /\ \A k \in 1 .. m - 1 : k \in 1 .. m
    OBVIOUS
  <2>2. /\ \A k \in 0 .. m : r[k] \in Seq(Out)
        /\ r[0] = <<>> /\ \A k \in 1 .. m : r[k] = Cat(g[k], r[k - 1])
    BY DEF Sums, TopIs
  <2> QED BY <2>1, <2>2 DEF TopIs
<1>2. last \in Seq(Out) /\ r[m] = Cat(x, last)
  BY <1>1, CatOut
<1> HIDE DEF last
<1>3. q \in [0 .. m -> Seq(Out)] /\ q[m] = last /\ \A k \in 0 .. m - 1 : q[k] = r[k]
  BY <1>1, <1>2 DEF TopSum, last
<1> HIDE DEF q
<1>4. q[0] = <<>>
  <2>1. 0 \in 0 .. m - 1
    OBVIOUS
  <2>2. q[0] = r[0]
    BY <1>3, <2>1, Zenon
  <2> QED BY <1>1, <2>2, Zenon
<1>5. ASSUME NEW k \in 1 .. m PROVE q[k] = Cat(h[k], q[k - 1])
  <2>1. k - 1 \in 0 .. m - 1 /\ (k # m => k \in 1 .. m - 1 /\ k \in 0 .. m - 1)
    OBVIOUS
  <2>2. CASE k = m
    BY <2>1, <2>2, <1>3 DEF last
  <2>3. CASE k # m
    BY <2>1, <2>3, <1>1, <1>3
  <2> QED BY <2>2, <2>3
<1> QED BY <1>2, <1>3, <1>4, <1>5 DEF Sums, q

LEMMA SumPush ==
    ASSUME NEW m \in Nat, NEW r, NEW g, NEW h, Sums(r, g, m),
           \A k \in 1 .. m : h[k] = g[k], h[m + 1] \in Seq(Out)
    PROVE  \E q : Sums(q, h, m + 1) /\ q[m + 1] = Cat(h[m + 1], r[m])
<1> DEFINE last == Cat(h[m + 1], r[m])
           q == [k \in 0 .. m + 1 |-> IF k = m + 1 THEN last ELSE r[k]]
<1>1. /\ r[0] = <<>> /\ \A k \in 0 .. m : r[k] \in Seq(Out)
      /\ \A k \in 1 .. m : r[k] = Cat(g[k], r[k - 1])
  BY DEF Sums
<1>2. last \in Seq(Out)
  BY <1>1, CatOut
<1> HIDE DEF last
<1>3. q \in [0 .. m + 1 -> Seq(Out)] /\ q[m + 1] = last /\ \A k \in 0 .. m : q[k] = r[k]
  BY <1>1, <1>2
<1> HIDE DEF q
<1>4. q[0] = <<>>
  <2>1. 0 \in 0 .. m
    OBVIOUS
  <2>2. q[0] = r[0]
    BY <1>3, <2>1, Zenon
  <2> QED BY <1>1, <2>2, Zenon
<1>5. ASSUME NEW k \in 1 .. m + 1 PROVE q[k] = Cat(h[k], q[k - 1])
  <2>1. k - 1 \in 0 .. m /\ (k # m + 1 => k \in 1 .. m /\ k \in 0 .. m)
    OBVIOUS
  <2>2. CASE k = m + 1
    <3>1. q[k - 1] = r[m]
      BY <2>1, <2>2, <1>3
    <3> QED BY <3>1, <2>2, <1>3 DEF last
  <2>3. CASE k # m + 1
    BY <2>1, <2>3, <1>1, <1>3
  <2> QED BY <2>2, <2>3
<1> QED BY <1>3, <1>4, <1>5 DEF Sums, last

LEMMA SumPop ==
    ASSUME NEW m \in Nat, NEW r, NEW g, NEW h, Sums(r, g, m + 1),
           \A k \in 1 .. m : h[k] = g[k], Spent(g, m + 1)
    PROVE  Sums(PopSum(r, m), h, m) /\ PopSum(r, m)[m] = r[m + 1]
<1> DEFINE q == PopSum(r, m)
<1>1. /\ r[0] = <<>> /\ \A k \in 0 .. m : r[k] \in Seq(Out)
      /\ \A k \in 1 .. m : r[k] = Cat(g[k], r[k - 1])
      /\ r[m + 1] = Cat(<<>>, r[m])
  BY DEF Sums, Spent
<1>2. Sums(q, h, m)
  BY <1>1 DEF Sums, PopSum
<1>3. q[m] = r[m + 1]
  BY <1>1, CatOut DEF PopSum
<1> QED BY <1>2, <1>3

LEMMA Remaining ==
    ASSUME NEW S, NEW av \in Seq(S), NEW ar \in 1 .. Len(av)
    PROVE  /\ SubSeq(av, ar, Len(av)) \in Seq(S) /\ SubSeq(av, ar, Len(av)) # <<>>
           /\ SubSeq(av, ar, Len(av))[1] = av[ar]
           /\ Tail(SubSeq(av, ar, Len(av))) = SubSeq(av, ar + 1, Len(av))
<1> DEFINE n == Len(av)
           s == SubSeq(av, ar, n)
           t == SubSeq(av, ar + 1, n)
<1>1. n \in Nat /\ ar \in Nat /\ ar <= n /\ ar + 1 \in Nat /\ n \in 1 .. n
      /\ \A k \in 1 .. n : av[k] \in S
  OBVIOUS
<1> HIDE DEF n
<1>2. s \in Seq(S) /\ Len(s) = n - ar + 1 /\ \A k \in 1 .. n - ar + 1 : s[k] = av[ar + k - 1]
  <2>1. \A k \in ar .. n : av[k] \in S
    BY <1>1
  <2> QED BY <1>1, <2>1, SubSeqProperties
<1>3. t \in Seq(S) /\ Len(t) = n - ar /\ \A k \in 1 .. n - ar : t[k] = av[ar + 1 + k - 1]
  <2>1. \A k \in ar + 1 .. n : av[k] \in S
    BY <1>1
  <2>2. /\ t \in Seq(S) /\ Len(t) = (IF ar + 1 <= n THEN n - (ar + 1) + 1 ELSE 0)
        /\ \A k \in 1 .. n - (ar + 1) + 1 : t[k] = av[ar + 1 + k - 1]
    BY <1>1, <2>1, SubSeqProperties
  <2>3. n - (ar + 1) + 1 = n - ar /\ (~(ar + 1 <= n) => n - ar = 0)
    BY <1>1
  <2> QED BY <2>2, <2>3
<1> HIDE DEF s, t
<1>4. s # <<>> /\ s[1] = av[ar]
  BY <1>1, <1>2
<1>5. Tail(s) \in Seq(S) /\ Len(Tail(s)) = n - ar /\ \A k \in 1 .. n - ar : Tail(s)[k] = s[k + 1]
  BY <1>1, <1>2, <1>4
<1>6. \A k \in 1 .. n - ar : s[k + 1] = t[k]
  <2> SUFFICES ASSUME NEW k \in 1 .. n - ar PROVE s[k + 1] = t[k]
    OBVIOUS
  <2>1. k + 1 \in 1 .. n - ar + 1 /\ ar + (k + 1) - 1 = ar + 1 + k - 1
    BY <1>1
  <2> QED BY <1>2, <1>3, <2>1
<1>7. Tail(s) = t
  BY <1>1, <1>3, <1>5, <1>6, SeqEqual
<1> QED BY <1>2, <1>4, <1>7 DEF s, t, n

(* The three ways the lists change.                                           *)
LEMMA TokenSpliced ==
    ASSUME NEW av, NEW ar, NEW ar2, NEW st, NEW st2, Len(st) \in Nat, Len(st2) = Len(st),
           NEW d, NEW ts \in Seq(Out), NEW t \in Out, Spliced(av, ar, st, d, ts),
           \A e \in Files :
              /\ \A k \in 1 .. Len(st) : LeftOf(e, av, ar2, st2)[k] = LeftOf(e, av, ar, st)[k]
              /\ LeftOf(e, av, ar2, st2)[Len(st) + 1] \in Seq(Out)
              /\ LeftOf(e, av, ar, st)[Len(st) + 1] =
                     Cat(<<t>>, LeftOf(e, av, ar2, st2)[Len(st) + 1])
    PROVE  Spliced(av, ar2, st2, d, Append(ts, t))
<1> SUFFICES ASSUME NEW e \in Files, Extends(e, d)
             PROVE  \E r : /\ Sums(r, LeftOf(e, av, ar2, st2), Len(st2) + 1)
                           /\ Flat(e)[Deepest][<<av, Cwd, TRUE>>] =
                                  Cat(Append(ts, t), r[Len(st2) + 1])
  BY DEF Spliced
<1> DEFINE m == Len(st) + 1
           g == LeftOf(e, av, ar, st)
           h == LeftOf(e, av, ar2, st2)
           w == Flat(e)[Deepest][<<av, Cwd, TRUE>>]
<1>1. m \in Nat \ {0} /\ m - 1 = Len(st) /\ Len(st2) + 1 = m
  OBVIOUS
<1>2. PICK r : Sums(r, g, m) /\ w = Cat(ts, r[m])
  BY DEF Spliced
<1>3. \A k \in 1 .. m - 1 : h[k] = g[k]
  BY <1>1
<1>4. h[m] \in Seq(Out) /\ g[m] = Cat(<<t>>, h[m]) /\ <<t>> \in Seq(Out)
  OBVIOUS
<1> HIDE DEF m, g, h, w
<1>5. PICK q : Sums(q, h, m) /\ r[m] = Cat(<<t>>, q[m])
  <2> DEFINE x == <<t>>
  <2>1. TopIs(g, m, Cat(x, h[m])) /\ x \in Seq(Out) /\ h[m] \in Seq(Out)
    BY <1>4 DEF TopIs
  <2> HIDE DEF x
  <2>2. Sums(TopSum(r, h, m), h, m) /\ r[m] = Cat(x, TopSum(r, h, m)[m])
    <3>1. Sums(r, g, m)
      BY <1>2
    <3> QED BY ONLY <1>1, <1>3, <2>1, <3>1, SumTop
  <2> QED BY <2>2 DEF x
<1>6. q[m] \in Seq(Out)
  BY <1>1, <1>5 DEF Sums
<1>7. Append(ts, t) = Cat(ts, <<t>>)
  BY AppendIsConcat DEF Cat
<1>8. w = Cat(Append(ts, t), q[m])
  <2>1. Cat(Cat(ts, <<t>>), q[m]) = Cat(ts, Cat(<<t>>, q[m]))
    BY <1>4, <1>6, CatOut
  <2> QED BY <1>2, <1>5, <1>7, <2>1
<1> QED BY <1>1, <1>5, <1>8 DEF m, h, w

LEMMA MentionSpliced ==
    ASSUME NEW av, NEW ar, NEW ar2, NEW st, NEW st2, Len(st) \in Nat, Len(st2) = Len(st) + 1,
           NEW d, NEW d2, NEW ts \in Seq(Out), Spliced(av, ar, st, d, ts),
           \A f \in Rsp : d[f] # None => d2[f] = d[f],
           \A e \in Files : Extends(e, d2) =>
              /\ \A k \in 1 .. Len(st) : LeftOf(e, av, ar2, st2)[k] = LeftOf(e, av, ar, st)[k]
              /\ LeftOf(e, av, ar2, st2)[Len(st) + 1] \in Seq(Out)
              /\ LeftOf(e, av, ar2, st2)[Len(st) + 2] \in Seq(Out)
              /\ LeftOf(e, av, ar, st)[Len(st) + 1] =
                     Cat(LeftOf(e, av, ar2, st2)[Len(st) + 2],
                         LeftOf(e, av, ar2, st2)[Len(st) + 1])
    PROVE  Spliced(av, ar2, st2, d2, ts)
<1> SUFFICES ASSUME NEW e \in Files, Extends(e, d2)
             PROVE  \E r : /\ Sums(r, LeftOf(e, av, ar2, st2), Len(st2) + 1)
                           /\ Flat(e)[Deepest][<<av, Cwd, TRUE>>] = Cat(ts, r[Len(st2) + 1])
  BY DEF Spliced
<1> DEFINE m == Len(st) + 1
           g == LeftOf(e, av, ar, st)
           h == LeftOf(e, av, ar2, st2)
           w == Flat(e)[Deepest][<<av, Cwd, TRUE>>]
<1>1. m \in Nat \ {0} /\ m - 1 = Len(st) /\ Len(st2) + 1 = m + 1 /\ Len(st) + 2 = m + 1
  OBVIOUS
<1>2. Extends(e, d)
  BY DEF Extends
<1>3. PICK r : Sums(r, g, m) /\ w = Cat(ts, r[m])
  BY <1>2 DEF Spliced
<1>4. /\ \A k \in 1 .. m - 1 : h[k] = g[k]
      /\ h[m] \in Seq(Out) /\ h[m + 1] \in Seq(Out) /\ g[m] = Cat(h[m + 1], h[m])
  BY <1>1
<1> HIDE DEF m, g, h, w
<1>5. PICK q : Sums(q, h, m) /\ r[m] = Cat(h[m + 1], q[m])
  <2>1. TopIs(g, m, Cat(h[m + 1], h[m]))
    BY <1>4 DEF TopIs
  <2> DEFINE x == h[m + 1]
  <2> HIDE DEF x
  <2>2. Sums(TopSum(r, h, m), h, m) /\ r[m] = Cat(x, TopSum(r, h, m)[m])
    BY <1>1, <1>3, <1>4, <2>1, SumTop DEF x
  <2> QED BY <2>2 DEF x
<1>6. PICK p : Sums(p, h, m + 1) /\ p[m + 1] = Cat(h[m + 1], q[m])
  <2>1. m \in Nat /\ Sums(q, h, m) /\ (\A k \in 1 .. m : h[k] = h[k]) /\ h[m + 1] \in Seq(Out)
    BY <1>1, <1>4, <1>5
  <2> QED BY ONLY <2>1, SumPush, SMTT(30)
<1> QED BY <1>1, <1>3, <1>5, <1>6 DEF m, h, w

LEMMA EndSpliced ==
    ASSUME NEW av, NEW ar, NEW st, NEW st2, Len(st2) \in Nat, Len(st) = Len(st2) + 1,
           NEW d, NEW ts \in Seq(Out), Spliced(av, ar, st, d, ts),
           \A e \in Files :
              /\ \A k \in 1 .. Len(st) : LeftOf(e, av, ar, st2)[k] = LeftOf(e, av, ar, st)[k]
              /\ LeftOf(e, av, ar, st)[Len(st) + 1] = <<>>
    PROVE  Spliced(av, ar, st2, d, ts)
<1> SUFFICES ASSUME NEW e \in Files, Extends(e, d)
             PROVE  \E r : /\ Sums(r, LeftOf(e, av, ar, st2), Len(st2) + 1)
                           /\ Flat(e)[Deepest][<<av, Cwd, TRUE>>] = Cat(ts, r[Len(st2) + 1])
  BY DEF Spliced
<1> DEFINE m == Len(st)
           g == LeftOf(e, av, ar, st)
           h == LeftOf(e, av, ar, st2)
           w == Flat(e)[Deepest][<<av, Cwd, TRUE>>]
<1>1. m \in Nat /\ Len(st2) + 1 = m
  OBVIOUS
<1>2. PICK r : Sums(r, g, m + 1) /\ w = Cat(ts, r[m + 1])
  BY DEF Spliced
<1>3. (\A k \in 1 .. m : h[k] = g[k]) /\ g[m + 1] = <<>>
  OBVIOUS
<1> HIDE DEF m, g, h, w
<1>4. PICK q : Sums(q, h, m) /\ q[m] = r[m + 1]
  <2>1. Spent(g, m + 1) /\ \A k \in 1 .. m : h[k] = g[k]
    BY <1>3 DEF Spent
  <2> QED BY <1>1, <1>2, <2>1, SumPop
<1> QED BY <1>1, <1>2, <1>4 DEF m, h, w

LEMMA LeftTyped ==
    ASSUME NEW e \in Files, NEW av \in Seq(Token), NEW ar \in 1 .. Len(av) + 1,
           NEW st \in Seq(Frame), Len(st) <= ArgsMaxDepth + 1, NEW k \in 1 .. Len(st) + 1
    PROVE  LeftOf(e, av, ar, st)[k] \in Seq(Out)
<1>1. ArgsMaxDepth \in Nat /\ Deepest = ArgsMaxDepth + 2 /\ Len(st) \in Nat /\ Cwd \in Dir
  BY ArgsAssumption DEF Deepest
<1>2. CASE k = 1
  <2>1. SubSeq(av, ar, Len(av)) \in Seq(Token)
    <3>1. CASE ar <= Len(av)
      BY <3>1, Remaining
    <3>2. CASE ~(ar <= Len(av))
      <4>1. SubSeq(av, ar, Len(av)) = <<>>
        BY <3>2
      <4> QED BY <4>1
    <3> QED BY <3>1, <3>2
  <2>2. <<SubSeq(av, ar, Len(av)), Cwd, TRUE>> \in Listing /\ Deepest \in 0 .. Deepest
    <3>1. TRUE \in BOOLEAN /\ Deepest \in 0 .. Deepest
      BY <1>1
    <3> QED BY <1>1, <2>1, <3>1, Zenon DEF Listing
  <2>3. Flat(e)[Deepest][<<SubSeq(av, ar, Len(av)), Cwd, TRUE>>] \in Seq(Out)
    BY <2>2, FlatTyped
  <2> QED BY <1>2, <2>3 DEF LeftOf
<1>3. CASE k # 1
  <2>1. k - 1 \in 1 .. Len(st) /\ Deepest + 1 - k \in 0 .. Deepest
    BY <1>1, <1>3
  <2>2. st[k - 1] \in Frame
    BY <2>1
  <2>3. <<st[k - 1].rest, st[k - 1].path[1], FALSE>> \in Listing
    BY <2>2 DEF Frame, Listing
  <2>4. Flat(e)[Deepest + 1 - k][<<st[k - 1].rest, st[k - 1].path[1], FALSE>>] \in Seq(Out)
    BY <2>1, <2>3, FlatTyped
  <2> QED BY <1>3, <2>4 DEF LeftOf
<1> QED BY <1>2, <1>3

LEMMA LeftOnly ==
    ASSUME NEW e, NEW av, NEW ar
    PROVE  LeftOf(e, av, ar, <<>>)[1] =
               Flat(e)[Deepest][<<SubSeq(av, ar, Len(av)), Cwd, TRUE>>]
<1>1. 1 \in 1 .. Len(<<>>) + 1
  OBVIOUS
<1> QED BY <1>1 DEF LeftOf

SpliceInv ==
    /\ StackInv
    /\ argv \in Seq(Token \ {OpenQuote}) /\ arg \in 1 .. Len(argv) + 1
    /\ tokens \in Seq([word : Word, dir : Dir \cup {None}]) /\ at \in Nat
    /\ error = None =>
          /\ Spliced(argv, arg, stack, disk, tokens)
          /\ at # 0 => stack = <<>> /\ arg = Len(argv) + 1

LEMMA TokensOut == ASSUME tokens \in Seq([word : Word, dir : Dir \cup {None}]) PROVE tokens \in Seq(Out)
<1>1. [word : Word, dir : Dir \cup {None}] \subseteq Out
  BY DEF Out
<1> DEFINE S == [word : Word, dir : Dir \cup {None}]
<1> HIDE DEF S
<1>2. \A T : S \subseteq T => \A s \in Seq(S) : s \in Seq(T)
  OBVIOUS
<1> QED BY <1>1, <1>2 DEF S

LEMMA NothingSpliced ==
    ASSUME NEW av \in Seq(Token), NEW d PROVE Spliced(av, 1, <<>>, d, <<>>)
<1> SUFFICES ASSUME NEW e \in Files
             PROVE  \E r : /\ Sums(r, LeftOf(e, av, 1, <<>>), 1)
                           /\ Flat(e)[Deepest][<<av, Cwd, TRUE>>] = Cat(<<>>, r[1])
  <2>1. Len(<<>>) + 1 = 1
    OBVIOUS
  <2> QED BY <2>1 DEF Spliced
<1> DEFINE g == LeftOf(e, av, 1, <<>>)
           w == Flat(e)[Deepest][<<av, Cwd, TRUE>>]
           r == [k \in 0 .. 1 |-> IF k = 0 THEN <<>> ELSE w]
<1>1. SubSeq(av, 1, Len(av)) = av
  OBVIOUS
<1>2. g[1] = w
  <2>1. g[1] = Flat(e)[Deepest][<<SubSeq(av, 1, Len(av)), Cwd, TRUE>>]
    BY ONLY LeftOnly
  <2> QED BY <1>1, <2>1
<1>3. w \in Seq(Out)
  <2>1. TRUE \in BOOLEAN /\ Deepest \in 0 .. Deepest /\ Cwd \in Dir
    BY ArgsAssumption DEF Deepest
  <2>2. <<av, Cwd, TRUE>> \in Listing
    BY <2>1, Zenon DEF Listing
  <2> QED BY <2>1, <2>2, FlatTyped
<1> HIDE DEF g, w
<1>4. r \in [0 .. 1 -> Seq(Out)] /\ r[0] = <<>> /\ r[1] = w
  BY <1>3
<1> HIDE DEF r
<1>5. Cat(w, <<>>) = w /\ Cat(<<>>, w) = w
  BY <1>3, CatOut
<1>6. Sums(r, g, 1)
  <2>1. \A k \in 1 .. 1 : k = 1 /\ k - 1 = 0
    OBVIOUS
  <2> QED BY <1>2, <1>4, <1>5, <2>1 DEF Sums
<1>7. w = Cat(<<>>, r[1])
  BY <1>4, <1>5
<1> QED BY <1>6, <1>7 DEF g, w

LEMMA SpliceInit == ASSUME ArgsInit PROVE SpliceInv
<1>1. argv \in Seq(Token \ {OpenQuote})
  BY ArgsAssumption DEF ArgsInit
<1>2. argv \in Seq(Token)
  BY <1>1
<1>3. StackInv
  BY <1>2, ArgsAssumption DEF ArgsInit, StackInv, Distinct
<1>4. arg = 1 /\ stack = <<>> /\ tokens = <<>> /\ at = 0 /\ Len(argv) \in Nat
  BY <1>1 DEF ArgsInit
<1>5. Spliced(argv, 1, <<>>, disk, <<>>)
  BY <1>2, NothingSpliced
<1> QED BY <1>1, <1>3, <1>4, <1>5 DEF SpliceInv

LEMMA LeftSame ==
    ASSUME NEW e, NEW av, NEW ar, NEW st, NEW st2, NEW m \in Nat, Len(st) \in Nat, Len(st2) \in Nat,
           m <= Len(st), m <= Len(st2), \A k \in 1 .. m : st[k] = st2[k]
    PROVE  \A k \in 1 .. m + 1 : LeftOf(e, av, ar, st)[k] = LeftOf(e, av, ar, st2)[k]
<1> SUFFICES ASSUME NEW k \in 1 .. m + 1
             PROVE  LeftOf(e, av, ar, st)[k] = LeftOf(e, av, ar, st2)[k]
  OBVIOUS
<1>1. /\ k \in 1 .. Len(st) + 1 /\ k \in 1 .. Len(st2) + 1
      /\ k # 1 => k - 1 \in 1 .. m
  OBVIOUS
<1>2. CASE k = 1
  BY <1>1, <1>2 DEF LeftOf
<1>3. CASE k # 1
  <2>1. st[k - 1] = st2[k - 1]
    BY <1>1, <1>3
  <2> QED BY <1>1, <1>3, <2>1 DEF LeftOf
<1> QED BY <1>2, <1>3

LEMMA ArgLeft ==
    ASSUME NEW e \in Files, NEW av \in Seq(Token), NEW ar \in 1 .. Len(av)
    PROVE  LeftOf(e, av, ar, <<>>)[1] =
               Cat(StandsFor(av[ar], Cwd, TRUE, e, Flat(e)[Deepest - 1]),
                   LeftOf(e, av, ar + 1, <<>>)[1])
<1> DEFINE s == SubSeq(av, ar, Len(av))
<1>1. /\ s \in Seq(Token) /\ s # <<>> /\ s[1] = av[ar]
      /\ Tail(s) = SubSeq(av, ar + 1, Len(av))
  BY Remaining
<1>2. Deepest \in 1 .. Deepest /\ Cwd \in Dir /\ TRUE \in BOOLEAN
  BY ArgsAssumption DEF Deepest
<1> HIDE DEF s
<1>3. Flat(e)[Deepest][<<s, Cwd, TRUE>>] =
          Cat(StandsFor(s[1], Cwd, TRUE, e, Flat(e)[Deepest - 1]),
              Flat(e)[Deepest][<<Tail(s), Cwd, TRUE>>])
  BY <1>1, <1>2, FlatTail
<1> QED BY <1>1, <1>3, LeftOnly DEF s

LEMMA TokenLeft ==
    ASSUME StackInv, stack # <<>>, Top.rest # <<>>, NEW e \in Files
    PROVE  /\ \A k \in 1 .. Len(stack) :
                 LeftOf(e, argv, arg, Consumed)[k] = LeftOf(e, argv, arg, stack)[k]
           /\ LeftOf(e, argv, arg, stack)[Len(stack) + 1] =
                  Cat(StandsFor(Top.rest[1], TopDir, FALSE, e, Flat(e)[Deepest - 1 - Len(stack)]),
                      LeftOf(e, argv, arg, Consumed)[Len(stack) + 1])
<1> DEFINE n == Len(stack)
           list == Top.rest
           f == Flat(e)
<1>1. /\ n \in Nat \ {0} /\ stack \in Seq(Frame) /\ stack[n] \in Frame
      /\ n <= ArgsMaxDepth + 1 /\ n - 1 \in Nat /\ Top = stack[n]
  BY DEF StackInv, Top
<1>2. list \in Seq(Token) /\ list # <<>> /\ TopDir \in Dir /\ FALSE \in BOOLEAN
  BY <1>1 DEF Frame, Top, TopDir
<1>3. /\ Len(Consumed) = n /\ \A k \in 1 .. n - 1 : Consumed[k] = stack[k]
      /\ Consumed[n].rest = Tail(list) /\ Consumed[n].path = Top.path
  BY <1>1 DEF Consumed, Top, Frame
<1> HIDE DEF n
<1>4. \A k \in 1 .. (n - 1) + 1 :
          LeftOf(e, argv, arg, Consumed)[k] = LeftOf(e, argv, arg, stack)[k]
  <2> DEFINE m == n - 1
  <2>1. /\ m \in Nat /\ Len(Consumed) \in Nat /\ m <= Len(Consumed)
        /\ Len(stack) \in Nat /\ m <= Len(stack) /\ \A k \in 1 .. m : Consumed[k] = stack[k]
    BY <1>1, <1>3 DEF n
  <2> HIDE DEF m
  <2>2. \A k \in 1 .. m + 1 :
            LeftOf(e, argv, arg, Consumed)[k] = LeftOf(e, argv, arg, stack)[k]
    BY ONLY <2>1, LeftSame
  <2> QED BY <2>2 DEF m
<1>5. n + 1 \in 1 .. n + 1 /\ (n + 1) - 1 = n /\ Deepest + 1 - (n + 1) = Deepest - n /\ n + 1 # 1
  BY <1>1, ArgsAssumption DEF Deepest
<1>6. LeftOf(e, argv, arg, stack)[n + 1] = f[Deepest - n][<<list, TopDir, FALSE>>]
  <2>1. n \in Nat \ {0} /\ Len(stack) = n
    BY <1>1 DEF n
  <2>2. LeftOf(e, argv, arg, stack)[n + 1] =
            Flat(e)[Deepest - n][<<stack[n].rest, stack[n].path[1], FALSE>>]
    BY <1>5, <2>1 DEF LeftOf
  <2> QED BY <1>1, <2>2 DEF TopDir
<1>7. LeftOf(e, argv, arg, Consumed)[n + 1] = f[Deepest - n][<<Tail(list), TopDir, FALSE>>]
  <2>1. n \in Nat \ {0} /\ Len(Consumed) = n
    BY <1>1, <1>3
  <2>2. LeftOf(e, argv, arg, Consumed)[n + 1] =
            Flat(e)[Deepest - n][<<Consumed[n].rest, Consumed[n].path[1], FALSE>>]
    BY <1>5, <2>1 DEF LeftOf
  <2> QED BY <1>3, <2>2 DEF TopDir
<1>8. Deepest - n \in 1 .. Deepest /\ (Deepest - n) - 1 = Deepest - 1 - n
  BY <1>1, ArgsAssumption DEF Deepest
<1> HIDE DEF list, f
<1>9. f[Deepest - n][<<list, TopDir, FALSE>>] =
          Cat(StandsFor(list[1], TopDir, FALSE, e, f[(Deepest - n) - 1]),
              f[Deepest - n][<<Tail(list), TopDir, FALSE>>])
  BY <1>2, <1>8, FlatTail DEF f
<1>10. (n - 1) + 1 = n
  BY <1>1
<1> QED BY <1>4, <1>6, <1>7, <1>8, <1>9, <1>10 DEF n, list, f

LEMMA OpenCases ==
    ASSUME StackInv, NEW path \in Dir \X Base, NEW under, NEW to, Open(path, under, to)
    PROVE  \/ error' \in Message /\ tokens' = <<>> /\ stack' = <<>> /\ UNCHANGED <<argv, arg, at>>
           \/ /\ Len(stack) <= ArgsMaxDepth /\ Canon[path] \in Rsp /\ Canon[path] # Missing
              /\ \E held \in Seq(Token) :
                    /\ disk[Canon[path]] # None => held = disk[Canon[path]]
                    /\ disk' = [disk EXCEPT ![Canon[path]] = held]
                    /\ stack' = Append(under, [path |-> path, rest |-> held])
                    /\ arg' = to /\ UNCHANGED <<argv, tokens, error, at>>
<1>1. CASE Reject("too deep") \/ Reject("cannot open") \/ Reject("recursive")
  BY <1>1 DEF Reject, Message
<1>2. CASE ~(Reject("too deep") \/ Reject("cannot open") \/ Reject("recursive"))
  <2>1. ~(Len(stack) > ArgsMaxDepth) /\ Canon[path] # Missing /\ ~Active(path)
    BY <1>2 DEF Open
  <2>2. PICK held \in IF disk[Canon[path]] # None THEN {disk[Canon[path]]}
                      ELSE Contents[Canon[path]] :
           /\ disk' = [disk EXCEPT ![Canon[path]] = held]
           /\ stack' = Append(under, [path |-> path, rest |-> held])
           /\ arg' = to /\ UNCHANGED <<argv, tokens, error, at>>
    BY <2>1 DEF Open
  <2>3. Canon[path] \in Rsp
    BY <2>1, ArgsAssumption
  <2>4. held \in Seq(Token)
    <3>1. disk[Canon[path]] \in Seq(Token) \cup {None}
      BY <2>3 DEF StackInv
    <3>2. Contents[Canon[path]] \in SUBSET Seq(Token)
      BY <2>3, ArgsAssumption
    <3> QED BY <2>2, <3>1, <3>2
  <2>5. Len(stack) <= ArgsMaxDepth
    BY <2>1, ArgsAssumption DEF StackInv
  <2>6. disk[Canon[path]] # None => held = disk[Canon[path]]
    BY <2>2
  <2> QED BY <2>1, <2>2, <2>3, <2>4, <2>5, <2>6
<1> QED BY <1>1, <1>2

(* The token is the next one, and to and under are what is left without it.   *)
Consumes(tok, dir, typed, under, to) ==
    \A e \in Files :
       /\ \A k \in 1 .. Len(stack) :
             LeftOf(e, argv, to, under)[k] = LeftOf(e, argv, arg, stack)[k]
       /\ LeftOf(e, argv, arg, stack)[Len(stack) + 1] =
              Cat(StandsFor(tok, dir, typed, e, Flat(e)[Deepest - 1 - Len(stack)]),
                  LeftOf(e, argv, to, under)[Len(stack) + 1])

LEMMA OpenSpliced ==
    ASSUME SpliceInv, error = None,
           NEW tok, NEW dir, NEW typed, NEW path \in Dir \X Base, tok.kind = "@", path = Named(dir, tok),
           NEW under \in Seq(Frame), Len(under) = Len(stack),
           NEW to \in 1 .. Len(argv) + 1, Open(path, under, to),
           Consumes(tok, dir, typed, under, to), error' = None
    PROVE  Spliced(argv', arg', stack', disk', tokens')
<1> DEFINE n == Len(stack)
           c == Canon[path]
<1>0. n \in Nat /\ stack \in Seq(Frame) /\ argv \in Seq(Token) /\ disk \in [Rsp -> Seq(Token) \cup {None}]
  BY DEF SpliceInv, StackInv
<1>a. /\ n <= ArgsMaxDepth /\ c \in Rsp /\ c # Missing
      /\ \E held \in Seq(Token) :
            /\ disk[c] # None => held = disk[c]
            /\ disk' = [disk EXCEPT ![c] = held]
            /\ stack' = Append(under, [path |-> path, rest |-> held])
            /\ arg' = to /\ UNCHANGED <<argv, tokens, error, at>>
  <2>1. StackInv /\ error' \notin Message
    BY ArgsAssumption DEF SpliceInv
  <2> QED BY ONLY path \in Dir \X Base, Open(path, under, to), <2>1, OpenCases
<1>1. n <= ArgsMaxDepth /\ c \in Rsp /\ c # Missing
  BY <1>a
<1>2. PICK held \in Seq(Token) :
         /\ disk[c] # None => held = disk[c]
         /\ disk' = [disk EXCEPT ![c] = held]
         /\ stack' = Append(under, [path |-> path, rest |-> held])
         /\ arg' = to /\ UNCHANGED <<argv, tokens, error, at>>
  BY <1>a
<1> DEFINE frame == [path |-> path, rest |-> held]
<1>3. /\ stack' \in Seq(Frame) /\ Len(stack') = n + 1 /\ stack'[n + 1] = frame
      /\ \A k \in 1 .. n : stack'[k] = under[k]
  <2>1. frame \in Frame
    BY DEF Frame
  <2> HIDE DEF frame
  <2> QED BY <1>2, <2>1, AppendProperties DEF frame
<1>4. frame.path = path /\ frame.rest = held
  OBVIOUS
<1>5. ArgsMaxDepth \in Nat /\ Deepest = ArgsMaxDepth + 2 /\ held # None
  BY ArgsAssumption DEF Deepest
<1>b. ASSUME NEW e \in Files
      PROVE  /\ \A k \in 1 .. n :
                   LeftOf(e, argv, to, under)[k] = LeftOf(e, argv, arg, stack)[k]
             /\ LeftOf(e, argv, arg, stack)[n + 1] =
                    Cat(StandsFor(tok, dir, typed, e, Flat(e)[Deepest - 1 - n]),
                        LeftOf(e, argv, to, under)[n + 1])
  BY DEF Consumes
<1> HIDE DEF frame, n
<1>6. ASSUME NEW e \in Files PROVE \A k \in 1 .. n + 1 :
          LeftOf(e, argv, to, under)[k] = LeftOf(e, argv, to, stack')[k]
  <2>1. /\ Len(under) \in Nat /\ Len(stack') \in Nat /\ n \in Nat /\ n <= Len(under) /\ n <= Len(stack')
        /\ \A k \in 1 .. n : under[k] = stack'[k]
    BY <1>0, <1>3 DEF n
  <2> QED BY ONLY <2>1, LeftSame
<1>7. ASSUME NEW e \in Files
      PROVE  LeftOf(e, argv, to, stack')[n + 2] = Flat(e)[Deepest - 1 - n][<<held, path[1], FALSE>>]
  <2>0. n \in Nat /\ Len(stack') = n + 1 /\ Deepest \in Nat
    BY <1>0, <1>3, <1>5
  <2>1. n + 2 \in 1 .. Len(stack') + 1 /\ (n + 2) - 1 = n + 1 /\ n + 2 # 1
        /\ Deepest + 1 - (n + 2) = Deepest - 1 - n
    BY ONLY <2>0
  <2>2. stack'[(n + 2) - 1] = frame
    BY <2>1, <1>3
  <2> QED BY <2>1, <2>2, <1>4 DEF LeftOf
<1>8. ASSUME NEW e \in Files, Extends(e, disk')
      PROVE  StandsFor(tok, dir, typed, e, Flat(e)[Deepest - 1 - n]) =
                 Flat(e)[Deepest - 1 - n][<<held, path[1], FALSE>>]
  <2>1. disk'[c] = held
    BY <1>0, <1>1, <1>2
  <2>2. e[c] = held
    BY <1>1, <1>5, <1>8, <2>1 DEF Extends
  <2> QED BY <1>1, <1>5, <2>2 DEF StandsFor
<1>9. \A f \in Rsp : disk[f] # None => disk'[f] = disk[f]
  BY <1>0, <1>1, <1>2
<1>10. ASSUME NEW e \in Files, Extends(e, disk')
       PROVE  /\ \A k \in 1 .. n :
                    LeftOf(e, argv, to, stack')[k] = LeftOf(e, argv, arg, stack)[k]
              /\ LeftOf(e, argv, to, stack')[n + 1] \in Seq(Out)
              /\ LeftOf(e, argv, to, stack')[n + 2] \in Seq(Out)
              /\ LeftOf(e, argv, arg, stack)[n + 1] =
                     Cat(LeftOf(e, argv, to, stack')[n + 2], LeftOf(e, argv, to, stack')[n + 1])
  <2>1. \A k \in 1 .. n + 2 : LeftOf(e, argv, to, stack')[k] \in Seq(Out)
    <3>1. Len(stack') <= ArgsMaxDepth + 1 /\ Len(stack') + 1 = n + 2
      BY <1>0, <1>1, <1>3, <1>5
    <3> QED BY <3>1, <1>0, <1>3, LeftTyped
  <2>2. n + 1 \in 1 .. n + 2 /\ n + 2 \in 1 .. n + 2 /\ n + 1 \in 1 .. n + 1
        /\ \A k \in 1 .. n : k \in 1 .. n + 1
    BY <1>0
  <2>3. \A k \in 1 .. n : LeftOf(e, argv, to, stack')[k] = LeftOf(e, argv, arg, stack)[k]
    BY <2>2, <1>6, <1>b
  <2>4. LeftOf(e, argv, to, stack')[n + 1] = LeftOf(e, argv, to, under)[n + 1]
    BY <2>2, <1>6
  <2>5. StandsFor(tok, dir, typed, e, Flat(e)[Deepest - 1 - n]) = LeftOf(e, argv, to, stack')[n + 2]
    BY <1>7, <1>8, <1>10
  <2>6. LeftOf(e, argv, arg, stack)[n + 1] =
            Cat(LeftOf(e, argv, to, stack')[n + 2], LeftOf(e, argv, to, stack')[n + 1])
    BY <1>b, <2>4, <2>5
  <2> QED BY <2>1, <2>2, <2>3, <2>6
<1>11. Spliced(argv, to, stack', disk', tokens)
  <2>1. tokens \in Seq(Out) /\ Spliced(argv, arg, stack, disk, tokens)
    BY TokensOut DEF SpliceInv
  <2>2. Len(stack) = n /\ Len(stack') = n + 1 /\ n \in Nat
    BY <1>0, <1>3 DEF n
  <2> QED BY ONLY <2>1, <2>2, <1>9, <1>10, MentionSpliced DEF n
<1> QED BY <1>2, <1>11

LEMMA NextArgSpliced ==
    ASSUME SpliceInv, NextArg, error' = None
    PROVE  Spliced(argv', arg', stack', disk', tokens')
<1> DEFINE tok == argv[arg]
<1>1. /\ stack = <<>> /\ error = None /\ arg \in 1 .. Len(argv) /\ Len(argv) \in Nat
      /\ argv \in Seq(Token) /\ tokens \in Seq(Out) /\ Spliced(argv, arg, stack, disk, tokens)
  BY TokensOut DEF NextArg, Expanding, SpliceInv, StackInv
<1>2. tok \in Token \ {OpenQuote}
  BY <1>1 DEF SpliceInv
<1>3. arg + 1 \in 1 .. Len(argv) + 1 /\ arg \in 1 .. Len(argv) + 1
  BY <1>1
<1>4. \A e \in Files :
         /\ LeftOf(e, argv, arg, stack)[1] =
                Cat(StandsFor(tok, Cwd, TRUE, e, Flat(e)[Deepest - 1]), LeftOf(e, argv, arg + 1, stack)[1])
         /\ LeftOf(e, argv, arg + 1, stack)[1] \in Seq(Out)
  <2> SUFFICES ASSUME NEW e \in Files
               PROVE  /\ LeftOf(e, argv, arg, <<>>)[1] =
                             Cat(StandsFor(tok, Cwd, TRUE, e, Flat(e)[Deepest - 1]),
                                 LeftOf(e, argv, arg + 1, <<>>)[1])
                      /\ LeftOf(e, argv, arg + 1, <<>>)[1] \in Seq(Out)
    BY <1>1
  <2>1. /\ <<>> \in Seq(Frame) /\ Len(<<>>) <= ArgsMaxDepth + 1
        /\ 1 \in 1 .. Len(<<>>) + 1
    BY ArgsAssumption
  <2> QED BY <1>1, <1>3, <2>1, ArgLeft, LeftTyped
<1>5. Len(stack) = 0 /\ Len(stack) + 1 = 1 /\ 1 .. Len(stack) = {} /\ Deepest - 1 - Len(stack) = Deepest - 1
  BY <1>1, ArgsAssumption DEF Deepest
<1>6. CASE tok.kind = "@"
  <2>1. Open(Named(Cwd, tok), <<>>, arg + 1)
    BY <1>6 DEF NextArg
  <2>2. Named(Cwd, tok) \in Dir \X Base
    BY <1>2, <1>6, NamedTyped, ArgsAssumption
  <2>3. <<>> \in Seq(Frame) /\ Len(<<>>) = Len(stack)
    BY <1>1
  <2> DEFINE path == Named(Cwd, tok)
             under == stack
             typed == TRUE
             to == arg + 1
  <2>4. under \in Seq(Frame) /\ Len(under) = Len(stack) /\ to \in 1 .. Len(argv) + 1
        /\ path \in Dir \X Base /\ path = Named(Cwd, tok) /\ Open(path, under, to)
    BY <1>1, <1>3, <2>1, <2>2, <2>3
  <2>5. Consumes(tok, Cwd, typed, under, to)
    BY <1>4, <1>5 DEF Consumes
  <2> HIDE DEF tok, path, under, typed, to
  <2> QED BY ONLY SpliceInv, <1>1, <1>6, <2>4, <2>5, error' = None, OpenSpliced
<1>7. CASE tok.kind # "@"
  <2>1. tok.kind = "word" /\ tok.word \in Word
    BY <1>2, <1>7 DEF Token, OpenQuote
  <2> DEFINE t == [word |-> tok.word, dir |-> None]
  <2>2. tokens' = Append(tokens, t) /\ arg' = arg + 1 /\ UNCHANGED <<argv, stack, disk>>
    BY <1>7 DEF NextArg, Emit
  <2>3. t \in Out
    BY <2>1 DEF Out
  <2>4. \A e \in Files : StandsFor(tok, Cwd, TRUE, e, Flat(e)[Deepest - 1]) = <<t>>
    BY <2>1 DEF StandsFor
  <2> HIDE DEF t, tok
  <2>5. Len(stack) \in Nat /\ Len(stack) = Len(stack)
    BY <1>5
  <2>6. \A e \in Files :
           /\ \A k \in 1 .. Len(stack) :
                 LeftOf(e, argv, arg + 1, stack)[k] = LeftOf(e, argv, arg, stack)[k]
           /\ LeftOf(e, argv, arg + 1, stack)[Len(stack) + 1] \in Seq(Out)
           /\ LeftOf(e, argv, arg, stack)[Len(stack) + 1] =
                  Cat(<<t>>, LeftOf(e, argv, arg + 1, stack)[Len(stack) + 1])
    BY <1>4, <1>5, <2>4
  <2>7. Spliced(argv, arg + 1, stack, disk, Append(tokens, t))
    BY ONLY <1>1, <2>3, <2>5, <2>6, TokenSpliced
  <2> QED BY <2>2, <2>7
<1> QED BY <1>6, <1>7

LEMMA NextTokenSpliced ==
    ASSUME SpliceInv, NextToken, error' = None
    PROVE  Spliced(argv', arg', stack', disk', tokens')
<1> DEFINE tok == Top.rest[1]
<1>1. /\ stack # <<>> /\ Top.rest # <<>> /\ error = None /\ StackInv /\ arg \in 1 .. Len(argv) + 1
      /\ argv \in Seq(Token) /\ tokens \in Seq(Out) /\ Spliced(argv, arg, stack, disk, tokens)
      /\ Len(stack) \in Nat
  <2>1. stack # <<>> /\ Top.rest # <<>> /\ error = None
    BY DEF NextToken, Expanding
  <2>2. /\ StackInv /\ arg \in 1 .. Len(argv) + 1 /\ tokens \in Seq(Out)
        /\ Spliced(argv, arg, stack, disk, tokens)
    BY <2>1, TokensOut DEF SpliceInv
  <2>3. argv \in Seq(Token) /\ Len(stack) \in Nat
    BY <2>2 DEF StackInv
  <2> QED BY <2>1, <2>2, <2>3
<1>2. /\ Consumed \in Seq(Frame) /\ Len(Consumed) = Len(stack)
      /\ TopDir \in Dir /\ tok \in Token
  BY <1>1, ConsumedTyped
<1>3. \A e \in Files :
         /\ \A k \in 1 .. Len(stack) :
               LeftOf(e, argv, arg, Consumed)[k] = LeftOf(e, argv, arg, stack)[k]
         /\ LeftOf(e, argv, arg, stack)[Len(stack) + 1] =
                Cat(StandsFor(tok, TopDir, FALSE, e, Flat(e)[Deepest - 1 - Len(stack)]),
                    LeftOf(e, argv, arg, Consumed)[Len(stack) + 1])
  BY <1>1, TokenLeft
<1>4. \A e \in Files : LeftOf(e, argv, arg, Consumed)[Len(stack) + 1] \in Seq(Out)
  <2>1. Len(Consumed) <= ArgsMaxDepth + 1 /\ Len(stack) + 1 \in 1 .. Len(Consumed) + 1
    BY <1>1, <1>2 DEF StackInv
  <2> QED BY <1>1, <1>2, <2>1, LeftTyped
<1>5. CASE tok.kind = "quote"
  <2>1. error' = "unterminated quote"
    BY <1>5 DEF NextToken, Reject
  <2> QED BY <2>1, ArgsAssumption DEF Message
<1>6. CASE tok.kind = "@"
  <2>1. Open(Named(TopDir, tok), Consumed, arg) /\ Named(TopDir, tok) \in Dir \X Base
    BY <1>2, <1>6, NamedTyped DEF NextToken
  <2> DEFINE path == Named(TopDir, tok)
             typed == FALSE
  <2>2. path \in Dir \X Base /\ path = Named(TopDir, tok) /\ Open(path, Consumed, arg)
    BY <2>1
  <2>3. Consumes(tok, TopDir, typed, Consumed, arg)
    BY <1>3 DEF Consumes
  <2> HIDE DEF tok, path, typed
  <2> QED BY ONLY SpliceInv, <1>1, <1>2, <1>6, <2>2, <2>3, error' = None, OpenSpliced
<1>7. CASE tok.kind # "quote" /\ tok.kind # "@"
  <2>1. tok.kind = "word" /\ tok.word \in Word
    BY <1>2, <1>7 DEF Token, OpenQuote
  <2> DEFINE t == [word |-> tok.word, dir |-> TopDir]
  <2>2. tokens' = Append(tokens, t) /\ stack' = Consumed /\ UNCHANGED <<argv, arg, disk>>
    BY <1>7 DEF NextToken, Emit
  <2>3. t \in Out
    BY <1>2, <2>1 DEF Out
  <2>4. \A e \in Files : StandsFor(tok, TopDir, FALSE, e, Flat(e)[Deepest - 1 - Len(stack)]) = <<t>>
    BY <2>1 DEF StandsFor
  <2> HIDE DEF t, tok
  <2>5. \A e \in Files :
           /\ \A k \in 1 .. Len(stack) :
                 LeftOf(e, argv, arg, Consumed)[k] = LeftOf(e, argv, arg, stack)[k]
           /\ LeftOf(e, argv, arg, Consumed)[Len(stack) + 1] \in Seq(Out)
           /\ LeftOf(e, argv, arg, stack)[Len(stack) + 1] =
                  Cat(<<t>>, LeftOf(e, argv, arg, Consumed)[Len(stack) + 1])
    BY <1>3, <1>4, <2>4
  <2>6. Spliced(argv, arg, Consumed, disk, Append(tokens, t))
    BY ONLY <1>1, <1>2, <2>3, <2>5, TokenSpliced
  <2> QED BY <2>2, <2>6
<1> QED BY <1>5, <1>6, <1>7

LEMMA EndOfFileSpliced ==
    ASSUME SpliceInv, EndOfFile
    PROVE  Spliced(argv', arg', stack', disk', tokens')
<1> DEFINE n == Len(stack)
<1>1. /\ stack # <<>> /\ Top.rest = <<>> /\ error = None /\ stack \in Seq(Frame)
      /\ n <= ArgsMaxDepth + 1 /\ tokens \in Seq(Out) /\ Spliced(argv, arg, stack, disk, tokens)
      /\ n \in Nat \ {0} /\ stack[n] \in Frame /\ n - 1 \in Nat
  BY TokensOut DEF EndOfFile, Expanding, SpliceInv, StackInv
<1>2. stack' = SubSeq(stack, 1, n - 1) /\ UNCHANGED <<argv, arg, disk, tokens>>
  BY DEF EndOfFile
<1>3. Len(stack') = n - 1 /\ \A k \in 1 .. n - 1 : stack'[k] = stack[k]
  BY <1>1, <1>2, AllButLastKeeps DEF AllButLast
<1> HIDE DEF n
<1>4. ASSUME NEW e \in Files
      PROVE  \A k \in 1 .. (n - 1) + 1 : LeftOf(e, argv, arg, stack')[k] = LeftOf(e, argv, arg, stack)[k]
  <2> DEFINE m == n - 1
  <2>1. /\ m \in Nat /\ Len(stack') \in Nat /\ m <= Len(stack')
        /\ Len(stack) \in Nat /\ m <= Len(stack) /\ \A k \in 1 .. m : stack'[k] = stack[k]
    BY <1>1, <1>3 DEF n
  <2> HIDE DEF m
  <2>2. \A k \in 1 .. m + 1 : LeftOf(e, argv, arg, stack')[k] = LeftOf(e, argv, arg, stack)[k]
    BY ONLY <2>1, LeftSame
  <2> QED BY <2>2 DEF m
<1>5. ASSUME NEW e \in Files PROVE LeftOf(e, argv, arg, stack)[n + 1] = <<>>
  <2>1. n + 1 \in 1 .. n + 1 /\ (n + 1) - 1 = n /\ Deepest + 1 - (n + 1) = Deepest - n /\ n + 1 # 1
        /\ Deepest - n \in 1 .. Deepest /\ Len(stack) = n
    BY <1>1, ArgsAssumption DEF Deepest, n
  <2>2. LeftOf(e, argv, arg, stack)[n + 1] =
            Flat(e)[Deepest - n][<<stack[n].rest, stack[n].path[1], FALSE>>]
    BY <2>1 DEF LeftOf
  <2>3. stack[n].rest = <<>> /\ stack[n].path[1] \in Dir /\ FALSE \in BOOLEAN
    BY <1>1, <2>1 DEF Top, Frame
  <2>4. Flat(e)[Deepest - n][<<<<>>, stack[n].path[1], FALSE>>] = <<>>
    BY <2>1, <2>3, FlatEmpty
  <2> QED BY <2>2, <2>3, <2>4
<1>6. Len(stack') \in Nat /\ Len(stack) = Len(stack') + 1 /\ (n - 1) + 1 = n /\ Len(stack) = n
  BY <1>1, <1>3 DEF n
<1>7. Spliced(argv, arg, stack', disk, tokens)
  BY ONLY <1>1, <1>4, <1>5, <1>6, EndSpliced
<1> QED BY <1>2, <1>7

LEMMA SpliceStep == ASSUME SpliceInv, ArgsStep PROVE SpliceInv'
<1> DEFINE Written == [word : Word, dir : Dir \cup {None}]
<1>1. StackInv'
  BY ArgsStepInv DEF SpliceInv
<1>2. /\ argv \in Seq(Token \ {OpenQuote}) /\ arg \in 1 .. Len(argv) + 1
      /\ tokens \in Seq(Written) /\ at \in Nat /\ StackInv
      /\ error = None => Spliced(argv, arg, stack, disk, tokens)
      /\ error = None /\ at # 0 => stack = <<>> /\ arg = Len(argv) + 1
  BY DEF SpliceInv
<1>3. <<>> \in Seq(Written)
  OBVIOUS
<1>4. None \notin Message
  BY ArgsAssumption
<1>5. CASE NextArg \/ NextToken \/ EndOfFile
  <2>1. argv' = argv /\ at' = at /\ error = None /\ at = 0
    BY <1>5 DEF NextArg, NextToken, EndOfFile, Expanding, Open, Reject
  <2>2. arg' \in 1 .. Len(argv') + 1
    <3>1. arg' = arg \/ (NextArg /\ arg' = arg + 1)
      BY <1>5 DEF NextArg, NextToken, EndOfFile, Open, Reject
    <3>2. NextArg => arg <= Len(argv)
      BY DEF NextArg, Expanding
    <3>3. Len(argv) \in Nat
      BY <1>2
    <3> QED BY <1>2, <2>1, <3>1, <3>2, <3>3
  <2>3. tokens' \in Seq(Written)
    <3>1. CASE NextArg
      <4>1. argv[arg] \in Token \ {OpenQuote}
        BY <1>2, <3>1 DEF NextArg, Expanding
      <4>2. CASE argv[arg].kind = "@"
        <5>1. tokens' = tokens \/ tokens' = <<>>
          BY <3>1, <4>2 DEF NextArg, Open, Reject
        <5> QED BY <1>2, <1>3, <5>1
      <4>3. CASE argv[arg].kind # "@"
        <5>1. argv[arg].word \in Word
          BY <4>1, <4>3 DEF Token, OpenQuote
        <5>2. [word |-> argv[arg].word, dir |-> None] \in Written
          BY <5>1
        <5>3. tokens' = Append(tokens, [word |-> argv[arg].word, dir |-> None])
          BY <3>1, <4>3 DEF NextArg, Emit
        <5> HIDE DEF Written
        <5> QED BY <1>2, <5>2, <5>3, AppendProperties
      <4> QED BY <4>2, <4>3
    <3>2. CASE NextToken
      <4> DEFINE tok == Top.rest[1]
      <4>0. stack # <<>> /\ Top.rest # <<>>
        BY <3>2 DEF NextToken
      <4>1. tok \in Token /\ TopDir \in Dir
        BY <1>2, <4>0, ConsumedTyped
      <4>2. CASE tok.kind = "@" \/ tok.kind = "quote"
        <5>1. tokens' = tokens \/ tokens' = <<>>
          BY <3>2, <4>2 DEF NextToken, Open, Reject
        <5> QED BY <1>2, <1>3, <5>1
      <4>3. CASE tok.kind # "@" /\ tok.kind # "quote"
        <5>1. tok.word \in Word
          BY <4>1, <4>3 DEF Token, OpenQuote
        <5>2. [word |-> tok.word, dir |-> TopDir] \in Written
          BY <4>1, <5>1
        <5>3. tokens' = Append(tokens, [word |-> tok.word, dir |-> TopDir])
          BY <3>2, <4>3 DEF NextToken, Emit
        <5> HIDE DEF Written, tok
        <5> QED BY <1>2, <5>2, <5>3, AppendProperties
      <4> QED BY <4>2, <4>3
    <3>3. CASE EndOfFile
      BY <1>2, <3>3 DEF EndOfFile
    <3> QED BY <1>5, <3>1, <3>2, <3>3
  <2>4. error' = None => Spliced(argv', arg', stack', disk', tokens')
    BY <1>5, NextArgSpliced, NextTokenSpliced, EndOfFileSpliced
  <2>5. argv' \in Seq(Token \ {OpenQuote}) /\ at' = 0 /\ at' \in Nat
    BY <1>2, <2>1
  <2> HIDE DEF Written
  <2> QED BY <1>1, <2>2, <2>3, <2>4, <2>5 DEF SpliceInv, Written
<1>6. CASE ~(NextArg \/ NextToken \/ EndOfFile)
  <2>1. /\ UNCHANGED <<argv, arg, stack, disk, tokens>> /\ error = None
        /\ at' \in {1, at, at + 1, at + 2}
        /\ (at # 0 \/ (stack = <<>> /\ arg > Len(argv)))
    <3>1. CASE args_parse
      BY <3>1 DEF args_parse
    <3>2. CASE NoInput
      <4>1. Len(tokens) \in Nat /\ at \in Nat
        BY <1>2
      <4>2. at > Len(tokens) /\ error = None /\ UNCHANGED <<argv, arg, stack, disk, tokens, at>>
        BY <3>2 DEF NoInput, Fail
      <4>3. at # 0
        BY ONLY <4>1, <4>2
      <4> QED BY <4>2, <4>3
    <3>3. CASE Parsing
      <4>1. at # 0
        BY <1>2, <3>3 DEF Parsing
      <4>2. UNCHANGED <<argv, arg, stack, disk, tokens>> /\ at' \in {at, at + 1, at + 2}
        <5>1. CASE MissingValue \/ UnknownOption
          BY <5>1 DEF MissingValue, UnknownOption, Fail
        <5>2. CASE OutputOption
          BY <5>2 DEF OutputOption, Accept
        <5>3. CASE LenRepr
          BY <5>3 DEF LenRepr, Accept, Fail
        <5>4. CASE FlagOption
          BY <5>4 DEF FlagOption, Accept, Fail
        <5>5. CASE NoAutoDetect \/ Backtraces
          BY <5>5 DEF NoAutoDetect, Backtraces, Accept
        <5>6. CASE Positional
          BY <5>6 DEF Positional, Accept, Fail
        <5>7. CASE args_parse \/ NoInput
          BY <5>7, <3>1, <4>1 DEF args_parse, NoInput, Fail
        <5> QED BY <1>6, <5>1, <5>2, <5>3, <5>4, <5>5, <5>6, <5>7 DEF ArgsStep
      <4> QED BY <3>3, <4>1, <4>2 DEF Parsing
    <3> QED
      BY <1>6, <3>1, <3>2, <3>3
         DEF ArgsStep, MissingValue, OutputOption, LenRepr, FlagOption, NoAutoDetect,
             Backtraces, Positional, UnknownOption, HasValue
  <2>2. at' \in Nat
    BY <1>2, <2>1
  <2>3. stack = <<>> /\ arg = Len(argv) + 1
    <3>1. CASE at # 0
      BY <1>2, <2>1, <3>1
    <3>2. CASE at = 0
      <4>1. Len(argv) \in Nat
        BY <1>2
      <4> QED BY <1>2, <2>1, <3>2, <4>1
    <3> QED BY <3>1, <3>2
  <2> HIDE DEF Written
  <2> QED BY <1>1, <1>2, <2>1, <2>2, <2>3 DEF SpliceInv, Written
<1> QED BY <1>5, <1>6

(* When all arguments are spliced, the tokens are what they stand for.        *)
LEMMA SplicedAll == ASSUME SpliceInv PROVE SplicedInPlace
<1> SUFFICES ASSUME error = None, at = 1
             PROVE  tokens = Flat(disk)[Deepest][<<argv, Cwd, TRUE>>]
  BY DEF SplicedInPlace, Deepest
<1>1. /\ stack = <<>> /\ arg = Len(argv) + 1 /\ Spliced(argv, arg, stack, disk, tokens)
      /\ argv \in Seq(Token) /\ disk \in Files /\ tokens \in Seq(Out)
  BY TokensOut DEF SpliceInv, StackInv, Files
<1> DEFINE g == LeftOf(disk, argv, arg, stack)
<1>2. PICK r : Sums(r, g, Len(stack) + 1)
               /\ Flat(disk)[Deepest][<<argv, Cwd, TRUE>>] = Cat(tokens, r[Len(stack) + 1])
  BY <1>1 DEF Spliced, Extends
<1>3. g[1] = <<>>
  <2>1. SubSeq(argv, arg, Len(argv)) = <<>>
    BY <1>1
  <2>2. Deepest \in 1 .. Deepest /\ Cwd \in Dir /\ TRUE \in BOOLEAN
    BY ArgsAssumption DEF Deepest
  <2>3. Flat(disk)[Deepest][<<<<>>, Cwd, TRUE>>] = <<>>
    BY <1>1, <2>2, FlatEmpty
  <2> QED BY <1>1, <2>1, <2>3, LeftOnly
<1> HIDE DEF g
<1>4. Sums(r, g, 1) /\ Len(stack) + 1 = 1
  BY <1>1, <1>2
<1>5. r[1] = Cat(<<>>, <<>>)
  BY <1>3, <1>4 DEF Sums
<1>6. <<>> \in Seq(Out)
  OBVIOUS
<1>7. r[1] = <<>>
  BY <1>5, <1>6, CatOut
<1> QED BY <1>1, <1>2, <1>4, <1>7, CatOut

LEMMA SpliceNext == ASSUME SpliceInv, [Next]_vars PROVE SpliceInv'
<1>1. CASE ReadArgs
  BY <1>1, SpliceStep DEF ReadArgs
<1>2. CASE Lex
  <2>1. /\ argv' = <<>> /\ arg' = 1 /\ tokens' = <<>> /\ at' = 0 /\ error = None /\ at # 0
        /\ disk' = [f \in Rsp |-> None] /\ UNCHANGED <<stack, error>>
    BY <1>2 DEF Lex, Parsed, SpliceInv
  <2>2. stack = <<>> /\ StackInv
    BY <2>1 DEF SpliceInv
  <2>3. Spliced(<<>>, 1, <<>>, disk', <<>>)
    <3>1. <<>> \in Seq(Token)
      OBVIOUS
    <3> QED BY <3>1, NothingSpliced
  <2>4. StackInv'
    BY <2>1, <2>2 DEF StackInv, Distinct
  <2> QED BY <2>1, <2>2, <2>3, <2>4 DEF SpliceInv
<1>3. CASE UNCHANGED args
  BY <1>3 DEF args, SpliceInv, StackInv, Distinct
<1> QED
  BY <1>1, <1>2, <1>3
     DEF Next, vars, FilterLine, EndFilter, LayLine, EndLayout, Stop, Done

(* Response files are spliced in place, however they nest.                    *)
THEOREM FilesAreSpliced == Spec => []SplicedInPlace
<1>1. Init => SpliceInv
  BY SpliceInit DEF Init
<1>2. SpliceInv /\ [Next]_vars => SpliceInv'
  BY SpliceNext
<1>3. SpliceInv => SplicedInPlace
  BY SplicedAll
<1> QED
  BY <1>1, <1>2, <1>3, PTL DEF Spec

-----------------------------------------------------------------------------
(* The command line: what the options said.                                   *)

OptionsEq(c, m, toks) ==
    c = [i \in 1 .. m |-> i = 1 \/ ~(c[i - 1] /\ toks[i - 1].word \in TakesValue)]

LEMMA OptionsExist == ASSUME NEW toks, NEW N \in Nat PROVE \E c : OptionsEq(c, N, toks)
<1> DEFINE S == {m \in Nat : \E c : OptionsEq(c, m, toks)}
<1>1. 0 \in S
  <2> DEFINE c == [i \in 1 .. 0 |-> TRUE]
  <2>1. c = [i \in 1 .. 0 |-> i = 1 \/ ~(c[i - 1] /\ toks[i - 1].word \in TakesValue)]
    OBVIOUS
  <2>2. OptionsEq(c, 0, toks)
    BY <2>1 DEF OptionsEq
  <2> QED BY <2>2
<1>2. ASSUME NEW m \in Nat, m \in S PROVE m + 1 \in S
  <2>1. PICK c : OptionsEq(c, m, toks)
    BY <1>2
  <2> DEFINE next(f, i) == i = 1 \/ ~(f[i - 1] /\ toks[i - 1].word \in TakesValue)
             d == [i \in 1 .. m + 1 |-> IF i = m + 1 THEN next(c, m + 1) ELSE c[i]]
  <2>0. m + 1 \in 1 .. m + 1 /\ \A i \in 1 .. m : i \in 1 .. m + 1 /\ i # m + 1
    OBVIOUS
  <2>2. (\A i \in 1 .. m : d[i] = c[i]) /\ d[m + 1] = next(c, m + 1)
    BY <2>0, Zenon
  <2>3. d = [i \in 1 .. m + 1 |-> d[i]]
    BY Zenon
  <2>4. \A i \in 1 .. m : c[i] = next(c, i)
    BY <2>1, Zenon DEF OptionsEq
  <2> HIDE DEF d
  <2>5. ASSUME NEW i \in 1 .. m + 1 PROVE next(d, i) = next(c, i)
    <3>1. CASE i = 1
      BY <3>1, Zenon
    <3>2. CASE i # 1
      <4>1. i - 1 \in 1 .. m
        BY <3>2
      <4>2. d[i - 1] = c[i - 1]
        BY <2>2, <4>1
      <4> QED BY <4>2, Zenon
    <3> QED BY <3>1, <3>2
  <2>6. ASSUME NEW i \in 1 .. m + 1 PROVE d[i] = next(d, i)
    <3>1. CASE i = m + 1
      BY <3>1, <2>2, <2>5, Zenon
    <3>2. CASE i # m + 1
      <4>1. i \in 1 .. m
        BY <3>2
      <4> QED BY <4>1, <2>2, <2>4, <2>5, Zenon
    <3> QED BY <3>1, <3>2, Zenon
  <2>7. OptionsEq(d, m + 1, toks)
    BY <2>3, <2>6, Zenon DEF OptionsEq
  <2> QED BY <2>7
<1> HIDE DEF S
<1> QED BY <1>1, <1>2, SetInduction DEF S

LEMMA OptionsDef ==
    ASSUME NEW toks, Len(toks) \in Nat
    PROVE  /\ Options(toks)[1]
           /\ \A i \in 1 .. Len(toks) :
                 Options(toks)[i + 1] <=> ~(Options(toks)[i] /\ toks[i].word \in TakesValue)
<1> DEFINE c == Options(toks)
           m == Len(toks) + 1
<1>0. m \in Nat
  OBVIOUS
<1>1. OptionsEq(c, m, toks)
  <2>1. c = CHOOSE d : OptionsEq(d, m, toks)
    BY DEF Options, OptionsEq
  <2> QED BY <1>0, <2>1, OptionsExist
<1> HIDE DEF c
<1>2. \A i \in 1 .. m : c[i] = (i = 1 \/ ~(c[i - 1] /\ toks[i - 1].word \in TakesValue))
  BY <1>1, Zenon DEF OptionsEq
<1>3. c[1]
  <2>1. 1 \in 1 .. m
    BY <1>0
  <2> QED BY <1>2, <2>1, Zenon
<1>4. ASSUME NEW i \in 1 .. Len(toks)
      PROVE  c[i + 1] <=> ~(c[i] /\ toks[i].word \in TakesValue)
  <2> DEFINE n == i + 1
  <2>1. n \in 1 .. m /\ n # 1 /\ n - 1 = i
    OBVIOUS
  <2> HIDE DEF n
  <2>2. c[n] = (n = 1 \/ ~(c[n - 1] /\ toks[n - 1].word \in TakesValue))
    BY <1>2, <2>1
  <2>3. c[n] = (n = 1 \/ ~(c[i] /\ toks[i].word \in TakesValue))
    BY <2>1, <2>2
  <2>4. c[n] <=> ~(c[i] /\ toks[i].word \in TakesValue)
    BY <2>1, <2>3, Zenon
  <2> QED BY <2>4 DEF n
<1> QED BY <1>3, <1>4 DEF c

(* The option at i is the last before a of those in V.                        *)
LastIn(i, a, V, toks) ==
    /\ i \in V /\ i < a /\ Options(toks)[i]
    /\ \A j \in i + 1 .. a - 1 : ~(Options(toks)[j] /\ j \in V)

LEMMA OneLast ==
    ASSUME NEW toks, NEW V \in SUBSET Nat, NEW a \in Nat, NEW i, NEW k,
           LastIn(i, a, V, toks), LastIn(k, a, V, toks)
    PROVE  i = k
<1>1. i \in Nat /\ k \in Nat /\ i < a /\ k < a
  BY DEF LastIn
<1>2. ~(i < k)
  <2> SUFFICES ASSUME i < k PROVE FALSE
    OBVIOUS
  <2>1. k \in i + 1 .. a - 1
    BY <1>1
  <2> QED BY <2>1 DEF LastIn
<1>3. ~(k < i)
  <2> SUFFICES ASSUME k < i PROVE FALSE
    OBVIOUS
  <2>1. i \in k + 1 .. a - 1
    BY <1>1
  <2> QED BY <2>1 DEF LastIn
<1> QED BY <1>1, <1>2, <1>3

(* What args_parse has gone over is an option with its value, if it has one.  *)
LEMMA Onward ==
    ASSUME NEW toks, Len(toks) \in Nat, NEW a \in 1 .. Len(toks), Options(toks)[a],
           NEW width \in {1, 2}, (width = 2) <=> (toks[a].word \in TakesValue),
           a + width <= Len(toks) + 1
    PROVE  /\ a + width \in 1 .. Len(toks) + 1 /\ Options(toks)[a + width]
           /\ \A V \in SUBSET Nat : \A i :
                 LastIn(i, a + width, V, toks) <=>
                     (i = a /\ a \in V) \/ (LastIn(i, a, V, toks) /\ a \notin V)
<1>1. /\ \A i \in 1 .. Len(toks) :
            Options(toks)[i + 1] <=> ~(Options(toks)[i] /\ toks[i].word \in TakesValue)
  BY OptionsDef
<1>2. a + width \in 1 .. Len(toks) + 1 /\ Len(toks) \in Nat /\ a \in Nat
  OBVIOUS
<1>3. width = 2 => ~Options(toks)[a + 1] /\ a + 1 \in 1 .. Len(toks)
  BY <1>1, <1>2
<1>4. Options(toks)[a + width]
  <2>1. CASE width = 1
    BY <2>1, <1>1
  <2>2. CASE width = 2
    <3>1. Options(toks)[(a + 1) + 1] <=> ~(Options(toks)[a + 1] /\ toks[a + 1].word \in TakesValue)
      BY <2>2, <1>1, <1>3
    <3>2. (a + 1) + 1 = a + width
      BY <2>2
    <3> QED BY <2>2, <1>3, <3>1, <3>2
  <2> QED BY <2>1, <2>2
<1>5. ASSUME NEW V \in SUBSET Nat, NEW i
      PROVE  LastIn(i, a + width, V, toks) <=>
                 (i = a /\ a \in V) \/ (LastIn(i, a, V, toks) /\ a \notin V)
  <2>1. \A j \in a + 1 .. a + width - 1 : ~Options(toks)[j]
    <3>1. \A j \in a + 1 .. a + width - 1 : width = 2 /\ j = a + 1
      BY <1>2
    <3> QED BY <3>1, <1>3
  <2>2. ASSUME LastIn(i, a + width, V, toks)
        PROVE  (i = a /\ a \in V) \/ (LastIn(i, a, V, toks) /\ a \notin V)
    <3>1. /\ i \in V /\ i \in Nat /\ i < a + width /\ Options(toks)[i]
          /\ \A j \in i + 1 .. (a + width) - 1 : ~(Options(toks)[j] /\ j \in V)
      BY <2>2 DEF LastIn
    <3>2. CASE i = a
      BY <3>1, <3>2
    <3>3. CASE i > a
      <4>1. i \in a + 1 .. a + width - 1
        BY <3>1, <3>3, <1>2
      <4> QED BY <4>1, <2>1, <3>1
    <3>4. CASE i < a
      <4>1. a \in i + 1 .. (a + width) - 1
        BY <3>1, <3>4, <1>2
      <4>2. a \notin V
        BY <3>1, <4>1
      <4>3. \A j \in i + 1 .. a - 1 : j \in i + 1 .. (a + width) - 1
        BY <3>1, <1>2
      <4> QED BY <3>1, <3>4, <4>2, <4>3 DEF LastIn
    <3> QED BY <3>1, <3>2, <3>3, <3>4, <1>2
  <2>3. ASSUME i = a, a \in V PROVE LastIn(i, a + width, V, toks)
    BY <2>1, <2>3, <1>2 DEF LastIn
  <2>4. ASSUME LastIn(i, a, V, toks), a \notin V PROVE LastIn(i, a + width, V, toks)
    <3>1. /\ i \in V /\ i \in Nat /\ i < a /\ Options(toks)[i]
          /\ \A j \in i + 1 .. a - 1 : ~(Options(toks)[j] /\ j \in V)
      BY <2>4 DEF LastIn
    <3>2. \A j \in i + 1 .. (a + width) - 1 : j \in i + 1 .. a - 1 \/ j = a \/ j \in a + 1 .. a + width - 1
      BY <3>1, <1>2
    <3>3. i < a + width
      BY <3>1, <1>2
    <3> QED BY <2>1, <2>4, <3>1, <3>2, <3>3 DEF LastIn
  <2> QED BY <2>2, <2>3, <2>4
<1> QED BY <1>2, <1>4, <1>5

FlagSet == {FlagOf(w) : w \in Word} \cup {Host[k] : k \in DOMAIN Host}
NamesDiffer(list) == \A k, l \in 1 .. Len(list) : list[k].name = list[l].name => k = l

LEMMA SetFlagFacts ==
    ASSUME NEW list \in Seq(FlagSet), NamesDiffer(list), NEW f \in FlagSet
    PROVE  /\ SetFlag(list, f) \in Seq(FlagSet) /\ NamesDiffer(SetFlag(list, f))
           /\ \E k \in 1 .. Len(SetFlag(list, f)) : SetFlag(list, f)[k] = f
           /\ \A k \in 1 .. Len(SetFlag(list, f)) :
                 \/ SetFlag(list, f)[k] = f
                 \/ \E l \in 1 .. Len(list) :
                       list[l].name # f.name /\ SetFlag(list, f)[k] = list[l]
           /\ \A l \in 1 .. Len(list) : list[l].name # f.name =>
                 \E k \in 1 .. Len(SetFlag(list, f)) : SetFlag(list, f)[k] = list[l]
<1> DEFINE new == SetFlag(list, f)
           n == Len(list)
<1>0. n \in Nat /\ DOMAIN list = 1 .. n
  OBVIOUS
<1>1. CASE \E k \in 1 .. n : list[k].name = f.name
  <2> DEFINE First(k) == /\ list[k].name = f.name
                         /\ \A l \in 1 .. k - 1 : list[l].name # f.name
             p == CHOOSE k \in DOMAIN list : First(k)
  <2>1. PICK k \in 1 .. n : list[k].name = f.name
    BY <1>1
  <2>2. First(k)
    BY <2>1, <1>0 DEF NamesDiffer
  <2>3. p \in 1 .. n /\ First(p)
    BY <2>2, <1>0
  <2>4. new = [list EXCEPT ![p] = f]
    BY <1>1, <1>0 DEF SetFlag
  <2>5. list[p].name = f.name
    BY <2>3
  <2> HIDE DEF p, First, n
  <2>6. new \in Seq(FlagSet) /\ Len(new) = n /\ new[p] = f
        /\ \A l \in 1 .. n : l # p => new[l] = list[l]
    BY <1>0, <2>3, <2>4 DEF n
  <2>7. \A l \in 1 .. n : l # p => list[l].name # f.name
    BY <2>3, <2>5 DEF NamesDiffer, n
  <2> HIDE DEF new
  <2>8. NamesDiffer(new)
    BY <2>5, <2>6, <2>7 DEF NamesDiffer, n
  <2> QED BY <2>3, <2>5, <2>6, <2>7, <2>8 DEF new, n
<1>2. CASE ~\E k \in 1 .. n : list[k].name = f.name
  <2>1. new = Append(list, f)
    BY <1>2, <1>0 DEF SetFlag
  <2> HIDE DEF new
  <2>2. new \in Seq(FlagSet) /\ Len(new) = n + 1 /\ new[n + 1] = f
        /\ \A l \in 1 .. n : new[l] = list[l]
    BY <2>1, AppendProperties
  <2> HIDE DEF n
  <2>3. \A k \in 1 .. n + 1 : k \in 1 .. n \/ k = n + 1
    BY <1>0
  <2>4. n + 1 \in 1 .. n + 1 /\ \A k \in 1 .. n : k \in 1 .. n + 1
    BY <1>0
  <2>5. NamesDiffer(new)
    BY <1>2, <2>2, <2>3 DEF NamesDiffer, n
  <2> QED BY <1>2, <2>2, <2>3, <2>4, <2>5 DEF new, n
<1> QED BY <1>1, <1>2

(* What the tokens before a say.                                              *)
Naming(toks, name) ==
    {i \in DOMAIN toks : toks[i].word = "--flag" /\ FlagOf(toks[i + 1].word).name = name}
Outputs(toks) == {i \in DOMAIN toks : toks[i].word = "-o"}
DetectedIn(toks) ==
    IF \E i \in DOMAIN toks : toks[i].word = "--no-auto-detect" THEN {} ELSE {Host[k] : k \in DOMAIN Host}

FlagsSaid(toks, a, list) ==
    /\ list \in Seq(FlagSet) /\ NamesDiffer(list)
    /\ \A name, i : LastIn(i, a, Naming(toks, name), toks) =>
          \E k \in 1 .. Len(list) : list[k] = FlagOf(toks[i + 1].word)
    /\ \A k \in 1 .. Len(list) :
          \/ list[k] \in DetectedIn(toks)
          \/ \E i : /\ LastIn(i, a, Naming(toks, list[k].name), toks)
                    /\ list[k] = FlagOf(toks[i + 1].word)
    /\ \A h \in DetectedIn(toks) :
          \/ \E i : LastIn(i, a, Naming(toks, h.name), toks)
          \/ \E k \in 1 .. Len(list) : list[k] = h

OutputSaid(toks, a, output) ==
    \/ output = None /\ \A i : ~LastIn(i, a, Outputs(toks), toks)
    \/ \E i : LastIn(i, a, Outputs(toks), toks) /\ output = toks[i + 1]

TokenSet == [word : Word, dir : Dir \cup {None}]

LEMMA SaidIndexes ==
    ASSUME NEW toks \in Seq(TokenSet), NEW name
    PROVE  Naming(toks, name) \in SUBSET Nat /\ Outputs(toks) \in SUBSET Nat
BY DEF Naming, Outputs

(* Over a token that is not --flag nothing changes but a.                     *)
LEMMA SameFlags ==
    ASSUME NEW toks \in Seq(TokenSet), NEW a \in 1 .. Len(toks), Options(toks)[a],
           NEW width \in {1, 2}, (width = 2) <=> (toks[a].word \in TakesValue),
           a + width <= Len(toks) + 1, toks[a].word # "--flag",
           NEW list, FlagsSaid(toks, a, list)
    PROVE  FlagsSaid(toks, a + width, list)
<1>1. Len(toks) \in Nat /\ \A name : a \notin Naming(toks, name)
  BY DEF Naming
<1>2. ASSUME NEW name
      PROVE  \A i : LastIn(i, a + width, Naming(toks, name), toks) <=>
                        LastIn(i, a, Naming(toks, name), toks)
  <2> DEFINE V == Naming(toks, name)
  <2>1. V \in SUBSET Nat /\ a \notin V
    BY <1>1, SaidIndexes
  <2> HIDE DEF V
  <2>2. \A i : LastIn(i, a + width, V, toks) <=> LastIn(i, a, V, toks)
    BY <1>1, <2>1, Onward
  <2> QED BY <2>2 DEF V
<1> QED BY <1>2 DEF FlagsSaid

LEMMA SameOutput ==
    ASSUME NEW toks \in Seq(TokenSet), NEW a \in 1 .. Len(toks), Options(toks)[a],
           NEW width \in {1, 2}, (width = 2) <=> (toks[a].word \in TakesValue),
           a + width <= Len(toks) + 1, toks[a].word # "-o",
           NEW output, OutputSaid(toks, a, output)
    PROVE  OutputSaid(toks, a + width, output)
<1>1. Len(toks) \in Nat /\ a \notin Outputs(toks)
  BY DEF Outputs
<1>2. \A i : LastIn(i, a + width, Outputs(toks), toks) <=> LastIn(i, a, Outputs(toks), toks)
  BY <1>1, SaidIndexes, Onward
<1> QED BY <1>2 DEF OutputSaid

LEMMA NewOutput ==
    ASSUME NEW toks \in Seq(TokenSet), NEW a \in 1 .. Len(toks), Options(toks)[a],
           a + 2 <= Len(toks) + 1, toks[a].word = "-o"
    PROVE  OutputSaid(toks, a + 2, toks[a + 1])
<1>1. Len(toks) \in Nat /\ a \in Outputs(toks) /\ toks[a].word \in TakesValue
  BY DEF Outputs, TakesValue
<1>2. LastIn(a, a + 2, Outputs(toks), toks)
  BY <1>1, SaidIndexes, Onward
<1> QED BY <1>2 DEF OutputSaid

LEMMA NewFlag ==
    ASSUME NEW toks \in Seq(TokenSet), NEW a \in 1 .. Len(toks), Options(toks)[a],
           a + 2 <= Len(toks) + 1, toks[a].word = "--flag",
           NEW list, FlagsSaid(toks, a, list)
    PROVE  FlagsSaid(toks, a + 2, SetFlag(list, FlagOf(toks[a + 1].word)))
<1> DEFINE f == FlagOf(toks[a + 1].word)
           new == SetFlag(list, f)
<1>1. Len(toks) \in Nat /\ toks[a].word \in TakesValue /\ \A name : a \in Naming(toks, name) <=> name = f.name
  BY DEF Naming, TakesValue
<1>2. ASSUME NEW name
      PROVE  \A i : LastIn(i, a + 2, Naming(toks, name), toks) <=>
                        \/ i = a /\ name = f.name
                        \/ LastIn(i, a, Naming(toks, name), toks) /\ name # f.name
  <2> DEFINE V == Naming(toks, name)
  <2>1. V \in SUBSET Nat /\ (a \in V <=> name = f.name)
    BY <1>1, SaidIndexes
  <2> HIDE DEF V, f
  <2>2. \A i : LastIn(i, a + 2, V, toks) <=> (i = a /\ a \in V) \/ (LastIn(i, a, V, toks) /\ a \notin V)
    BY <1>1, <2>1, Onward
  <2> QED BY <2>1, <2>2 DEF V
<1>3. f \in FlagSet
  <2>1. toks[a + 1] \in TokenSet
    BY <1>1
  <2>2. toks[a + 1].word \in Word
    BY <2>1 DEF TokenSet
  <2> QED BY <2>2 DEF FlagSet
<1> HIDE DEF f
<1>4. /\ list \in Seq(FlagSet) /\ NamesDiffer(list)
      /\ \A name, i : LastIn(i, a, Naming(toks, name), toks) =>
            \E k \in 1 .. Len(list) : list[k] = FlagOf(toks[i + 1].word)
      /\ \A k \in 1 .. Len(list) :
            \/ list[k] \in DetectedIn(toks)
            \/ \E i : /\ LastIn(i, a, Naming(toks, list[k].name), toks)
                      /\ list[k] = FlagOf(toks[i + 1].word)
      /\ \A h \in DetectedIn(toks) :
            \/ \E i : LastIn(i, a, Naming(toks, h.name), toks)
            \/ \E k \in 1 .. Len(list) : list[k] = h
  BY DEF FlagsSaid
<1>5. /\ new \in Seq(FlagSet) /\ NamesDiffer(new)
      /\ \E k \in 1 .. Len(new) : new[k] = f
      /\ \A k \in 1 .. Len(new) :
            new[k] = f \/ \E l \in 1 .. Len(list) : list[l].name # f.name /\ new[k] = list[l]
      /\ \A l \in 1 .. Len(list) : list[l].name # f.name => \E k \in 1 .. Len(new) : new[k] = list[l]
  BY <1>3, <1>4, SetFlagFacts
<1> HIDE DEF new
<1>6. \A name, i : LastIn(i, a, Naming(toks, name), toks) => FlagOf(toks[i + 1].word).name = name
  BY DEF LastIn, Naming
<1>7. ASSUME NEW name, NEW i, LastIn(i, a + 2, Naming(toks, name), toks)
      PROVE  \E k \in 1 .. Len(new) : new[k] = FlagOf(toks[i + 1].word)
  <2>1. CASE i = a /\ name = f.name
    BY <2>1, <1>5 DEF f
  <2>2. CASE LastIn(i, a, Naming(toks, name), toks) /\ name # f.name
    <3>1. PICK l \in 1 .. Len(list) : list[l] = FlagOf(toks[i + 1].word)
      BY <2>2, <1>4
    <3>2. list[l].name # f.name
      BY <2>2, <3>1, <1>6
    <3> QED BY <3>1, <3>2, <1>5
  <2> QED BY <1>2, <1>7, <2>1, <2>2
<1>8. ASSUME NEW k \in 1 .. Len(new)
      PROVE  \/ new[k] \in DetectedIn(toks)
             \/ \E i : /\ LastIn(i, a + 2, Naming(toks, new[k].name), toks)
                       /\ new[k] = FlagOf(toks[i + 1].word)
  <2>1. CASE new[k] = f
    <3>1. LastIn(a, a + 2, Naming(toks, new[k].name), toks)
      BY <2>1, <1>2
    <3> QED BY <2>1, <3>1 DEF f
  <2>2. CASE new[k] # f
    <3>1. PICK l \in 1 .. Len(list) : list[l].name # f.name /\ new[k] = list[l]
      BY <2>2, <1>5
    <3> QED BY <3>1, <1>2, <1>4
  <2> QED BY <2>1, <2>2
<1>9. ASSUME NEW h \in DetectedIn(toks)
      PROVE  \/ \E i : LastIn(i, a + 2, Naming(toks, h.name), toks)
             \/ \E k \in 1 .. Len(new) : new[k] = h
  <2>1. CASE h.name = f.name
    BY <2>1, <1>2
  <2>2. CASE h.name # f.name
    <3>1. CASE \E i : LastIn(i, a, Naming(toks, h.name), toks)
      BY <2>2, <3>1, <1>2
    <3>2. CASE \E k \in 1 .. Len(list) : list[k] = h
      <4>1. PICK l \in 1 .. Len(list) : list[l] = h
        BY <3>2
      <4>2. list[l].name # f.name
        BY <2>2, <4>1
      <4> QED BY <1>5, <4>1, <4>2
    <3> QED BY <1>4, <1>9, <3>1, <3>2
  <2> QED BY <2>1, <2>2
<1> QED BY <1>5, <1>7, <1>8, <1>9 DEF FlagsSaid, new, f

CaShape == DOMAIN ca = {"flags", "output", "inputs", "len_repr", "backtraces"}

ParseInv ==
    /\ SpliceInv /\ CaShape
    /\ error = None /\ at # 0 =>
          /\ at \in 1 .. Len(tokens) + 1 /\ Options(tokens)[at]
          /\ FlagsSaid(tokens, at, ca.flags)
          /\ OutputSaid(tokens, at, ca.output)

(* Before the first token, the host's flags.                                  *)
LEMMA NothingSaid ==
    ASSUME NEW toks \in Seq(TokenSet), NEW list,
           list = IF \E i \in DOMAIN toks : toks[i].word = "--no-auto-detect" THEN <<>> ELSE Host
    PROVE  FlagsSaid(toks, 1, list) /\ OutputSaid(toks, 1, None)
<1>1. \A name, i : ~LastIn(i, 1, Naming(toks, name), toks) /\ ~LastIn(i, 1, Outputs(toks), toks)
  <2>1. \A i \in DOMAIN toks : i \in Nat /\ ~(i < 1)
    OBVIOUS
  <2> QED BY <2>1 DEF LastIn, Naming, Outputs
<1>2. CASE \E i \in DOMAIN toks : toks[i].word = "--no-auto-detect"
  <2>1. list = <<>> /\ DetectedIn(toks) = {}
    BY <1>2 DEF DetectedIn
  <2>2. <<>> \in Seq(FlagSet) /\ Len(<<>>) = 0 /\ 1 .. 0 = {}
    OBVIOUS
  <2> QED BY <1>1, <2>1, <2>2 DEF FlagsSaid, OutputSaid, NamesDiffer
<1>3. CASE ~\E i \in DOMAIN toks : toks[i].word = "--no-auto-detect"
  <2> DEFINE S == {Host[k] : k \in DOMAIN Host}
  <2>1. list = Host /\ DetectedIn(toks) = S
    BY <1>3 DEF DetectedIn
  <2>2. Host \in Seq(S) /\ DOMAIN Host = 1 .. Len(Host) /\ S \subseteq FlagSet
        /\ \A k, l \in DOMAIN Host : Host[k].name = Host[l].name => k = l
    BY ArgsAssumption DEF FlagSet
  <2>3. (\A h \in S : \E k \in 1 .. Len(Host) : Host[k] = h) /\ \A k \in 1 .. Len(Host) : Host[k] \in S
    BY <2>2
  <2> HIDE DEF S
  <2>4. Host \in Seq(FlagSet)
    BY <2>2
  <2>5. NamesDiffer(Host)
    BY <2>2 DEF NamesDiffer
  <2> QED BY <1>1, <2>1, <2>3, <2>4, <2>5 DEF FlagsSaid, OutputSaid
<1> QED BY <1>2, <1>3

(* Each option goes on to the next with what was said so far.                 *)
LEMMA ParseOption ==
    ASSUME ParseInv, Parsing,
           MissingValue \/ OutputOption \/ LenRepr \/ FlagOption \/ NoAutoDetect \/ Backtraces
           \/ Positional \/ UnknownOption
    PROVE  /\ CaShape'
           /\ error' = None =>
                 /\ at' \in 1 .. Len(tokens) + 1 /\ Options(tokens)[at']
                 /\ FlagsSaid(tokens, at', ca'.flags)
                 /\ OutputSaid(tokens, at', ca'.output)
<1>1. /\ error = None /\ at \in 1 .. Len(tokens) /\ Len(tokens) \in Nat
      /\ tokens \in Seq(TokenSet) /\ at # 0 /\ CaShape /\ Options(tokens)[at]
      /\ FlagsSaid(tokens, at, ca.flags) /\ OutputSaid(tokens, at, ca.output)
  BY DEF ParseInv, SpliceInv, Parsing, TokenSet
<1>2. None \notin Message
  BY ArgsAssumption
<1>3. tokens[at].word \in Word
  <2>1. tokens[at] \in TokenSet
    BY <1>1
  <2> QED BY <2>1 DEF TokenSet
<1>4. Len(tokens) \in Nat
  BY <1>1
<1>5. ASSUME NEW width \in {1, 2}, (width = 2) <=> (tokens[at].word \in TakesValue),
             at + width <= Len(tokens) + 1
      PROVE  at + width \in 1 .. Len(tokens) + 1 /\ Options(tokens)[at + width]
  BY <1>1, <1>5, Onward
<1>6. ASSUME NEW width \in {1, 2}, (width = 2) <=> (tokens[at].word \in TakesValue),
             at + width <= Len(tokens) + 1, at' = at + width,
             tokens[at].word # "--flag", tokens[at].word # "-o",
             ca'.flags = ca.flags, ca'.output = ca.output
      PROVE  /\ at' \in 1 .. Len(tokens) + 1 /\ Options(tokens)[at']
             /\ FlagsSaid(tokens, at', ca'.flags)
             /\ OutputSaid(tokens, at', ca'.output)
  <2>1. FlagsSaid(tokens, at + width, ca.flags)
    BY <1>1, <1>6, SameFlags
  <2>2. OutputSaid(tokens, at + width, ca.output)
    BY <1>1, <1>6, SameOutput
  <2> QED BY <1>5, <1>6, <2>1, <2>2
<1>7. CASE MissingValue \/ UnknownOption
  BY <1>1, <1>2, <1>7 DEF MissingValue, UnknownOption, Fail, Message, CaShape
<1>8. CASE OutputOption
  <2>1. /\ tokens[at].word = "-o" /\ at < Len(tokens) /\ at' = at + 2
        /\ ca' = [ca EXCEPT !.output = tokens[at + 1]]
    BY <1>8 DEF OutputOption, HasValue, Accept, Given, Value
  <2>2. CaShape' /\ ca'.flags = ca.flags /\ ca'.output = tokens[at + 1]
    BY <2>1, <1>1 DEF CaShape
  <2>3. tokens[at].word \in TakesValue /\ at + 2 <= Len(tokens) + 1 /\ 2 \in {1, 2}
        /\ tokens[at].word # "--flag"
    BY <1>1, <2>1 DEF TakesValue
  <2>4. FlagsSaid(tokens, at + 2, ca.flags)
    BY <1>1, <2>3, SameFlags
  <2>5. OutputSaid(tokens, at + 2, tokens[at + 1])
    BY <1>1, <2>1, <2>3, NewOutput
  <2>6. at + 2 \in 1 .. Len(tokens) + 1 /\ Options(tokens)[at + 2]
    BY <1>5, <2>3
  <2> QED BY <2>1, <2>2, <2>4, <2>5, <2>6
<1>9. CASE LenRepr
  <2>1. tokens[at].word = "--len-repr" /\ at < Len(tokens)
    BY <1>9 DEF LenRepr, HasValue, Given
  <2>2. tokens[at].word \in TakesValue /\ at + 2 <= Len(tokens) + 1 /\ 2 \in {1, 2}
        /\ tokens[at].word # "--flag" /\ tokens[at].word # "-o"
    BY <1>1, <2>1 DEF TakesValue
  <2>3. CASE Fail("bad width")
    BY <1>1, <1>2, <2>3 DEF Fail, Message, CaShape
  <2>4. CASE Accept([ca EXCEPT !.len_repr = Value.word], 2)
    <3>1. at' = at + 2 /\ ca' = [ca EXCEPT !.len_repr = Value.word]
      BY <2>4 DEF Accept
    <3>2. CaShape' /\ ca'.flags = ca.flags /\ ca'.output = ca.output
      BY <3>1, <1>1 DEF CaShape
    <3> QED BY <1>6, <2>2, <3>1, <3>2
  <2> QED BY <1>9, <2>3, <2>4 DEF LenRepr
<1>10. CASE FlagOption
  <2> DEFINE f == FlagOf(tokens[at + 1].word)
  <2>1. tokens[at].word = "--flag" /\ at < Len(tokens)
    BY <1>10 DEF FlagOption, HasValue, Given
  <2>2. tokens[at].word \in TakesValue /\ at + 2 <= Len(tokens) + 1 /\ 2 \in {1, 2}
        /\ tokens[at].word # "-o"
    BY <1>1, <2>1 DEF TakesValue
  <2>3. CASE Fail("empty name or value")
    BY <1>1, <1>2, <2>3 DEF Fail, Message, CaShape
  <2>4. CASE Accept([ca EXCEPT !.flags = SetFlag(@, f)], 2)
    <3>1. at' = at + 2 /\ ca' = [ca EXCEPT !.flags = SetFlag(@, f)]
      BY <2>4 DEF Accept
    <3> HIDE DEF f
    <3>2. CaShape' /\ ca'.flags = SetFlag(ca.flags, f) /\ ca'.output = ca.output
      BY <3>1, <1>1 DEF CaShape
    <3>3. FlagsSaid(tokens, at + 2, SetFlag(ca.flags, f))
      BY <1>1, <2>1, <2>2, NewFlag DEF f
    <3>4. OutputSaid(tokens, at + 2, ca.output)
      BY <1>1, <2>2, SameOutput
    <3>5. at + 2 \in 1 .. Len(tokens) + 1 /\ Options(tokens)[at + 2]
      BY <1>5, <2>2
    <3> QED BY <3>1, <3>2, <3>3, <3>4, <3>5
  <2> QED BY <1>10, <2>3, <2>4 DEF FlagOption, Value
<1>11. CASE NoAutoDetect \/ Backtraces \/ Positional
  <2>1. /\ tokens[at].word \notin TakesValue /\ tokens[at].word # "--flag"
        /\ tokens[at].word # "-o"
    BY <1>3, <1>11
       DEF NoAutoDetect, Backtraces, Positional, Given, Dashed, Option, TakesValue
  <2>2. at + 1 <= Len(tokens) + 1 /\ 1 \in {1, 2} /\ 1 # 2
    BY <1>1
  <2>3. CASE Fail("cannot expand input pattern")
    BY <1>1, <1>2, <2>3 DEF Fail, Message, CaShape
  <2>4. CASE ~Fail("cannot expand input pattern")
    <3>1. /\ at' = at + 1 /\ CaShape' /\ ca'.flags = ca.flags /\ ca'.output = ca.output
      <4>1. CASE NoAutoDetect
        BY <4>1, <1>1 DEF NoAutoDetect, Accept, CaShape
      <4>2. CASE Backtraces
        <5>1. at' = at + 1 /\ ca' = [ca EXCEPT !.backtraces = TRUE]
          BY <4>2 DEF Backtraces, Accept
        <5> QED BY <5>1, <1>1 DEF CaShape
      <4>3. CASE Positional
        <5> DEFINE more == ca.inputs \o Inputs(tokens[at])
        <5>1. at' = at + 1 /\ ca' = [ca EXCEPT !.inputs = more]
          BY <4>3, <2>4 DEF Positional, Accept
        <5> HIDE DEF more
        <5> QED BY <5>1, <1>1 DEF CaShape
      <4> QED BY <1>11, <4>1, <4>2, <4>3
    <3> QED BY <1>6, <2>1, <2>2, <3>1
  <2> QED BY <2>3, <2>4
<1> QED BY <1>7, <1>8, <1>9, <1>10, <1>11

LEMMA ParseStep == ASSUME ParseInv, ArgsStep PROVE ParseInv'
<1>1. SpliceInv'
  BY SpliceStep DEF ParseInv
<1>2. CaShape /\ tokens \in Seq(TokenSet) /\ at \in Nat /\ None \notin Message
  BY ArgsAssumption DEF ParseInv, SpliceInv, TokenSet
<1>3. CASE NextArg \/ NextToken \/ EndOfFile
  <2>1. at' = 0 /\ ca' = ca
    BY <1>3 DEF NextArg, NextToken, EndOfFile, Expanding, Open, Reject
  <2> QED BY <1>1, <1>2, <2>1 DEF ParseInv, CaShape
<1>4. CASE args_parse
  <2>1. at' = 1 /\ ca' = [NoArgs EXCEPT !.flags = Detected] /\ tokens' = tokens
    BY <1>4 DEF args_parse
  <2>2. CaShape' /\ ca'.flags = Detected /\ ca'.output = None
    <3> HIDE DEF Detected
    <3> QED BY <2>1 DEF CaShape, NoArgs
  <2>3. FlagsSaid(tokens, 1, Detected) /\ OutputSaid(tokens, 1, None)
    BY <1>2, NothingSaid DEF Detected
  <2>4. 1 \in 1 .. Len(tokens) + 1 /\ Options(tokens)[1]
    BY <1>2, OptionsDef
  <2> QED BY <1>1, <2>1, <2>2, <2>3, <2>4 DEF ParseInv
<1>5. CASE NoInput
  BY <1>1, <1>2, <1>5 DEF NoInput, Fail, Message, ParseInv, CaShape
<1>6. CASE /\ Parsing
           /\ \/ MissingValue \/ OutputOption \/ LenRepr \/ FlagOption \/ NoAutoDetect
              \/ Backtraces \/ Positional \/ UnknownOption
  <2>1. tokens' = tokens
    <3>1. CASE MissingValue \/ UnknownOption
      BY <3>1 DEF MissingValue, UnknownOption, Fail
    <3>2. CASE OutputOption \/ LenRepr
      BY <3>2 DEF OutputOption, LenRepr, Accept, Fail
    <3>3. CASE FlagOption
      BY <3>3 DEF FlagOption, Accept, Fail
    <3>4. CASE NoAutoDetect \/ Backtraces
      BY <3>4 DEF NoAutoDetect, Backtraces, Accept
    <3>5. CASE Positional
      BY <3>5 DEF Positional, Accept, Fail
    <3> QED BY <1>6, <3>1, <3>2, <3>3, <3>4, <3>5
  <2>2. /\ CaShape'
        /\ error' = None =>
              /\ at' \in 1 .. Len(tokens) + 1 /\ Options(tokens)[at']
              /\ FlagsSaid(tokens, at', ca'.flags)
              /\ OutputSaid(tokens, at', ca'.output)
    BY <1>6, ParseOption
  <2> QED BY <1>1, <2>1, <2>2 DEF ParseInv
<1> QED
  BY <1>3, <1>4, <1>5, <1>6
     DEF ArgsStep, MissingValue, OutputOption, LenRepr, FlagOption, NoAutoDetect, Backtraces,
         Positional, UnknownOption, HasValue

LEMMA GivenFlag ==
    ASSUME tokens \in Seq(TokenSet), NEW name
    PROVE  LastGiven("--flag", LAMBDA value : FlagOf(value.word).name = name) =
               {i \in DOMAIN tokens : LastIn(i, Len(tokens) + 1, Naming(tokens, name), tokens)}
<1> DEFINE m == Len(tokens)
           V == Naming(tokens, name)
           given == {i \in DOMAIN tokens : LastIn(i, m + 1, V, tokens)}
<1>1. m \in Nat /\ DOMAIN tokens = 1 .. m /\ (m + 1) - 1 = m
  OBVIOUS
<1>2. \A i \in 1 .. m : i \in V <=> tokens[i].word = "--flag" /\ FlagOf(tokens[i + 1].word).name = name
  BY <1>1 DEF Naming
<1>3. \A i \in 1 .. m : i < m + 1 /\ \A j \in i + 1 .. m : j \in 1 .. m
  BY <1>1
<1> HIDE DEF m, V
<1>4. \A i \in 1 .. m : LastIn(i, m + 1, V, tokens) <=>
          /\ IsOption(i) /\ tokens[i].word = "--flag" /\ FlagOf(tokens[i + 1].word).name = name
          /\ \A j \in i + 1 .. m :
               ~(IsOption(j) /\ tokens[j].word = "--flag" /\ FlagOf(tokens[j + 1].word).name = name)
  BY <1>1, <1>2, <1>3 DEF LastIn, IsOption
<1> QED BY <1>1, <1>4, Zenon DEF LastGiven, m, V

LEMMA GivenOutput ==
    ASSUME tokens \in Seq(TokenSet)
    PROVE  LastGiven("-o", LAMBDA value : TRUE) =
               {i \in DOMAIN tokens : LastIn(i, Len(tokens) + 1, Outputs(tokens), tokens)}
<1> DEFINE m == Len(tokens)
           V == Outputs(tokens)
<1>1. m \in Nat /\ DOMAIN tokens = 1 .. m /\ (m + 1) - 1 = m
  OBVIOUS
<1>2. \A i \in 1 .. m : i \in V <=> tokens[i].word = "-o"
  BY <1>1 DEF Outputs
<1>3. \A i \in 1 .. m : i < m + 1 /\ \A j \in i + 1 .. m : j \in 1 .. m
  BY <1>1
<1> HIDE DEF m, V
<1>4. \A i \in 1 .. m : LastIn(i, m + 1, V, tokens) <=>
          /\ IsOption(i) /\ tokens[i].word = "-o"
          /\ \A j \in i + 1 .. m : ~(IsOption(j) /\ tokens[j].word = "-o")
  BY <1>1, <1>2, <1>3 DEF LastIn, IsOption
<1> QED BY <1>1, <1>4, Zenon DEF LastGiven, m, V

(* At the end, every option has been gone over.                               *)
LEMMA ParsedAll == ASSUME ParseInv PROVE ParsedAsGiven
<1> SUFFICES ASSUME Parsed PROVE ParsedAsGiven
  BY DEF ParsedAsGiven
<1> DEFINE a == Len(tokens) + 1
           list == ca.flags
           Suppressed == {i \in DOMAIN tokens : tokens[i].word = "--no-auto-detect"}
<1>1. tokens \in Seq(TokenSet) /\ Len(tokens) \in Nat /\ a \in Nat
  BY DEF ParseInv, SpliceInv, TokenSet
<1>2. at = a /\ error = None /\ at # 0
  <2>1. at > Len(tokens) /\ error = None /\ at \in Nat
    BY DEF Parsed, ParseInv, SpliceInv
  <2>2. at # 0
    BY <1>1, <2>1
  <2>3. at \in 1 .. Len(tokens) + 1
    BY <2>1, <2>2 DEF ParseInv
  <2> QED BY <1>1, <2>1, <2>2, <2>3
<1>3. FlagsSaid(tokens, a, list) /\ OutputSaid(tokens, a, ca.output)
  BY <1>2 DEF ParseInv
<1> HIDE DEF list
<1>4. /\ list \in Seq(FlagSet) /\ NamesDiffer(list) /\ DOMAIN list = 1 .. Len(list)
      /\ \A name, i : LastIn(i, a, Naming(tokens, name), tokens) =>
            \E k \in 1 .. Len(list) : list[k] = FlagOf(tokens[i + 1].word)
      /\ \A k \in 1 .. Len(list) :
            \/ list[k] \in DetectedIn(tokens)
            \/ \E i : /\ LastIn(i, a, Naming(tokens, list[k].name), tokens)
                      /\ list[k] = FlagOf(tokens[i + 1].word)
      /\ \A h \in DetectedIn(tokens) :
            \/ \E i : LastIn(i, a, Naming(tokens, h.name), tokens)
            \/ \E k \in 1 .. Len(list) : list[k] = h
  BY <1>3 DEF FlagsSaid
<1>5. ASSUME NEW name, NEW i, LastIn(i, a, Naming(tokens, name), tokens)
      PROVE  i \in DOMAIN tokens /\ FlagOf(tokens[i + 1].word).name = name
  BY <1>5 DEF LastIn, Naming
<1> HIDE DEF a
<1>6. ASSUME NEW name, NEW At_, At_ = {i \in DOMAIN tokens : LastIn(i, a, Naming(tokens, name), tokens)}
      PROVE  IF At_ # {}
             THEN {list[k] : k \in Entries(name)} = {FlagOf(tokens[i + 1].word) : i \in At_}
                  /\ Cardinality(Entries(name)) = 1
             ELSE /\ Suppressed = {} => {list[k] : k \in Entries(name)} =
                                           {Host[k] : k \in {k \in DOMAIN Host : Host[k].name = name}}
                  /\ (\E i \in Suppressed : IsOption(i)) => Entries(name) = {}
  <2>1. \A k : k \in Entries(name) <=> k \in 1 .. Len(list) /\ list[k].name = name
    BY <1>4 DEF Entries, list
  <2>2. CASE At_ # {}
    <3>1. PICK i : i \in At_
      BY <2>2
    <3>2. LastIn(i, a, Naming(tokens, name), tokens) /\ i \in DOMAIN tokens
      BY <1>6, <3>1
    <3>3. FlagOf(tokens[i + 1].word).name = name
      BY <1>5, <3>2
    <3>4. \A l \in At_ : l = i
      <4>1. Naming(tokens, name) \in SUBSET Nat
        BY <1>1, SaidIndexes
      <4> QED BY <1>1, <1>6, <3>2, <4>1, OneLast
    <3>5. PICK k \in 1 .. Len(list) : list[k] = FlagOf(tokens[i + 1].word)
      BY <1>4, <3>2
    <3>6. Entries(name) = {k}
      BY <1>4, <2>1, <3>3, <3>5 DEF NamesDiffer
    <3>7. Cardinality(Entries(name)) = 1
      BY <3>6, FS_Singleton
    <3> QED BY <2>2, <3>1, <3>4, <3>5, <3>6, <3>7
  <2>3. CASE At_ = {}
    <3>1. \A i : ~LastIn(i, a, Naming(tokens, name), tokens)
      BY <1>5, <1>6, <2>3
    <3>2. \A k \in Entries(name) : list[k] \in DetectedIn(tokens) /\ list[k].name = name
      BY <1>4, <2>1, <3>1
    <3>3. ASSUME Suppressed = {}
          PROVE  {list[k] : k \in Entries(name)} =
                     {Host[k] : k \in {k \in DOMAIN Host : Host[k].name = name}}
      <4>1. DetectedIn(tokens) = {Host[k] : k \in DOMAIN Host}
        BY <3>3 DEF DetectedIn
      <4>2. ASSUME NEW h, h \in DetectedIn(tokens), h.name = name
            PROVE  \E k \in Entries(name) : list[k] = h
        <5>1. PICK k \in 1 .. Len(list) : list[k] = h
          BY <1>4, <3>1, <4>2
        <5> QED BY <2>1, <4>2, <5>1
      <4> QED BY <3>2, <4>1, <4>2
    <3>4. (\E i \in Suppressed : IsOption(i)) => Entries(name) = {}
      <4>1. Suppressed # {} => DetectedIn(tokens) = {}
        BY DEF DetectedIn
      <4> QED BY <3>2, <4>1
    <3> QED BY <2>3, <3>3, <3>4
  <2> QED BY <2>2, <2>3
<1>7. ASSUME NEW Any, Any = {i \in DOMAIN tokens : LastIn(i, a, Outputs(tokens), tokens)}
      PROVE  {ca.output} = IF Any = {} THEN {None} ELSE {tokens[i + 1] : i \in Any}
  <2>1. \A i : LastIn(i, a, Outputs(tokens), tokens) <=> i \in Any
    BY <1>7 DEF LastIn, Outputs
  <2>2. CASE Any = {}
    BY <1>3, <2>1, <2>2 DEF OutputSaid
  <2>3. CASE Any # {}
    <3>1. PICK i : LastIn(i, a, Outputs(tokens), tokens) /\ ca.output = tokens[i + 1]
      BY <1>3, <2>1, <2>3 DEF OutputSaid
    <3>2. \A l \in Any : l = i
      <4>1. Outputs(tokens) \in SUBSET Nat
        BY <1>1, SaidIndexes
      <4> QED BY <1>1, <2>1, <3>1, <4>1, OneLast
    <3> QED BY <2>1, <2>3, <3>1, <3>2
  <2> QED BY <2>2, <2>3
<1>8. ASSUME NEW name
      PROVE  LastGiven("--flag", LAMBDA value : FlagOf(value.word).name = name) =
                 {i \in DOMAIN tokens : LastIn(i, a, Naming(tokens, name), tokens)}
  BY <1>1, GivenFlag DEF a
<1>9. LastGiven("-o", LAMBDA value : TRUE) =
          {i \in DOMAIN tokens : LastIn(i, a, Outputs(tokens), tokens)}
  BY <1>1, GivenOutput DEF a
<1> HIDE DEF Suppressed
<1>10. \A name \in {FlagOf(w).name : w \in Word} \cup {Host[k].name : k \in DOMAIN Host} :
         LET given == LastGiven("--flag", LAMBDA value : FlagOf(value.word).name = name)
             suppressed == {i \in DOMAIN tokens : tokens[i].word = "--no-auto-detect"}
             host == {Host[k] : k \in {k \in DOMAIN Host : Host[k].name = name}}
         IN  IF given # {}
             THEN {ca.flags[k] : k \in Entries(name)} = {FlagOf(tokens[i + 1].word) : i \in given}
                  /\ Cardinality(Entries(name)) = 1
             ELSE /\ suppressed = {} => {ca.flags[k] : k \in Entries(name)} = host
                  /\ (\E i \in suppressed : IsOption(i)) => Entries(name) = {}
  <2> SUFFICES ASSUME NEW name
               PROVE
         LET given == LastGiven("--flag", LAMBDA value : FlagOf(value.word).name = name)
             suppressed == {i \in DOMAIN tokens : tokens[i].word = "--no-auto-detect"}
             host == {Host[k] : k \in {k \in DOMAIN Host : Host[k].name = name}}
         IN  IF given # {}
             THEN {ca.flags[k] : k \in Entries(name)} = {FlagOf(tokens[i + 1].word) : i \in given}
                  /\ Cardinality(Entries(name)) = 1
             ELSE /\ suppressed = {} => {ca.flags[k] : k \in Entries(name)} = host
                  /\ (\E i \in suppressed : IsOption(i)) => Entries(name) = {}
    OBVIOUS
  <2> DEFINE given == LastGiven("--flag", LAMBDA value : FlagOf(value.word).name = name)
  <2>1. given = {i \in DOMAIN tokens : LastIn(i, a, Naming(tokens, name), tokens)}
    BY <1>8
  <2> HIDE DEF given
  <2>2. IF given # {}
        THEN {list[k] : k \in Entries(name)} = {FlagOf(tokens[i + 1].word) : i \in given}
             /\ Cardinality(Entries(name)) = 1
        ELSE /\ Suppressed = {} => {list[k] : k \in Entries(name)} =
                                      {Host[k] : k \in {k \in DOMAIN Host : Host[k].name = name}}
             /\ (\E i \in Suppressed : IsOption(i)) => Entries(name) = {}
    BY <1>6, <2>1
  <2> QED BY ONLY <2>2, Zenon DEF given, list, Suppressed
<1>11. {ca.output} = LET any == LastGiven("-o", LAMBDA value : TRUE)
                     IN  IF any = {} THEN {None} ELSE {tokens[i + 1] : i \in any}
  BY <1>7, <1>9
<1> QED BY <1>10, <1>11 DEF ParsedAsGiven

(* The command line means its last options, wherever they were written.       *)
THEOREM CommandLineIsParsed == Spec => []ParsedAsGiven
<1>1. Init => ParseInv
  <2> SUFFICES ASSUME Init PROVE ParseInv
    OBVIOUS
  <2>1. at = 0 /\ ca = NoArgs
    BY DEF Init, ArgsInit
  <2>2. CaShape
    BY <2>1 DEF CaShape, NoArgs
  <2> QED BY <2>1, <2>2, SpliceInit DEF Init, ParseInv
<1>2. ASSUME ParseInv, [Next]_vars PROVE ParseInv'
  <2>1. CASE ReadArgs
    BY <2>1, <1>2, ParseStep DEF ReadArgs
  <2>2. CASE Lex
    <3>1. SpliceInv' /\ at' = 0 /\ ca' = NoArgs
      BY <2>2, <1>2, SpliceNext DEF ParseInv, Next, Lex
    <3>2. CaShape'
      BY <3>1 DEF CaShape, NoArgs
    <3> QED BY <3>1, <3>2 DEF ParseInv
  <2>3. CASE UNCHANGED args
    <3>1. SpliceInv'
      BY <2>3, <1>2 DEF args, ParseInv, SpliceInv, StackInv, Distinct
    <3> QED BY <2>3, <1>2, <3>1 DEF args, ParseInv, CaShape
  <2> QED
    BY <1>2, <2>1, <2>2, <2>3
       DEF Next, vars, FilterLine, EndFilter, LayLine, EndLayout, Stop, Done
<1>3. ParseInv => ParsedAsGiven
  BY ParsedAll
<1> QED
  BY <1>1, <1>2, <1>3, PTL DEF Spec
=============================================================================
