------------------------- MODULE FccPreprocessorProofs -------------------------
(***************************************************************************)
(* For any nesting limits, any files and any program: the flag the code    *)
(* keeps for the innermost conditional says whether every enclosing group  *)
(* of the program is in its selected branch, and text in a skipped group   *)
(* changes nothing.                                                        *)
(*                                                                         *)
(* The property is not inductive: current_active of a level is computed    *)
(* from parent_active, branch_taken and the level below, so the invariant  *)
(* says of each flag what it means in terms of the groups.                 *)
(***************************************************************************)
EXTENDS FccPreprocessor, SequenceTheorems, FiniteSetTheorems, TLAPS

\* What the three flags of each level mean.
FlagsMean(cs, gs) ==
  /\ Len(gs) = Len(cs)
  /\ \A i \in 1..Len(cs) :
       /\ cs[i].current_active <=> \A j \in 1..i : Selected(gs[j])
       /\ cs[i].parent_active <=> \A j \in 1..i - 1 : Selected(gs[j])
       /\ cs[i].branch_taken <=> (gs[i].earlier \/ gs[i].now)

IInv ==
  /\ reported \in BOOLEAN
  /\ conditionals \in Seq(Conditional)
  /\ groups \in Seq(Group)
  /\ ~reported => FlagsMean(conditionals, groups)

-----------------------------------------------------------------------------
\* Opening a group keeps the meaning of the flags.
LEMMA PushKeepsMeaning ==
  ASSUME NEW cs \in Seq(Conditional), NEW gs \in Seq(Group), FlagsMean(cs, gs),
         NEW a \in BOOLEAN, NEW c \in BOOLEAN,
         a <=> (IF cs = << >> THEN TRUE ELSE cs[Len(cs)].current_active)
  PROVE  FlagsMean(Append(cs, [parent_active |-> a, current_active |-> a /\ c,
                               branch_taken |-> c, saw_else |-> FALSE]),
                   Append(gs, [earlier |-> FALSE, now |-> c]))
<1> DEFINE k == [parent_active |-> a, current_active |-> a /\ c,
                 branch_taken |-> c, saw_else |-> FALSE]
           g == [earlier |-> FALSE, now |-> c]
           ds == Append(cs, k)
           hs == Append(gs, g)
           n == Len(cs)
<1>1. k \in Conditional /\ g \in Group
  BY DEF Conditional, Group
<1>2. k.parent_active = a /\ k.current_active = (a /\ c) /\ k.branch_taken = c
      /\ g.earlier = FALSE /\ g.now = c
  OBVIOUS
<1> HIDE DEF k, g
<1>3. n \in Nat /\ Len(gs) = n
  BY DEF FlagsMean
<1>4. /\ Len(ds) = n + 1 /\ Len(hs) = n + 1
      /\ \A i \in 1..n : ds[i] = cs[i] /\ hs[i] = gs[i]
      /\ ds[n + 1] = k /\ hs[n + 1] = g
  BY <1>1, <1>3
<1>5. a <=> \A j \in 1..n : Selected(gs[j])
  <2>1. CASE n = 0
    BY <2>1, <1>3
  <2>2. CASE n # 0
    BY <2>2, <1>3 DEF FlagsMean
  <2>3. QED BY <2>1, <2>2
<1> HIDE DEF ds, hs, n
<1>6. ASSUME NEW i \in 1..n
      PROVE  /\ ds[i].current_active <=> \A j \in 1..i : Selected(hs[j])
             /\ ds[i].parent_active <=> \A j \in 1..i - 1 : Selected(hs[j])
             /\ ds[i].branch_taken <=> (hs[i].earlier \/ hs[i].now)
  <2>1. \A j \in 1..i : j \in 1..n /\ hs[j] = gs[j]
    BY <1>3, <1>4
  <2>2. \A j \in 1..i - 1 : j \in 1..n /\ hs[j] = gs[j]
    BY <1>3, <1>4
  <2>3. /\ cs[i].current_active <=> \A j \in 1..i : Selected(gs[j])
        /\ cs[i].parent_active <=> \A j \in 1..i - 1 : Selected(gs[j])
        /\ cs[i].branch_taken <=> (gs[i].earlier \/ gs[i].now)
    BY DEF FlagsMean, n
  <2>4. QED BY <2>1, <2>2, <2>3, <1>4
<1>7. /\ ds[n + 1].current_active <=> \A j \in 1..n + 1 : Selected(hs[j])
      /\ ds[n + 1].parent_active <=> \A j \in 1..(n + 1) - 1 : Selected(hs[j])
      /\ ds[n + 1].branch_taken <=> (hs[n + 1].earlier \/ hs[n + 1].now)
  <2>1. \A j \in 1..n : hs[j] = gs[j]
    BY <1>4
  <2>2. (\A j \in 1..n : Selected(hs[j])) <=> a
    BY <2>1, <1>5
  <2>3. Selected(hs[n + 1]) <=> c
    BY <1>2, <1>4 DEF Selected
  <2>4. (\A j \in 1..n + 1 : Selected(hs[j])) <=> (a /\ c)
    <3>1. 1..n + 1 = (1..n) \cup {n + 1}
      BY <1>3
    <3>2. QED BY <3>1, <2>2, <2>3
  <2>5. (n + 1) - 1 = n
    BY <1>3
  <2>6. QED BY <2>2, <2>4, <2>5, <1>2, <1>4
<1>8. Len(ds) = n + 1 /\ Len(hs) = n + 1 /\ 1..n + 1 = (1..n) \cup {n + 1}
  BY <1>3, <1>4
<1>9. FlagsMean(ds, hs)
  BY <1>6, <1>7, <1>8, Zenon DEF FlagsMean
<1>10. QED BY <1>9 DEF ds, hs, k, g

\* A later branch of the innermost group keeps the meaning of the flags.
LEMMA BranchKeepsMeaning ==
  ASSUME NEW cs \in Seq(Conditional), NEW gs \in Seq(Group), FlagsMean(cs, gs),
         cs # << >>, NEW c \in BOOLEAN, NEW k \in Conditional,
         k.parent_active = cs[Len(cs)].parent_active,
         k.current_active <=> (/\ cs[Len(cs)].parent_active
                               /\ ~cs[Len(cs)].branch_taken /\ c),
         k.branch_taken <=> (cs[Len(cs)].branch_taken \/ c),
         NEW g \in Group,
         g.earlier <=> (gs[Len(gs)].earlier \/ gs[Len(gs)].now), g.now <=> c
  PROVE  FlagsMean([cs EXCEPT ![Len(cs)] = k], [gs EXCEPT ![Len(gs)] = g])
<1> DEFINE n == Len(cs)
           ds == [cs EXCEPT ![Len(cs)] = k]
           hs == [gs EXCEPT ![Len(gs)] = g]
<1>1. n \in Nat /\ n # 0 /\ Len(gs) = n
  BY DEF FlagsMean
<1>2. /\ Len(ds) = n /\ Len(hs) = n
      /\ \A i \in 1..n - 1 : ds[i] = cs[i] /\ hs[i] = gs[i]
      /\ ds[n] = k /\ hs[n] = g
  BY <1>1
<1>3. \A i \in 1..n :
        /\ cs[i].current_active <=> \A j \in 1..i : Selected(gs[j])
        /\ cs[i].parent_active <=> \A j \in 1..i - 1 : Selected(gs[j])
        /\ cs[i].branch_taken <=> (gs[i].earlier \/ gs[i].now)
  BY DEF FlagsMean
<1>4. /\ k.parent_active = cs[n].parent_active
      /\ k.current_active <=> (cs[n].parent_active /\ ~cs[n].branch_taken /\ c)
      /\ k.branch_taken <=> (cs[n].branch_taken \/ c)
      /\ g.earlier <=> (gs[n].earlier \/ gs[n].now)
      /\ g.now <=> c
  BY <1>1
<1> HIDE DEF n, ds, hs
<1>5. ASSUME NEW i \in 1..n - 1
      PROVE  /\ ds[i].current_active <=> \A j \in 1..i : Selected(hs[j])
             /\ ds[i].parent_active <=> \A j \in 1..i - 1 : Selected(hs[j])
             /\ ds[i].branch_taken <=> (hs[i].earlier \/ hs[i].now)
  <2>1. \A j \in 1..i : j \in 1..n - 1 /\ hs[j] = gs[j]
    BY <1>1, <1>2
  <2>2. \A j \in 1..i - 1 : j \in 1..n - 1 /\ hs[j] = gs[j]
    BY <1>1, <1>2
  <2>3. i \in 1..n
    BY <1>1
  <2>4. QED BY <2>1, <2>2, <2>3, <1>2, <1>3
<1>6. /\ ds[n].current_active <=> \A j \in 1..n : Selected(hs[j])
      /\ ds[n].parent_active <=> \A j \in 1..n - 1 : Selected(hs[j])
      /\ ds[n].branch_taken <=> (hs[n].earlier \/ hs[n].now)
  <2>1. n \in 1..n
    BY <1>1
  <2>2. (\A j \in 1..n - 1 : Selected(hs[j])) <=> cs[n].parent_active
    <3>1. (\A j \in 1..n - 1 : Selected(hs[j])) <=> (\A j \in 1..n - 1 : Selected(gs[j]))
      BY <1>2
    <3>2. QED BY <3>1, <2>1, <1>3
  <2>3. cs[n].branch_taken <=> (gs[n].earlier \/ gs[n].now)
    BY <2>1, <1>3
  <2>4. Selected(hs[n]) <=> (c /\ ~cs[n].branch_taken)
    BY <2>3, <1>2, <1>4 DEF Selected
  <2>5. 1..n = (1..n - 1) \cup {n}
    BY <1>1
  <2>6. (\A j \in 1..n : Selected(hs[j])) <=>
          ((\A j \in 1..n - 1 : Selected(hs[j])) /\ Selected(hs[n]))
    BY <2>5
  <2>7. QED BY <2>2, <2>3, <2>4, <2>6, <1>2, <1>4
<1>7. 1..n = (1..n - 1) \cup {n}
  BY <1>1
<1>8. FlagsMean(ds, hs)
  BY <1>2, <1>5, <1>6, <1>7, Zenon DEF FlagsMean
<1>9. QED BY <1>8 DEF ds, hs

\* Closing the innermost group keeps the meaning of the flags.
LEMMA PopKeepsMeaning ==
  ASSUME NEW cs \in Seq(Conditional), NEW gs \in Seq(Group), FlagsMean(cs, gs),
         cs # << >>
  PROVE  /\ Pop(cs) \in Seq(Conditional) /\ Pop(gs) \in Seq(Group)
         /\ FlagsMean(Pop(cs), Pop(gs))
<1> DEFINE n == Len(cs)
<1>1. n \in Nat /\ n # 0 /\ Len(gs) = n
  BY DEF FlagsMean
<1>2. /\ Pop(cs) \in Seq(Conditional) /\ Pop(gs) \in Seq(Group)
      /\ Len(Pop(cs)) = n - 1 /\ Len(Pop(gs)) = n - 1
      /\ \A i \in 1..n - 1 : Pop(cs)[i] = cs[i] /\ Pop(gs)[i] = gs[i]
  BY <1>1 DEF Pop
<1>3. \A i \in 1..n :
        /\ cs[i].current_active <=> \A j \in 1..i : Selected(gs[j])
        /\ cs[i].parent_active <=> \A j \in 1..i - 1 : Selected(gs[j])
        /\ cs[i].branch_taken <=> (gs[i].earlier \/ gs[i].now)
  BY DEF FlagsMean
<1> HIDE DEF n
<1>4. ASSUME NEW i \in 1..n - 1
      PROVE  /\ Pop(cs)[i].current_active <=> \A j \in 1..i : Selected(Pop(gs)[j])
             /\ Pop(cs)[i].parent_active <=> \A j \in 1..i - 1 : Selected(Pop(gs)[j])
             /\ Pop(cs)[i].branch_taken <=> (Pop(gs)[i].earlier \/ Pop(gs)[i].now)
  <2>1. \A j \in 1..i : j \in 1..n - 1 /\ Pop(gs)[j] = gs[j]
    BY <1>1, <1>2
  <2>2. \A j \in 1..i - 1 : j \in 1..n - 1 /\ Pop(gs)[j] = gs[j]
    BY <1>1, <1>2
  <2>3. i \in 1..n
    BY <1>1
  <2>4. QED BY <2>1, <2>2, <2>3, <1>2, <1>3
<1>5. QED BY <1>2, <1>4, Zenon DEF FlagsMean

-----------------------------------------------------------------------------
\* The actions seen through the variables of the invariant: a report, a push,
\* a later branch, a pop, or nothing.
Reports == reported' = TRUE /\ conditionals' \in Seq(Conditional) /\ UNCHANGED groups

LEMMA TypesOfStacks ==
  ASSUME IInv
  PROVE  /\ Active \in BOOLEAN
         /\ \A k \in Conditional : Append(conditionals, k) \in Seq(Conditional)
         /\ \A g \in Group : Append(groups, g) \in Seq(Group)
         /\ conditionals # << >> => Top(conditionals) \in Conditional
         /\ \A k \in Conditional :
              conditionals # << >> => ReplaceTop(conditionals, k) \in Seq(Conditional)
         /\ \A g \in Group :
              groups # << >> => ReplaceTop(groups, g) \in Seq(Group)
<1>1. conditionals \in Seq(Conditional) /\ groups \in Seq(Group)
  BY DEF IInv
<1>2. conditionals # << >> => Len(conditionals) \in 1..Len(conditionals)
  BY <1>1
<1>3. conditionals # << >> => Top(conditionals) \in Conditional
  BY <1>1, <1>2 DEF Top
<1>4. Active \in BOOLEAN
  BY <1>3 DEF Active, Conditional
<1>5. /\ \A k \in Conditional : Append(conditionals, k) \in Seq(Conditional)
      /\ \A g \in Group : Append(groups, g) \in Seq(Group)
  BY <1>1
<1>6. \A k \in Conditional :
        conditionals # << >> => ReplaceTop(conditionals, k) \in Seq(Conditional)
  BY <1>1, <1>2 DEF ReplaceTop
<1>7. \A g \in Group : groups # << >> => ReplaceTop(groups, g) \in Seq(Group)
  BY <1>1 DEF ReplaceTop
<1>8. QED BY <1>3, <1>4, <1>5, <1>6, <1>7

LEMMA InitKeeps == Init => IInv
<1> SUFFICES ASSUME Init PROVE IInv
  OBVIOUS
<1>1. conditionals = << >> /\ groups = << >> /\ reported \in BOOLEAN
  BY DEF Init
<1>2. FlagsMean(<< >>, << >>)
  BY DEF FlagsMean
<1>3. << >> \in Seq(Conditional) /\ << >> \in Seq(Group)
  OBVIOUS
<1>4. QED BY <1>1, <1>2, <1>3 DEF IInv

LEMMA ReportsKeeps == IInv /\ Reports => IInv'
BY DEF IInv, Reports

\* push_conditional keeps the invariant whatever the condition.
LEMMA PushKeeps ==
  ASSUME IInv, NEW c \in BOOLEAN, PushConditional(c)
  PROVE  IInv'
<1>1. CASE Len(conditionals) >= MaxConditionalDepth
  BY <1>1, ReportsKeeps DEF PushConditional, Report, Reports, IInv
<1>2. CASE ~(Len(conditionals) >= MaxConditionalDepth)
  <2> DEFINE k == [parent_active |-> Active, current_active |-> Active /\ c,
                   branch_taken |-> c, saw_else |-> FALSE]
             g == [earlier |-> FALSE, now |-> c]
  <2>1. Active \in BOOLEAN
    BY TypesOfStacks
  <2>2. k \in Conditional /\ g \in Group
    BY <2>1 DEF Conditional, Group
  <2>3. conditionals' = Append(conditionals, k) /\ Follow(Append(groups, g))
    BY <1>2 DEF PushConditional
  <2>4. conditionals' \in Seq(Conditional) /\ Append(groups, g) \in Seq(Group)
    BY <2>2, <2>3, TypesOfStacks
  <2>5. ~reported => FlagsMean(Append(conditionals, k), Append(groups, g))
    <3>1. SUFFICES ASSUME ~reported
                   PROVE  FlagsMean(Append(conditionals, k), Append(groups, g))
      OBVIOUS
    <3>2. conditionals \in Seq(Conditional) /\ groups \in Seq(Group)
          /\ FlagsMean(conditionals, groups)
      BY <3>1 DEF IInv
    <3>3. Active <=> (IF conditionals = << >> THEN TRUE
                      ELSE conditionals[Len(conditionals)].current_active)
      BY DEF Active, Top
    <3>4. QED BY <2>1, <3>2, <3>3, PushKeepsMeaning
  <2> HIDE DEF k, g
  <2>6. QED BY <2>3, <2>4, <2>5 DEF Follow, IInv
<1>3. QED BY <1>1, <1>2

\* #elif and #else keep the invariant: both make the top level a new branch.
LEMMA BranchKeeps ==
  ASSUME IInv, NEW c \in BOOLEAN, NEW e \in BOOLEAN, conditionals # << >>,
         conditionals' = ReplaceTop(conditionals,
           [Top(conditionals) EXCEPT !.current_active = Selects(Top(conditionals), c),
                                     !.branch_taken = Top(conditionals).branch_taken \/ c,
                                     !.saw_else = e]),
         Follow(ReplaceTop(groups,
           [earlier |-> Top(groups).earlier \/ Top(groups).now, now |-> c]))
  PROVE  IInv'
<1> DEFINE t == Top(conditionals)
           k == [t EXCEPT !.current_active = Selects(t, c),
                          !.branch_taken = t.branch_taken \/ c,
                          !.saw_else = e]
           g == [earlier |-> Top(groups).earlier \/ Top(groups).now, now |-> c]
<1>1. t \in Conditional
  BY TypesOfStacks
<1>2. /\ k \in Conditional
      /\ k.parent_active = t.parent_active
      /\ k.current_active = (t.parent_active /\ ~t.branch_taken /\ c)
      /\ k.branch_taken = (t.branch_taken \/ c)
  BY <1>1 DEF Conditional, Selects
<1>3. conditionals' = ReplaceTop(conditionals, k) /\ Follow(ReplaceTop(groups, g))
  OBVIOUS
<1>4. g \in Group /\ g.earlier = (Top(groups).earlier \/ Top(groups).now) /\ g.now = c
  BY DEF Group
<1> HIDE DEF k, g
<1>5. conditionals' \in Seq(Conditional)
  BY <1>2, <1>3, TypesOfStacks
<1>6. CASE reported
  BY <1>3, <1>5, <1>6 DEF Follow, IInv
<1>7. CASE ~reported
  <2>1. conditionals \in Seq(Conditional) /\ groups \in Seq(Group)
        /\ FlagsMean(conditionals, groups)
    BY <1>7 DEF IInv
  <2>2. groups # << >>
    BY <2>1 DEF FlagsMean
  <2>3. ReplaceTop(groups, g) \in Seq(Group)
    BY <1>4, <2>2, TypesOfStacks
  <2>4. FlagsMean([conditionals EXCEPT ![Len(conditionals)] = k],
                  [groups EXCEPT ![Len(groups)] = g])
    <3>1. /\ k.parent_active = conditionals[Len(conditionals)].parent_active
          /\ k.current_active <=> (/\ conditionals[Len(conditionals)].parent_active
                                   /\ ~conditionals[Len(conditionals)].branch_taken /\ c)
          /\ k.branch_taken <=> (conditionals[Len(conditionals)].branch_taken \/ c)
      BY <1>2 DEF Top
    <3>2. (g.earlier <=> (groups[Len(groups)].earlier \/ groups[Len(groups)].now))
          /\ (g.now <=> c)
      BY <1>4 DEF Top
    <3>3. QED BY <1>2, <1>4, <2>1, <3>1, <3>2, BranchKeepsMeaning
  <2>5. FlagsMean(ReplaceTop(conditionals, k), ReplaceTop(groups, g))
    BY <2>4 DEF ReplaceTop
  <2>6. QED BY <1>3, <1>5, <1>7, <2>3, <2>5 DEF Follow, IInv
<1>8. QED BY <1>6, <1>7

\* Every step keeps the invariant.
LEMMA StepKeeps == IInv /\ [Next]_vars => IInv'
<1> SUFFICES ASSUME IInv, [Next]_vars PROVE IInv'
  OBVIOUS
<1>1. ASSUME NEW m \in Macros, NEW invert \in BOOLEAN, Ifdef(m, invert) PROVE IInv'
  <2>1. PushConditional((m \in defined) # invert)
    BY <1>1 DEF Ifdef
  <2>2. ((m \in defined) # invert) \in BOOLEAN
    OBVIOUS
  <2>3. QED BY <2>1, <2>2, PushKeeps
<1>2. ASSUME NEW c \in BOOLEAN, If(c) PROVE IInv'
  BY <1>2, PushKeeps DEF If
<1>3. CASE IfMalformed
  <2> DEFINE k == [parent_active |-> Active, current_active |-> FALSE,
                   branch_taken |-> FALSE, saw_else |-> FALSE]
  <2>1. k \in Conditional
    BY TypesOfStacks DEF Conditional
  <2>2. conditionals' \in {conditionals, Append(conditionals, k)}
    BY <1>3 DEF IfMalformed
  <2> HIDE DEF k
  <2>3. conditionals' \in Seq(Conditional)
    BY <2>1, <2>2, TypesOfStacks DEF IInv
  <2>4. QED BY <1>3, <2>3, ReportsKeeps DEF IfMalformed, Reports
<1>4. CASE Malformed
  BY <1>4, ReportsKeeps DEF Malformed, Report, Reports, IInv
<1>5. ASSUME NEW c \in BOOLEAN, Elif(c) PROVE IInv'
  <2>1. CASE conditionals = << >> \/ Top(conditionals).saw_else
    BY <1>5, <2>1, ReportsKeeps DEF Elif, Report, Reports, IInv
  <2>2. CASE ~(conditionals = << >> \/ Top(conditionals).saw_else)
    <3> DEFINE t == Top(conditionals)
    <3>1. t \in Conditional /\ conditionals # << >>
      BY <2>2, TypesOfStacks
    <3>2. t.saw_else \in BOOLEAN
      BY <3>1 DEF Conditional
    <3>3. [t EXCEPT !.current_active = Selects(t, c), !.branch_taken = t.branch_taken \/ c]
            = [t EXCEPT !.current_active = Selects(t, c),
                        !.branch_taken = t.branch_taken \/ c, !.saw_else = t.saw_else]
      BY <3>1 DEF Conditional
    <3>4. /\ conditionals' = ReplaceTop(conditionals,
                 [t EXCEPT !.current_active = Selects(t, c),
                           !.branch_taken = t.branch_taken \/ c])
          /\ Follow(ReplaceTop(groups,
               [earlier |-> Top(groups).earlier \/ Top(groups).now, now |-> c]))
      BY <1>5, <2>2 DEF Elif
    <3>5. QED BY <3>1, <3>2, <3>3, <3>4, BranchKeeps
  <2>3. QED BY <2>1, <2>2
<1>6. CASE Else
  <2>1. CASE conditionals = << >> \/ Top(conditionals).saw_else
    BY <1>6, <2>1, ReportsKeeps DEF Else, Report, Reports, IInv
  <2>2. CASE ~(conditionals = << >> \/ Top(conditionals).saw_else)
    <3> DEFINE t == Top(conditionals)
    <3>1. t \in Conditional /\ conditionals # << >>
      BY <2>2, TypesOfStacks
    <3>2. [t EXCEPT !.current_active = Selects(t, TRUE), !.branch_taken = TRUE,
                    !.saw_else = TRUE]
            = [t EXCEPT !.current_active = Selects(t, TRUE),
                        !.branch_taken = t.branch_taken \/ TRUE, !.saw_else = TRUE]
      OBVIOUS
    <3>3. /\ conditionals' = ReplaceTop(conditionals,
                 [t EXCEPT !.current_active = Selects(t, TRUE), !.branch_taken = TRUE,
                           !.saw_else = TRUE])
          /\ Follow(ReplaceTop(groups,
               [earlier |-> Top(groups).earlier \/ Top(groups).now, now |-> TRUE]))
      BY <1>6, <2>2 DEF Else
    <3>4. QED BY <3>1, <3>2, <3>3, BranchKeeps
  <2>3. QED BY <2>1, <2>2
<1>7. CASE Endif
  <2>1. CASE conditionals = << >>
    BY <1>7, <2>1, ReportsKeeps DEF Endif, Report, Reports, IInv
  <2>2. CASE conditionals # << >>
    <3>1. conditionals' = Pop(conditionals) /\ Follow(Pop(groups))
      BY <1>7, <2>2 DEF Endif
    <3>2. conditionals' \in Seq(Conditional)
      <4>1. conditionals \in Seq(Conditional)
        BY DEF IInv
      <4>2. QED BY <2>2, <3>1, <4>1 DEF Pop
    <3>3. CASE reported
      BY <3>1, <3>2, <3>3 DEF Follow, IInv
    <3>4. CASE ~reported
      <4>1. conditionals \in Seq(Conditional) /\ groups \in Seq(Group)
            /\ FlagsMean(conditionals, groups)
        BY <3>4 DEF IInv
      <4>2. Pop(groups) \in Seq(Group) /\ FlagsMean(Pop(conditionals), Pop(groups))
        BY <2>2, <4>1, PopKeepsMeaning
      <4>3. QED BY <3>1, <3>2, <3>4, <4>2 DEF Follow, IInv
    <3>5. QED BY <3>3, <3>4
  <2>3. QED BY <2>1, <2>2
<1>8. ASSUME UNCHANGED conditionals,
             UNCHANGED <<reported, groups>> \/ Report
      PROVE  IInv'
  BY <1>8, ReportsKeeps DEF Report, Reports, IInv
<1>9. ASSUME NEW m \in Macros, Define(m) \/ Undef(m) PROVE IInv'
  BY <1>8, <1>9 DEF Define, Undef, Fatal
<1>10. CASE TextLine \/ PragmaOnce
  BY <1>8, <1>10 DEF TextLine, PragmaOnce, Fatal
<1>11. ASSUME NEW name \in Names, NEW quoted \in BOOLEAN, Include(name, quoted)
       PROVE  IInv'
  BY <1>8, <1>11 DEF Include
<1>12. ASSUME NEW spliced \in BOOLEAN, IncludeCandidate(spliced) PROVE IInv'
  BY <1>8, <1>12 DEF IncludeCandidate, Fatal
<1>13. CASE NextCandidate \/ SkipOnceCandidate \/ SpliceFails \/ NothingIncluded
  BY <1>8, <1>13 DEF NextCandidate, SkipOnceCandidate, SpliceFails, NothingIncluded, Fatal
<1>14. CASE EndOfFile \/ Unwind \/ EndOfRun \/ Fail
  BY <1>8, <1>14 DEF EndOfFile, Unwind, EndOfRun, Fail
<1>15. CASE UNCHANGED vars
  BY <1>8, <1>15 DEF vars
<1>16. CASE ElifMalformed
  <2> DEFINE t == [Top(conditionals) EXCEPT !.current_active = FALSE]
  <2>1. t \in Conditional
    BY <1>16, TypesOfStacks DEF ElifMalformed, Conditional
  <2>2. conditionals # << >> /\ conditionals' = ReplaceTop(conditionals, t)
    BY <1>16 DEF ElifMalformed
  <2> HIDE DEF t
  <2>3. conditionals' \in Seq(Conditional)
    BY <2>1, <2>2, TypesOfStacks
  <2>4. QED BY <1>16, <2>3, ReportsKeeps DEF ElifMalformed, Report, Reports
<1>17. QED
  BY <1>1, <1>2, <1>3, <1>4, <1>5, <1>6, <1>7, <1>9, <1>10, <1>11, <1>12, <1>13,
     <1>14, <1>15, <1>16 DEF Next

LEMMA Invariance == Spec => []IInv
<1>1. QED BY InitKeeps, StepKeeps, PTL DEF Spec

-----------------------------------------------------------------------------
\* While nothing was reported, the flag of every conditional level says that
\* this and every enclosing group is in its selected branch.
THEOREM FlagsFollowGroups == Spec => []ActiveMeansSelected
<1>1. IInv => ActiveMeansSelected
  BY DEF IInv, FlagsMean, ActiveMeansSelected
<1>2. QED BY <1>1, Invariance, PTL

\* A successful run has read a program whose groups are all closed.
THEOREM SuccessIsBalanced == Spec => []SuccessMeansBalanced
<1> DEFINE J == SuccessMeansBalanced
<1>1. Init => J
  BY DEF Init, SuccessMeansBalanced
<1>2. IInv /\ J /\ [Next]_vars => J'
  <2> SUFFICES ASSUME IInv, J, [Next]_vars, status' = "ok"
               PROVE  ~reported' /\ groups' = << >> /\ conditionals' = << >>
    BY DEF SuccessMeansBalanced
  <2>1. CASE status = "ok"
    <3>1. UNCHANGED vars
      BY <2>1 DEF Next, Define, Undef, Ifdef, If, Elif, IfMalformed,
         ElifMalformed, Malformed, Else, Endif, TextLine, PragmaOnce, Include, IncludeCandidate, NextCandidate,
         SkipOnceCandidate, SpliceFails, NothingIncluded, EndOfFile, Unwind, EndOfRun,
         Fail, Reading, Including
    <3>2. QED BY <2>1, <3>1 DEF vars, SuccessMeansBalanced
  <2>2. CASE status # "ok"
    <3>1. EndOfRun
      BY <2>2 DEF Next, vars, Define, Undef, Ifdef, If, Elif, IfMalformed,
         ElifMalformed, Malformed, Else, Endif, TextLine, PragmaOnce, Include, IncludeCandidate, NextCandidate,
         SkipOnceCandidate, SpliceFails, NothingIncluded, EndOfFile, Unwind, Fail,
         Reading, Including, other, Fatal
    <3>2. conditionals = << >> /\ ~reported /\ UNCHANGED <<reported, groups, conditionals>>
      BY <3>1, SMT DEF EndOfRun, LeftOpen, Report, IInv
    <3>3. groups = << >>
      BY <3>2 DEF IInv, FlagsMean
    <3>4. QED BY <3>2, <3>3
  <2>3. QED BY <2>1, <2>2
<1> HIDE DEF J
<1>3. Spec => []J
  BY <1>1, <1>2, Invariance, PTL DEF Spec
<1>4. QED BY <1>3 DEF J

-----------------------------------------------------------------------------
\* An #include in progress was begun in an active group, and no conditional
\* is read until it is over.
FInv ==
  /\ files \in Seq(Frame)
  /\ Including => Active

LEMMA PopOfSequence ==
  ASSUME NEW S, NEW s \in Seq(S), s # << >>
  PROVE  Pop(s) \in Seq(S) /\ Len(Pop(s)) = Len(s) - 1
<1>1. Len(s) \in Nat /\ Len(s) # 0
  OBVIOUS
<1> DEFINE m == Len(s) - 1
<1>2. m \in Nat /\ m <= Len(s)
  BY <1>1
<1>3. \A i \in 1..m : s[i] \in S
  BY <1>1
<1>4. 1 \in Int /\ m \in Int
  BY <1>2
<1> HIDE DEF m
<1>5. SubSeq(s, 1, m) \in Seq(S) /\ Len(SubSeq(s, 1, m)) = IF 1 <= m THEN m - 1 + 1 ELSE 0
  BY <1>3, <1>4, SubSeqProperties
<1>6. Len(SubSeq(s, 1, m)) = m
  BY <1>2, <1>5
<1>7. QED BY <1>5, <1>6 DEF Pop, m

LEMMA FramesAreFrames ==
  ASSUME FInv, files # << >>
  PROVE  /\ Top(files) \in Frame
         /\ \A x \in Frame : /\ ReplaceTop(files, x) \in Seq(Frame)
                            /\ Len(ReplaceTop(files, x)) = Len(files)
                            /\ Top(ReplaceTop(files, x)) = x
         /\ Pop(files) \in Seq(Frame) /\ Len(Pop(files)) = Len(files) - 1
<1>1. files \in Seq(Frame) /\ Len(files) \in 1..Len(files)
  BY DEF FInv
<1>2. Top(files) \in Frame
  BY <1>1 DEF Top
<1>3. \A x \in Frame : /\ ReplaceTop(files, x) \in Seq(Frame)
                       /\ Len(ReplaceTop(files, x)) = Len(files)
                       /\ Top(ReplaceTop(files, x)) = x
  BY <1>1 DEF ReplaceTop, Top
<1>4. Pop(files) \in Seq(Frame) /\ Len(Pop(files)) = Len(files) - 1
  BY <1>1, PopOfSequence
<1>5. QED BY <1>2, <1>3, <1>4

LEMMA FrameOfFile ==
  ASSUME NEW f \in File, NEW spliced \in BOOLEAN
  PROVE  Frame0(f, spliced) \in Frame /\ ~Frame0(f, spliced).including
BY DEF Frame0, Frame, Slots

LEMMA IncludedFrame ==
  ASSUME NEW f \in Frame
  PROVE  Included(f) \in Frame /\ ~Included(f).including
<1>1. << >> \in Seq(File) /\ "uninitialised" \in Slots
  BY DEF Slots
<1> DEFINE none == << >>
<1>2. none \in Seq(File)
  BY <1>1
<1> HIDE DEF none
<1>3. [f EXCEPT !.including = FALSE, !.candidates = none, !.slot = "uninitialised"]
        \in Frame
  BY <1>1, <1>2 DEF Frame
<1>4. ~[f EXCEPT !.including = FALSE, !.candidates = none,
                 !.slot = "uninitialised"].including
  BY DEF Frame
<1>5. QED BY <1>3, <1>4 DEF Included, none

LEMMA CandidatesAreFiles ==
  ASSUME FInv, files # << >>, NEW name \in Names, NEW quoted \in BOOLEAN
  PROVE  Candidates(name, quoted) \in Seq(File)
<1>1. Top(files).file \in File
  BY FramesAreFrames DEF Frame
<1>2. Top(files).file.directory \in Directories
  BY <1>1 DEF File
<1>3. \A d \in Directories : [directory |-> d, name |-> name] \in File
  BY DEF File
<1> DEFINE own == IF quoted THEN <<[directory |-> Top(files).file.directory, name |-> name]>>
                  ELSE << >>
           rest == [i \in 1..Len(SearchPath) |->
                      [directory |-> SearchPath[i], name |-> name]]
<1>4. own \in Seq(File)
  BY <1>2, <1>3
<1>5. rest \in Seq(File)
  <2>1. SearchPath \in Seq(Directories)
    BY FileAssumption
  <2>2. Len(SearchPath) \in Nat
    BY <2>1
  <2>3. \A i \in 1..Len(SearchPath) : [directory |-> SearchPath[i], name |-> name] \in File
    BY <2>1, <1>3
  <2>4. rest \in [1..Len(SearchPath) -> File]
    BY <2>3
  <2> HIDE DEF rest
  <2>5. QED BY <2>2, <2>4, IsASeq
<1>6. Candidates(name, quoted) = own \o rest
  BY DEF Candidates
<1> HIDE DEF own, rest
<1>7. QED BY <1>4, <1>5, <1>6

LEMMA FilesStep == FInv /\ [Next]_vars => FInv'
<1> SUFFICES ASSUME FInv, [Next]_vars PROVE FInv'
  OBVIOUS
<1>1. ASSUME UNCHANGED files, Reading \/ files = << >> \/ status' # "running"
      PROVE  FInv'
  BY <1>1 DEF FInv, Including, Reading
<1>2. ASSUME UNCHANGED <<files, conditionals, status>> PROVE FInv'
  BY <1>2 DEF FInv, Including, Active
<1>3. ASSUME NEW m \in Macros, NEW invert \in BOOLEAN, Ifdef(m, invert) PROVE FInv'
  BY <1>1, <1>3 DEF Ifdef, other
<1>4. ASSUME NEW c \in BOOLEAN, If(c) \/ Elif(c) PROVE FInv'
  BY <1>1, <1>4 DEF If, Elif, other
<1>5. CASE IfMalformed \/ ElifMalformed \/ Malformed \/ Else \/ Endif
  BY <1>1, <1>5 DEF IfMalformed, ElifMalformed, Malformed, Else, Endif, other
<1>6. ASSUME NEW m \in Macros, Define(m) \/ Undef(m) PROVE FInv'
  BY <1>1, <1>6 DEF Define, Undef
<1>7. CASE TextLine \/ PragmaOnce
  BY <1>1, <1>7 DEF TextLine, PragmaOnce
<1>8. CASE SpliceFails
  BY <1>1, <1>8 DEF SpliceFails, Fatal
<1>9. CASE EndOfRun \/ Fail
  BY <1>1, <1>9 DEF EndOfRun, Fail
<1>10. CASE UNCHANGED vars
  BY <1>2, <1>10 DEF vars
<1>11. ASSUME NEW name \in Names, NEW quoted \in BOOLEAN, Include(name, quoted)
       PROVE  FInv'
  <2> DEFINE x == [Top(files) EXCEPT !.including = TRUE, !.slot = "uninitialised",
                                     !.candidates = Candidates(name, quoted)]
  <2>1. files # << >> /\ Active /\ files' = ReplaceTop(files, x)
        /\ UNCHANGED conditionals
    BY <1>11 DEF Include, Reading
  <2>2. x \in Frame
    BY <2>1, CandidatesAreFiles, FramesAreFrames DEF Frame, Slots
  <2> HIDE DEF x
  <2>3. files' \in Seq(Frame)
    BY <2>1, <2>2, FramesAreFrames
  <2>4. Active'
    BY <2>1 DEF Active
  <2>5. QED BY <2>3, <2>4 DEF FInv
<1>12. CASE NextCandidate
  <2> DEFINE x == [Top(files) EXCEPT !.candidates = Tail(@),
                          !.slot = IF Candidate \in TooLong THEN @ ELSE "empty"]
  <2>1. files # << >> /\ Including /\ Top(files).candidates # << >>
        /\ files' = ReplaceTop(files, x) /\ UNCHANGED conditionals
    BY <1>12 DEF NextCandidate, Including
  <2>2. Top(files) \in Frame
    BY <2>1, FramesAreFrames
  <2>3. Tail(Top(files).candidates) \in Seq(File)
    BY <2>1, <2>2 DEF Frame
  <2>4. x \in Frame
    BY <2>2, <2>3 DEF Frame, Slots
  <2> HIDE DEF x
  <2>5. files' \in Seq(Frame)
    BY <2>1, <2>4, FramesAreFrames
  <2>6. Active'
    BY <2>1 DEF Active, FInv
  <2>7. QED BY <2>5, <2>6 DEF FInv
<1>13. ASSUME NEW spliced \in BOOLEAN, IncludeCandidate(spliced) PROVE FInv'
  <2>1. CASE Len(files) >= MaxDepth
    BY <1>1, <1>13, <2>1 DEF IncludeCandidate, Fatal
  <2>2. CASE ~(Len(files) >= MaxDepth)
    <3> DEFINE x == [Top(files) EXCEPT !.slot = "loaded"]
               y == Frame0(Candidate, spliced)
    <3>1. files # << >> /\ Candidate \in File
          /\ files' = Append(ReplaceTop(files, x), y)
      BY <1>13, <2>2, FileAssumption DEF IncludeCandidate, Including
    <3>2. x \in Frame
      BY <3>1, FramesAreFrames DEF Frame, Slots
    <3>3. y \in Frame /\ ~y.including
      BY <3>1, FrameOfFile
    <3> HIDE DEF x, y
    <3>4. ReplaceTop(files, x) \in Seq(Frame)
      BY <3>1, <3>2, FramesAreFrames
    <3>5. files' \in Seq(Frame) /\ files'[Len(files')] = y
      BY <3>1, <3>3, <3>4
    <3>6. ~Including'
      BY <3>3, <3>5 DEF Including, Top
    <3>7. QED BY <3>5, <3>6 DEF FInv
  <2>3. QED BY <2>1, <2>2
<1>14. CASE SkipOnceCandidate \/ NothingIncluded
  <2> DEFINE x == Included(Top(files))
  <2>1. files # << >> /\ files' = ReplaceTop(files, x)
    BY <1>14 DEF SkipOnceCandidate, NothingIncluded, Including
  <2>2. x \in Frame /\ ~x.including
    BY <2>1, FramesAreFrames, IncludedFrame
  <2> HIDE DEF x
  <2>3. files' \in Seq(Frame) /\ Top(files') = x
    BY <2>1, <2>2, FramesAreFrames
  <2>4. ~Including'
    BY <2>2, <2>3 DEF Including
  <2>5. QED BY <2>3, <2>4 DEF FInv
<1>15. CASE EndOfFile
  <2>1. files # << >>
    BY <1>15 DEF EndOfFile, Reading
  <2>2. CASE Len(files) = 1
    BY <1>15, <2>2 DEF EndOfFile, FInv, Including
  <2>3. CASE Len(files) # 1
    <3> DEFINE p == Pop(files)
               x == Included(Top(p))
    <3>1. p \in Seq(Frame) /\ Len(p) = Len(files) - 1 /\ Len(files) \in Nat
      BY <2>1, FramesAreFrames DEF FInv
    <3>2. p # << >> /\ Len(p) \in 1..Len(p)
      BY <2>1, <2>3, <3>1 DEF FInv
    <3>3. files' = ReplaceTop(p, x)
      BY <1>15, <2>3 DEF EndOfFile
    <3> HIDE DEF p
    <3>4. Top(p) \in Frame
      BY <3>1, <3>2 DEF Top
    <3>5. x \in Frame /\ ~x.including
      BY <3>4, IncludedFrame
    <3> HIDE DEF x
    <3>6. files' \in Seq(Frame) /\ files'[Len(files')] = x
      BY <3>1, <3>2, <3>3, <3>5 DEF ReplaceTop
    <3>7. ~Including'
      BY <3>5, <3>6 DEF Including, Top
    <3>8. QED BY <3>6, <3>7 DEF FInv
  <2>4. QED BY <2>2, <2>3
<1>16. CASE Unwind
  <2>1. files # << >> /\ files' = Pop(files) /\ status' # "running"
    BY <1>16 DEF Unwind
  <2>2. QED BY <2>1, FramesAreFrames DEF FInv, Including
<1>17. QED
  BY <1>3, <1>4, <1>5, <1>6, <1>7, <1>8, <1>9, <1>10, <1>11, <1>12, <1>13, <1>14,
     <1>15, <1>16 DEF Next

LEMMA FilesInvariance == Spec => []FInv
<1>1. Init => FInv
  <2> SUFFICES ASSUME Init PROVE FInv
    OBVIOUS
  <2>1. CASE files = << >>
    BY <2>1 DEF FInv, Including
  <2>2. ASSUME NEW spliced \in BOOLEAN, files = <<Frame0(Root, spliced)>>
        PROVE  FInv
    <3>1. Frame0(Root, spliced) \in Frame /\ ~Frame0(Root, spliced).including
      BY FrameOfFile, FileAssumption
    <3> DEFINE x == Frame0(Root, spliced)
    <3> HIDE DEF x
    <3>2. files = <<x>> /\ x \in Frame /\ ~x.including
      BY <2>2, <3>1 DEF x
    <3>3. QED BY <3>2 DEF FInv, Including, Top
  <2>3. QED BY <2>1, <2>2 DEF Init
<1>2. QED BY <1>1, FilesStep, PTL DEF Spec

\* In a skipped group nothing happens but the nesting.
THEOREM SkippedGroupsAreInert == Spec => SkippedGroupsDoNothing
<1> DEFINE Skipped == (files # << >> /\ ~reported
                        /\ \E i \in 1..Len(groups) : ~Selected(groups[i]))
           Inert == UNCHANGED <<defined, once>> /\ Len(files') <= Len(files)
<1>1. IInv /\ FInv /\ [Next]_vars => [Skipped => Inert]_vars
  <2> SUFFICES ASSUME IInv, FInv, Next, Skipped PROVE Inert
    BY DEF vars
  <2>1. ~Active
    <3>1. conditionals \in Seq(Conditional) /\ FlagsMean(conditionals, groups)
      BY DEF IInv
    <3>2. PICK i \in 1..Len(groups) : ~Selected(groups[i])
      OBVIOUS
    <3>3. Len(conditionals) \in 1..Len(conditionals) /\ i \in 1..Len(conditionals)
          /\ conditionals # << >>
      BY <3>1, <3>2 DEF FlagsMean
    <3>4. ~conditionals[Len(conditionals)].current_active
      BY <3>1, <3>2, <3>3 DEF FlagsMean
    <3>5. QED BY <3>3, <3>4 DEF Active, Top
  <2>2. ~Including
    BY <2>1 DEF FInv
  <2>3. Len(files) \in Nat
    BY DEF FInv
  <2>4. ASSUME UNCHANGED <<files, defined, once>> PROVE Inert
    BY <2>3, <2>4
  <2>5. ASSUME NEW m \in Macros, NEW invert \in BOOLEAN,
               Define(m) \/ Undef(m) \/ Ifdef(m, invert) PROVE Inert
    BY <2>1, <2>4, <2>5 DEF Define, Undef, Ifdef, other
  <2>6. ASSUME NEW c \in BOOLEAN, If(c) \/ Elif(c) PROVE Inert
    BY <2>4, <2>6 DEF If, Elif, other
  <2>7. CASE IfMalformed \/ ElifMalformed \/ Malformed \/ Else \/ Endif
    BY <2>4, <2>7 DEF IfMalformed, ElifMalformed, Malformed, Else, Endif, other
  <2>8. CASE TextLine \/ PragmaOnce \/ \E name \in Names, quoted \in BOOLEAN :
                                         Include(name, quoted)
    BY <2>1, <2>8 DEF TextLine, PragmaOnce, Include
  <2>9. CASE \/ NextCandidate \/ SkipOnceCandidate \/ SpliceFails \/ NothingIncluded
             \/ \E spliced \in BOOLEAN : IncludeCandidate(spliced)
    BY <2>2, <2>9 DEF NextCandidate, SkipOnceCandidate, SpliceFails, NothingIncluded,
       IncludeCandidate
  <2>10. CASE EndOfRun \/ Fail
    BY <2>10 DEF EndOfRun, Fail
  <2>11. CASE Unwind
    <3>1. files' = Pop(files) /\ UNCHANGED <<defined, once>>
      BY <2>11 DEF Unwind
    <3>2. QED BY <2>3, <3>1, FramesAreFrames
  <2>12. CASE EndOfFile
    <3>1. UNCHANGED <<defined, once>>
      BY <2>12 DEF EndOfFile
    <3>2. CASE Len(files) = 1
      BY <2>12, <3>1, <3>2 DEF EndOfFile
    <3>3. CASE Len(files) # 1
      <4> DEFINE p == Pop(files)
      <4>1. p \in Seq(Frame) /\ Len(p) = Len(files) - 1
        BY FramesAreFrames
      <4>2. \E x : files' = ReplaceTop(p, x)
        BY <2>12, <3>3 DEF EndOfFile
      <4> HIDE DEF p
      <4>3. Len(files') = Len(p)
        BY <4>1, <4>2 DEF ReplaceTop
      <4>4. QED BY <2>3, <3>1, <4>1, <4>3
    <3>4. QED BY <3>2, <3>3
  <2>13. QED
    BY <2>5, <2>6, <2>7, <2>8, <2>9, <2>10, <2>11, <2>12 DEF Next
<1>2. QED
  BY <1>1, Invariance, FilesInvariance, PTL DEF Spec, SkippedGroupsDoNothing

-----------------------------------------------------------------------------
(***************************************************************************)
(* What is loaded is what the open files own: each but the first its       *)
(* source file, and each that has one its spliced copy.                    *)
(***************************************************************************)
Spliced(fs) == {i \in 1..Len(fs) : fs[i].spliced}

Owned(fs) == Cardinality(Spliced(fs)) + (IF fs = << >> THEN 0 ELSE Len(fs) - 1)

OwnerInv ==
  /\ live = Owned(files)
  /\ status \in {"ok", "failed"} => files = << >>

LEMMA NothingOwned == Owned(<< >>) = 0
<1>1. Spliced(<< >>) = {}
  BY DEF Spliced
<1> QED BY <1>1, FS_EmptySet DEF Owned

LEMMA OwnedByOne ==
  ASSUME NEW x \in Frame PROVE Owned(<<x>>) = IF x.spliced THEN 1 ELSE 0
<1>1. Spliced(<<x>>) = IF x.spliced THEN {1} ELSE {}
  BY DEF Spliced
<1>2. Cardinality({1}) = 1 /\ Cardinality({}) = 0
  BY FS_EmptySet, FS_Singleton
<1> QED BY <1>1, <1>2 DEF Owned

\* The innermost file owns its splice copy and, if it was included, its source.
LEMMA OwnedByTop ==
  ASSUME NEW fs \in Seq(Frame), fs # << >>
  PROVE  /\ Owned(fs) \in Nat /\ Owned(Pop(fs)) \in Nat
         /\ Owned(fs) = Owned(Pop(fs)) + Disposed(Top(fs), Len(fs) > 1)
<1> DEFINE n == Len(fs)
           gs == Pop(fs)
<1>1. n \in Nat /\ n >= 1 /\ Len(gs) = n - 1 /\ gs \in Seq(Frame)
      /\ \A i \in 1..n - 1 : gs[i] = fs[i]
  <2>1. gs \in Seq(Frame) /\ Len(gs) = n - 1
    BY PopOfSequence
  <2> QED BY <2>1 DEF Pop
<1>2. gs = << >> <=> n = 1
  BY <1>1
<1> HIDE DEF n, gs
<1>3. Spliced(gs) = Spliced(fs) \ {n}
  BY <1>1 DEF Spliced, n
<1>4. IsFiniteSet(Spliced(fs)) /\ Cardinality(Spliced(fs)) \in Nat
  <2>1. Spliced(fs) \subseteq 1..n /\ IsFiniteSet(1..n)
    BY <1>1, FS_Interval DEF Spliced, n
  <2> QED BY <2>1, FS_Subset, FS_CardinalityType
<1>5. /\ Cardinality(Spliced(gs)) \in Nat
      /\ Cardinality(Spliced(fs)) = Cardinality(Spliced(gs)) + (IF Top(fs).spliced THEN 1 ELSE 0)
  <2>1. n \in Spliced(fs) <=> Top(fs).spliced
    BY <1>1 DEF Spliced, Top, n
  <2>2. IsFiniteSet(Spliced(gs)) /\ Cardinality(Spliced(gs)) \in Nat
    BY <1>3, <1>4, FS_RemoveElement, FS_CardinalityType
  <2>3. CASE n \in Spliced(fs)
    BY <1>3, <1>4, <2>1, <2>2, <2>3, FS_RemoveElement
  <2>4. CASE n \notin Spliced(fs)
    <3>1. Spliced(gs) = Spliced(fs)
      BY <1>3, <2>4
    <3> QED BY <1>4, <2>1, <2>4, <3>1
  <2> QED BY <2>3, <2>4
<1> QED BY <1>1, <1>2, <1>5 DEF Owned, Disposed, n, gs

\* What a file owns does not depend on how far its includes have come.
LEMMA OwnedByChanged ==
  ASSUME NEW fs \in Seq(Frame), fs # << >>, NEW x \in Frame, x.spliced = Top(fs).spliced
  PROVE  Owned(ReplaceTop(fs, x)) = Owned(fs)
<1> DEFINE gs == ReplaceTop(fs, x)
<1>1. /\ Len(gs) = Len(fs) /\ gs # << >>
      /\ \A i \in 1..Len(fs) : gs[i] = IF i = Len(fs) THEN x ELSE fs[i]
  BY DEF ReplaceTop
<1> HIDE DEF gs
<1>2. Spliced(gs) = Spliced(fs)
  BY <1>1 DEF Spliced, Top
<1> QED BY <1>1, <1>2 DEF Owned, gs

LEMMA OwnedByAppended ==
  ASSUME NEW fs \in Seq(Frame), fs # << >>, NEW x \in Frame
  PROVE  Owned(Append(fs, x)) = Owned(fs) + (IF x.spliced THEN 2 ELSE 1)
<1> DEFINE gs == Append(fs, x)
<1>1. /\ gs \in Seq(Frame) /\ gs # << >> /\ Len(gs) > 1
      /\ Pop(gs) = fs /\ Top(gs) = x
  BY DEF Pop, Top
<1> HIDE DEF gs
<1>2. Owned(gs) = Owned(fs) + Disposed(x, TRUE) /\ Owned(fs) \in Nat
  BY <1>1, OwnedByTop
<1> QED BY <1>2 DEF Disposed, gs

LEMMA OwnerStep ==
  ASSUME IInv, FInv, OwnerInv, [Next]_vars PROVE OwnerInv'
<1>1. ASSUME UNCHANGED <<files, live>>, status' \in {"ok", "failed"} => files = << >>
      PROVE  OwnerInv'
  BY <1>1 DEF OwnerInv
<1>2. ASSUME files # << >>, UNCHANGED live, status' \notin {"ok", "failed"},
             NEW x \in Frame, files' = ReplaceTop(files, x), x.spliced = Top(files).spliced
      PROVE  OwnerInv'
  BY <1>2, OwnedByChanged DEF OwnerInv, FInv
<1>3. ASSUME NEW m \in Macros, NEW invert \in BOOLEAN,
             Define(m) \/ Undef(m) \/ Ifdef(m, invert) PROVE OwnerInv'
  BY <1>1, <1>3 DEF Define, Undef, Ifdef, other, Reading, Fatal
<1>4. ASSUME NEW c \in BOOLEAN, If(c) \/ Elif(c) PROVE OwnerInv'
  BY <1>1, <1>4 DEF If, Elif, other, Reading
<1>5. CASE IfMalformed \/ ElifMalformed \/ Malformed \/ Else \/ Endif
  BY <1>1, <1>5 DEF IfMalformed, ElifMalformed, Malformed, Else, Endif, other, Reading
<1>6. CASE TextLine \/ PragmaOnce \/ SpliceFails
  BY <1>1, <1>6 DEF TextLine, PragmaOnce, SpliceFails, Fatal, Reading, Including
<1>7. CASE EndOfRun \/ Fail
  BY <1>1, <1>7 DEF EndOfRun, Fail
<1>8. CASE UNCHANGED vars
  BY <1>8 DEF vars, OwnerInv
<1>9. ASSUME NEW name \in Names, NEW quoted \in BOOLEAN, Include(name, quoted)
      PROVE  OwnerInv'
  <2> DEFINE x == [Top(files) EXCEPT !.including = TRUE, !.slot = "uninitialised",
                                     !.candidates = Candidates(name, quoted)]
  <2>1. /\ files # << >> /\ UNCHANGED live /\ status' = "running"
        /\ files' = ReplaceTop(files, x)
    BY <1>9 DEF Include, Reading
  <2>2. x \in Frame /\ x.spliced = Top(files).spliced
    BY <2>1, CandidatesAreFiles, FramesAreFrames DEF Frame, Slots
  <2> HIDE DEF x
  <2> QED BY <1>2, <2>1, <2>2
<1>10. CASE NextCandidate
  <2> DEFINE x == [Top(files) EXCEPT !.candidates = Tail(@),
                          !.slot = IF Candidate \in TooLong THEN @ ELSE "empty"]
  <2>1. /\ files # << >> /\ UNCHANGED live /\ status' = "running"
        /\ Top(files).candidates # << >> /\ files' = ReplaceTop(files, x)
    BY <1>10 DEF NextCandidate, Including
  <2>2. Top(files) \in Frame
    BY <2>1, FramesAreFrames
  <2>3. Tail(Top(files).candidates) \in Seq(File)
    BY <2>1, <2>2 DEF Frame
  <2>4. x \in Frame /\ x.spliced = Top(files).spliced
    BY <2>2, <2>3 DEF Frame, Slots
  <2> HIDE DEF x
  <2> QED BY <1>2, <2>1, <2>4
<1>11. CASE SkipOnceCandidate \/ NothingIncluded
  <2> DEFINE x == Included(Top(files))
  <2>1. /\ files # << >> /\ UNCHANGED live /\ status' \in {"running", "undefined"}
        /\ files' = ReplaceTop(files, x)
    BY <1>11 DEF SkipOnceCandidate, NothingIncluded, Including
  <2>2. x \in Frame /\ x.spliced = Top(files).spliced
    BY <2>1, FramesAreFrames, IncludedFrame DEF Included, Frame
  <2> HIDE DEF x
  <2>3. status' \notin {"ok", "failed"}
    BY <2>1
  <2> QED BY <1>2, <2>1, <2>2, <2>3
<1>12. ASSUME NEW spliced \in BOOLEAN, IncludeCandidate(spliced) PROVE OwnerInv'
  <2>1. CASE Len(files) >= MaxDepth
    BY <1>1, <1>12, <2>1 DEF IncludeCandidate, Fatal
  <2>2. CASE ~(Len(files) >= MaxDepth)
    <3> DEFINE x == [Top(files) EXCEPT !.slot = "loaded"]
               y == Frame0(Candidate, spliced)
               gs == ReplaceTop(files, x)
    <3>1. /\ files # << >> /\ Candidate \in File /\ status' = "running"
          /\ files' = Append(gs, y)
          /\ live' = live + (IF spliced THEN 2 ELSE 1)
      BY <1>12, <2>2, FileAssumption DEF IncludeCandidate, Including
    <3>2. x \in Frame /\ x.spliced = Top(files).spliced
      BY <3>1, FramesAreFrames DEF Frame, Slots
    <3>3. y \in Frame /\ y.spliced = spliced
      BY <3>1, FrameOfFile DEF Frame0
    <3> HIDE DEF x, y
    <3>4. gs \in Seq(Frame) /\ gs # << >>
      BY <3>1, <3>2, FramesAreFrames DEF FInv
    <3>5. Owned(gs) = Owned(files)
      BY <3>1, <3>2, OwnedByChanged DEF FInv
    <3> HIDE DEF gs
    <3>6. Owned(files') = Owned(gs) + (IF spliced THEN 2 ELSE 1)
      BY <3>1, <3>3, <3>4, OwnedByAppended
    <3> QED BY <3>1, <3>5, <3>6 DEF OwnerInv
  <2> QED BY <2>1, <2>2
<1>13. CASE EndOfFile
  <2>1. /\ files # << >> /\ status' = "running" /\ files \in Seq(Frame)
        /\ live' = live - Disposed(Top(files), Len(files) > 1)
    BY <1>13 DEF EndOfFile, Reading, FInv
  <2>2. /\ Owned(files) \in Nat /\ Owned(Pop(files)) \in Nat
        /\ Owned(files) = Owned(Pop(files)) + Disposed(Top(files), Len(files) > 1)
    BY <2>1, OwnedByTop
  <2>3. Disposed(Top(files), Len(files) > 1) \in Nat
    BY DEF Disposed
  <2>4. live' = Owned(Pop(files))
    BY <2>1, <2>2, <2>3 DEF OwnerInv
  <2>5. Owned(files') = Owned(Pop(files))
    <3> DEFINE p == Pop(files)
               x == Included(Top(p))
    <3>1. p \in Seq(Frame) /\ Len(p) = Len(files) - 1 /\ Len(files) \in Nat
      BY <2>1, FramesAreFrames
    <3>2. CASE Len(files) = 1
      <4>1. p = << >> /\ files' = << >>
        BY <1>13, <3>1, <3>2 DEF EndOfFile
      <4> QED BY <4>1
    <3>3. CASE Len(files) # 1
      <4>1. files' = ReplaceTop(p, x)
        BY <1>13, <3>3 DEF EndOfFile
      <4> HIDE DEF p
      <4>2. p # << >> /\ Top(p) \in Frame
        BY <2>1, <3>1, <3>3 DEF Top
      <4>3. x \in Frame /\ x.spliced = Top(p).spliced
        BY <4>2, IncludedFrame DEF Included, Frame
      <4> HIDE DEF x
      <4> QED BY <3>1, <4>1, <4>2, <4>3, OwnedByChanged DEF p
    <3> QED BY <3>2, <3>3
  <2> QED BY <2>1, <2>4, <2>5 DEF OwnerInv
<1>14. CASE Unwind
  <2>1. /\ files # << >> /\ files' = Pop(files) /\ files \in Seq(Frame)
        /\ live' = live - Disposed(Top(files), Len(files) > 1)
        /\ status' = "unwinding"
    BY <1>14 DEF Unwind, FInv
  <2>2. /\ Owned(files) \in Nat /\ Owned(Pop(files)) \in Nat
        /\ Owned(files) = Owned(Pop(files)) + Disposed(Top(files), Len(files) > 1)
    BY <2>1, OwnedByTop
  <2>3. Disposed(Top(files), Len(files) > 1) \in Nat
    BY DEF Disposed
  <2> QED BY <2>1, <2>2, <2>3 DEF OwnerInv
<1> QED
  BY <1>3, <1>4, <1>5, <1>6, <1>7, <1>8, <1>9, <1>10, <1>11, <1>12, <1>13, <1>14 DEF Next

\* However a run ends, at whatever depth of inclusion an error stopped it, every
\* included source file and every spliced copy was disposed, and none twice.
THEOREM EverySourceIsDisposed == Spec => []SourcesAreDisposed
<1>1. Init => OwnerInv
  <2> SUFFICES ASSUME Init PROVE OwnerInv
    OBVIOUS
  <2>1. CASE files = << >> /\ live = 0
    BY <2>1, NothingOwned DEF OwnerInv
  <2>2. ASSUME NEW spliced \in BOOLEAN, files = <<Frame0(Root, spliced)>>,
               live = IF spliced THEN 1 ELSE 0, status = "running"
        PROVE  OwnerInv
    <3> DEFINE x == Frame0(Root, spliced)
    <3>1. x \in Frame /\ x.spliced = spliced
      BY FrameOfFile, FileAssumption DEF Frame0
    <3> HIDE DEF x
    <3>2. Owned(<<x>>) = IF spliced THEN 1 ELSE 0
      BY <3>1, OwnedByOne
    <3> QED BY <2>2, <3>2 DEF OwnerInv, x
  <2> QED BY <2>1, <2>2 DEF Init
<1>2. OwnerInv => SourcesAreDisposed
  BY NothingOwned DEF OwnerInv, SourcesAreDisposed
<1> QED BY <1>1, <1>2, OwnerStep, Invariance, FilesInvariance, PTL DEF Spec
=============================================================================
