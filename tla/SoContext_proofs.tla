-------------------------- MODULE SoContext_proofs --------------------------
(***************************************************************************)
(* Proofs about SoContext for any finite set of process slots, any size of *)
(* the zone, both builds and any number of kills.                          *)
(***************************************************************************)
EXTENDS SoContext, FiniteSetTheorems, WellFoundedInduction, TLAPS

(***************************************************************************)
(* The inductive invariant.  What a process holds follows from where it    *)
(* is; a forking process has its context's lock.                           *)
(***************************************************************************)
NoContext == {"none", "attach", "child_attach"}
Forking == {"fork", "forked", "fork_spin"}
WithContext == Forking \cup {"reg_call", "child_call", "child_served",
                             "exit_call", "exit_zone", "exit_sc"}

HoldInv ==
    \A p \in Procs :
        /\ pc[p] \in NoContext => sc[p] = NoOne
        /\ pc[p] \in WithContext => sc[p] # NoOne
        /\ pc[p] \in Forking => lock[sc[p]] = p

\* References that a context has, with the child that is not counted yet
Pending(c) == IF ForkPending(c) THEN 1 ELSE 0
Refs(c) == IF ~inuse[c] THEN 0 ELSE refcount[c] + Pending(c)

\* Where nobody was killed and children share contexts, the count is exact.
RefAt(c) ==
    /\ Cardinality(Holders(c)) <= Refs(c)
    /\ kills = 0 /\ ~ThreadHandle => Cardinality(Holders(c)) = Refs(c)
    /\ inuse[c] => refcount[c] # 0
RefInv == \A c \in Contexts : RefAt(c)

\* Who is inside the zone lock, and what fstack has counted there
ZoneInv ==
    /\ zlock = FStack <=> fsPc = "drain"
    /\ \A p \in Procs : zlock = p <=> pc[p] = "exit_sc"
    /\ fsPc = "window" => tmp = 0
    /\ fsPc = "drain" /\ tmp # 0 => tmp = Count - free

Inv == TypeOK /\ FreeMatches /\ HoldInv /\ RefInv /\ ZoneInv

-----------------------------------------------------------------------------
\* A set of numbers has a least element.
LEMMA LeastNat == ASSUME NEW T \in SUBSET Nat, T # {} PROVE \E i \in T : \A j \in T : i <= j
<1> DEFINE R == OpToRel(<, Nat)
<1>1. IsWellFoundedOn(R, Nat)  BY NatLessThanWellFounded
<1>2. PICK i \in T : \A j \in T : ~(<<j, i>> \in R)  BY <1>1, WFMin, Zenon
<1>3. ASSUME NEW j \in T PROVE i <= j
  <2>1. j < i => <<j, i>> \in R  BY DEF OpToRel
  <2>2. ~(j < i)  BY <1>2, <2>1
  <2> QED  BY <2>2
<1> QED  BY <1>3

\* The masked index stays in the zone ...
LEMMA SlotType == ASSUME idx \in 0 .. Count, NEW i \in Contexts PROVE Slot(i) \in Contexts
BY CountAssumption DEF Slot, Contexts

\* ... and reaches every context, wherever it starts.
LEMMA SlotOnto ==
    ASSUME idx \in 0 .. Count, NEW c \in Contexts
    PROVE  \E i \in Contexts : Slot(i) = c
<1> DEFINE i == IF c >= idx THEN c - idx ELSE c - idx + Count
<1>1. i \in Contexts  BY CountAssumption DEF Contexts
<1>2. Slot(i) = c
  <2>1. CASE Count = 1  BY <2>1 DEF Slot, Contexts
  <2>2. CASE Count = 2  BY <2>2 DEF Slot, Contexts
  <2>3. CASE Count = 4  BY <2>3 DEF Slot, Contexts
  <2>4. CASE Count = 8  BY <2>4 DEF Slot, Contexts
  <2>5. CASE Count = 16  BY <2>5 DEF Slot, Contexts
  <2>6. CASE Count = 32  BY <2>6 DEF Slot, Contexts
  <2> QED  BY <2>1, <2>2, <2>3, <2>4, <2>5, <2>6, CountAssumption
<1> QED  BY <1>1, <1>2

\* ff_attach_so_context finds a free context where there is one.
LEMMA AttachFree ==
    ASSUME idx \in 0 .. Count, CanAttach
    PROVE  \E c \in Contexts : c = Slot(FirstFree) /\ ~inuse[c]
<1> DEFINE T == {i \in Contexts : ~inuse[Slot(i)]}
<1>1. PICK c \in Contexts : ~inuse[c]  BY DEF CanAttach, InUse
<1>2. T # {}  BY <1>1, SlotOnto
<1>3. T \in SUBSET Nat  BY CountAssumption DEF Contexts
<1>4. PICK i \in T : \A j \in T : i <= j
  <2> HIDE DEF T
  <2> QED  BY <1>2, <1>3, LeastNat
<1>5. ASSUME NEW j \in 0 .. i - 1 PROVE inuse[Slot(j)]
  <2>1. j \in Contexts /\ ~(i <= j)  BY CountAssumption DEF Contexts
  <2>2. j \notin T  BY <1>4, <2>1
  <2> QED  BY <2>1, <2>2
<1>6. i \in Contexts /\ ~inuse[Slot(i)] /\ \A j \in 0 .. i - 1 : inuse[Slot(j)]  BY <1>5
<1>7. FirstFree \in Contexts /\ ~inuse[Slot(FirstFree)]  BY <1>6, Zenon DEF FirstFree
<1> QED  BY <1>7, SlotType

\* The zone's sets are finite.
LEMMA InUseFinite == IsFiniteSet(InUse) /\ Cardinality(InUse) \in 0 .. Count
<1>1. IsFiniteSet(Contexts) /\ Cardinality(Contexts) = Count
  BY FS_Interval, CountAssumption DEF Contexts
<1>2. InUse \in SUBSET Contexts  BY DEF InUse
<1>3. IsFiniteSet(InUse) /\ Cardinality(InUse) <= Count  BY <1>1, <1>2, FS_Subset
<1>4. Cardinality(InUse) \in Nat  BY <1>3, FS_CardinalityType
<1> QED  BY <1>3, <1>4, CountAssumption

\* Only finitely many processes hold a context.
LEMMA HoldersFinite ==
    ASSUME NEW c PROVE IsFiniteSet(Holders(c)) /\ Cardinality(Holders(c)) \in Nat
<1>1. Holders(c) \in SUBSET Procs  BY DEF Holders
<1>2. IsFiniteSet(Holders(c))  BY <1>1, ProcsAssumption, FS_Subset
<1> QED  BY <1>2, FS_CardinalityType

\* A context that a process holds is attached.
LEMMA HeldAttached == ASSUME Inv, NEW p \in Procs, sc[p] # NoOne PROVE inuse[sc[p]]
<1>1. sc[p] \in Contexts  BY DEF Inv, TypeOK
<1>2. Cardinality(Holders(sc[p])) # 0
  <2>1. p \in Holders(sc[p])  BY DEF Holders
  <2> QED  BY <2>1, HoldersFinite, FS_EmptySet
<1>3. Cardinality(Holders(sc[p])) \in Nat  BY HoldersFinite
<1> QED  BY <1>1, <1>2, <1>3 DEF Inv, RefInv, RefAt, Refs

-----------------------------------------------------------------------------
\* What ff_attach_so_context does, with its context named.
LEMMA AttachEffect ==
    ASSUME Inv, NEW p \in Procs, Attach(p)
    PROVE  \E c \in Contexts :
              /\ ~inuse[c] /\ zlock = NoOne /\ free # 0
              /\ sc[p] = NoOne /\ sc' = [sc EXCEPT ![p] = c]
              /\ inuse' = [inuse EXCEPT ![c] = TRUE]
              /\ lock' = [lock EXCEPT ![c] = NoOne]
              /\ refcount' = [refcount EXCEPT ![c] = 1]
              /\ free' = free - 1
              /\ idx' = c + 1
              /\ pc[p] \in {"attach", "child_attach"}
              /\ \E x \in {"run", "reg_call", "child_call"} :
                    /\ pc' = [pc EXCEPT ![p] = x]
                    /\ x # "run" \/ pc[p] = "attach"
<1>1. CanAttach /\ idx \in 0 .. Count  BY DEF Attach, Inv, TypeOK
<1>2. PICK c \in Contexts : c = Slot(FirstFree) /\ ~inuse[c]  BY <1>1, AttachFree
<1>3. pc[p] \in {"attach", "child_attach"}  BY DEF Attach
<1>4. sc[p] = NoOne  BY <1>3 DEF Inv, HoldInv, NoContext
<1>5. PICK x \in {"run", "reg_call", "child_call"} :
        pc' = [pc EXCEPT ![p] = x] /\ (x # "run" \/ pc[p] = "attach")
  <2>1. CASE pc[p] = "child_attach"  BY <2>1 DEF Attach
  <2>2. CASE pc[p] # "child_attach" /\ ThreadHandle  BY <2>2 DEF Attach
  <2>3. CASE pc[p] # "child_attach" /\ ~ThreadHandle  BY <1>3, <2>3 DEF Attach
  <2> QED  BY <2>1, <2>2, <2>3
<1>6. /\ zlock = NoOne
      /\ sc' = [sc EXCEPT ![p] = c]
      /\ inuse' = [inuse EXCEPT ![c] = TRUE]
      /\ lock' = [lock EXCEPT ![c] = NoOne]
      /\ refcount' = [refcount EXCEPT ![c] = 1]
      /\ free' = free - 1
      /\ idx' = c + 1
  BY <1>2 DEF Attach, TakeContext, FreeOnAttach
<1> QED  BY <1>1, <1>2, <1>3, <1>4, <1>5, <1>6 DEF CanAttach

\* Only attach and detach change the zone's counter and flags.
LEMMA ZoneKept ==
    ASSUME [Next]_vars
    PROVE  \/ \E p \in Procs : Attach(p) \/ Detach(p)
           \/ UNCHANGED <<free, idx, inuse>>
<1> USE DEF zoneVars
<1>1. ASSUME NEW p \in Procs, Start(p) \/ ForkLock(p) \/ Exit(p) \/ Kill(p) \/ FsServe(p)
      PROVE  UNCHANGED <<free, idx, inuse>>
  BY <1>1 DEF Start, ForkLock, Exit, Kill, FsServe
<1>2. ASSUME NEW p \in Procs, ProcStep(p)
      PROVE  Attach(p) \/ Detach(p) \/ UNCHANGED <<free, idx, inuse>>
  BY <1>2 DEF ProcStep, AttachFails, ForkFails, ForkParent, ForkSpinEnds, ChildDone,
              DetachZoneLock, Fork
<1>3. ASSUME NEW p \in Procs, NEW q \in Procs, ForkNoContext(p, q)
      PROVE  UNCHANGED <<free, idx, inuse>>
  BY <1>3 DEF ForkNoContext
<1>4. ASSUME FsStep PROVE UNCHANGED <<free, idx, inuse>>
  BY <1>4 DEF FsStep, FsEnter, FsWindow, FsRelock, FsLeave
<1>5. ASSUME UNCHANGED vars PROVE UNCHANGED <<free, idx, inuse>>
  BY <1>5 DEF vars
<1> QED  BY <1>1, <1>2, <1>3, <1>4, <1>5 DEF Next

\* Attach and detach keep the counter in step with the flags.
LEMMA StepFree == Inv /\ [Next]_vars => FreeMatches'
<1> SUFFICES ASSUME Inv, [Next]_vars PROVE FreeMatches'  OBVIOUS
<1>1. ASSUME NEW p \in Procs, Attach(p) PROVE FreeMatches'
  <2>1. PICK c \in Contexts : /\ ~inuse[c] /\ inuse' = [inuse EXCEPT ![c] = TRUE]
                              /\ free' = free - 1
    BY <1>1, AttachEffect
  <2>2. InUse' = InUse \cup {c} /\ c \notin InUse  BY <2>1 DEF InUse, Inv, TypeOK
  <2>3. Cardinality(InUse') = Cardinality(InUse) + 1  BY <2>2, InUseFinite, FS_AddElement
  <2> QED  BY <2>1, <2>3, InUseFinite, CountAssumption DEF Inv, FreeMatches
<1>2. ASSUME NEW p \in Procs, Detach(p) PROVE FreeMatches'
  <2> DEFINE c == sc[p]
  <2>1. CASE LastRef(c) /\ inuse[c]
    <3>1. inuse' = [inuse EXCEPT ![c] = FALSE] /\ free' = free + 1
      BY <1>2, <2>1 DEF Detach, FreeOnDetach
    <3>2. c \in Contexts  BY <1>2 DEF Inv, TypeOK, HoldInv, WithContext, Detach
    <3>3. InUse' = InUse \ {c} /\ c \in InUse
      BY <2>1, <3>1, <3>2 DEF InUse, Inv, TypeOK
    <3>4. Cardinality(InUse') = Cardinality(InUse) - 1
      BY <3>3, InUseFinite, FS_RemoveElement
    <3> QED  BY <3>1, <3>4, InUseFinite, CountAssumption DEF Inv, FreeMatches
  <2>2. CASE LastRef(c) /\ ~inuse[c]
    <3>1. inuse' = [inuse EXCEPT ![c] = FALSE] /\ free' = free
      BY <1>2, <2>2 DEF Detach, FreeOnDetach
    <3>2. InUse' = InUse  BY <2>2, <3>1 DEF InUse, Inv, TypeOK
    <3> QED  BY <3>1, <3>2 DEF Inv, FreeMatches
  <2>3. CASE ~LastRef(c)
    <3>1. inuse' = inuse /\ free' = free  BY <1>2, <2>3 DEF Detach, zoneVars
    <3> QED  BY <3>1 DEF Inv, FreeMatches, InUse
  <2> QED  BY <2>1, <2>2, <2>3
<1>3. ASSUME UNCHANGED <<free, idx, inuse>> PROVE FreeMatches'
  BY <1>3 DEF Inv, FreeMatches, InUse
<1> QED  BY <1>1, <1>2, <1>3, ZoneKept

\* Every action keeps the types.
LEMMA StepType == Inv /\ [Next]_vars => TypeOK'
<1> SUFFICES ASSUME Inv, [Next]_vars PROVE TypeOK'  OBVIOUS
<1>0. free' \in 0 .. Count
  <2>1. FreeMatches'  BY StepFree
  <2>2. (Cardinality(InUse) \in 0 .. Count)'  BY InUseFinite, PTL
  <2> QED  BY <2>1, <2>2, CountAssumption DEF FreeMatches
<1> USE <1>0 DEF Inv, TypeOK, zoneVars, scVars, procVars, fsVars, Contexts
<1>1. ASSUME NEW p \in Procs, Start(p) PROVE TypeOK'
  BY <1>1 DEF Start
<1>2. ASSUME NEW p \in Procs, Attach(p) PROVE TypeOK'
  <2>1. PICK c \in Contexts :
          /\ sc' = [sc EXCEPT ![p] = c]
          /\ inuse' = [inuse EXCEPT ![c] = TRUE]
          /\ lock' = [lock EXCEPT ![c] = NoOne]
          /\ refcount' = [refcount EXCEPT ![c] = 1]
          /\ idx' = c + 1
          /\ \E x \in {"run", "reg_call", "child_call"} : pc' = [pc EXCEPT ![p] = x]
    BY <1>2, AttachEffect
  <2>2. UNCHANGED <<zlock, forking, parent_sc, child, fsVars, kills>>
    BY <1>2 DEF Attach, TakeContext
  <2>3. idx' \in 0 .. Count  BY <2>1, CountAssumption
  <2> QED  BY <2>1, <2>2, <2>3
<1>3. ASSUME NEW p \in Procs, AttachFails(p) PROVE TypeOK'
  BY <1>3 DEF AttachFails
<1>4. ASSUME NEW p \in Procs, ForkLock(p) PROVE TypeOK'
  BY <1>4 DEF ForkLock
<1>5. ASSUME NEW p \in Procs, NEW q \in Procs, Fork(p, q) PROVE TypeOK'
  BY <1>5 DEF Fork
<1>6. ASSUME NEW p \in Procs, NEW q \in Procs, ForkNoContext(p, q) PROVE TypeOK'
  BY <1>6 DEF ForkNoContext
<1>7. ASSUME NEW p \in Procs, ForkFails(p) PROVE TypeOK'
  BY <1>7 DEF ForkFails
<1>8. ASSUME NEW p \in Procs, ForkParent(p) PROVE TypeOK'
  <2>0. sc[p] \in Contexts  BY <1>8 DEF ForkParent, HoldInv, WithContext, Forking
  <2>1. refcount' \in [Contexts -> Nat]  BY <1>8, <2>0 DEF ForkParent, RefAfterFork
  <2>2. CASE ThreadHandle  BY <1>8, <2>1, <2>2 DEF ForkParent
  <2>3. CASE ~ThreadHandle  BY <1>8, <2>1, <2>3 DEF ForkParent
  <2> QED  BY <2>2, <2>3
<1>9. ASSUME NEW p \in Procs, ForkSpinEnds(p) PROVE TypeOK'
  BY <1>9 DEF ForkSpinEnds, ScLockAfterFork
<1>10. ASSUME NEW p \in Procs, ChildDone(p) PROVE TypeOK'
  BY <1>10 DEF ChildDone
<1>11. ASSUME NEW p \in Procs, Exit(p) PROVE TypeOK'
  <2>1. PICK x \in {"none", "exit_call", "exit_zone"} : pc' = [pc EXCEPT ![p] = x]
    BY <1>11 DEF Exit
  <2> QED  BY <1>11, <2>1 DEF Exit
<1>12. ASSUME NEW p \in Procs, DetachZoneLock(p) PROVE TypeOK'
  BY <1>12 DEF DetachZoneLock
<1>13. ASSUME NEW p \in Procs, Detach(p) PROVE TypeOK'
  <2>1. refcount' \in [Contexts -> Nat] /\ inuse' \in [Contexts -> BOOLEAN]
        /\ idx' \in 0 .. Count
    <3>1. CASE LastRef(sc[p])
      <4>1. refcount' = refcount /\ inuse' = [inuse EXCEPT ![sc[p]] = FALSE]
        BY <1>13, <3>1 DEF Detach
      <4>2. sc[p] \in Contexts  BY <1>13 DEF Detach, HoldInv, WithContext
      <4>3. idx' = sc[p] \/ idx' = idx  BY <1>13, <3>1 DEF Detach
      <4> QED  BY <4>1, <4>2, <4>3, CountAssumption
    <3>2. CASE ~LastRef(sc[p])
      <4>1. UNCHANGED <<inuse, idx>> /\ refcount' = [refcount EXCEPT ![sc[p]] = @ - 1]
        BY <1>13, <3>2 DEF Detach
      <4>2. sc[p] \in Contexts /\ refcount[sc[p]] - 1 \in Nat
        BY <1>13, <3>2 DEF Detach, HoldInv, WithContext, LastRef
      <4> QED  BY <4>1, <4>2
    <3> QED  BY <3>1, <3>2
  <2> QED  BY <1>13, <2>1 DEF Detach, ZoneLockAfterDetach
<1>14. ASSUME NEW p \in Procs, Kill(p) PROVE TypeOK'
  BY <1>14, FlagAssumption DEF Kill
<1>15. ASSUME NEW p \in Procs, FsServe(p) PROVE TypeOK'
  <2>1. PICK x \in {"run", "child_served", "exit_zone"} : pc' = [pc EXCEPT ![p] = x]
    BY <1>15 DEF FsServe
  <2> QED  BY <1>15, <2>1 DEF FsServe
<1>16. ASSUME FsEnter PROVE TypeOK'
  <2>1. tmp' \in 0 .. Count  BY <1>16, CountAssumption DEF FsEnter
  <2> QED  BY <1>16, <2>1 DEF FsEnter
<1>17. ASSUME FsWindow PROVE TypeOK'
  BY <1>17 DEF FsWindow
<1>18. ASSUME FsRelock PROVE TypeOK'
  BY <1>18 DEF FsRelock
<1>19. ASSUME FsLeave PROVE TypeOK'
  BY <1>19 DEF FsLeave
<1>20. ASSUME UNCHANGED vars PROVE TypeOK'
  BY <1>20 DEF vars
<1> QED
  BY <1>1, <1>2, <1>3, <1>4, <1>5, <1>6, <1>7, <1>8, <1>9, <1>10,
     <1>11, <1>12, <1>13, <1>14, <1>15, <1>16, <1>17, <1>18, <1>19, <1>20
     DEF Next, ProcStep, FsStep

\* Every action keeps HoldInv: nobody else touches the lock of a forking process.
LEMMA StepHold == Inv /\ [Next]_vars => HoldInv'
<1> SUFFICES ASSUME Inv, [Next]_vars PROVE HoldInv'  OBVIOUS
<1> USE NamesAssumption
        DEF Inv, TypeOK, HoldInv, NoContext, WithContext, Forking, zoneVars, scVars, procVars, fsVars
<1>1. ASSUME NEW p \in Procs, Start(p) PROVE HoldInv'
  BY <1>1 DEF Start
<1>2. ASSUME NEW p \in Procs, Attach(p) PROVE HoldInv'
  <2>1. PICK c \in Contexts :
          /\ ~inuse[c]
          /\ sc' = [sc EXCEPT ![p] = c]
          /\ lock' = [lock EXCEPT ![c] = NoOne]
          /\ \E x \in {"run", "reg_call", "child_call"} : pc' = [pc EXCEPT ![p] = x]
    BY <1>2, AttachEffect
  <2>2. \A r \in Procs : pc[r] \in Forking => sc[r] # c  BY <2>1, HeldAttached
  <2> QED  BY <2>1, <2>2
<1>3. ASSUME NEW p \in Procs, AttachFails(p) PROVE HoldInv'
  BY <1>3 DEF AttachFails
<1>4. ASSUME NEW p \in Procs, ForkLock(p) PROVE HoldInv'
  BY <1>4 DEF ForkLock
<1>5. ASSUME NEW p \in Procs, NEW q \in Procs, Fork(p, q) PROVE HoldInv'
  BY <1>5 DEF Fork
<1>6. ASSUME NEW p \in Procs, NEW q \in Procs, ForkNoContext(p, q) PROVE HoldInv'
  BY <1>6 DEF ForkNoContext
<1>7. ASSUME NEW p \in Procs, ForkFails(p) PROVE HoldInv'
  BY <1>7 DEF ForkFails
<1>8. ASSUME NEW p \in Procs, ForkParent(p) PROVE HoldInv'
  <2>1. CASE ThreadHandle  BY <1>8, <2>1 DEF ForkParent
  <2>2. CASE ~ThreadHandle  BY <1>8, <2>2 DEF ForkParent
  <2> QED  BY <2>1, <2>2
<1>9. ASSUME NEW p \in Procs, ForkSpinEnds(p) PROVE HoldInv'
  BY <1>9 DEF ForkSpinEnds, ScLockAfterFork
<1>10. ASSUME NEW p \in Procs, ChildDone(p) PROVE HoldInv'
  BY <1>10 DEF ChildDone
<1>11. ASSUME NEW p \in Procs, Exit(p) PROVE HoldInv'
  <2>1. CASE sc[p] = NoOne  BY <1>11, <2>1 DEF Exit
  <2>2. CASE sc[p] # NoOne
    <3>1. PICK x \in {"exit_call", "exit_zone"} : pc' = [pc EXCEPT ![p] = x]
      BY <1>11, <2>2 DEF Exit
    <3> QED  BY <1>11, <2>2, <3>1 DEF Exit
  <2> QED  BY <2>1, <2>2
<1>12. ASSUME NEW p \in Procs, DetachZoneLock(p) PROVE HoldInv'
  BY <1>12 DEF DetachZoneLock
<1>13. ASSUME NEW p \in Procs, Detach(p) PROVE HoldInv'
  BY <1>13 DEF Detach
<1>14. ASSUME NEW p \in Procs, Kill(p) PROVE HoldInv'
  BY <1>14 DEF Kill
<1>15. ASSUME NEW p \in Procs, FsServe(p) PROVE HoldInv'
  <2>1. PICK x \in {"run", "child_served", "exit_zone"} : pc' = [pc EXCEPT ![p] = x]
    BY <1>15 DEF FsServe
  <2> QED  BY <1>15, <2>1 DEF FsServe
<1>16. ASSUME FsEnter PROVE HoldInv'
  BY <1>16 DEF FsEnter
<1>17. ASSUME FsWindow PROVE HoldInv'
  BY <1>17 DEF FsWindow
<1>18. ASSUME FsRelock PROVE HoldInv'
  BY <1>18 DEF FsRelock
<1>19. ASSUME FsLeave PROVE HoldInv'
  BY <1>19 DEF FsLeave
<1>20. ASSUME UNCHANGED vars PROVE HoldInv'
  BY <1>20 DEF vars
<1> QED
  BY <1>1, <1>2, <1>3, <1>4, <1>5, <1>6, <1>7, <1>8, <1>9, <1>10,
     <1>11, <1>12, <1>13, <1>14, <1>15, <1>16, <1>17, <1>18, <1>19, <1>20
     DEF Next, ProcStep, FsStep

\* Every action keeps ZoneInv: fstack's count is right as long as it has the zone lock.
LEMMA StepZone == Inv /\ [Next]_vars => ZoneInv'
<1> SUFFICES ASSUME Inv, [Next]_vars PROVE ZoneInv'  OBVIOUS
<1> USE NamesAssumption
        DEF Inv, TypeOK, ZoneInv, zoneVars, scVars, procVars, fsVars
<1>1. ASSUME NEW p \in Procs, Start(p) PROVE ZoneInv'
  BY <1>1 DEF Start
<1>2. ASSUME NEW p \in Procs, Attach(p) PROVE ZoneInv'
  <2>1. /\ zlock = NoOne
        /\ \E x \in {"run", "reg_call", "child_call"} : pc' = [pc EXCEPT ![p] = x]
        /\ pc[p] \in {"attach", "child_attach"}
    BY <1>2, AttachEffect
  <2>2. UNCHANGED <<zlock, fsVars>>  BY <1>2 DEF Attach
  <2> QED  BY <2>1, <2>2
<1>3. ASSUME NEW p \in Procs, AttachFails(p) PROVE ZoneInv'
  BY <1>3 DEF AttachFails
<1>4. ASSUME NEW p \in Procs, ForkLock(p) PROVE ZoneInv'
  BY <1>4 DEF ForkLock
<1>5. ASSUME NEW p \in Procs, NEW q \in Procs, Fork(p, q) PROVE ZoneInv'
  BY <1>5 DEF Fork
<1>6. ASSUME NEW p \in Procs, NEW q \in Procs, ForkNoContext(p, q) PROVE ZoneInv'
  BY <1>6 DEF ForkNoContext
<1>7. ASSUME NEW p \in Procs, ForkFails(p) PROVE ZoneInv'
  BY <1>7 DEF ForkFails
<1>8. ASSUME NEW p \in Procs, ForkParent(p) PROVE ZoneInv'
  <2>1. \E x \in {"run", "fork_spin"} : pc' = [pc EXCEPT ![p] = x]  BY <1>8 DEF ForkParent
  <2>2. pc[p] = "forked" /\ UNCHANGED <<zlock, zoneVars, fsVars>>  BY <1>8 DEF ForkParent
  <2> QED  BY <2>1, <2>2
<1>9. ASSUME NEW p \in Procs, ForkSpinEnds(p) PROVE ZoneInv'
  BY <1>9 DEF ForkSpinEnds
<1>10. ASSUME NEW p \in Procs, ChildDone(p) PROVE ZoneInv'
  BY <1>10 DEF ChildDone
<1>11. ASSUME NEW p \in Procs, Exit(p) PROVE ZoneInv'
  <2>1. PICK x \in {"none", "exit_call", "exit_zone"} : pc' = [pc EXCEPT ![p] = x]
    BY <1>11 DEF Exit
  <2> QED  BY <1>11, <2>1 DEF Exit
<1>12. ASSUME NEW p \in Procs, DetachZoneLock(p) PROVE ZoneInv'
  BY <1>12 DEF DetachZoneLock
<1>13. ASSUME NEW p \in Procs, Detach(p) PROVE ZoneInv'
  <2>1. /\ pc[p] = "exit_sc" /\ pc' = [pc EXCEPT ![p] = "none"]
        /\ zlock' = NoOne /\ UNCHANGED fsVars
    BY <1>13 DEF Detach, ZoneLockAfterDetach
  <2> QED  BY <2>1
<1>14. ASSUME NEW p \in Procs, Kill(p) PROVE ZoneInv'
  BY <1>14 DEF Kill
<1>15. ASSUME NEW p \in Procs, FsServe(p) PROVE ZoneInv'
  <2>1. PICK x \in {"run", "child_served", "exit_zone"} : pc' = [pc EXCEPT ![p] = x]
    BY <1>15 DEF FsServe
  <2> QED  BY <1>15, <2>1 DEF FsServe
<1>16. ASSUME FsEnter PROVE ZoneInv'
  BY <1>16 DEF FsEnter
<1>17. ASSUME FsWindow PROVE ZoneInv'
  BY <1>17 DEF FsWindow, IdleRound
<1>18. ASSUME FsRelock PROVE ZoneInv'
  BY <1>18 DEF FsRelock
<1>19. ASSUME FsLeave PROVE ZoneInv'
  BY <1>19 DEF FsLeave
<1>20. ASSUME UNCHANGED vars PROVE ZoneInv'
  BY <1>20 DEF vars
<1> QED
  BY <1>1, <1>2, <1>3, <1>4, <1>5, <1>6, <1>7, <1>8, <1>9, <1>10,
     <1>11, <1>12, <1>13, <1>14, <1>15, <1>16, <1>17, <1>18, <1>19, <1>20
     DEF Next, ProcStep, FsStep

-----------------------------------------------------------------------------
\* A context whose holders, references and forking processes stay keeps RefAt.
LEMMA RefKept ==
    ASSUME NEW c \in Contexts, RefAt(c), kills' = kills,
           Holders(c)' = Holders(c), inuse'[c] = inuse[c], refcount'[c] = refcount[c],
           ForkPending(c)' <=> ForkPending(c)
    PROVE  RefAt(c)'
BY DEF RefAt, Refs, Pending

\* A process that moves without a fork keeps every context's references.
LEMMA RefMove ==
    ASSUME Inv, NEW p \in Procs, NEW x, pc' = [pc EXCEPT ![p] = x],
           pc[p] # "forked", x # "forked", UNCHANGED <<sc, inuse, refcount, kills>>
    PROVE  RefInv'
<1> SUFFICES ASSUME NEW c \in Contexts PROVE RefAt(c)'  BY DEF RefInv, Contexts
<1>1. ForkPending(c)' <=> ForkPending(c)  BY DEF ForkPending, Inv, TypeOK
<1>2. Holders(c)' = Holders(c)  BY DEF Holders
<1> QED  BY <1>1, <1>2, RefKept DEF Inv, RefInv

\* A context's lock belongs to one process: it has one fork at a time.
LEMMA OneFork ==
    ASSUME Inv, NEW p \in Procs, pc[p] \in {"fork", "forked"},
           NEW r \in Procs, pc[r] = "forked", sc[r] = sc[p]
    PROVE  r = p
BY DEF Inv, HoldInv, Forking

\* fstack's own steps touch no reference.
LEMMA RefStill ==
    ASSUME Inv, UNCHANGED <<pc, sc, inuse, refcount, kills>> PROVE RefInv'
<1> SUFFICES ASSUME NEW c \in Contexts PROVE RefAt(c)'  BY DEF RefInv, Contexts
<1>1. (ForkPending(c)' <=> ForkPending(c)) /\ Holders(c)' = Holders(c)
  BY DEF ForkPending, Holders
<1> QED  BY <1>1, RefKept DEF Inv, RefInv

\* Every action keeps the reference counts: fork adds what it counts, detach takes what it held.
LEMMA StepRef == Inv /\ [Next]_vars => RefInv'
<1> SUFFICES ASSUME Inv, [Next]_vars PROVE RefInv'  OBVIOUS
<1>1. ASSUME NEW p \in Procs, Start(p) PROVE RefInv'
  BY <1>1, RefMove DEF Start, zoneVars, scVars
<1>2. ASSUME NEW p \in Procs, Attach(p) PROVE RefInv'
  <2>1. PICK c \in Contexts :
          /\ ~inuse[c] /\ sc[p] = NoOne
          /\ sc' = [sc EXCEPT ![p] = c]
          /\ inuse' = [inuse EXCEPT ![c] = TRUE]
          /\ refcount' = [refcount EXCEPT ![c] = 1]
          /\ pc[p] \in {"attach", "child_attach"}
          /\ \E x \in {"run", "reg_call", "child_call"} : pc' = [pc EXCEPT ![p] = x]
    BY <1>2, AttachEffect
  <2>2. kills' = kills  BY <1>2 DEF Attach
  <2>3. ASSUME NEW d \in Contexts, d # c PROVE RefAt(d)'
    <3>1. ForkPending(d)' <=> ForkPending(d)
      BY <2>1, <2>3, NamesAssumption DEF ForkPending, Inv, TypeOK
    <3>2. Holders(d)' = Holders(d)
      BY <2>1, <2>3, NamesAssumption DEF Holders, Inv, TypeOK
    <3>3. inuse'[d] = inuse[d] /\ refcount'[d] = refcount[d]
      BY <2>1, <2>3 DEF Inv, TypeOK
    <3> QED  BY <2>2, <3>1, <3>2, <3>3, RefKept DEF Inv, RefInv
  <2>4. RefAt(c)'
    <3>1. \A r \in Procs : sc[r] # c  BY <2>1, HeldAttached, NamesAssumption
    <3>2. Holders(c)' = {p}  BY <2>1, <3>1 DEF Holders, Inv, TypeOK
    <3>3. Cardinality(Holders(c)') = 1  BY <3>2, FS_Singleton
    <3>4. ~ForkPending(c)'  BY <2>1, <3>1 DEF ForkPending, Inv, TypeOK
    <3>5. inuse'[c] /\ refcount'[c] = 1  BY <2>1 DEF Inv, TypeOK
    <3> QED  BY <3>3, <3>4, <3>5 DEF RefAt, Refs, Pending
  <2> QED  BY <2>3, <2>4 DEF RefInv, Contexts
<1>3. ASSUME NEW p \in Procs, AttachFails(p) PROVE RefInv'
  <2>1. /\ pc[p] \in {"attach", "child_attach"}
        /\ \E x \in {"run", "none"} : pc' = [pc EXCEPT ![p] = x]
        /\ sc' = [sc EXCEPT ![p] = NoOne]
        /\ UNCHANGED <<inuse, refcount, kills>>
    BY <1>3 DEF AttachFails, zoneVars, scVars
  <2>2. sc' = sc  BY <2>1 DEF Inv, TypeOK, HoldInv, NoContext
  <2> QED  BY <2>1, <2>2, RefMove
<1>4. ASSUME NEW p \in Procs, ForkLock(p) PROVE RefInv'
  BY <1>4, RefMove DEF ForkLock, zoneVars
<1>5. ASSUME NEW p \in Procs, NEW q \in Procs, Fork(p, q) PROVE RefInv'
  <2> PICK c : c = sc[p]  OBVIOUS
  <2>1. /\ pc[p] = "fork" /\ pc[q] = "none" /\ p # q
        /\ c \in Contexts /\ inuse[c] /\ sc[q] = NoOne
        /\ UNCHANGED <<inuse, refcount, kills>>
    <3>1. pc[p] = "fork" /\ pc[q] = "none"  BY <1>5 DEF Fork
    <3>2. c \in Contexts /\ c # NoOne /\ sc[q] = NoOne
      BY <3>1 DEF Inv, TypeOK, HoldInv, NoContext, WithContext, Forking
    <3>3. inuse[c]  BY <3>2, HeldAttached
    <3> QED  BY <1>5, <3>1, <3>2, <3>3 DEF Fork, zoneVars, scVars
  <2>2. \E x \in {"child_attach", "run"} : pc' = [pc EXCEPT ![p] = "forked", ![q] = x]
    BY <1>5 DEF Fork
  <2>3. \A d \in Contexts : d # c => (ForkPending(d)' <=> ForkPending(d))
    <3>1. \A r \in Procs : r # q => sc'[r] = sc[r]  BY <1>5 DEF Fork, Inv, TypeOK
    <3>2. \A r \in Procs : r # p => (pc'[r] = "forked" <=> pc[r] = "forked")
      BY <2>1, <2>2 DEF Inv, TypeOK
    <3>3. pc'[q] # "forked"  BY <2>1, <2>2 DEF Inv, TypeOK
    <3> QED  BY <2>1, <3>1, <3>2, <3>3 DEF ForkPending
  <2>4. ~ForkPending(c)  BY <2>1, OneFork DEF ForkPending
  <2>5. ForkPending(c)'
    <3>1. pc'[p] = "forked" /\ sc'[p] = c  BY <1>5, <2>1, <2>2 DEF Fork, Inv, TypeOK
    <3> QED  BY <3>1 DEF ForkPending
  <2>6. RefAt(c)  BY <2>1 DEF Inv, RefInv
  <2>7. Cardinality(Holders(c)) \in Nat /\ IsFiniteSet(Holders(c))  BY HoldersFinite
  <2>8. refcount[c] \in Nat  BY <2>1 DEF Inv, TypeOK
  <2>9. CASE ThreadHandle
    <3>1. sc' = sc  BY <1>5, <2>1, <2>9 DEF Fork, Inv, TypeOK
    <3>2. \A d \in Contexts : Holders(d)' = Holders(d)  BY <3>1 DEF Holders
    <3>3. RefAt(c)'
      BY <2>1, <2>4, <2>5, <2>6, <2>7, <2>8, <2>9, <3>2 DEF RefAt, Refs, Pending
    <3>4. \A d \in Contexts : d # c => RefAt(d)'
      BY <2>1, <2>3, <3>2, RefKept DEF Inv, RefInv
    <3> QED  BY <3>3, <3>4 DEF RefInv, Contexts
  <2>10. CASE ~ThreadHandle
    <3>1. sc' = [sc EXCEPT ![q] = c]  BY <1>5, <2>10 DEF Fork
    <3>2. Holders(c)' = Holders(c) \cup {q} /\ q \notin Holders(c)
      BY <2>1, <3>1, NamesAssumption DEF Holders, Inv, TypeOK
    <3>3. Cardinality(Holders(c)') = Cardinality(Holders(c)) + 1
      BY <2>7, <3>2, FS_AddElement
    <3>4. RefAt(c)'
      BY <2>1, <2>4, <2>5, <2>6, <2>7, <2>8, <3>3 DEF RefAt, Refs, Pending
    <3>5. ASSUME NEW d \in Contexts, d # c PROVE RefAt(d)'
      <4>1. Holders(d)' = Holders(d)
        BY <2>1, <3>1, <3>5, NamesAssumption DEF Holders, Inv, TypeOK
      <4> QED  BY <2>1, <2>3, <3>5, <4>1, RefKept DEF Inv, RefInv
    <3> QED  BY <3>4, <3>5 DEF RefInv, Contexts
  <2> QED  BY <2>9, <2>10
<1>6. ASSUME NEW p \in Procs, NEW q \in Procs, ForkNoContext(p, q) PROVE RefInv'
  BY <1>6, RefMove DEF ForkNoContext, zoneVars, scVars
<1>7. ASSUME NEW p \in Procs, ForkFails(p) PROVE RefInv'
  BY <1>7, RefMove DEF ForkFails, zoneVars
<1>8. ASSUME NEW p \in Procs, ForkParent(p) PROVE RefInv'
  <2> PICK c : c = sc[p]  OBVIOUS
  <2>1. /\ pc[p] = "forked" /\ c \in Contexts /\ inuse[c]
        /\ refcount' = [refcount EXCEPT ![c] = refcount[c] + 1]
        /\ UNCHANGED <<sc, inuse, kills>>
    <3>1. pc[p] = "forked"  BY <1>8 DEF ForkParent
    <3>2. c \in Contexts /\ c # NoOne
      BY <3>1 DEF Inv, TypeOK, HoldInv, WithContext, Forking
    <3>3. inuse[c]  BY <3>2, HeldAttached
    <3> QED  BY <1>8, <3>1, <3>2, <3>3 DEF ForkParent, zoneVars, RefAfterFork
  <2>2. \E x \in {"run", "fork_spin"} : pc' = [pc EXCEPT ![p] = x]  BY <1>8 DEF ForkParent
  <2>3. \A d \in Contexts : Holders(d)' = Holders(d)  BY <2>1 DEF Holders
  <2>4. ForkPending(c)  BY <2>1 DEF ForkPending
  <2>5. ~ForkPending(c)'
    <3>1. \A r \in Procs : pc'[r] = "forked" => r # p /\ pc[r] = "forked"
      BY <2>2 DEF Inv, TypeOK
    <3> QED  BY <2>1, <3>1, OneFork DEF ForkPending
  <2>6. RefAt(c)'
    <3>1. RefAt(c) /\ refcount[c] \in Nat /\ refcount'[c] = refcount[c] + 1
      BY <2>1 DEF Inv, RefInv, TypeOK
    <3>2. Cardinality(Holders(c)) \in Nat  BY HoldersFinite
    <3> QED  BY <2>1, <2>3, <2>4, <2>5, <3>1, <3>2 DEF RefAt, Refs, Pending
  <2>7. ASSUME NEW d \in Contexts, d # c PROVE RefAt(d)'
    <3>1. ForkPending(d)' <=> ForkPending(d)
      BY <2>1, <2>2, <2>7 DEF ForkPending, Inv, TypeOK
    <3>2. refcount'[d] = refcount[d]  BY <2>1, <2>7 DEF Inv, TypeOK
    <3> QED  BY <2>1, <2>3, <3>1, <3>2, RefKept DEF Inv, RefInv
  <2> QED  BY <2>6, <2>7 DEF RefInv, Contexts
<1>9. ASSUME NEW p \in Procs, ForkSpinEnds(p) PROVE RefInv'
  BY <1>9, RefMove DEF ForkSpinEnds, zoneVars
<1>10. ASSUME NEW p \in Procs, ChildDone(p) PROVE RefInv'
  BY <1>10, RefMove DEF ChildDone, zoneVars
<1>11. ASSUME NEW p \in Procs, Exit(p) PROVE RefInv'
  <2>1. \E x \in {"none", "exit_call", "exit_zone"} : pc' = [pc EXCEPT ![p] = x]
    BY <1>11 DEF Exit
  <2> QED  BY <1>11, <2>1, RefMove DEF Exit, zoneVars, scVars
<1>12. ASSUME NEW p \in Procs, DetachZoneLock(p) PROVE RefInv'
  BY <1>12, RefMove DEF DetachZoneLock, zoneVars, scVars
<1>13. ASSUME NEW p \in Procs, Detach(p) PROVE RefInv'
  <2> PICK c : c = sc[p]  OBVIOUS
  <2>1. /\ pc[p] = "exit_sc" /\ c \in Contexts /\ inuse[c] /\ lock[c] = NoOne
        /\ sc' = [sc EXCEPT ![p] = NoOne] /\ pc' = [pc EXCEPT ![p] = "none"]
        /\ kills' = kills
    <3>1. pc[p] = "exit_sc"  BY <1>13 DEF Detach
    <3>2. c \in Contexts /\ c # NoOne  BY <3>1 DEF Inv, TypeOK, HoldInv, WithContext
    <3>3. inuse[c]  BY <3>2, HeldAttached
    <3> QED  BY <1>13, <3>1, <3>2, <3>3 DEF Detach
  <2>2. ~ForkPending(c)
    BY <2>1, NamesAssumption DEF ForkPending, Inv, HoldInv, Forking
  <2>3. ~ForkPending(c)'  BY <2>1, <2>2 DEF ForkPending, Inv, TypeOK
  <2>4. Holders(c)' = Holders(c) \ {p} /\ p \in Holders(c)
    BY <2>1, NamesAssumption DEF Holders, Inv, TypeOK
  <2>5. /\ Cardinality(Holders(c)) \in Nat
        /\ Cardinality(Holders(c)') = Cardinality(Holders(c)) - 1
        /\ Cardinality(Holders(c)) # 0
    BY <2>4, HoldersFinite, FS_RemoveElement, FS_EmptySet
  <2>6. RefAt(c) /\ refcount[c] \in Nat  BY <2>1 DEF Inv, RefInv, TypeOK
  <2>7. RefAt(c)'
    <3>1. CASE LastRef(c)
      <4>1. ~inuse'[c]  BY <1>13, <2>1, <3>1 DEF Detach, Inv, TypeOK
      <4>2. Cardinality(Holders(c)) <= 1
        BY <2>1, <2>2, <2>5, <2>6, <3>1 DEF RefAt, Refs, Pending, LastRef
      <4>3. Cardinality(Holders(c)') = 0  BY <2>5, <4>2
      <4> QED  BY <4>1, <4>3 DEF RefAt, Refs
    <3>2. CASE ~LastRef(c)
      <4>1. inuse'[c] /\ refcount'[c] = refcount[c] - 1
        BY <1>13, <2>1, <3>2 DEF Detach, Inv, TypeOK, zoneVars
      <4>2. refcount[c] > 1  BY <2>6, <3>2 DEF LastRef
      <4> QED  BY <2>1, <2>2, <2>3, <2>5, <2>6, <4>1, <4>2 DEF RefAt, Refs, Pending
    <3> QED  BY <3>1, <3>2
  <2>8. ASSUME NEW d \in Contexts, d # c PROVE RefAt(d)'
    <3>1. ForkPending(d)' <=> ForkPending(d)  BY <2>1, <2>8 DEF ForkPending, Inv, TypeOK
    <3>2. Holders(d)' = Holders(d)
      BY <2>1, <2>8, NamesAssumption DEF Holders, Inv, TypeOK
    <3>3. inuse'[d] = inuse[d] /\ refcount'[d] = refcount[d]
      <4>1. CASE LastRef(c)  BY <1>13, <2>8, <4>1 DEF Detach, Inv, TypeOK
      <4>2. CASE ~LastRef(c)  BY <1>13, <2>8, <4>2 DEF Detach, Inv, TypeOK, zoneVars
      <4> QED  BY <4>1, <4>2
    <3> QED  BY <2>1, <3>1, <3>2, <3>3, RefKept DEF Inv, RefInv
  <2> QED  BY <2>7, <2>8 DEF RefInv, Contexts
<1>14. ASSUME NEW p \in Procs, Kill(p) PROVE RefInv'
  <2>1. /\ pc[p] = "run" /\ pc' = [pc EXCEPT ![p] = "none"]
        /\ sc' = [sc EXCEPT ![p] = NoOne]
        /\ kills' = kills + 1 /\ UNCHANGED <<inuse, refcount>>
    BY <1>14 DEF Kill, zoneVars, scVars
  <2>2. kills' # 0  BY <2>1, FlagAssumption DEF Inv, TypeOK
  <2>3. ASSUME NEW d \in Contexts PROVE RefAt(d)'
    <3>1. ForkPending(d)' <=> ForkPending(d)  BY <2>1 DEF ForkPending, Inv, TypeOK
    <3>2. Holders(d)' \in SUBSET Holders(d)
      BY <2>1, NamesAssumption DEF Holders, Inv, TypeOK
    <3>3. /\ Cardinality(Holders(d)') <= Cardinality(Holders(d))
          /\ Cardinality(Holders(d)) \in Nat /\ Cardinality(Holders(d)') \in Nat
      <4>1. IsFiniteSet(Holders(d)') /\ Cardinality(Holders(d)') <= Cardinality(Holders(d))
        BY <3>2, HoldersFinite, FS_Subset
      <4> QED  BY <4>1, HoldersFinite, FS_CardinalityType
    <3>4. Refs(d)' = Refs(d) /\ Refs(d) \in Nat
      BY <2>1, <3>1 DEF Refs, Pending, Inv, TypeOK
    <3>5. Cardinality(Holders(d)) <= Refs(d)  BY DEF Inv, RefInv, RefAt
    <3>6. Cardinality(Holders(d)') <= Refs(d)'  BY <3>3, <3>4, <3>5
    <3>7. inuse[d] => refcount[d] # 0  BY DEF Inv, RefInv, RefAt
    <3> QED  BY <2>1, <2>2, <3>6, <3>7 DEF RefAt
  <2> QED  BY <2>3 DEF RefInv, Contexts
<1>15. ASSUME NEW p \in Procs, FsServe(p) PROVE RefInv'
  <2>1. \E x \in {"run", "child_served", "exit_zone"} : pc' = [pc EXCEPT ![p] = x]
    BY <1>15 DEF FsServe
  <2> QED  BY <1>15, <2>1, RefMove DEF FsServe, zoneVars, scVars
<1>16. ASSUME FsEnter PROVE RefInv'
  BY <1>16, RefStill DEF FsEnter, zoneVars, scVars, procVars
<1>17. ASSUME FsWindow PROVE RefInv'
  BY <1>17, RefStill DEF FsWindow, zoneVars, scVars, procVars
<1>18. ASSUME FsRelock PROVE RefInv'
  BY <1>18, RefStill DEF FsRelock, zoneVars, scVars, procVars
<1>19. ASSUME FsLeave PROVE RefInv'
  BY <1>19, RefStill DEF FsLeave, zoneVars, scVars, procVars
<1>20. ASSUME UNCHANGED vars PROVE RefInv'
  BY <1>20, RefStill DEF vars, zoneVars, scVars, procVars
<1> QED
  BY <1>1, <1>2, <1>3, <1>4, <1>5, <1>6, <1>7, <1>8, <1>9, <1>10,
     <1>11, <1>12, <1>13, <1>14, <1>15, <1>16, <1>17, <1>18, <1>19, <1>20
     DEF Next, ProcStep, FsStep

\* The zone as ff_create_so_memzone leaves it
LEMMA InitInv == Init => Inv
<1> SUFFICES ASSUME Init PROVE Inv  OBVIOUS
<1>1. TypeOK  BY CountAssumption, FlagAssumption DEF Init, TypeOK, Contexts
<1>2. FreeMatches
  <2>1. InUse = {}  BY DEF Init, InUse
  <2> QED  BY <2>1, FS_EmptySet, CountAssumption DEF Init, FreeMatches
<1>3. HoldInv  BY DEF Init, HoldInv, NoContext, WithContext, Forking
<1>4. ASSUME NEW c \in Contexts PROVE RefAt(c)
  <2>1. Holders(c) = {}  BY NamesAssumption DEF Init, Holders
  <2>2. Cardinality(Holders(c)) = 0  BY <2>1, FS_EmptySet
  <2>3. ~inuse[c]  BY DEF Init
  <2> QED  BY <2>2, <2>3 DEF RefAt, Refs
<1>5. ZoneInv  BY NamesAssumption DEF Init, ZoneInv
<1> QED  BY <1>1, <1>2, <1>3, <1>4, <1>5 DEF Inv, RefInv

(***************************************************************************)
(* Attach, fork, detach and kill in any order keep Inv.                    *)
(***************************************************************************)
THEOREM ZoneInvariance == Spec => []Inv
<1>1. Inv /\ [Next]_vars => Inv'
  BY StepType, StepFree, StepHold, StepRef, StepZone DEF Inv
<1> QED  BY InitInv, <1>1, PTL DEF Spec

\* Every variable keeps its type: free and idx stay within the zone, and
\* ff_detach_so_context never takes a reference count below zero.
THEOREM ZoneTypes == Spec => []TypeOK
<1>1. Inv => TypeOK  BY DEF Inv
<1> QED  BY ZoneInvariance, <1>1, PTL

\* The zone's counter agrees with its flags, for any size of the zone.
THEOREM FreeCountExact == Spec => []FreeMatches
<1>1. Inv => FreeMatches  BY DEF Inv
<1> QED  BY ZoneInvariance, <1>1, PTL

\* No context goes back to the pool while a live process holds it.
THEOREM NeverFreedInUse == Spec => []HeldInUse
<1>1. Inv => HeldInUse
  <2> SUFFICES ASSUME Inv, NEW p \in Procs, sc[p] # NoOne PROVE Live(p) /\ inuse[sc[p]]
    BY DEF HeldInUse
  <2>1. Live(p)  BY DEF Live, Inv, HoldInv, NoContext
  <2> QED  BY <2>1, HeldAttached
<1> QED  BY ZoneInvariance, <1>1, PTL

\* The reference count covers all holders but a child that is just being forked.
THEOREM ReferencesCover == Spec => []RefCovers
<1>1. Inv => RefCovers  BY DEF Inv, RefInv, RefAt, Refs, Pending, RefCovers
<1> QED  BY ZoneInvariance, <1>1, PTL

\* Without kills, and where children share contexts, no context leaks.
THEOREM ContextsReturn == Spec => []NoLeak
<1>1. Inv => NoLeak
  <2> SUFFICES ASSUME Inv, kills = 0, ~ThreadHandle, NEW c \in Contexts, inuse[c], Holders(c) = {}
               PROVE  FALSE
    BY DEF NoLeak
  <2>1. Cardinality(Holders(c)) = 0  BY FS_EmptySet
  <2>2. refcount[c] + Pending(c) = 0 /\ refcount[c] \in Nat /\ refcount[c] # 0
    BY <2>1 DEF Inv, RefInv, RefAt, Refs, TypeOK
  <2> QED  BY <2>2 DEF Pending
<1> QED  BY ZoneInvariance, <1>1, PTL

\* A round of fstack that counted a context in use visits all of them.
THEOREM RoundsComplete == Spec => []ScanComplete
<1>1. Inv => ScanComplete
  <2> SUFFICES ASSUME Inv, fsPc = "drain", tmp # 0 PROVE Visited = InUse  BY DEF ScanComplete
  <2>1. tmp = Cardinality(InUse)
    BY InUseFinite, CountAssumption DEF Inv, ZoneInv, FreeMatches
  <2>2. ASSUME NEW c \in InUse PROVE Cardinality({d \in InUse : d < c}) < tmp
    <3> DEFINE below == {d \in InUse : d < c}
    <3>1. below \in SUBSET (InUse \ {c})  BY CountAssumption DEF InUse, Contexts
    <3>2. IsFiniteSet(InUse \ {c}) /\ Cardinality(InUse \ {c}) = Cardinality(InUse) - 1
      BY InUseFinite, FS_RemoveElement
    <3>3. Cardinality(below) <= Cardinality(InUse) - 1 /\ IsFiniteSet(below)
      <4> HIDE DEF below
      <4> QED  BY <3>1, <3>2, FS_Subset
    <3>4. Cardinality(below) \in Nat
      <4> HIDE DEF below
      <4> QED  BY <3>3, FS_CardinalityType
    <3> HIDE DEF below
    <3>5. Cardinality(below) < tmp  BY <2>1, <3>3, <3>4, InUseFinite
    <3> QED  BY <3>5 DEF below
  <2> QED  BY <2>2 DEF Visited
<1> QED  BY ZoneInvariance, <1>1, PTL
=============================================================================
