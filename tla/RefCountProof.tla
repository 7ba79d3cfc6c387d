--------------------------- MODULE RefCountProof ---------------------------
(***************************************************************************)
(* Proofs about RefCount: its safety invariants hold, and it implements    *)
(* ObjectLifetime, for every finite set of objects and references smaller  *)
(* than INT32_MAX.                                                         *)
(*                                                                         *)
(* The invariants the runs check are not inductive: that a release which   *)
(* sees 1 is the last one is a fact about how many references exist, so    *)
(* the inductive invariant IInv ties each count to the set of references   *)
(* it stands for, and each control point of a call to what is left of the  *)
(* object there.  Lemmas turn cardinalities into first-order facts once,   *)
(* so that the proof of a step is a case analysis without counting.        *)
(***************************************************************************)
EXTENDS RefCount, FiniteSetTheorems, TLAPS

Owners(o)  == Pointing({"strong"}, o)
Keepers(o) == Pointing({"weak"} \cup Dying, o)

TypeInv ==
    /\ heap \in [Object -> {"free", "live", "cleared"}]
    /\ strong \in [Object -> Int]
    /\ weak \in [Object -> Int]
    /\ st \in [Ref -> State]
    /\ at \in [Ref -> Object \cup {Null}]
    /\ lock \in [Local -> [from : Local \cup {Null}, current : Nat]]

\* What each control point finds at the other end of its pointer.
RefInv == \A r \in Ref :
    /\ st[r] = "null" <=> at[r] = Null
    /\ st[r] \in {"strong", "destructor", "memset"} => heap[at[r]] = "live"
    /\ st[r] \in {"weak", "locking"} => heap[at[r]] # "free"
    /\ st[r] \in {"sentinel", "free"} => heap[at[r]] = "cleared"

\* Fields hold strong references, only of live objects, and none once the
\* destructor has returned.
FieldInv == \A o \in Object :
    /\ st[o] \notin {"weak", "locking"}
    /\ st[o] # "null" => heap[o] = "live"
    /\ \A r \in Ref : st[r] = "memset" /\ at[r] = o => st[o] = "null"

\* A destruction in progress is the only one and has no strong competitor.
DeathInv == \A q \in Ref : st[q] \in Dying \cup {"free"} =>
    /\ strong[at[q]] = 0
    /\ st[q] = "free" => weak[at[q]] = 0
    /\ \A r \in Ref : st[r] \in Dying \cup {"free"} /\ at[r] = at[q] => r = q

\* Data is live only for an owner or for the destruction that will clear it.
LiveInv == \A o \in Object : heap[o] = "live" =>
    \/ strong[o] > 0
    \/ \E r \in Ref : st[r] \in {"destructor", "memset"} /\ at[r] = o

\* A promotion in progress reads through a weak reference that stays put.
LockInv == \A s \in Local :
    /\ st[s] = "locking" => /\ lock[s].from \in Local
                            /\ st[lock[s].from] = "weak"
                            /\ at[lock[s].from] = at[s]
    /\ st[s] # "locking" => lock[s] = NoLock

CountInv == \A o \in Object :
    /\ strong[o] = Cardinality(Owners(o))
    /\ weak[o] = Cardinality(Keepers(o)) + (IF strong[o] > 0 THEN 1 ELSE 0)

IInv == TypeInv /\ RefInv /\ FieldInv /\ DeathInv /\ LiveInv /\ LockInv /\ CountInv

-----------------------------------------------------------------------------
(* Counting. *)

LEMMA RefFinite == IsFiniteSet(Ref)
  BY RefCountAssumption, FS_Union DEF Ref

\* A set of references is finite, no larger than Ref, and its size tells
\* whether it is empty.
LEMMA PointingSize ==
  ASSUME NEW K, NEW o
  PROVE  /\ IsFiniteSet(Pointing(K, o))
         /\ Cardinality(Pointing(K, o)) \in Nat
         /\ Cardinality(Pointing(K, o)) <= Cardinality(Ref)
         /\ Cardinality(Pointing(K, o)) = 0 <=> Pointing(K, o) = {}
<1>1. Pointing(K, o) \in SUBSET Ref
  BY DEF Pointing
<1> QED BY <1>1, RefFinite, FS_Subset, FS_CardinalityType, FS_EmptySet

\* A set of one reference has no other member.
LEMMA OnlyOne ==
  ASSUME NEW S, IsFiniteSet(S), Cardinality(S) = 1, NEW q \in S, NEW r \in S
  PROVE  q = r
<1>1. PICK x : S = {x}
  BY FS_Singleton
<1> QED BY <1>1

\* Changing what reference r is moves at most r in or out of a set.
LEMMA BecomeSet ==
  ASSUME TypeInv, NEW r \in Ref, NEW k, NEW p, Become(r, k, p), NEW K, NEW o
  PROVE  Pointing(K, o)' = IF k \in K /\ p = o
                           THEN Pointing(K, o) \cup {r}
                           ELSE Pointing(K, o) \ {r}
  BY DEF TypeInv, Become, Pointing

\* ... and so changes its size by one at most.
LEMMA BecomeSize ==
  ASSUME TypeInv, NEW r \in Ref, NEW k, NEW p, Become(r, k, p), NEW K, NEW o
  PROVE  Cardinality(Pointing(K, o)') =
           Cardinality(Pointing(K, o))
             - (IF st[r] \in K /\ at[r] = o THEN 1 ELSE 0)
             + (IF k \in K /\ p = o THEN 1 ELSE 0)
<1>1. IsFiniteSet(Pointing(K, o)) /\ Cardinality(Pointing(K, o)) \in Nat
  BY PointingSize
<1>2. r \in Pointing(K, o) <=> st[r] \in K /\ at[r] = o
  BY DEF Pointing
<1>3. Cardinality(Pointing(K, o) \cup {r}) =
        IF r \in Pointing(K, o) THEN Cardinality(Pointing(K, o))
                                ELSE Cardinality(Pointing(K, o)) + 1
  BY <1>1, FS_AddElement
<1>4. Cardinality(Pointing(K, o) \ {r}) =
        IF r \in Pointing(K, o) THEN Cardinality(Pointing(K, o)) - 1
                                ELSE Cardinality(Pointing(K, o))
  BY <1>1, FS_RemoveElement
<1>5. Pointing(K, o)' = IF k \in K /\ p = o THEN Pointing(K, o) \cup {r}
                                             ELSE Pointing(K, o) \ {r}
  BY BecomeSet
<1>6. CASE k \in K /\ p = o
  BY <1>1, <1>2, <1>3, <1>5, <1>6
<1>7. CASE ~(k \in K /\ p = o)
  BY <1>1, <1>2, <1>4, <1>5, <1>7
<1> QED BY <1>6, <1>7

\* The consequences of the counts that the steps rely on.
LEMMA CountFacts ==
  ASSUME IInv, NEW o \in Object
  PROVE  /\ strong[o] \in Nat /\ weak[o] \in Nat
         /\ strong[o] < CountMax
         /\ strong[o] = 0 <=> Owners(o) = {}
         /\ weak[o] = 0 => Keepers(o) = {}
         /\ Keepers(o) # {} => weak[o] >= 1
         /\ \A q, r \in Owners(o) : strong[o] = 1 => q = r
         /\ \A q, r \in Keepers(o) : weak[o] = 1 => q = r /\ strong[o] = 0
         /\ (\E s \in Ref : st[s] = "null") => weak[o] < CountMax
         /\ heap[o] = "free" => strong[o] = 0 /\ weak[o] = 0
<1>1. /\ strong[o] = Cardinality(Owners(o))
      /\ weak[o] = Cardinality(Keepers(o)) + (IF strong[o] > 0 THEN 1 ELSE 0)
  BY DEF IInv, CountInv
<1>2. /\ IsFiniteSet(Owners(o)) /\ Cardinality(Owners(o)) \in Nat
      /\ Cardinality(Owners(o)) <= Cardinality(Ref)
      /\ Cardinality(Owners(o)) = 0 <=> Owners(o) = {}
      /\ IsFiniteSet(Keepers(o)) /\ Cardinality(Keepers(o)) \in Nat
      /\ Cardinality(Keepers(o)) = 0 <=> Keepers(o) = {}
  BY PointingSize DEF Owners, Keepers
<1>3. Cardinality(Ref) \in Nat /\ Cardinality(Ref) < CountMax /\ CountMax \in Nat
  BY RefFinite, FS_CardinalityType, RefCountAssumption
<1>4. \A q, r \in Owners(o) : strong[o] = 1 => q = r
  BY <1>1, <1>2, OnlyOne
<1>5. \A q, r \in Keepers(o) : weak[o] = 1 => q = r /\ strong[o] = 0
  <2> SUFFICES ASSUME NEW q \in Keepers(o), NEW r \in Keepers(o), weak[o] = 1
               PROVE  q = r /\ strong[o] = 0
    OBVIOUS
  <2>1. Cardinality(Keepers(o)) = 1 /\ strong[o] = 0
    BY <1>1, <1>2
  <2> QED BY <2>1, <1>2, OnlyOne
<1>6. ASSUME NEW s \in Ref, st[s] = "null" PROVE weak[o] < CountMax
  <2>1. Keepers(o) \cup {s} \in SUBSET Ref /\ s \notin Keepers(o)
    BY <1>6 DEF Keepers, Pointing, Dying
  <2>2. Cardinality(Keepers(o) \cup {s}) = Cardinality(Keepers(o)) + 1
    BY <2>1, <1>2, FS_AddElement
  <2>3. Cardinality(Keepers(o) \cup {s}) <= Cardinality(Ref)
    BY <2>1, RefFinite, FS_Subset
  <2> QED BY <2>2, <2>3, <1>1, <1>2, <1>3
<1>7. heap[o] = "free" => Owners(o) = {} /\ Keepers(o) = {}
  BY DEF IInv, RefInv, Owners, Keepers, Pointing, Dying
<1> QED BY <1>1, <1>2, <1>3, <1>4, <1>5, <1>6, <1>7

Keeping == {"weak"} \cup Dying

\* A step that changes one reference keeps the counts exact if it moves them by
\* what that reference was and what it becomes.
LEMMA CountStep ==
  ASSUME IInv, NEW r \in Ref, NEW k, NEW p, Become(r, k, p),
         \A o \in Object : strong'[o] =
            strong[o] - (IF st[r] = "strong" /\ at[r] = o THEN 1 ELSE 0)
                      + (IF k = "strong" /\ p = o THEN 1 ELSE 0),
         \A o \in Object : weak'[o] =
            weak[o] - (IF st[r] \in Keeping /\ at[r] = o THEN 1 ELSE 0)
                    + (IF k \in Keeping /\ p = o THEN 1 ELSE 0)
                    - (IF strong[o] > 0 THEN 1 ELSE 0)
                    + (IF strong'[o] > 0 THEN 1 ELSE 0)
  PROVE  CountInv'
<1> SUFFICES ASSUME NEW o \in Object
             PROVE  /\ strong'[o] = Cardinality(Owners(o)')
                    /\ weak'[o] = Cardinality(Keepers(o)')
                                  + (IF strong'[o] > 0 THEN 1 ELSE 0)
  BY DEF CountInv
<1>1. /\ strong[o] = Cardinality(Owners(o))
      /\ weak[o] = Cardinality(Keepers(o)) + (IF strong[o] > 0 THEN 1 ELSE 0)
  BY DEF IInv, CountInv
<1>2. Cardinality(Owners(o)) \in Nat /\ Cardinality(Keepers(o)) \in Nat
  BY PointingSize DEF Owners, Keepers
<1>3. Cardinality(Owners(o)') = Cardinality(Owners(o))
        - (IF st[r] = "strong" /\ at[r] = o THEN 1 ELSE 0)
        + (IF k = "strong" /\ p = o THEN 1 ELSE 0)
  <2>1. st[r] \in {"strong"} <=> st[r] = "strong"
    OBVIOUS
  <2>2. k \in {"strong"} <=> k = "strong"
    OBVIOUS
  <2> QED BY <2>1, <2>2, BecomeSize DEF IInv, Owners
<1>4. Cardinality(Keepers(o)') = Cardinality(Keepers(o))
        - (IF st[r] \in Keeping /\ at[r] = o THEN 1 ELSE 0)
        + (IF k \in Keeping /\ p = o THEN 1 ELSE 0)
  BY BecomeSize DEF IInv, Keepers, Keeping
<1> QED BY <1>1, <1>2, <1>3, <1>4

-----------------------------------------------------------------------------
(* The invariant is inductive: one lemma per group of steps. *)

LEMMA InitInv == Init => IInv
<1> SUFFICES ASSUME Init PROVE IInv
  OBVIOUS
<1> USE RefCountAssumption
<1>1. TypeInv /\ RefInv /\ FieldInv /\ DeathInv /\ LiveInv /\ LockInv
  BY DEF Init, TypeInv, RefInv, FieldInv, DeathInv, LiveInv, LockInv, State, InCall, Dying, NoLock, Ref
<1>2. \A o \in Object : Owners(o) = {} /\ Keepers(o) = {}
  BY DEF Init, Owners, Keepers, Pointing, Dying
<1>3. CountInv
  BY <1>2, FS_EmptySet DEF Init, CountInv
<1> QED BY <1>1, <1>3 DEF IInv

\* ul_rc_alloc finds no trace of the block's earlier life.
LEMMA AllocInv ==
  ASSUME IInv, NEW r \in Local, NEW o \in Object, Alloc(r, o) PROVE IInv'
<1> USE RefCountAssumption
<1>1. strong[o] = 0 /\ weak[o] = 0
  BY CountFacts DEF Alloc
<1>2. \A q \in Ref : at[q] # o
  BY DEF Alloc, IInv, TypeInv, RefInv, State, InCall, Dying, Ref
<1>3. r \in Ref /\ st[o] = "null" /\ r # o
  BY DEF Alloc, IInv, FieldInv, Ref
<1>4. TypeInv' /\ RefInv'
  BY <1>2, <1>3 DEF Alloc, IInv, TypeInv, RefInv, Become, State, InCall, Dying, Ref
<1>5. FieldInv'
  BY <1>2, <1>3 DEF Alloc, IInv, TypeInv, FieldInv, Become, Ref
<1>6. DeathInv' /\ LiveInv'
  BY <1>2, <1>3 DEF Alloc, IInv, TypeInv, DeathInv, LiveInv, Become, Dying, Ref
<1>7. LockInv'
  BY <1>3 DEF Alloc, IInv, TypeInv, LockInv, Become, Ref
<1>8. CountInv'
  <2>1. Become(r, "strong", o) /\ st[r] = "null"
    BY DEF Alloc
  <2>2. \A x \in Object : strong'[x] = IF x = o THEN 1 ELSE strong[x]
    BY DEF Alloc, IInv, TypeInv
  <2>3. \A x \in Object : weak'[x] = IF x = o THEN 1 ELSE weak[x]
    BY DEF Alloc, IInv, TypeInv
  <2>4. \A x \in Object : strong[x] \in Int /\ weak[x] \in Int
    BY DEF IInv, TypeInv
  <2>5. "strong" \notin Keeping /\ st[r] \notin Keeping /\ st[r] # "strong"
    BY <2>1 DEF Keeping, Dying
  <2>6. \A x \in Object : strong'[x] =
            strong[x] - (IF st[r] = "strong" /\ at[r] = x THEN 1 ELSE 0)
                      + (IF "strong" = "strong" /\ o = x THEN 1 ELSE 0)
    BY <1>1, <2>2, <2>4, <2>5
  <2>7. \A x \in Object : weak'[x] =
            weak[x] - (IF st[r] \in Keeping /\ at[r] = x THEN 1 ELSE 0)
                    + (IF "strong" \in Keeping /\ o = x THEN 1 ELSE 0)
                    - (IF strong[x] > 0 THEN 1 ELSE 0)
                    + (IF strong'[x] > 0 THEN 1 ELSE 0)
    BY <1>1, <2>2, <2>3, <2>4, <2>5
  <2> QED BY <1>3, <2>1, <2>6, <2>7, CountStep
<1> QED BY <1>4, <1>5, <1>6, <1>7, <1>8 DEF IInv

\* The counts of an object are exact after a new strong reference to it.
LEMMA GainStrong ==
  ASSUME IInv, NEW s \in Ref, NEW o \in Object, Become(s, "strong", o),
         strong[o] > 0, st[s] \in {"null", "locking"},
         strong' = [strong EXCEPT ![o] = Incr(@)], weak' = weak
  PROVE  /\ strong' = [strong EXCEPT ![o] = strong[o] + 1]
         /\ CountInv'
<1>1. Incr(strong[o]) = strong[o] + 1
  BY CountFacts DEF Incr
<1>2. \A x \in Object : strong[x] \in Int /\ weak[x] \in Int
  BY DEF IInv, TypeInv
<1>3. \A x \in Object : strong'[x] = IF x = o THEN strong[x] + 1 ELSE strong[x]
  BY <1>1 DEF IInv, TypeInv
<1>4. "strong" \notin Keeping /\ st[s] \notin Keeping /\ st[s] # "strong"
  BY DEF Keeping, Dying
<1>5. \A x \in Object : strong'[x] =
          strong[x] - (IF st[s] = "strong" /\ at[s] = x THEN 1 ELSE 0)
                    + (IF "strong" = "strong" /\ o = x THEN 1 ELSE 0)
  BY <1>2, <1>3, <1>4
<1>6. \A x \in Object : weak'[x] =
          weak[x] - (IF st[s] \in Keeping /\ at[s] = x THEN 1 ELSE 0)
                  + (IF "strong" \in Keeping /\ o = x THEN 1 ELSE 0)
                  - (IF strong[x] > 0 THEN 1 ELSE 0)
                  + (IF strong'[x] > 0 THEN 1 ELSE 0)
  BY <1>2, <1>3, <1>4
<1>7. CountInv'
  BY <1>5, <1>6, CountStep
<1> QED BY <1>1, <1>7

\* ul_retain: the holder's reference keeps the object alive, so no destruction
\* is in progress.
LEMMA RetainInv ==
  ASSUME IInv, NEW r \in Local, NEW s \in Ref, Retain(r, s) PROVE IInv'
<1> USE RefCountAssumption
<1> DEFINE o == at[r]
<1>1. r \in Ref /\ o \in Object /\ heap[o] = "live" /\ st[s] = "null" /\ at[s] = Null
  BY DEF Retain, Writable, IInv, TypeInv, RefInv, Ref
<1>2. strong[o] > 0
  <2>1. r \in Owners(o)
    BY <1>1 DEF Owners, Pointing, Retain
  <2> QED BY <2>1, <1>1, CountFacts
<1>3. strong' = [strong EXCEPT ![o] = strong[o] + 1] /\ CountInv'
  BY <1>1, <1>2, GainStrong DEF Retain
<1>4. s \in Object => heap[s] = "live" /\ \A q \in Ref : ~(st[q] = "memset" /\ at[q] = s)
  <2> SUFFICES ASSUME s \in Object
               PROVE  heap[s] = "live" /\ \A q \in Ref : ~(st[q] = "memset" /\ at[q] = s)
    OBVIOUS
  <2>1. PICK h \in Local : st[h] = "strong" /\ at[h] = s
    BY DEF Retain, Writable
  <2>2. h \in Ref /\ h \in Owners(s)
    BY <2>1 DEF Owners, Pointing, Ref
  <2>3. heap[s] = "live" /\ strong[s] # 0
    BY <2>1, <2>2, CountFacts DEF IInv, RefInv
  <2> QED BY <2>3 DEF IInv, DeathInv, Dying
<1>5. TypeInv' /\ RefInv'
  BY <1>1, <1>3 DEF Retain, IInv, TypeInv, RefInv, Become, State, InCall, Dying
<1>6. FieldInv'
  BY <1>1, <1>4 DEF Retain, IInv, TypeInv, FieldInv, Become
<1>7. DeathInv'
  BY <1>1, <1>2, <1>3 DEF Retain, IInv, TypeInv, DeathInv, Become, Dying
<1>8. LiveInv'
  BY <1>1, <1>2, <1>3 DEF Retain, IInv, TypeInv, LiveInv, Become
<1>9. LockInv'
  BY <1>1 DEF Retain, IInv, TypeInv, LockInv, Become, Ref
<1> QED BY <1>3, <1>5, <1>6, <1>7, <1>8, <1>9 DEF IInv

\* The fetch_sub of ul_release, of a local or of a destructor's field: if it
\* returns 1, this reference was the only owner and becomes the one destroyer.
LEMMA DecStrongInv ==
  ASSUME IInv, NEW r \in Ref, DecStrong(r) PROVE IInv'
<1> USE RefCountAssumption
<1> DEFINE o == at[r]
<1>1. o \in Object /\ heap[o] = "live" /\ st[r] = "strong" /\ r \in Owners(o)
  BY DEF DecStrong, IInv, TypeInv, RefInv, Owners, Pointing, Ref
<1>2. strong[o] \in Nat /\ strong[o] > 0 /\ weak[o] \in Nat
  BY <1>1, CountFacts
<1>3. strong' = [strong EXCEPT ![o] = strong[o] - 1]
  BY DEF DecStrong
<1>4. \A q \in Ref : st[q] \in Dying \cup {"free"} => at[q] # o
  BY <1>2 DEF IInv, DeathInv
<1>5. \A x \in Object : strong[x] \in Int /\ weak[x] \in Int
  BY DEF IInv, TypeInv
<1>6. \A x \in Object : strong'[x] = IF x = o THEN strong[x] - 1 ELSE strong[x]
  BY <1>1, <1>3 DEF IInv, TypeInv
<1>7. weak' = weak
  BY DEF DecStrong
<1>8. st[r] \notin Keeping
  BY <1>1 DEF Keeping, Dying
<1>a. CASE strong[o] = 1
  <2>1. Become(r, "destructor", o)
    BY <1>a DEF DecStrong
  <2>2. \A q \in Ref : st[q] = "strong" /\ at[q] = o => q = r
    BY <1>1, <1>a, CountFacts DEF Owners, Pointing
  <2>3. "destructor" \in Keeping /\ "destructor" # "strong"
    BY DEF Keeping, Dying
  <2>4. CountInv'
    <3>1. \A x \in Object : strong'[x] =
            strong[x] - (IF st[r] = "strong" /\ at[r] = x THEN 1 ELSE 0)
                      + (IF "destructor" = "strong" /\ o = x THEN 1 ELSE 0)
      BY <1>1, <1>5, <1>6, <2>3
    <3>2. \A x \in Object : weak'[x] =
            weak[x] - (IF st[r] \in Keeping /\ at[r] = x THEN 1 ELSE 0)
                    + (IF "destructor" \in Keeping /\ o = x THEN 1 ELSE 0)
                    - (IF strong[x] > 0 THEN 1 ELSE 0)
                    + (IF strong'[x] > 0 THEN 1 ELSE 0)
      BY <1>a, <1>5, <1>6, <1>7, <1>8, <2>3
    <3> QED BY <2>1, <3>1, <3>2, CountStep
  <2>5. TypeInv' /\ RefInv'
    BY <1>1, <1>6, <1>5, <2>1 DEF DecStrong, IInv, TypeInv, RefInv, Become, State, InCall, Dying
  <2>6. FieldInv'
    BY <1>1, <2>1 DEF DecStrong, IInv, TypeInv, FieldInv, Become
  <2>7. DeathInv'
    BY <1>a, <1>1, <1>4, <1>6, <1>7, <2>1 DEF DecStrong, IInv, TypeInv, RefInv, DeathInv, Become, Dying, State, InCall
  <2>8. LiveInv'
    BY <1>1, <1>6, <2>1 DEF DecStrong, IInv, TypeInv, LiveInv, Become
  <2>9. LockInv'
    BY <1>1, <2>1 DEF DecStrong, IInv, TypeInv, LockInv, Become, Ref
  <2> QED BY <2>4, <2>5, <2>6, <2>7, <2>8, <2>9 DEF IInv
<1>b. CASE strong[o] # 1
  <2>1. Become(r, "null", Null)
    BY <1>b DEF DecStrong, Consume
  <2>2. Null # o /\ "null" \notin Keeping /\ Null \notin Object
    BY <1>1 DEF Keeping, Dying, Ref
  <2>3. CountInv'
    <3>1. \A x \in Object : strong'[x] =
            strong[x] - (IF st[r] = "strong" /\ at[r] = x THEN 1 ELSE 0)
                      + (IF "null" = "strong" /\ Null = x THEN 1 ELSE 0)
      BY <1>1, <1>5, <1>6, <2>2
    <3>2. \A x \in Object : weak'[x] =
            weak[x] - (IF st[r] \in Keeping /\ at[r] = x THEN 1 ELSE 0)
                    + (IF "null" \in Keeping /\ Null = x THEN 1 ELSE 0)
                    - (IF strong[x] > 0 THEN 1 ELSE 0)
                    + (IF strong'[x] > 0 THEN 1 ELSE 0)
      BY <1>b, <1>2, <1>5, <1>6, <1>7, <1>8, <2>2
    <3> QED BY <2>1, <3>1, <3>2, CountStep
  <2>4. TypeInv' /\ RefInv'
    BY <1>1, <1>6, <1>5, <2>1 DEF DecStrong, IInv, TypeInv, RefInv, Become, State, InCall, Dying
  <2>5. FieldInv'
    BY <1>1, <2>1 DEF DecStrong, IInv, TypeInv, FieldInv, Become
  <2>6. DeathInv'
    BY <1>1, <1>4, <1>6, <1>7, <2>1, <2>2 DEF DecStrong, IInv, TypeInv, RefInv, DeathInv, Become, Dying, State, InCall
  <2>7. LiveInv'
    BY <1>b, <1>1, <1>2, <1>6, <2>1 DEF DecStrong, IInv, TypeInv, LiveInv, Become
  <2>8. LockInv'
    BY <1>1, <2>1 DEF DecStrong, IInv, TypeInv, LockInv, Become, Ref
  <2> QED BY <2>3, <2>4, <2>5, <2>6, <2>7, <2>8 DEF IInv
<1> QED BY <1>a, <1>b

\* A step of a destruction that touches neither count keeps them exact.
LEMMA SameCounts ==
  ASSUME IInv, NEW r \in Ref, NEW k, NEW p, Become(r, k, p), strong' = strong, weak' = weak,
         st[r] # "strong", k # "strong", 
         \/ st[r] \in Keeping /\ k \in Keeping /\ p = at[r]
         \/ st[r] \notin Keeping /\ k \notin Keeping
  PROVE  CountInv'
<1>1. \A x \in Object : strong[x] \in Int /\ weak[x] \in Int
  BY DEF IInv, TypeInv
<1>2. \A x \in Object : strong'[x] =
          strong[x] - (IF st[r] = "strong" /\ at[r] = x THEN 1 ELSE 0)
                    + (IF k = "strong" /\ p = x THEN 1 ELSE 0)
  BY <1>1
<1>3. \A x \in Object : weak'[x] =
          weak[x] - (IF st[r] \in Keeping /\ at[r] = x THEN 1 ELSE 0)
                  + (IF k \in Keeping /\ p = x THEN 1 ELSE 0)
                  - (IF strong[x] > 0 THEN 1 ELSE 0)
                  + (IF strong'[x] > 0 THEN 1 ELSE 0)
  BY <1>1
<1> QED BY <1>2, <1>3, CountStep

LEMMA DestructorReturnInv ==
  ASSUME IInv, NEW r \in Ref, DestructorReturn(r) PROVE IInv'
<1> USE RefCountAssumption
<1>1. at[r] \in Object /\ at[r] # r
  BY DEF DestructorReturn, IInv, TypeInv, RefInv, Ref
<1>2. TypeInv' /\ RefInv' /\ FieldInv'
  BY <1>1 DEF DestructorReturn, IInv, TypeInv, RefInv, FieldInv, Become, State, InCall, Dying
<1>3. DeathInv' /\ LiveInv'
  BY <1>1 DEF DestructorReturn, IInv, TypeInv, DeathInv, LiveInv, Become, Dying
<1>4. LockInv'
  BY <1>1 DEF DestructorReturn, IInv, TypeInv, LockInv, Become, Ref
<1>5. CountInv'
  BY <1>1, SameCounts DEF DestructorReturn, Keeping, Dying
<1> QED BY <1>2, <1>3, <1>4, <1>5 DEF IInv

\* memset: nobody else is using the data, and its field is already released.
LEMMA ClearDataInv ==
  ASSUME IInv, NEW r \in Ref, ClearData(r) PROVE IInv'
<1> USE RefCountAssumption
<1> DEFINE o == at[r]
<1>1. o \in Object /\ st[o] = "null" /\ strong[o] = 0
  BY DEF ClearData, IInv, TypeInv, RefInv, FieldInv, DeathInv, Dying, Ref
<1>2. \A q \in Ref : at[q] = o => st[q] # "strong"
  BY <1>1, CountFacts DEF Owners, Pointing
<1>3. \A q \in Ref : at[q] = o /\ st[q] \in Dying \cup {"free"} => q = r
  BY DEF ClearData, IInv, DeathInv, Dying
<1>4. TypeInv' /\ RefInv' /\ FieldInv'
  BY <1>1, <1>2, <1>3 DEF ClearData, IInv, TypeInv, RefInv, FieldInv, Become, State, InCall, Dying
<1>5. DeathInv' /\ LiveInv'
  BY <1>1 DEF ClearData, IInv, TypeInv, DeathInv, LiveInv, Become, Dying
<1>6. LockInv'
  BY <1>1 DEF ClearData, IInv, TypeInv, LockInv, Become, Ref
<1>7. CountInv'
  BY <1>1, SameCounts DEF ClearData, Keeping, Dying
<1> QED BY <1>4, <1>5, <1>6, <1>7 DEF IInv

\* The weak fetch_sub: if it returns 1, this reference was the last keeper of
\* the header, no owner is left, and the data has already been cleared.
LEMMA DecWeakInv ==
  ASSUME IInv, NEW r \in Ref, st[r] \in {"weak", "sentinel"},
         \A s \in Local : lock[s].from # r, DecWeak(r)
  PROVE  IInv'
<1> USE RefCountAssumption
<1> DEFINE o == at[r]
<1>1. o \in Object /\ r \in Keepers(o) /\ heap[o] # "free"
  BY DEF IInv, TypeInv, RefInv, Keepers, Pointing, Dying, Ref
<1>2. weak[o] \in Nat /\ weak[o] >= 1 /\ strong[o] \in Nat
  BY <1>1, CountFacts
<1>3. \A q \in Ref : at[q] = o => st[q] # "free"
  BY <1>2 DEF IInv, DeathInv
<1>4. strong' = strong /\ weak' = [weak EXCEPT ![o] = weak[o] - 1]
  BY DEF DecWeak
<1>5. \A x \in Object : strong[x] \in Int /\ weak[x] \in Int
  BY DEF IInv, TypeInv
<1>6. \A x \in Object : weak'[x] = IF x = o THEN weak[x] - 1 ELSE weak[x]
  BY <1>1, <1>4 DEF IInv, TypeInv
<1>7. st[r] \in Keeping /\ st[r] # "strong"
  BY DEF Keeping, Dying
<1>a. CASE weak[o] = 1
  <2>1. Become(r, "free", o)
    BY <1>a DEF DecWeak
  <2>2. strong[o] = 0 /\ \A q \in Keepers(o) : q = r
    BY <1>1, <1>a, CountFacts
  <2>3. \A q \in Ref : at[q] = o /\ st[q] \in Dying \cup {"weak"} => q = r
    BY <2>2 DEF Keepers, Pointing
  <2>4. heap[o] = "cleared"
    <3>1. \A q \in Ref : ~(st[q] \in {"destructor", "memset"} /\ at[q] = o)
      BY <2>3 DEF Dying
    <3> QED BY <1>1, <2>2, <3>1 DEF IInv, LiveInv, TypeInv
  <2>5. "free" \notin Keeping /\ "free" # "strong"
    BY DEF Keeping, Dying
  <2>6. CountInv'
    <3>1. \A x \in Object : strong'[x] =
            strong[x] - (IF st[r] = "strong" /\ at[r] = x THEN 1 ELSE 0)
                      + (IF "free" = "strong" /\ o = x THEN 1 ELSE 0)
      BY <1>4, <1>5, <1>7, <2>5
    <3>2. \A x \in Object : weak'[x] =
            weak[x] - (IF st[r] \in Keeping /\ at[r] = x THEN 1 ELSE 0)
                    + (IF "free" \in Keeping /\ o = x THEN 1 ELSE 0)
                    - (IF strong[x] > 0 THEN 1 ELSE 0)
                    + (IF strong'[x] > 0 THEN 1 ELSE 0)
      BY <1>4, <1>5, <1>6, <1>7, <2>5
    <3> QED BY <2>1, <3>1, <3>2, CountStep
  <2>7. TypeInv' /\ RefInv'
    BY <1>1, <1>5, <1>6, <2>1, <2>4 DEF DecWeak, IInv, TypeInv, RefInv, Become, State, InCall, Dying
  <2>8. FieldInv' /\ LiveInv'
    BY <1>1, <2>1 DEF DecWeak, IInv, TypeInv, FieldInv, LiveInv, Become
  <2>9. DeathInv'
    BY <1>a, <1>1, <1>3, <1>6, <2>1, <2>2, <2>3 DEF DecWeak, IInv, TypeInv, RefInv, DeathInv, Become, Dying, State, InCall
  <2>10. LockInv'
    BY <1>1, <2>1 DEF DecWeak, IInv, TypeInv, LockInv, Become, Ref
  <2> QED BY <2>6, <2>7, <2>8, <2>9, <2>10 DEF IInv
<1>b. CASE weak[o] # 1
  <2>1. Become(r, "null", Null)
    BY <1>b DEF DecWeak, Consume
  <2>2. "null" \notin Keeping /\ Null \notin Object
    BY DEF Keeping, Dying, Ref
  <2>3. CountInv'
    <3>1. \A x \in Object : strong'[x] =
            strong[x] - (IF st[r] = "strong" /\ at[r] = x THEN 1 ELSE 0)
                      + (IF "null" = "strong" /\ Null = x THEN 1 ELSE 0)
      BY <1>4, <1>5, <1>7
    <3>2. \A x \in Object : weak'[x] =
            weak[x] - (IF st[r] \in Keeping /\ at[r] = x THEN 1 ELSE 0)
                    + (IF "null" \in Keeping /\ Null = x THEN 1 ELSE 0)
                    - (IF strong[x] > 0 THEN 1 ELSE 0)
                    + (IF strong'[x] > 0 THEN 1 ELSE 0)
      BY <1>4, <1>5, <1>6, <1>7, <2>2
    <3> QED BY <2>1, <3>1, <3>2, CountStep
  <2>4. TypeInv' /\ RefInv'
    BY <1>1, <1>5, <1>6, <2>1 DEF DecWeak, IInv, TypeInv, RefInv, Become, State, InCall, Dying
  <2>5. FieldInv' /\ LiveInv'
    BY <1>1, <2>1 DEF DecWeak, IInv, TypeInv, FieldInv, LiveInv, Become
  <2>6. DeathInv'
    BY <1>1, <1>3, <1>6, <2>1, <2>2 DEF DecWeak, IInv, TypeInv, RefInv, DeathInv, Become, Dying, State, InCall
  <2>7. LockInv'
    BY <1>1, <2>1 DEF DecWeak, IInv, TypeInv, LockInv, Become, Ref
  <2> QED BY <2>3, <2>4, <2>5, <2>6, <2>7 DEF IInv
<1> QED BY <1>a, <1>b

\* mi_free: the reference that frees is the only one that still points there.
LEMMA FreeBlockInv ==
  ASSUME IInv, NEW r \in Ref, FreeBlock(r) PROVE IInv'
<1> USE RefCountAssumption
<1> DEFINE o == at[r]
<1>1. o \in Object /\ st[o] = "null" /\ strong[o] = 0 /\ weak[o] = 0
  BY DEF FreeBlock, IInv, TypeInv, RefInv, FieldInv, DeathInv, Ref
<1>2. \A q \in Ref : at[q] = o => st[q] \notin {"strong", "weak"} \cup Dying
  BY <1>1, CountFacts DEF Owners, Keepers, Pointing
<1>3. \A q \in Ref : at[q] = o /\ st[q] = "free" => q = r
  BY DEF FreeBlock, IInv, DeathInv
<1>4. \A q \in Ref : at[q] = o => st[q] # "locking"
  BY <1>1, <1>2, SMTT(20) DEF IInv, TypeInv, FieldInv, LockInv, Ref
<1>5. \A q \in Ref : at[q] = o => q = r
  BY <1>1, <1>2, <1>3, <1>4 DEF IInv, TypeInv, RefInv, State, InCall, Ref
<1>6. TypeInv' /\ RefInv' /\ FieldInv'
  BY <1>1, <1>5 DEF FreeBlock, IInv, TypeInv, RefInv, FieldInv, Become, Consume, State, InCall
<1>7. DeathInv' /\ LiveInv'
  BY <1>1, <1>5 DEF FreeBlock, IInv, TypeInv, DeathInv, LiveInv, Become, Consume, Dying
<1>8. LockInv'
  BY <1>1 DEF FreeBlock, IInv, TypeInv, LockInv, Become, Consume, Ref
<1>9. CountInv'
  BY <1>1, SameCounts DEF FreeBlock, Consume, Keeping, Dying
<1> QED BY <1>6, <1>7, <1>8, <1>9 DEF IInv

\* ul_weak_retain: any reference keeps the header of its object.
LEMMA WeakRetainInv ==
  ASSUME IInv, NEW r \in Local, NEW s \in Local, WeakRetain(r, s) PROVE IInv'
<1> USE RefCountAssumption
<1> DEFINE o == at[r]
<1>1. r \in Ref /\ s \in Ref /\ s \notin Object /\ o \in Object /\ heap[o] # "free"
  BY DEF WeakRetain, IInv, TypeInv, RefInv, Ref
<1>2. weak[o] < CountMax /\ weak[o] \in Nat /\ strong[o] \in Nat
  BY <1>1, CountFacts DEF WeakRetain
<1>3. strong[o] # 0 \/ weak[o] # 0
  BY <1>1, CountFacts DEF WeakRetain, Owners, Keepers, Pointing
<1>4. \A q \in Ref : at[q] = o => st[q] # "free"
  BY <1>3 DEF IInv, DeathInv
<1>5. strong' = strong /\ weak' = [weak EXCEPT ![o] = weak[o] + 1]
  <2>1. Incr(weak[o]) = weak[o] + 1
    BY <1>2 DEF Incr
  <2> QED BY <2>1 DEF WeakRetain
<1>6. \A x \in Object : strong[x] \in Int /\ weak[x] \in Int
  BY DEF IInv, TypeInv
<1>7. \A x \in Object : weak'[x] = IF x = o THEN weak[x] + 1 ELSE weak[x]
  BY <1>1, <1>5 DEF IInv, TypeInv
<1>8. TypeInv' /\ RefInv'
  BY <1>1, <1>6, <1>7 DEF WeakRetain, IInv, TypeInv, RefInv, Become, State, InCall, Dying
<1>9. FieldInv' /\ LiveInv'
  BY <1>1 DEF WeakRetain, IInv, TypeInv, FieldInv, LiveInv, Become
<1>10. DeathInv'
  BY <1>1, <1>4, <1>7 DEF WeakRetain, IInv, TypeInv, DeathInv, Become, Dying
<1>11. LockInv'
  BY <1>1 DEF WeakRetain, IInv, TypeInv, LockInv, Become, Ref
<1>12. CountInv'
  <2>1. Become(s, "weak", o) /\ st[s] = "null"
    BY DEF WeakRetain
  <2>2. "weak" \in Keeping /\ st[s] \notin Keeping /\ st[s] # "strong"
    BY <2>1 DEF Keeping, Dying
  <2>3. \A x \in Object : strong'[x] =
          strong[x] - (IF st[s] = "strong" /\ at[s] = x THEN 1 ELSE 0)
                    + (IF "weak" = "strong" /\ o = x THEN 1 ELSE 0)
    BY <1>5, <1>6, <2>2
  <2>4. \A x \in Object : weak'[x] =
          weak[x] - (IF st[s] \in Keeping /\ at[s] = x THEN 1 ELSE 0)
                  + (IF "weak" \in Keeping /\ o = x THEN 1 ELSE 0)
                  - (IF strong[x] > 0 THEN 1 ELSE 0)
                  + (IF strong'[x] > 0 THEN 1 ELSE 0)
    BY <1>5, <1>6, <1>7, <2>2
  <2> QED BY <1>1, <2>1, <2>3, <2>4, CountStep
<1> QED BY <1>8, <1>9, <1>10, <1>11, <1>12 DEF IInv

LEMMA LockLoadInv ==
  ASSUME IInv, NEW r \in Local, NEW s \in Local, LockLoad(r, s) PROVE IInv'
<1> USE RefCountAssumption
<1>1. r \in Ref /\ s \in Ref /\ s \notin Object /\ at[r] \in Object /\ heap[at[r]] # "free"
  BY DEF LockLoad, IInv, TypeInv, RefInv, Ref
<1>2. strong[at[r]] \in Nat
  BY <1>1, CountFacts
<1>3. TypeInv' /\ RefInv'
  BY <1>1, <1>2 DEF LockLoad, IInv, TypeInv, RefInv, Become, State, InCall, Dying
<1>4. FieldInv' /\ DeathInv' /\ LiveInv'
  BY <1>1 DEF LockLoad, IInv, TypeInv, FieldInv, DeathInv, LiveInv, Become, Dying
<1>5. LockInv'
  BY <1>1 DEF LockLoad, IInv, TypeInv, LockInv, Become, Ref
<1>6. CountInv'
  BY <1>1, SameCounts DEF LockLoad, Keeping, Dying
<1> QED BY <1>3, <1>4, <1>5, <1>6 DEF IInv

\* The compare-exchange succeeds only on a count that is positive now, that is
\* while an owner keeps the object alive.
LEMMA LockSwapInv ==
  ASSUME IInv, NEW s \in Local, LockSwap(s) PROVE IInv'
<1> USE RefCountAssumption
<1> DEFINE o == at[s]
<1>1. s \in Ref /\ s \notin Object /\ o \in Object /\ strong[o] > 0
  BY DEF LockSwap, IInv, TypeInv, RefInv, Ref
<1>2. heap[o] = "live"
  <2>1. PICK q \in Ref : st[q] = "strong" /\ at[q] = o
    BY <1>1, CountFacts DEF Owners, Pointing
  <2> QED BY <2>1 DEF IInv, RefInv
<1>3. strong' = [strong EXCEPT ![o] = strong[o] + 1] /\ CountInv'
  BY <1>1, GainStrong DEF LockSwap
<1>4. TypeInv' /\ RefInv'
  BY <1>1, <1>2, <1>3 DEF LockSwap, IInv, TypeInv, RefInv, Become, State, InCall, Dying, NoLock
<1>5. FieldInv' /\ LiveInv'
  BY <1>1, <1>3 DEF LockSwap, IInv, TypeInv, FieldInv, LiveInv, Become
<1>6. DeathInv'
  BY <1>1, <1>3 DEF LockSwap, IInv, TypeInv, DeathInv, Become, Dying
<1>7. LockInv'
  BY <1>1 DEF LockSwap, IInv, TypeInv, LockInv, Become, Ref, NoLock
<1> QED BY <1>3, <1>4, <1>5, <1>6, <1>7 DEF IInv

LEMMA LockRetryInv ==
  ASSUME IInv, NEW s \in Local, LockRetry(s) PROVE IInv'
<1> USE RefCountAssumption
<1>1. at[s] \in Object
  BY DEF LockRetry, IInv, TypeInv, RefInv, Ref
<1>2. strong[at[s]] \in Nat
  BY <1>1, CountFacts
<1>3. TypeInv' /\ LockInv'
  BY <1>2 DEF LockRetry, IInv, TypeInv, LockInv
<1>4. RefInv' /\ FieldInv' /\ DeathInv' /\ LiveInv'
  BY DEF LockRetry, IInv, RefInv, FieldInv, DeathInv, LiveInv
<1>5. CountInv'
  BY DEF LockRetry, IInv, CountInv, Owners, Keepers, Pointing
<1> QED BY <1>3, <1>4, <1>5 DEF IInv

LEMMA LockFailInv ==
  ASSUME IInv, NEW s \in Local, LockFail(s) PROVE IInv'
<1> USE RefCountAssumption
<1>1. s \in Ref /\ s \notin Object /\ Null \notin Object
  BY DEF Ref
<1>2. TypeInv' /\ RefInv'
  BY <1>1 DEF LockFail, IInv, TypeInv, RefInv, Become, Consume, State, InCall, Dying, NoLock
<1>3. FieldInv' /\ DeathInv' /\ LiveInv'
  BY <1>1 DEF LockFail, IInv, TypeInv, FieldInv, DeathInv, LiveInv, Become, Consume, Dying
<1>4. LockInv'
  BY <1>1 DEF LockFail, IInv, TypeInv, LockInv, Become, Consume, Ref, NoLock
<1>5. CountInv'
  <2>1. "null" \notin Keeping /\ "locking" \notin Keeping
    BY DEF Keeping, Dying
  <2>2. /\ Become(s, "null", Null) /\ st[s] = "locking"
        /\ strong' = strong /\ weak' = weak
    BY DEF LockFail, Consume
  <2> QED BY <1>1, <2>1, <2>2, SameCounts
<1> QED BY <1>2, <1>3, <1>4, <1>5 DEF IInv

LEMMA StutterInv == ASSUME IInv, UNCHANGED vars PROVE IInv'
<1>1. TypeInv' /\ RefInv' /\ FieldInv' /\ DeathInv' /\ LiveInv' /\ LockInv'
  BY DEF vars, IInv, TypeInv, RefInv, FieldInv, DeathInv, LiveInv, LockInv
<1>2. \A K, o : Pointing(K, o)' = Pointing(K, o)
  BY DEF vars, Pointing
<1>3. CountInv'
  BY <1>2 DEF vars, IInv, CountInv, Owners, Keepers
<1> QED BY <1>1, <1>3 DEF IInv

\* Every step preserves the invariant: one case per action.
THEOREM Inductive == IInv /\ [Next]_vars => IInv'
<1> SUFFICES ASSUME IInv, [Next]_vars PROVE IInv'
  OBVIOUS
<1>0. Local \subseteq Ref
  BY DEF Ref
<1>1. CASE \E r \in Local, o \in Object : Alloc(r, o)
  BY <1>1, AllocInv
<1>2. CASE \E r \in Local, s \in Ref : Retain(r, s)
  BY <1>2, RetainInv
<1>3. CASE \E r \in Local : Release(r)
  BY <1>0, <1>3, DecStrongInv DEF Release
<1>4. CASE \E r \in Local : WeakRelease(r)
  BY <1>0, <1>4, DecWeakInv DEF WeakRelease, Idle
<1>5. CASE \E r, s \in Local : WeakRetain(r, s)
  BY <1>5, WeakRetainInv
<1>6. CASE \E r, s \in Local : LockLoad(r, s)
  BY <1>6, LockLoadInv
<1>7. ASSUME NEW r \in Ref, Finish(r) PROVE IInv'
  <2>1. CASE DestructorRelease(r)
    <3>1. at[r] \in Ref
      BY <2>1, RefCountAssumption DEF DestructorRelease, IInv, TypeInv, RefInv, Ref
    <3> QED BY <2>1, <3>1, DecStrongInv DEF DestructorRelease
  <2>2. CASE DestructorReturn(r)
    BY <2>2, DestructorReturnInv
  <2>3. CASE ClearData(r)
    BY <2>3, ClearDataInv
  <2>4. CASE DropSentinel(r)
    <3>1. \A s \in Local : lock[s].from # r
      BY <2>4, RefCountAssumption DEF DropSentinel, IInv, LockInv, NoLock, Ref
    <3> QED BY <2>4, <3>1, DecWeakInv DEF DropSentinel
  <2>5. CASE FreeBlock(r)
    BY <2>5, FreeBlockInv
  <2> QED BY <1>7, <2>1, <2>2, <2>3, <2>4, <2>5 DEF Finish
<1>8. ASSUME NEW s \in Local, FinishLock(s) PROVE IInv'
  BY <1>8, LockSwapInv, LockRetryInv, LockFailInv DEF FinishLock
<1>9. CASE UNCHANGED vars
  BY <1>9, StutterInv
<1> QED BY <1>1, <1>2, <1>3, <1>4, <1>5, <1>6, <1>7, <1>8, <1>9 DEF Next, Call

THEOREM Invariant == Spec => []IInv
<1> QED BY InitInv, Inductive, PTL DEF Spec

-----------------------------------------------------------------------------
(* What the invariant gives. *)

\* Type correctness, with every count a natural number.
THEOREM TypeCorrect == Spec => []TypeOK
<1>1. IInv => TypeOK
  <2> SUFFICES ASSUME IInv PROVE TypeOK
    OBVIOUS
  <2>1. \A o \in Object : strong[o] \in Nat /\ weak[o] \in Nat
    BY CountFacts
  <2> QED BY <2>1 DEF IInv, TypeInv, TypeOK
<1> QED BY <1>1, Invariant, PTL

\* No use of data after its destruction, whatever the schedule.
THEOREM NoUseAfterDestroy == Spec => []DataLiveWhileStrong
<1>1. IInv => DataLiveWhileStrong
  BY DEF IInv, RefInv, DataLiveWhileStrong
<1> QED BY <1>1, Invariant, PTL

\* No pointer to a freed header, whatever the schedule.
THEOREM NoUseAfterFree == Spec => []NoDanglingHeader
<1>1. IInv => NoDanglingHeader
  <2> SUFFICES ASSUME IInv, NEW r \in Ref, st[r] # "null"
               PROVE  at[r] # Null /\ heap[at[r]] # "free"
    BY DEF NoDanglingHeader
  <2> QED BY DEF IInv, TypeInv, RefInv, State, InCall, Dying
<1> QED BY <1>1, Invariant, PTL

\* An object is destroyed and freed by one release, and by no other.
THEOREM DestroyedOnce == Spec => []OneDestroyer
<1>1. IInv => OneDestroyer
  <2> SUFFICES ASSUME IInv, NEW q \in Ref, NEW r \in Ref,
                      st[q] \in Dying \cup {"free"},
                      st[r] \in Dying \cup {"free", "strong"}, at[q] = at[r]
               PROVE  q = r
    BY DEF OneDestroyer
  <2>1. at[q] \in Object /\ strong[at[q]] = 0
    BY DEF IInv, TypeInv, RefInv, DeathInv, Dying
  <2>2. st[r] # "strong"
    BY <2>1, CountFacts DEF Owners, Pointing
  <2> QED BY <2>2 DEF IInv, DeathInv
<1> QED BY <1>1, Invariant, PTL

\* The counts count: the reason why a release that reads 1 is the last.
THEOREM CountsCorrect == Spec => []CountsExact
<1>1. IInv => CountsExact
  BY DEF IInv, CountInv, CountsExact, Owners, Keepers
<1> QED BY <1>1, Invariant, PTL

-----------------------------------------------------------------------------
(* The implementation of ObjectLifetime: under the inductive invariant every *)
(* step of a call is one step of the abstract object, or none.               *)

Watchers(o) == Pointing({"weak"}, o)

\* How a changed reference shows in the two abstract sets.
LEMMA SetsMove ==
  ASSUME IInv, NEW r \in Ref, NEW k, NEW p, Become(r, k, p), NEW o
  PROVE  /\ Owners(o)' = IF k = "strong" /\ p = o THEN Owners(o) \cup {r}
                                                  ELSE Owners(o) \ {r}
         /\ Watchers(o)' = IF k = "weak" /\ p = o THEN Watchers(o) \cup {r}
                                                  ELSE Watchers(o) \ {r}
         /\ r \in Owners(o) <=> st[r] = "strong" /\ at[r] = o
         /\ r \in Watchers(o) <=> st[r] = "weak" /\ at[r] = o
<1>1. TypeInv
  BY DEF IInv
<1>2. /\ k \in {"strong"} <=> k = "strong"
      /\ k \in {"weak"} <=> k = "weak"
  OBVIOUS
<1>3. Owners(o)' = IF k = "strong" /\ p = o THEN Owners(o) \cup {r} ELSE Owners(o) \ {r}
  BY <1>1, <1>2, BecomeSet, SMTT(20) DEF Owners
<1>4. Watchers(o)' = IF k = "weak" /\ p = o THEN Watchers(o) \cup {r} ELSE Watchers(o) \ {r}
  BY <1>1, <1>2, BecomeSet, SMTT(20) DEF Watchers
<1>5. /\ r \in Owners(o) <=> st[r] = "strong" /\ at[r] = o
      /\ r \in Watchers(o) <=> st[r] = "weak" /\ at[r] = o
  BY DEF Owners, Watchers, Pointing
<1> QED BY <1>3, <1>4, <1>5

\* Nothing the abstract object shows has changed.
LEMMA AbstractStutter ==
  ASSUME \A x \in Object : /\ heap'[x] = heap[x]
                           /\ Owners(x)' = Owners(x) /\ Watchers(x)' = Watchers(x)
  PROVE  UNCHANGED Life!lifeVars
<1>1. \A x \in Object : Phase(x)' = Phase(x)
  BY DEF Phase, Owners
<1> QED BY <1>1 DEF Life!lifeVars, Owners, Watchers

LEMMA InitRefines == Init => Life!LifeInit
<1> SUFFICES ASSUME Init PROVE Life!LifeInit
  OBVIOUS
<1>1. \A o \in Object : /\ Phase(o) = "free"
                        /\ Pointing({"strong"}, o) = {} /\ Pointing({"weak"}, o) = {}
  BY DEF Init, Phase, Pointing
<1> QED BY <1>1 DEF Life!LifeInit

LEMMA AllocRefines ==
  ASSUME IInv, NEW r \in Local, NEW o \in Object, Alloc(r, o) PROVE Life!Create(o, r)
<1>1. r \in Ref /\ Become(r, "strong", o) /\ st[r] = "null"
  BY DEF Alloc, Ref
<1>2. Owners(o) = {} /\ Watchers(o) = {}
  BY DEF Alloc, IInv, RefInv, Owners, Watchers, Pointing
<1>3. \A x \in Object : /\ Owners(x)' = IF x = o THEN {r} ELSE Owners(x)
                        /\ Watchers(x)' = Watchers(x)
  BY <1>1, <1>2, SetsMove
<1>4. \A x \in Object : heap'[x] = IF x = o THEN "live" ELSE heap[x]
  BY DEF Alloc, IInv, TypeInv
<1>5. \A x \in Object : Phase(x)' = IF x = o THEN "live" ELSE Phase(x)
  BY <1>3, <1>4 DEF Phase, Owners
<1>6. Phase(o) = "free"
  BY DEF Alloc, Phase
<1> QED BY <1>2, <1>3, <1>5, <1>6 DEF Life!Create, Owners, Watchers

\* A retain or a successful promotion adds an owner to a live object.
LEMMA GainRefines ==
  ASSUME IInv, NEW s \in Ref, NEW o \in Object, Become(s, "strong", o), heap' = heap,
         strong[o] > 0, st[s] \in {"null", "locking"}
  PROVE  Life!Own(o, s)
<1>1. Owners(o) # {}
  BY CountFacts
<1>2. heap[o] = "live"
  <2>1. PICK q \in Ref : st[q] = "strong" /\ at[q] = o
    BY <1>1 DEF Owners, Pointing
  <2> QED BY <2>1 DEF IInv, RefInv
<1>3. s \notin Owners(o)
  BY SetsMove
<1>4. \A x \in Object : /\ Owners(x)' = IF x = o THEN Owners(x) \cup {s} ELSE Owners(x)
                        /\ Watchers(x)' = Watchers(x)
  BY SetsMove
<1>5. \A x \in Object : Phase(x)' = Phase(x)
  BY <1>1, <1>4 DEF Phase, Owners
<1>6. Phase(o) = "live"
  BY <1>1, <1>2 DEF Phase, Owners
<1> QED BY <1>1, <1>3, <1>4, <1>5, <1>6 DEF Life!Own, Owners, Watchers

LEMMA DecStrongRefines ==
  ASSUME IInv, NEW r \in Ref, DecStrong(r) PROVE Life!Disown(at[r], r)
<1> USE RefCountAssumption
<1> DEFINE o == at[r]
<1>1. o \in Object /\ heap[o] = "live" /\ heap' = heap /\ r \in Owners(o)
  BY DEF DecStrong, IInv, TypeInv, RefInv, Owners, Pointing, Ref
<1>2. \A x \in Object : /\ Owners(x)' = IF x = o THEN Owners(x) \ {r} ELSE Owners(x)
                        /\ Watchers(x)' = Watchers(x)
  <2>1. CASE Become(r, "destructor", o)
    BY <1>1, <2>1, SetsMove DEF DecStrong
  <2>2. CASE Become(r, "null", Null)
    <3>1. st[r] = "strong"
      BY DEF DecStrong
    <3>2. \A x \in Object :
             /\ Owners(x)' = Owners(x) \ {r} /\ Watchers(x)' = Watchers(x) \ {r}
             /\ r \in Owners(x) <=> st[r] = "strong" /\ at[r] = x
             /\ r \in Watchers(x) <=> st[r] = "weak" /\ at[r] = x
      <4> SUFFICES ASSUME NEW x \in Object
                   PROVE  /\ Owners(x)' = Owners(x) \ {r}
                          /\ Watchers(x)' = Watchers(x) \ {r}
                          /\ r \in Owners(x) <=> st[r] = "strong" /\ at[r] = x
                          /\ r \in Watchers(x) <=> st[r] = "weak" /\ at[r] = x
        OBVIOUS
      <4>1. "null" # "strong" /\ "null" # "weak"
        OBVIOUS
      <4> QED BY <2>2, <4>1, SetsMove
    <3> QED BY <1>1, <3>1, <3>2
  <2> QED BY <2>1, <2>2 DEF DecStrong, Consume
<1>3. \A x \in Object : x = o => (Owners(x)' = {} <=> Owners(x) = {r})
  BY <1>1, <1>2
<1>4. \A x \in Object : Phase(x)' = IF x = o
                                    THEN (IF Owners(o) = {r} THEN "dying" ELSE "live")
                                    ELSE Phase(x)
  BY <1>1, <1>2, <1>3 DEF Phase, Owners
<1>5. Phase(o) = "live"
  BY <1>1 DEF Phase, Owners
<1> QED BY <1>1, <1>2, <1>4, <1>5 DEF Life!Disown, Owners, Watchers

LEMMA ClearDataRefines ==
  ASSUME IInv, NEW r \in Ref, ClearData(r) PROVE Life!Destroy(at[r])
<1> USE RefCountAssumption
<1> DEFINE o == at[r]
<1>1. o \in Object /\ heap[o] = "live" /\ Become(r, "sentinel", o) /\ st[r] = "memset"
  BY DEF ClearData, IInv, TypeInv, RefInv, Ref
<1>2. Owners(o) = {}
  BY <1>1, CountFacts DEF IInv, DeathInv, Dying
<1>3. \A x \in Object : Owners(x)' = Owners(x) /\ Watchers(x)' = Watchers(x)
  BY <1>1, SetsMove
<1>4. \A x \in Object : heap'[x] = IF x = o THEN "cleared" ELSE heap[x]
  BY DEF ClearData, IInv, TypeInv
<1>5. \A x \in Object : Phase(x)' = IF x = o THEN "dead" ELSE Phase(x)
  BY <1>3, <1>4 DEF Phase, Owners
<1>6. Phase(o) = "dying"
  BY <1>1, <1>2 DEF Phase, Owners
<1> QED BY <1>1, <1>2, <1>3, <1>5, <1>6 DEF Life!Destroy, Owners, Watchers

LEMMA WeakReleaseRefines ==
  ASSUME IInv, NEW r \in Local, WeakRelease(r) PROVE Life!Unwatch(at[r], r)
<1> USE RefCountAssumption
<1> DEFINE o == at[r]
<1>1. r \in Ref /\ o \in Object /\ heap[o] # "free" /\ heap' = heap /\ st[r] = "weak"
  BY DEF WeakRelease, DecWeak, IInv, TypeInv, RefInv, Ref
<1>2. r \in Watchers(o)
  BY <1>1 DEF Watchers, Pointing
<1>3. \A x \in Object : /\ Owners(x)' = Owners(x)
                        /\ Watchers(x)' = IF x = o THEN Watchers(x) \ {r} ELSE Watchers(x)
  BY <1>1, SetsMove DEF WeakRelease, DecWeak, Consume
<1>4. \A x \in Object : Phase(x)' = Phase(x)
  BY <1>1, <1>3 DEF Phase, Owners
<1>5. Phase(o) # "free"
  BY <1>1 DEF Phase, IInv, TypeInv
<1> QED BY <1>1, <1>2, <1>3, <1>4, <1>5 DEF Life!Unwatch, Owners, Watchers

LEMMA WeakRetainRefines ==
  ASSUME IInv, NEW r \in Local, NEW s \in Local, WeakRetain(r, s) PROVE Life!Watch(at[r], s)
<1> USE RefCountAssumption
<1> DEFINE o == at[r]
<1>1. /\ s \in Ref /\ o \in Object /\ heap[o] # "free" /\ heap' = heap
      /\ st[s] = "null" /\ Become(s, "weak", o)
  BY DEF WeakRetain, IInv, TypeInv, RefInv, Ref
<1>2. s \notin Watchers(o)
  BY <1>1 DEF Watchers, Pointing
<1>3. \A x \in Object : /\ Owners(x)' = Owners(x)
                        /\ Watchers(x)' = IF x = o THEN Watchers(x) \cup {s} ELSE Watchers(x)
  BY <1>1, SetsMove
<1>4. \A x \in Object : Phase(x)' = Phase(x)
  BY <1>1, <1>3 DEF Phase, Owners
<1>5. Phase(o) # "free"
  BY <1>1 DEF Phase, IInv, TypeInv
<1> QED BY <1>1, <1>2, <1>3, <1>4, <1>5 DEF Life!Watch, Owners, Watchers

LEMMA FreeBlockRefines ==
  ASSUME IInv, NEW r \in Ref, FreeBlock(r) PROVE Life!Reclaim(at[r])
<1> USE RefCountAssumption
<1> DEFINE o == at[r]
<1>1. o \in Object /\ heap[o] = "cleared" /\ Become(r, "null", Null) /\ st[r] = "free"
  BY DEF FreeBlock, Consume, IInv, TypeInv, RefInv, Ref
<1>2. Owners(o) = {} /\ Keepers(o) = {}
  BY <1>1, CountFacts DEF IInv, DeathInv
<1>3. Watchers(o) = {}
  BY <1>2 DEF Watchers, Keepers, Pointing
<1>4. \A x \in Object : Owners(x)' = Owners(x) /\ Watchers(x)' = Watchers(x)
  BY <1>1, SetsMove
<1>5. \A x \in Object : heap'[x] = IF x = o THEN "free" ELSE heap[x]
  BY DEF FreeBlock, IInv, TypeInv
<1>6. \A x \in Object : Phase(x)' = IF x = o THEN "free" ELSE Phase(x)
  BY <1>4, <1>5 DEF Phase, Owners
<1>7. Phase(o) = "dead"
  BY <1>1 DEF Phase
<1> QED BY <1>1, <1>2, <1>3, <1>4, <1>6, <1>7 DEF Life!Reclaim, Owners, Watchers

\* A step that only moves a call along, seen from the abstract object.
LEMMA InternalStep ==
  ASSUME IInv, NEW r \in Ref, NEW k, NEW p, Become(r, k, p), heap' = heap,
         st[r] \notin {"strong", "weak"}, k \notin {"strong", "weak"}
  PROVE  UNCHANGED Life!lifeVars
<1>1. \A x \in Object : Owners(x)' = Owners(x) /\ Watchers(x)' = Watchers(x)
  BY SetsMove
<1> QED BY <1>1, AbstractStutter

\* Every step of the calls is a step of the abstract object or a stutter.
LEMMA StepRefines == IInv /\ [Next]_vars => [Life!LifeNext]_(Life!lifeVars)
<1> SUFFICES ASSUME IInv, [Next]_vars PROVE [Life!LifeNext]_(Life!lifeVars)
  OBVIOUS
<1> USE RefCountAssumption
<1>1. Local \subseteq Ref /\ \A r \in Ref : st[r] # "null" => at[r] \in Object
  BY DEF Ref, IInv, TypeInv, RefInv
<1>2. ASSUME NEW r \in Local, NEW o \in Object, Alloc(r, o) PROVE Life!LifeNext
  BY <1>1, <1>2, AllocRefines DEF Life!LifeNext
<1>3. ASSUME NEW r \in Local, NEW s \in Ref, Retain(r, s) PROVE Life!LifeNext
  <2>1. at[r] \in Object /\ strong[at[r]] > 0
    <3>1. at[r] \in Object /\ r \in Owners(at[r])
      BY <1>1, <1>3 DEF Retain, Owners, Pointing
    <3> QED BY <3>1, CountFacts
  <2>2. Life!Own(at[r], s)
    BY <1>3, <2>1, GainRefines DEF Retain, Writable
  <2> QED BY <2>1, <2>2 DEF Life!LifeNext
<1>4. ASSUME NEW r \in Ref, DecStrong(r) PROVE Life!LifeNext
  BY <1>1, <1>4, DecStrongRefines DEF DecStrong, Life!LifeNext
<1>5. ASSUME NEW r \in Local, WeakRelease(r) PROVE Life!LifeNext
  BY <1>1, <1>5, WeakReleaseRefines DEF WeakRelease, Life!LifeNext
<1>6. ASSUME NEW r \in Local, NEW s \in Local, WeakRetain(r, s) PROVE Life!LifeNext
  BY <1>1, <1>6, WeakRetainRefines DEF WeakRetain, Life!LifeNext
<1>7. ASSUME NEW r \in Local, NEW s \in Local, LockLoad(r, s) PROVE UNCHANGED Life!lifeVars
  BY <1>1, <1>7, InternalStep DEF LockLoad
<1>8. ASSUME NEW r \in Ref, Finish(r) PROVE Life!LifeNext \/ UNCHANGED Life!lifeVars
  <2>1. CASE DestructorRelease(r)
    <3>1. at[r] \in Ref
      BY <1>1, <2>1 DEF DestructorRelease, Ref
    <3> QED BY <1>4, <2>1, <3>1 DEF DestructorRelease
  <2>2. CASE DestructorReturn(r)
    BY <2>2, InternalStep DEF DestructorReturn
  <2>3. CASE ClearData(r)
    BY <1>1, <2>3, ClearDataRefines DEF ClearData, Life!LifeNext
  <2>4. CASE DropSentinel(r)
    BY <2>4, InternalStep DEF DropSentinel, DecWeak, Consume
  <2>5. CASE FreeBlock(r)
    BY <1>1, <2>5, FreeBlockRefines DEF FreeBlock, Life!LifeNext
  <2> QED BY <1>8, <2>1, <2>2, <2>3, <2>4, <2>5 DEF Finish
<1>9. ASSUME NEW s \in Local, FinishLock(s) PROVE Life!LifeNext \/ UNCHANGED Life!lifeVars
  <2>1. CASE LockSwap(s)
    <3>1. at[s] \in Object /\ strong[at[s]] > 0
      BY <1>1, <2>1 DEF LockSwap, IInv, TypeInv
    <3>2. Life!Own(at[s], s)
      BY <1>1, <2>1, <3>1, GainRefines DEF LockSwap
    <3> QED BY <1>1, <3>1, <3>2 DEF Life!LifeNext
  <2>2. CASE LockRetry(s)
    BY <2>2, AbstractStutter DEF LockRetry, Owners, Watchers, Pointing
  <2>3. CASE LockFail(s)
    BY <1>1, <2>3, InternalStep DEF LockFail, Consume
  <2> QED BY <1>9, <2>1, <2>2, <2>3 DEF FinishLock
<1>10. CASE UNCHANGED vars
  BY <1>10, AbstractStutter DEF vars, Owners, Watchers, Pointing
<1>11. CASE Next
  BY <1>1, <1>2, <1>3, <1>4, <1>5, <1>6, <1>7, <1>8, <1>9, <1>11 DEF Next, Call, Release
<1> QED BY <1>10, <1>11

\* The counted objects behave as objects with sets of owners and watchers.
THEOREM Refinement == Spec => ImplementsLifetime
<1> QED BY InitRefines, StepRefines, Invariant, PTL DEF Spec, ImplementsLifetime, Life!LifeSpec
=============================================================================
