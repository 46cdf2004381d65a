---------------------------- MODULE DesktopProofs ----------------------------
(***************************************************************************)
(* Proofs about the desktop programs: the lock screen, the announcer,      *)
(* voice capture, the dispatcher and the notification daemon, each by      *)
(* itself, for any outputs, sessions, commands and notifications and any   *)
(* limits, and then of all of them as MCDesktop runs them.                 *)
(***************************************************************************)
EXTENDS MCDesktop, SequenceTheorems, FiniteSetTheorems, WellFoundedInduction,
        NaturalsInduction, TLAPS

-----------------------------------------------------------------------------
(* Lists: what Retained leaves of one.  Its function is defined up to each *)
(* place in turn, by induction over a set of numbers.                      *)

(* A set of numbers that is not empty has a least one.                     *)
LEMMA LeastNumber ==
  ASSUME NEW T \in SUBSET Nat, T # {}
  PROVE  \E x \in T : \A y \in T : x <= y
<1> DEFINE R == {ss \in Nat \X Nat : ss[1] < ss[2]}
<1>1. IsWellFoundedOn(R, Nat)
  BY NatLessThanWellFounded DEF OpToRel
<1>2. \A x, y \in Nat : <<x, y>> \in R <=> x < y
  OBVIOUS
<1> HIDE DEF R
<1>3. PICK x \in T : \A y \in T : <<y, x>> \notin R
  BY <1>1, WFMin
<1>4. ASSUME NEW y \in T PROVE x <= y
  <2>1. x \in Nat /\ y \in Nat /\ ~ (y < x)
    BY <1>2, <1>3
  <2> QED
    BY <2>1
<1> QED
  BY <1>4

(* A set of numbers that has the first and with each, up to the n-th, the  *)
(* next one has all up to the n-th.                                        *)
LEMMA CountUp ==
  ASSUME NEW n \in Nat, NEW T, 0 \in T, \A i \in 0 .. n : i > 0 /\ i - 1 \in T => i \in T
  PROVE  \A i \in 0 .. n : i \in T
<1> SUFFICES ASSUME {i \in 0 .. n : i \notin T} # {} PROVE FALSE
  OBVIOUS
<1> DEFINE Left == {i \in 0 .. n : i \notin T}
<1>1. PICK x \in Left : \A y \in Left : x <= y
  <2>1. Left \in SUBSET Nat /\ Left # {}
    OBVIOUS
  <2> HIDE DEF Left
  <2> QED
    BY <2>1, LeastNumber
<1>2. x # 0 /\ x \in 0 .. n
  OBVIOUS
<1>3. x - 1 \in 0 .. n /\ x - 1 \notin Left
  BY <1>1, <1>2
<1> QED
  BY <1>2, <1>3

(* The q-th parts of the list are what is kept of its first q entries.     *)
KeptOf(r, s, keep, n) ==
  /\ \E p \in [1 .. Len(r) -> 1 .. n] :
       /\ \A i \in 1 .. Len(r) : r[i] = s[p[i]] /\ s[p[i]] \in keep
       /\ \A i, j \in 1 .. Len(r) : i < j => p[i] < p[j]
  /\ \A j \in 1 .. n : s[j] \in keep => \E i \in 1 .. Len(r) : r[i] = s[j]

(* One more entry is looked at, and kept or not.                           *)
LEMMA KeptGrows ==
  ASSUME NEW S, NEW s \in Seq(S), NEW keep, NEW n \in 1 .. Len(s),
         NEW r \in Seq(S), KeptOf(r, s, keep, n - 1), NEW t,
         t = IF s[n] \in keep THEN Append(r, s[n]) ELSE r
  PROVE  t \in Seq(S) /\ KeptOf(t, s, keep, n)
<1>0. Len(r) \in Nat /\ Len(s) \in Nat /\ s[n] \in S
  BY LenProperties, ElementOfSeq
<1>1. PICK p \in [1 .. Len(r) -> 1 .. n - 1] :
        /\ \A i \in 1 .. Len(r) : r[i] = s[p[i]] /\ s[p[i]] \in keep
        /\ \A i, j \in 1 .. Len(r) : i < j => p[i] < p[j]
  BY DEF KeptOf
<1>2. CASE s[n] \notin keep
  <2>1. p \in [1 .. Len(r) -> 1 .. n]
    BY <1>0
  <2>2. \A j \in 1 .. n : s[j] \in keep => j \in 1 .. n - 1
    BY <1>0, <1>2
  <2> QED
    BY <1>1, <1>2, <2>1, <2>2 DEF KeptOf
<1>3. CASE s[n] \in keep
  <2>1. /\ t \in Seq(S) /\ Len(t) = Len(r) + 1 /\ t[Len(t)] = s[n]
        /\ \A i \in 1 .. Len(r) : t[i] = r[i]
    BY <1>0, <1>3, AppendProperties
  <2> DEFINE q == [i \in 1 .. Len(t) |-> IF i = Len(t) THEN n ELSE p[i]]
  <2>2. q \in [1 .. Len(t) -> 1 .. n]
    <3>1. ASSUME NEW i \in 1 .. Len(t) PROVE (IF i = Len(t) THEN n ELSE p[i]) \in 1 .. n
      BY <1>0, <2>1
    <3> QED
      BY <3>1
  <2>3. \A i \in 1 .. Len(t) : t[i] = s[q[i]] /\ s[q[i]] \in keep
    <3> TAKE i \in 1 .. Len(t)
    <3>1. CASE i = Len(t)
      BY <1>3, <2>1, <3>1
    <3>2. CASE i # Len(t)
      <4>1. i \in 1 .. Len(r)
        BY <1>0, <2>1, <3>2
      <4> QED
        BY <1>1, <2>1, <3>2, <4>1
    <3> QED
      BY <3>1, <3>2
  <2>4. \A i, j \in 1 .. Len(t) : i < j => q[i] < q[j]
    <3> SUFFICES ASSUME NEW i \in 1 .. Len(t), NEW j \in 1 .. Len(t), i < j PROVE q[i] < q[j]
      OBVIOUS
    <3>1. i \in 1 .. Len(r) /\ q[i] = p[i] /\ p[i] \in 1 .. n - 1
      BY <1>0, <2>1
    <3>2. CASE j = Len(t)
      BY <1>0, <3>1, <3>2
    <3>3. CASE j # Len(t)
      BY <1>0, <1>1, <2>1, <3>1, <3>3
    <3> QED
      BY <3>2, <3>3
  <2>5. ASSUME NEW j \in 1 .. n, s[j] \in keep PROVE \E i \in 1 .. Len(t) : t[i] = s[j]
    <3>1. CASE j = n
      BY <1>0, <2>1, <3>1
    <3>2. CASE j # n
      <4>1. j \in 1 .. n - 1
        BY <1>0, <3>2
      <4>2. PICK i \in 1 .. Len(r) : r[i] = s[j]
        BY <2>5, <4>1 DEF KeptOf
      <4> QED
        BY <1>0, <2>1, <4>2
    <3> QED
      BY <3>1, <3>2
  <2> HIDE DEF q
  <2> QED
    BY <2>1, <2>2, <2>3, <2>4, <2>5 DEF KeptOf
<1> QED
  BY <1>2, <1>3

(* What is kept is there, in its order and nothing else.                   *)
LEMMA RetainedProperties ==
  ASSUME NEW S, NEW s \in Seq(S), NEW keep
  PROVE  Retained(s, keep) \in Seq(S) /\ KeptOf(Retained(s, keep), s, keep, Len(s))
<1> DEFINE n == Len(s)
           Next(g, i) == IF i = 0 THEN <<>>
                         ELSE IF s[i] \in keep THEN Append(g[i - 1], s[i]) ELSE g[i - 1]
           Upto(m) == \E g : g = [i \in 0 .. m |-> Next(g, i)]
           kept == CHOOSE g : g = [i \in 0 .. n |-> Next(g, i)]
<1>0. n \in Nat
  BY LenProperties
<1>1. Retained(s, keep) = kept[n]
  BY Zenon DEF Retained
<1>2. Upto(0)
  <2> DEFINE h == [i \in 0 .. 0 |-> <<>>]
  <2>1. h = [i \in 0 .. 0 |-> Next(h, i)]
    OBVIOUS
  <2> QED
    BY <2>1
<1>3. ASSUME NEW m \in 0 .. n, m > 0, Upto(m - 1) PROVE Upto(m)
  <2>1. PICK g : g = [i \in 0 .. m - 1 |-> Next(g, i)]
    BY <1>3
  <2> DEFINE h == [i \in 0 .. m |-> IF i = m THEN Next(g, m) ELSE g[i]]
  <2>2. ASSUME NEW i \in 0 .. m PROVE h[i] = Next(h, i)
    <3>1. CASE i = 0
      BY <1>3, <2>1, <3>1
    <3>2. CASE i # 0
      <4>1. i - 1 \in 0 .. m - 1 /\ h[i - 1] = g[i - 1]
        BY <1>0, <3>2
      <4>2. h[i] = Next(g, i)
        <5>1. CASE i = m
          BY <5>1
        <5>2. CASE i # m
          <6>1. i \in 0 .. m - 1 /\ h[i] = g[i]
            BY <1>0, <5>2
          <6> QED
            BY <2>1, <6>1
        <5> QED
          BY <5>1, <5>2
      <4> QED
        BY <3>2, <4>1, <4>2
    <3> QED
      BY <3>1, <3>2
  <2>3. h = [i \in 0 .. m |-> Next(h, i)]
    <3>1. h = [i \in 0 .. m |-> h[i]]
      OBVIOUS
    <3> HIDE DEF h, Next
    <3> QED
      BY <2>2, <3>1
  <2> HIDE DEF h, Next
  <2> QED
    BY <2>3
<1>4. Upto(n)
  <2> HIDE DEF Upto
  <2> DEFINE T == {m \in 0 .. n : Upto(m)}
  <2>1. 0 \in T /\ \A m \in 0 .. n : m > 0 /\ m - 1 \in T => m \in T
    BY <1>0, <1>2, <1>3
  <2>2. \A m \in 0 .. n : m \in T
    <3> HIDE DEF T
    <3> QED
      BY <1>0, <2>1, CountUp
  <2> QED
    BY <1>0, <2>2
<1>5. kept = [i \in 0 .. n |-> Next(kept, i)]
  <2> HIDE DEF Next
  <2> QED
    BY <1>4, Zenon
<1> HIDE DEF kept
<1>6. kept[0] = <<>> /\ \A i \in 1 .. n : kept[i] = Next(kept, i)
  <2> DEFINE h == [i \in 0 .. n |-> Next(kept, i)]
  <2>1. \A i \in 0 .. n : h[i] = Next(kept, i)
    OBVIOUS
  <2>2. kept = h
    BY <1>5
  <2> HIDE DEF h
  <2> QED
    BY <1>0, <2>1, <2>2
<1> DEFINE T == {m \in 0 .. n : kept[m] \in Seq(S) /\ KeptOf(kept[m], s, keep, m)}
<1>7. 0 \in T
  <2>1. Len(<<>>) = 0 /\ <<>> \in Seq(S)
    BY EmptySeq
  <2>2. [i \in 1 .. 0 |-> i] \in [1 .. 0 -> 1 .. 0]
    OBVIOUS
  <2>3. KeptOf(<<>>, s, keep, 0)
    <3>1. \A i \in 1 .. 0 : FALSE
      OBVIOUS
    <3> QED
      BY <2>1, <2>2, <3>1 DEF KeptOf
  <2>4. kept[0] \in Seq(S) /\ KeptOf(kept[0], s, keep, 0)
    <3>1. kept[0] = <<>>
      BY <1>6
    <3> QED
      BY <2>1, <2>3, <3>1, Zenon
  <2>5. 0 \in 0 .. n
    BY <1>0
  <2> HIDE DEF Next
  <2> QED
    BY <2>4, <2>5
<1>8. ASSUME NEW m \in 0 .. n, m > 0, m - 1 \in T PROVE m \in T
  <2>1. m \in 1 .. Len(s) /\ kept[m - 1] \in Seq(S) /\ KeptOf(kept[m - 1], s, keep, m - 1)
    BY <1>0, <1>8
  <2>2. kept[m] = IF s[m] \in keep THEN Append(kept[m - 1], s[m]) ELSE kept[m - 1]
    BY <1>6, <2>1
  <2>3. kept[m] \in Seq(S) /\ KeptOf(kept[m], s, keep, m)
    BY <2>1, <2>2, KeptGrows
  <2> QED
    BY <2>3
<1>9. n \in T
  <2> HIDE DEF T
  <2>1. \A m \in 0 .. n : m \in T
    BY <1>0, <1>7, <1>8, CountUp
  <2> QED
    BY <1>0, <2>1
<1> QED
  BY <1>1, <1>9

-----------------------------------------------------------------------------
(* LockScreen: the attempt limit holds, typed characters are kept, and no  *)
(* buffer is given up while an output waits for its GPU surface.           *)

(* The counter is behind only when a lock-out has started, which also ends *)
(* the row of attempts.                                                    *)
AttemptsAreCounted ==
  /\ failedAttempts \in Nat /\ unlimited \in Nat
  /\ unlimited <= failedAttempts
  /\ lockout # "none" => unlimited = 0
  /\ RateLimited

(* Both are taken together, by TypeChar, Backspace and Rejected, and the   *)
(* end of a shake that takes the password alone leaves its mark, unless    *)
(* there was nothing to take.                                              *)
BoxIsTyped ==
  /\ wiped \in BOOLEAN
  /\ TypedIsKept

(* The outputs and their buffers.                                          *)
SurfacesAgree ==
  /\ shows \in [Output -> {"nothing", "fallback", "gpu"}]
  /\ pending \cup gpu = Output
  /\ FallbackIsKept

-----------------------------------------------------------------------------
(* A row of failed attempts ends at the limit: a key that passes an        *)
(* expired lock-out leaves the counter where it was, above the limit, and  *)
(* the loop's tail sets it back only when the row has ended.               *)
LEMMA AttemptSteps == AttemptsAreCounted /\ [LockNext]_lockVars => AttemptsAreCounted'
<1> SUFFICES ASSUME AttemptsAreCounted, [LockNext]_lockVars PROVE AttemptsAreCounted'
  OBVIOUS
<1> USE DEF AttemptsAreCounted, RateLimited, authVars
<1>1. CASE KeyIgnored
  BY <1>1 DEF KeyIgnored
<1>2. CASE Backspace
  BY <1>2 DEF Backspace, KeyPasses
<1>3. CASE Accepted
  BY <1>3 DEF Accepted
<1>4. CASE Rejected
  BY <1>4 DEF Rejected, LimitReached
<1>5. CASE LockoutPasses
  BY <1>5 DEF LockoutPasses
<1>6. ASSUME NEW ch \in Char, TypeChar(ch) PROVE AttemptsAreCounted'
  BY <1>6 DEF TypeChar, KeyPasses
<1>7. ASSUME NEW o \in Output, NEW shm \in BOOLEAN, NEW made \in BOOLEAN,
             ConfigurePending(o, shm, made)
      PROVE  AttemptsAreCounted'
  BY <1>7 DEF ConfigurePending
<1>8. CASE OtherEvent \/ Finished \/ DispatchFails
  BY <1>8 DEF OtherEvent, Finished, DispatchFails
<1>9. ASSUME NEW over \in BOOLEAN, NEW drawn \in SUBSET gpu, LoopTail(over, drawn) PROVE AttemptsAreCounted'
  BY <1>9 DEF LoopTail
<1>10. CASE UNCHANGED lockVars
  BY <1>10 DEF lockVars
<1> QED
  BY <1>1, <1>2, <1>3, <1>4, <1>5, <1>6, <1>7, <1>8, <1>9, <1>10 DEF LockNext

(* What is typed and what is in the box change together.                   *)
LEMMA BoxSteps == BoxIsTyped /\ [LockNext]_lockVars => BoxIsTyped'
<1> SUFFICES ASSUME BoxIsTyped, [LockNext]_lockVars PROVE BoxIsTyped'
  OBVIOUS
<1> USE DEF BoxIsTyped, TypedIsKept, authVars
<1>1. CASE KeyIgnored
  BY <1>1 DEF KeyIgnored
<1>2. CASE Backspace
  BY <1>2 DEF Backspace
<1>3. CASE Accepted
  BY <1>3 DEF Accepted
<1>4. CASE Rejected
  BY <1>4 DEF Rejected
<1>5. CASE LockoutPasses
  BY <1>5 DEF LockoutPasses
<1>6. ASSUME NEW ch \in Char, TypeChar(ch) PROVE BoxIsTyped'
  BY <1>6 DEF TypeChar
<1>7. ASSUME NEW o \in Output, NEW shm \in BOOLEAN, NEW made \in BOOLEAN,
             ConfigurePending(o, shm, made)
      PROVE  BoxIsTyped'
  BY <1>7 DEF ConfigurePending
<1>8. CASE OtherEvent \/ Finished \/ DispatchFails
  BY <1>8 DEF OtherEvent, Finished, DispatchFails
<1>9. ASSUME NEW over \in BOOLEAN, NEW drawn \in SUBSET gpu, LoopTail(over, drawn) PROVE BoxIsTyped'
  BY <1>9 DEF LoopTail, ShakeTick
<1>10. CASE UNCHANGED lockVars
  BY <1>10 DEF lockVars
<1> QED
  BY <1>1, <1>2, <1>3, <1>4, <1>5, <1>6, <1>7, <1>8, <1>9, <1>10 DEF LockNext

(* The buffers go when no output is pending, and then all are on the GPU.  *)
LEMMA SurfaceSteps == SurfacesAgree /\ [LockNext]_lockVars => SurfacesAgree'
<1> SUFFICES ASSUME SurfacesAgree, [LockNext]_lockVars PROVE SurfacesAgree'
  OBVIOUS
<1> USE DEF SurfacesAgree, FallbackIsKept, surfaceVars
<1>1. CASE KeyIgnored
  BY <1>1 DEF KeyIgnored
<1>2. CASE Backspace
  BY <1>2 DEF Backspace, KeyPasses
<1>3. CASE Accepted
  BY <1>3 DEF Accepted
<1>4. CASE Rejected
  BY <1>4 DEF Rejected, KeyPasses
<1>5. CASE LockoutPasses
  BY <1>5 DEF LockoutPasses
<1>6. ASSUME NEW ch \in Char, TypeChar(ch) PROVE SurfacesAgree'
  BY <1>6 DEF TypeChar, KeyPasses
<1>7. ASSUME NEW o \in Output, NEW shm \in BOOLEAN, NEW made \in BOOLEAN,
             ConfigurePending(o, shm, made)
      PROVE  SurfacesAgree'
  <2> DEFINE kept == IF shm THEN fallback \cup {o} ELSE fallback
  <2>1. \A q \in Output : shows'[q] = "fallback" => q \in kept \/ gpu = Output
    BY <1>7 DEF ConfigurePending
  <2>2. CASE made
    <3>1. /\ pending' = pending \ {o} /\ gpu' = gpu \cup {o}
          /\ fallback' = IF pending' = {} THEN {} ELSE kept
      BY <1>7, <2>2 DEF ConfigurePending, FallbackAfterGpu
    <3>2. pending' \cup gpu' = Output
      BY <3>1
    <3>3. shows' \in [Output -> {"nothing", "fallback", "gpu"}]
      BY <1>7 DEF ConfigurePending
    <3> QED
      BY <2>1, <3>1, <3>2, <3>3
  <2>3. CASE ~made
    BY <1>7, <2>1, <2>3 DEF ConfigurePending
  <2> QED
    BY <2>2, <2>3
<1>8. CASE OtherEvent \/ Finished \/ DispatchFails
  BY <1>8 DEF OtherEvent, Finished, DispatchFails
<1>9. ASSUME NEW over \in BOOLEAN, NEW drawn \in SUBSET gpu, LoopTail(over, drawn) PROVE SurfacesAgree'
  BY <1>9 DEF LoopTail
<1>10. CASE UNCHANGED lockVars
  BY <1>10 DEF lockVars
<1> QED
  BY <1>1, <1>2, <1>3, <1>4, <1>5, <1>6, <1>7, <1>8, <1>9, <1>10 DEF LockNext

-----------------------------------------------------------------------------
(* No order of keys, expiries and ticks lets three failed attempts pass in *)
(* a row.                                                                  *)
THEOREM LimitHolds == LockSpec => []RateLimited
<1>1. LockInit => AttemptsAreCounted
  BY DEF LockInit, AttemptsAreCounted, RateLimited
<1>2. AttemptsAreCounted => RateLimited
  BY DEF AttemptsAreCounted
<1> QED
  BY <1>1, <1>2, AttemptSteps, PTL DEF LockSpec

(* PAM is asked about what was typed, unless the end of a shake took some. *)
THEOREM TypingKept == LockSpec => []TypedIsKept
<1>1. LockInit => BoxIsTyped
  BY DEF LockInit, BoxIsTyped, TypedIsKept
<1>2. BoxIsTyped => TypedIsKept
  BY DEF BoxIsTyped
<1> QED
  BY <1>1, <1>2, BoxSteps, PTL DEF LockSpec

(* An output that shows its buffer has it for as long as any output waits  *)
(* for its GPU surface.                                                    *)
THEOREM BuffersKept == LockSpec => []FallbackIsKept
<1>1. LockInit => SurfacesAgree
  BY DEF LockInit, SurfacesAgree, FallbackIsKept
<1>2. SurfacesAgree => FallbackIsKept
  BY DEF SurfacesAgree
<1> QED
  BY <1>1, <1>2, SurfaceSteps, PTL DEF LockSpec

(* The types, with both counts of the row of attempts below that of all.   *)
LockTypesInv ==
  /\ LockTypeOK
  /\ failedAttempts <= failures /\ unlimited <= failures

(* A failed attempt is let through only below the bound on all of them,    *)
(* and the counts start again from there.                                  *)
LEMMA LockTypeSteps == LockTypesInv /\ [LockNext]_lockVars => LockTypesInv'
<1> SUFFICES ASSUME LockTypesInv, [LockNext]_lockVars PROVE LockTypesInv'
  OBVIOUS
<1> USE LockAssumption DEF LockTypesInv, LockTypeOK, authVars, surfaceVars, endVars
<1>0. /\ <<>> \in Seq(Char)
      /\ Shorter(password) \in Seq(Char) /\ Shorter(typed) \in Seq(Char)
  <2>1. ASSUME NEW s \in Seq(Char) PROVE Shorter(s) \in Seq(Char)
    <3>1. CASE s = <<>>
      BY <3>1 DEF Shorter
    <3>2. CASE s # <<>>
      <4>1. Len(s) \in Nat /\ Len(s) # 0
        BY <3>2, LenProperties, EmptySeq
      <4>2. SubSeq(s, 1, Len(s) - 1) \in Seq(Char)
        BY <4>1, SubSeqProperties
      <4> QED
        BY <3>2, <4>2 DEF Shorter
    <3> QED
      BY <3>1, <3>2
  <2> QED
    BY <2>1, EmptySeq
<1>1. CASE KeyIgnored
  BY <1>1 DEF KeyIgnored
<1>2. CASE Backspace
  BY <1>0, <1>2 DEF Backspace, KeyPasses
<1>3. CASE Accepted
  BY <1>3 DEF Accepted
<1>4. CASE Rejected
  <2>1. /\ failures' = failures + 1 /\ failures' \in 0 .. MaxFailures
        /\ failedAttempts' = failedAttempts + 1
        /\ unlimited' \in {0, unlimited + 1}
        /\ lockout' \in {"none", "active", "expired"}
    BY <1>4 DEF Rejected
  <2>2. failedAttempts' \in 0 .. MaxFailures /\ failedAttempts' <= failures'
    BY <2>1
  <2>3. unlimited' \in 0 .. MaxFailures /\ unlimited' <= failures'
    BY <2>1
  <2> QED
    BY <1>0, <1>4, <2>1, <2>2, <2>3 DEF Rejected, KeyPasses
<1>5. CASE LockoutPasses
  BY <1>5 DEF LockoutPasses
<1>6. ASSUME NEW ch \in Char, TypeChar(ch) PROVE LockTypesInv'
  BY <1>6, AppendProperties DEF TypeChar, KeyPasses
<1>7. ASSUME NEW o \in Output, NEW shm \in BOOLEAN, NEW made \in BOOLEAN,
             ConfigurePending(o, shm, made)
      PROVE  LockTypesInv'
  <2>1. pending' \subseteq Output /\ gpu' \subseteq Output /\ fallback' \subseteq Output
    BY <1>7 DEF ConfigurePending, FallbackAfterGpu
  <2>2. shows' \in [Output -> {"nothing", "fallback", "gpu"}]
    BY <1>7 DEF ConfigurePending
  <2> QED
    BY <1>7, <2>1, <2>2 DEF ConfigurePending
<1>8. CASE OtherEvent \/ Finished \/ DispatchFails
  BY <1>8 DEF OtherEvent, Finished, DispatchFails
<1>9. ASSUME NEW over \in BOOLEAN, NEW drawn \in SUBSET gpu, LoopTail(over, drawn) PROVE LockTypesInv'
  <2>1. CASE denied \/ exit
    BY <1>9, <2>1 DEF LoopTail
  <2>2. CASE ~ (denied \/ exit)
    <3>1. password' \in Seq(Char) /\ {shaking', wiped'} \subseteq BOOLEAN
      BY <1>0, <1>9, <2>2 DEF LoopTail, ShakeTick
    <3>2. shows' \in [Output -> {"nothing", "fallback", "gpu"}]
      BY <1>9, <2>2 DEF LoopTail
    <3>3. failedAttempts' \in {0, failedAttempts} /\ lockout' \in {"none", lockout}
      BY <1>9, <2>2 DEF LoopTail
    <3>4. failedAttempts' \in 0 .. MaxFailures /\ failedAttempts' <= failures
      BY <3>3
    <3>5. UNCHANGED <<typed, failures, unlimited, pending, gpu, fallback, exit, denied, locker>>
      BY <1>9, <2>2 DEF LoopTail
    <3>6. stirred' = FALSE
      BY <1>9 DEF LoopTail
    <3> QED
      BY <3>1, <3>2, <3>3, <3>4, <3>5, <3>6
  <2> QED
    BY <2>1, <2>2
<1>10. CASE UNCHANGED lockVars
  BY <1>10 DEF lockVars
<1> QED
  BY <1>1, <1>2, <1>3, <1>4, <1>5, <1>6, <1>7, <1>8, <1>9, <1>10 DEF LockNext

(* Nothing has been typed and no output has a surface yet.                 *)
LEMMA LockTypesStart == LockInit => LockTypesInv
<1> SUFFICES ASSUME LockInit PROVE LockTypesInv
  OBVIOUS
<1>1. 0 \in 0 .. MaxFailures /\ <<>> \in Seq(Char)
  BY LockAssumption
<1>2. [o \in Output |-> "nothing"] \in [Output -> {"nothing", "fallback", "gpu"}]
  OBVIOUS
<1>3. 0 <= 0
  OBVIOUS
<1>4. LockTypeOK
  BY <1>1, <1>2 DEF LockInit, LockTypeOK
<1> QED
  BY <1>3, <1>4 DEF LockInit, LockTypesInv

(* The locker's variables keep their types.                                *)
THEOREM LockTyped == LockSpec => []LockTypeOK
<1>1. LockTypesInv => LockTypeOK
  BY DEF LockTypesInv
<1> QED
  BY <1>1, LockTypesStart, LockTypeSteps, PTL DEF LockSpec

-----------------------------------------------------------------------------
(* Announcer: the player thread and the interrupt run one mpv at a time.   *)

(* What runs is the clip that is played: still at the head of the queue    *)
(* before it is registered, the registered one after.                      *)
PlayerInv ==
  /\ player \in {"idle", "spawned", "playing"}
  /\ \E S : clips \in Seq(S)
  /\ player = "idle" => mpvs = {}
  /\ player = "spawned" => clips # <<>> /\ mpvs \subseteq {Head(clips)}
  /\ player = "playing" => mpvs \subseteq {current}

(* A change of the announcer, or of the voice state, leaves one player.   *)
LEMMA PlayerSteps ==
  PlayerInv /\ [AnnouncerNext \/ VoiceChanges]_announcerVars => PlayerInv'
<1> SUFFICES ASSUME PlayerInv, [AnnouncerNext \/ VoiceChanges]_announcerVars
             PROVE  PlayerInv'
  OBVIOUS
<1> DEFINE Same == UNCHANGED <<clips, playerVars>>
<1>1. CASE Same
  BY <1>1 DEF playerVars, PlayerInv
<1>2. ASSUME NEW s \in Speaker, Event(s) \/ DebounceEnds(s) PROVE Same
  BY <1>2 DEF Event, DebounceEnds, playerVars
<1>3. ASSUME NEW high \in BOOLEAN, Speak(high) PROVE Same
  BY <1>3 DEF Speak
<1>4. CASE Tick \/ Replay \/ GenerationFails
  BY <1>1, <1>4 DEF Tick, Replay, GenerationFails
<1>5. CASE Disconnect \/ Reconnect \/ ToggleMute \/ VoiceChanges
  BY <1>1, <1>5 DEF Disconnect, Reconnect, ToggleMute, VoiceChanges
<1>6. CASE Generated
  <2>1. /\ clips' = Append(clips, generating) /\ player' = player
        /\ mpvs' \subseteq mpvs
        /\ current' = current \/ mpvs' = mpvs \ {current}
    BY <1>6 DEF Generated, Interrupt
  <2>2. PICK S : clips \in Seq(S)
    BY DEF PlayerInv
  <2>3. clips' \in Seq(S \cup {generating}) /\ clips' # <<>>
    <3>1. clips \in Seq(S \cup {generating})
      BY <2>2, SeqMonotonic
    <3> QED
      BY <2>1, <3>1, AppendProperties
  <2>4. clips # <<>> => Head(clips') = Head(clips)
    BY <2>1, <2>2, HeadTailAppend
  <2> QED
    BY <2>1, <2>3, <2>4 DEF PlayerInv
<1>7. CASE SpawnMpv
  BY <1>7 DEF SpawnMpv, PlayerInv
<1>8. CASE RegisterMpv
  <2>1. PICK S : clips \in Seq(S)
    BY DEF PlayerInv
  <2>2. Tail(clips) \in Seq(S)
    BY <1>8, <2>1, HeadTailProperties DEF RegisterMpv, PlayerInv
  <2> QED
    BY <1>8, <2>2 DEF RegisterMpv, PlayerInv
<1>9. CASE PollMpv
  BY <1>9 DEF PollMpv, PlayerInv
<1>10. ASSUME NEW c \in mpvs, MpvEnds(c) PROVE PlayerInv'
  BY <1>10 DEF MpvEnds, PlayerInv
<1>11. CASE UNCHANGED announcerVars
  BY <1>1, <1>11 DEF announcerVars, playerVars
<1> QED
  BY <1>1, <1>2, <1>3, <1>4, <1>5, <1>6, <1>7, <1>8, <1>9, <1>10, <1>11 DEF AnnouncerNext

(* However interrupts, polls and new clips interleave, the daemon never    *)
(* runs two mpv processes at once.                                         *)
THEOREM OneVoiceSpeaks == AnnouncerSpec => []OneVoice
<1>1. AnnouncerInit => PlayerInv
  BY EmptySeq DEF AnnouncerInit, PlayerInv
<1>2. PlayerInv => OneVoice
  BY DEF PlayerInv, OneVoice
<1> QED
  BY <1>1, <1>2, PlayerSteps, PTL DEF AnnouncerSpec

-----------------------------------------------------------------------------
(* Announcer: what is said about a session is said in order.               *)

Said == [of : Speaker, text : Nat]

(* Announcements that wait, by the order of their events, up to the n-th.  *)
InTextOrder(q, n) ==
  /\ q \in Seq(Said)
  /\ \A i \in 1 .. Len(q) : q[i].text <= n
  /\ \A i, j \in 1 .. Len(q) : i < j => q[i].text < q[j].text

OnePerSession(q) == \A i, j \in 1 .. Len(q) : q[i].of = q[j].of => i = j

StillToSay(q) == \A i \in 1 .. Len(q) : spoken[q[i].of] <= q[i].text

(* What is generated is later than what was said, and earlier than what    *)
(* the tick has still to replay; nothing is suppressed until it is out.    *)
ReplaysAgree ==
  /\ StillToSay(suppressed) /\ StillToSay(replays)
  /\ generating \in Said =>
       \A i \in 1 .. Len(replays) : generating.text <= replays[i].text
  /\ replays # <<>> \/ generating \in Said => suppressed = <<>>

SpeechInv ==
  /\ texts \in Nat /\ spoken \in [Speaker -> Nat]
  /\ gap \in {"none", "seen", "resumed"}
  /\ \A s \in Speaker : spoken[s] <= texts
  /\ InTextOrder(suppressed, texts) /\ OnePerSession(suppressed)
  /\ InTextOrder(replays, texts) /\ OnePerSession(replays)
  /\ generating \in Said => generating.text <= texts
  /\ gap = "none" => ReplaysAgree
  /\ gap = "seen" => replays = <<>> /\ ~wasActive
  /\ gap # "resumed" /\ generating \in Said =>
       spoken[generating.of] <= generating.text

(* The entries of a queue in order.                                        *)
LEMMA OrderFacts ==
  ASSUME NEW q, NEW n, InTextOrder(q, n)
  PROVE  /\ Len(q) \in Nat
         /\ \A i \in 1 .. Len(q) : q[i] \in Said /\ q[i].of \in Speaker /\ q[i].text \in Nat
<1>1. q \in Seq(Said)
  BY DEF InTextOrder
<1>2. Len(q) \in Nat /\ \A i \in 1 .. Len(q) : q[i] \in Said
  BY <1>1, LenProperties, ElementOfSeq
<1> QED
  BY <1>2 DEF Said

(* What keeps the order of the entries and adds none keeps the queue.      *)
LEMMA QueueThins ==
  ASSUME NEW q, NEW n, InTextOrder(q, n), OnePerSession(q), NEW t \in Seq(Said),
         Len(t) \in Nat,
         NEW f, \A i \in 1 .. Len(t) : f[i] \in 1 .. Len(q) /\ t[i] = q[f[i]],
         \A i, j \in 1 .. Len(t) : i < j => f[i] < f[j]
  PROVE  InTextOrder(t, n) /\ OnePerSession(t) /\ (StillToSay(q) => StillToSay(t))
<1>1. \A i \in 1 .. Len(t) : t[i].text <= n
  BY DEF InTextOrder
<1>2. \A i, j \in 1 .. Len(t) : i < j => t[i].text < t[j].text
  BY DEF InTextOrder
<1>3. ASSUME NEW i \in 1 .. Len(t), NEW j \in 1 .. Len(t), t[i].of = t[j].of
      PROVE  i = j
  <2>1. f[i] = f[j]
    BY <1>3 DEF OnePerSession
  <2>2. ~(i < j) /\ ~(j < i)
    <3>1. f[i] \in Nat /\ f[j] \in Nat
      BY OrderFacts
    <3> QED
      BY <2>1, <3>1
  <2> QED
    BY <2>2
<1>4. StillToSay(q) => StillToSay(t)
  BY DEF StillToSay
<1> QED
  BY <1>1, <1>2, <1>3, <1>4 DEF InTextOrder, OnePerSession

(* The first goes.                                                         *)
LEMMA TailThins ==
  ASSUME NEW q, NEW n, InTextOrder(q, n), OnePerSession(q), q # <<>>
  PROVE  /\ InTextOrder(Tail(q), n) /\ OnePerSession(Tail(q))
         /\ StillToSay(q) => StillToSay(Tail(q))
         /\ \A i \in 1 .. Len(Tail(q)) : i + 1 \in 1 .. Len(q) /\ Tail(q)[i] = q[i + 1]
<1> DEFINE t == Tail(q)
           f == [i \in 1 .. Len(t) |-> i + 1]
<1>1. q \in Seq(Said) /\ Len(q) \in Nat
  BY OrderFacts DEF InTextOrder
<1>2. /\ t \in Seq(Said) /\ Len(t) = Len(q) - 1
      /\ \A i \in 1 .. Len(t) : t[i] = q[i + 1]
  BY <1>1, HeadTailProperties
<1>3. Len(t) \in Nat
  BY <1>2, LenProperties
<1> HIDE DEF t
<1>4. \A i \in 1 .. Len(t) : f[i] \in 1 .. Len(q) /\ t[i] = q[f[i]]
  BY <1>1, <1>2
<1>5. \A i, j \in 1 .. Len(t) : i < j => f[i] < f[j]
  OBVIOUS
<1> HIDE DEF f
<1>6. InTextOrder(t, n) /\ OnePerSession(t) /\ (StillToSay(q) => StillToSay(t))
  BY <1>2, <1>3, <1>4, <1>5, QueueThins
<1>7. \A i \in 1 .. Len(t) : i + 1 \in 1 .. Len(q) /\ t[i] = q[i + 1]
  BY <1>1, <1>2
<1> QED
  BY <1>6, <1>7 DEF t

(* The one of a session goes, and none of it is left.                      *)
LEMMA RemovalThins ==
  ASSUME NEW q, NEW n, InTextOrder(q, n), OnePerSession(q), NEW k \in 1 .. Len(q)
  PROVE  /\ InTextOrder(RemoveAt(q, k), n) /\ OnePerSession(RemoveAt(q, k))
         /\ StillToSay(q) => StillToSay(RemoveAt(q, k))
         /\ \A i \in 1 .. Len(RemoveAt(q, k)) : RemoveAt(q, k)[i].of # q[k].of
<1> DEFINE a == SubSeq(q, 1, k - 1)
           b == SubSeq(q, k + 1, Len(q))
           t == RemoveAt(q, k)
           f == [i \in 1 .. Len(t) |-> IF i < k THEN i ELSE i + 1]
<1>1. Len(q) \in Nat /\ k \in Nat /\ \A i \in 1 .. Len(q) : q[i] \in Said
  BY OrderFacts
<1>2. /\ a \in Seq(Said) /\ Len(a) = k - 1
      /\ \A i \in 1 .. k - 1 : a[i] = q[i]
  <2>1. \A i \in 1 .. k - 1 : q[i] \in Said
    BY <1>1
  <2>2. /\ SubSeq(q, 1, k - 1) \in Seq(Said)
        /\ Len(SubSeq(q, 1, k - 1)) = IF 1 <= k - 1 THEN (k - 1) - 1 + 1 ELSE 0
        /\ \A i \in 1 .. (k - 1) - 1 + 1 : SubSeq(q, 1, k - 1)[i] = q[1 + i - 1]
    BY <1>1, <2>1, SubSeqProperties
  <2> HIDE DEF a
  <2>3. a = SubSeq(q, 1, k - 1)
    BY DEF a
  <2> QED
    BY <1>1, <2>2, <2>3
<1>3. /\ b \in Seq(Said) /\ Len(b) = Len(q) - k
      /\ \A i \in 1 .. Len(q) - k : b[i] = q[k + i]
  <2>1. \A i \in k + 1 .. Len(q) : q[i] \in Said
    BY <1>1
  <2>2. /\ SubSeq(q, k + 1, Len(q)) \in Seq(Said)
        /\ Len(SubSeq(q, k + 1, Len(q))) = IF k + 1 <= Len(q)
                                           THEN Len(q) - (k + 1) + 1 ELSE 0
        /\ \A i \in 1 .. Len(q) - (k + 1) + 1 :
             SubSeq(q, k + 1, Len(q))[i] = q[(k + 1) + i - 1]
    BY <1>1, <2>1, SubSeqProperties
  <2> HIDE DEF b
  <2>3. b = SubSeq(q, k + 1, Len(q))
    BY DEF b
  <2> QED
    BY <1>1, <2>2, <2>3
<1> HIDE DEF a, b
<1>4. /\ t \in Seq(Said) /\ Len(t) = Len(q) - 1
      /\ \A i \in 1 .. Len(t) : t[i] = IF i < k THEN q[i] ELSE q[i + 1]
  <2>1. t = a \o b
    BY DEF t, a, b, RemoveAt
  <2> HIDE DEF t
  <2>2. /\ a \o b \in Seq(Said) /\ Len(a \o b) = Len(a) + Len(b)
        /\ \A i \in 1 .. Len(a) + Len(b) :
             (a \o b)[i] = IF i <= Len(a) THEN a[i] ELSE b[i - Len(a)]
    BY <1>2, <1>3, ConcatProperties
  <2>3. Len(t) = Len(q) - 1
    BY <1>1, <1>2, <1>3, <2>1, <2>2
  <2>4. ASSUME NEW i \in 1 .. Len(t) PROVE t[i] = IF i < k THEN q[i] ELSE q[i + 1]
    <3>1. CASE i < k
      <4>1. i \in 1 .. k - 1 /\ i <= Len(a) /\ i \in 1 .. Len(a) + Len(b)
        BY <1>1, <1>2, <1>3, <2>3, <3>1
      <4> QED
        BY <1>2, <2>1, <2>2, <3>1, <4>1
    <3>2. CASE ~(i < k)
      <4>1. /\ i - Len(a) \in 1 .. Len(q) - k /\ ~(i <= Len(a))
            /\ i \in 1 .. Len(a) + Len(b) /\ k + (i - Len(a)) = i + 1
        BY <1>1, <1>2, <1>3, <2>3, <3>2
      <4> QED
        BY <1>3, <2>1, <2>2, <3>2, <4>1
    <3> QED
      BY <3>1, <3>2
  <2> QED
    BY <2>1, <2>2, <2>3, <2>4
<1>5. Len(t) \in Nat
  BY <1>4, LenProperties
<1> HIDE DEF t
<1>6. \A i \in 1 .. Len(t) : f[i] \in 1 .. Len(q) /\ t[i] = q[f[i]] /\ f[i] # k
  BY <1>1, <1>4
<1>7. \A i, j \in 1 .. Len(t) : i < j => f[i] < f[j]
  BY <1>1
<1> HIDE DEF f
<1>8. InTextOrder(t, n) /\ OnePerSession(t) /\ (StillToSay(q) => StillToSay(t))
  BY <1>4, <1>5, <1>6, <1>7, QueueThins
<1>9. \A i \in 1 .. Len(t) : t[i].of # q[k].of
  BY <1>6 DEF OnePerSession
<1> QED
  BY <1>8, <1>9 DEF t

(* The latest event goes to the end.                                       *)
LEMMA QueueGrows ==
  ASSUME NEW q, NEW n \in Nat, InTextOrder(q, n), OnePerSession(q),
         NEW a \in Said, a.text = n + 1, \A i \in 1 .. Len(q) : q[i].of # a.of
  PROVE  /\ InTextOrder(Append(q, a), n + 1) /\ OnePerSession(Append(q, a))
         /\ StillToSay(q) /\ spoken[a.of] <= a.text => StillToSay(Append(q, a))
<1> DEFINE t == Append(q, a)
<1>1. q \in Seq(Said) /\ Len(q) \in Nat /\ \A i \in 1 .. Len(q) : q[i].text \in Nat
  BY OrderFacts DEF InTextOrder
<1>2. /\ t \in Seq(Said) /\ Len(t) = Len(q) + 1 /\ t[Len(q) + 1] = a
      /\ \A i \in 1 .. Len(q) : t[i] = q[i]
  BY <1>1, AppendProperties
<1> HIDE DEF t
<1>3. ASSUME NEW i \in 1 .. Len(t)
      PROVE  (i \in 1 .. Len(q) /\ t[i] = q[i]) \/ (i = Len(q) + 1 /\ t[i] = a)
  BY <1>1, <1>2
<1>4. \A i \in 1 .. Len(q) : q[i].text <= n
  BY DEF InTextOrder
<1>5. \A i \in 1 .. Len(t) : t[i].text <= n + 1
  BY <1>1, <1>3, <1>4
<1>6. ASSUME NEW i \in 1 .. Len(t), NEW j \in 1 .. Len(t), i < j
      PROVE  t[i].text < t[j].text
  <2>1. i \in 1 .. Len(q) /\ t[i] = q[i]
    BY <1>1, <1>2, <1>3, <1>6
  <2>2. CASE j \in 1 .. Len(q) /\ t[j] = q[j]
    BY <1>6, <2>1, <2>2 DEF InTextOrder
  <2>3. CASE t[j] = a
    BY <1>1, <1>4, <2>1, <2>3
  <2> QED
    BY <1>3, <2>2, <2>3
<1>7. OnePerSession(t)
  BY <1>3 DEF OnePerSession
<1>8. StillToSay(q) /\ spoken[a.of] <= a.text => StillToSay(t)
  BY <1>3 DEF StillToSay
<1>9. InTextOrder(t, n + 1)
  BY <1>2, <1>5, <1>6 DEF InTextOrder
<1> QED
  BY <1>7, <1>8, <1>9 DEF t

(* push keeps the queue in order, one entry of each session.               *)
LEMMA SuppressKeeps ==
  ASSUME SpeechInv, NEW s \in Speaker, NEW a, a = [of |-> s, text |-> texts + 1]
  PROVE  /\ InTextOrder(Suppress(a), texts + 1) /\ OnePerSession(Suppress(a))
         /\ StillToSay(suppressed) => StillToSay(Suppress(a))
<1> DEFINE others == Others(s)
           rest == IF Len(others) >= SuppressedMax THEN Tail(others) ELSE others
           mine == {i \in DOMAIN suppressed : suppressed[i].of = s}
<1>1. InTextOrder(suppressed, texts) /\ OnePerSession(suppressed) /\ texts \in Nat
  BY DEF SpeechInv
<1>2. DOMAIN suppressed = 1 .. Len(suppressed)
  BY <1>1, LenProperties DEF InTextOrder
<1>3. /\ InTextOrder(others, texts) /\ OnePerSession(others)
      /\ StillToSay(suppressed) => StillToSay(others)
      /\ \A i \in 1 .. Len(others) : others[i].of # s
  <2>1. CASE mine = {}
    <3>1. others = suppressed
      BY <2>1 DEF Others
    <3>2. \A i \in 1 .. Len(suppressed) : suppressed[i].of # s
      BY <1>2, <2>1
    <3> HIDE DEF others
    <3> QED
      BY <1>1, <3>1, <3>2
  <2>2. CASE mine # {}
    <3> DEFINE k == CHOOSE i \in mine : TRUE
    <3>1. k \in mine /\ others = RemoveAt(suppressed, k)
      BY <2>2 DEF Others
    <3>2. k \in 1 .. Len(suppressed) /\ suppressed[k].of = s
      BY <1>2, <3>1
    <3> HIDE DEF k, others
    <3> QED
      BY <1>1, <3>1, <3>2, RemovalThins
  <2> QED
    BY <2>1, <2>2
<1> HIDE DEF others
<1>4. /\ InTextOrder(rest, texts) /\ OnePerSession(rest)
      /\ StillToSay(suppressed) => StillToSay(rest)
      /\ \A i \in 1 .. Len(rest) : rest[i].of # s
  <2>1. CASE Len(others) >= SuppressedMax
    <3>1. others # <<>>
      <4>1. Len(others) \in Nat /\ others \in Seq(Said)
        BY <1>3, OrderFacts DEF InTextOrder
      <4>2. Len(others) # 0
        BY <2>1, <4>1, AnnouncerAssumption
      <4> QED
        BY <4>1, <4>2, EmptySeq
    <3>2. rest = Tail(others)
      BY <2>1
    <3> HIDE DEF rest
    <3> QED
      BY <1>3, <3>1, <3>2, TailThins
  <2>2. CASE ~(Len(others) >= SuppressedMax)
    BY <1>3, <2>2
  <2> QED
    BY <2>1, <2>2
<1> HIDE DEF rest
<1>5. a \in Said /\ a.text = texts + 1 /\ a.of = s
  BY <1>1 DEF Said
<1>6. spoken[a.of] <= a.text
  BY <1>5 DEF SpeechInv
<1>7. Suppress(a) = Append(rest, a)
  BY <1>5 DEF Suppress, others, rest
<1> QED
  BY <1>1, <1>4, <1>5, <1>6, <1>7, QueueGrows

(* Silence and requests are no announcements.                              *)
LEMMA NotSaid ==
  /\ NoClip \notin Said
  /\ \A n, high : [text |-> n, high |-> high] \notin Said
  /\ Announcement \subseteq Said
BY DEF NoClip, Said, Announcement

(* An empty queue is in order.                                             *)
LEMMA EmptyQueue ==
  ASSUME NEW n
  PROVE  InTextOrder(<<>>, n) /\ OnePerSession(<<>>) /\ StillToSay(<<>>)
<1>1. <<>> \in Seq(Said) /\ Len(<<>>) = 0
  BY EmptySeq
<1> QED
  BY <1>1 DEF InTextOrder, OnePerSession, StillToSay

(* A queue stays in order when the next event comes.                       *)
LEMMA OrderLasts ==
  ASSUME NEW q, NEW n \in Nat, InTextOrder(q, n)
  PROVE  InTextOrder(q, n + 1)
<1>1. \A i \in 1 .. Len(q) : q[i].text \in Nat
  BY OrderFacts
<1> QED
  BY <1>1 DEF InTextOrder

(* What the history says of an event, ...                                  *)
LEMMA SeenFacts ==
  ASSUME gap \in {"none", "seen", "resumed"}, GapSeen, wasActive' = VoiceActive
  PROVE  /\ gap' \in {"none", "seen", "resumed"}
         /\ gap' = "none" => gap = "none" /\ (VoiceActive \/ suppressed = <<>>)
         /\ gap' = "seen" => ~wasActive'
<1>1. /\ gap' \in {"none", "seen", "resumed"}
      /\ gap' = "none" => gap = "none" /\ (VoiceActive \/ suppressed = <<>>)
      /\ gap' = "seen" => ~VoiceActive
  BY DEF GapSeen
<1> QED
  BY <1>1

(* ... and when the loop goes on, with nothing on its way or more to say.  *)
AllOut == suppressed = <<>> /\ replays = <<>> /\ generating = NoClip

(* The history settles only when all is out.                               *)
LEMMA SettleFacts ==
  ASSUME gap \in {"none", "seen", "resumed"}, GapSettles
  PROVE  /\ gap' \in {"none", "seen", "resumed"}
         /\ gap' = "none" => gap = "none" \/ AllOut'
         /\ gap' = "seen" => gap = "seen" /\ ~(VoiceActive /\ LoopFree) /\ ~AllOut'
  BY DEF GapSettles, AllOut

(* With nothing on its way everything agrees.                              *)
LEMMA AllOutAgrees == AllOut => ReplaysAgree
<1> SUFFICES ASSUME AllOut PROVE ReplaysAgree
  OBVIOUS
<1>1. suppressed = <<>> /\ replays = <<>> /\ generating \notin Said
  BY NotSaid DEF AllOut
<1>2. StillToSay(suppressed) /\ StillToSay(replays)
  BY <1>1, EmptyQueue
<1> QED
  BY <1>1, <1>2 DEF ReplaysAgree

(* An event is announced, or waits.                                        *)
LEMMA EventSpeech ==
  ASSUME SpeechInv, NEW s \in Speaker, Event(s)
  PROVE  SpeechInv'
<1> DEFINE a == [of |-> s, text |-> texts + 1]
<1>0. /\ texts \in Nat /\ gap \in {"none", "seen", "resumed"}
      /\ InTextOrder(suppressed, texts) /\ OnePerSession(suppressed)
      /\ spoken \in [Speaker -> Nat] /\ \A r \in Speaker : spoken[r] <= texts
      /\ gap = "none" => ReplaysAgree
  BY DEF SpeechInv
<1>1. /\ texts' = texts + 1 /\ replays = <<>> /\ replays' = <<>> /\ spoken' = spoken
      /\ generating = NoClip /\ wasActive' = VoiceActive /\ GapSeen
  BY DEF Event, LoopFree
<1>2. /\ gap' \in {"none", "seen", "resumed"}
      /\ gap' = "none" => gap = "none" /\ (VoiceActive \/ suppressed = <<>>)
      /\ gap' = "seen" => ~wasActive'
  BY <1>0, <1>1, SeenFacts
<1>3. a \in Said /\ a.text = texts + 1 /\ a.of = s /\ spoken[s] <= a.text
  BY <1>0 DEF Said
<1>4. InTextOrder(replays', texts') /\ OnePerSession(replays')
  BY <1>1, EmptyQueue
<1>5. StillToSay(replays)' /\ \A i \in 1 .. Len(replays') : FALSE
  <2>1. Len(replays') = 0
    BY <1>1, EmptySeq
  <2> QED
    BY <2>1 DEF StillToSay
<1>6. texts' \in Nat /\ \A r \in Speaker : spoken'[r] <= texts'
  BY <1>0, <1>1
<1>7. CASE ~muted /\ ~VoiceActive
  <2>1. suppressed' = suppressed /\ (generating' = NoClip \/ generating' = a)
    BY <1>1, <1>7 DEF Event, Announce
  <2>2. InTextOrder(suppressed', texts') /\ OnePerSession(suppressed')
    BY <1>0, <1>1, <2>1, OrderLasts
  <2>3. generating' \in Said => generating' = a
    BY <2>1, NotSaid
  <2> HIDE DEF a
  <2>4. generating' \in Said => generating'.text <= texts'
    BY <1>0, <1>1, <1>3, <2>3
  <2>5. generating' \in Said => spoken'[generating'.of] <= generating'.text
    BY <1>1, <1>3, <2>3
  <2>6. gap' = "none" => ReplaysAgree'
    <3> SUFFICES ASSUME gap' = "none" PROVE ReplaysAgree'
      OBVIOUS
    <3>1. suppressed' = <<>>
      BY <1>2, <1>7, <2>1
    <3>2. StillToSay(suppressed)'
      <4>1. Len(suppressed') = 0
        BY <3>1, EmptySeq
      <4> QED
        BY <4>1 DEF StillToSay
    <3> QED
      BY <1>5, <3>1, <3>2 DEF ReplaysAgree
  <2> QED
    BY <1>0, <1>1, <1>2, <1>4, <1>6, <2>2, <2>4, <2>5, <2>6 DEF SpeechInv
<1>8. CASE ~(~muted /\ ~VoiceActive)
  <2>1. generating' = NoClip /\ generating' \notin Said
    BY <1>1, <1>8, NotSaid DEF Event
  <2>2. suppressed' = suppressed \/ suppressed' = Suppress(a)
    BY <1>8 DEF Event
  <2>3. /\ InTextOrder(suppressed', texts') /\ OnePerSession(suppressed')
        /\ StillToSay(suppressed) => StillToSay(suppressed)'
    <3>1. CASE suppressed' = suppressed
      BY <1>0, <1>1, <3>1, OrderLasts DEF StillToSay
    <3>2. CASE suppressed' = Suppress(a)
      <4>1. PICK q : q = Suppress(a)
        OBVIOUS
      <4>2. /\ InTextOrder(q, texts + 1) /\ OnePerSession(q)
            /\ StillToSay(suppressed) => StillToSay(q)
        BY <4>1, SuppressKeeps
      <4> QED
        BY <1>1, <3>2, <4>1, <4>2 DEF StillToSay
    <3> QED
      BY <2>2, <3>1, <3>2
  <2>4. gap' = "none" => ReplaysAgree'
    BY <1>0, <1>1, <1>2, <1>5, <2>1, <2>3 DEF ReplaysAgree
  <2> QED
    BY <1>0, <1>1, <1>2, <1>4, <1>6, <2>1, <2>3, <2>4 DEF SpeechInv
<1> QED
  BY <1>7, <1>8

(* The tick replays what waited, or forgets it.                            *)
LEMMA TickSpeech ==
  ASSUME SpeechInv, Tick
  PROVE  SpeechInv'
<1>0. /\ gap \in {"none", "seen", "resumed"}
      /\ InTextOrder(suppressed, texts) /\ OnePerSession(suppressed)
      /\ gap = "none" => ReplaysAgree
      /\ gap = "seen" => ~wasActive
  BY DEF SpeechInv
<1>1. /\ LoopFree /\ GapSettles
      /\ suppressed' = (IF VoiceActive THEN suppressed ELSE <<>>)
      /\ replays' = (IF wasActive /\ ~VoiceActive /\ ~muted THEN suppressed ELSE <<>>)
      /\ generating' = generating /\ generating = NoClip /\ generating \notin Said
      /\ texts' = texts /\ spoken' = spoken
  BY NotSaid DEF Tick, LoopFree
<1>2. /\ suppressed' \in {suppressed, <<>>} /\ replays' \in {suppressed, <<>>}
      /\ suppressed' = <<>> \/ replays' = <<>>
  BY <1>1
<1>3. /\ InTextOrder(suppressed', texts') /\ OnePerSession(suppressed')
      /\ InTextOrder(replays', texts') /\ OnePerSession(replays')
  BY <1>0, <1>1, <1>2, EmptyQueue
<1>4. /\ gap' \in {"none", "seen", "resumed"}
      /\ gap' = "none" => gap = "none" \/ AllOut'
      /\ gap' = "seen" => gap = "seen" /\ ~(VoiceActive /\ LoopFree) /\ ~AllOut'
  BY <1>0, <1>1, SettleFacts
<1>5. gap' # "seen"
  <2> SUFFICES ASSUME gap' = "seen" PROVE FALSE
    OBVIOUS
  <2>1. ~VoiceActive /\ ~wasActive /\ ~AllOut'
    BY <1>0, <1>1, <1>4
  <2> QED
    BY <1>1, <2>1 DEF AllOut
<1>6. gap' = "none" => ReplaysAgree'
  <2>1. CASE AllOut'
    BY <2>1, AllOutAgrees, PTL
  <2>2. CASE gap = "none"
    <3>1. StillToSay(suppressed)
      BY <1>0, <2>2 DEF ReplaysAgree
    <3>2. StillToSay(<<>>)
      BY EmptyQueue
    <3>3. StillToSay(suppressed)' /\ StillToSay(replays)'
      BY <1>1, <1>2, <3>1, <3>2 DEF StillToSay
    <3> QED
      BY <1>1, <1>2, <3>3 DEF ReplaysAgree
  <2> QED
    BY <1>4, <2>1, <2>2
<1> QED
  BY <1>1, <1>3, <1>4, <1>5, <1>6 DEF SpeechInv

(* The next of the replays is announced, or dropped.                       *)
LEMMA ReplaySpeech ==
  ASSUME SpeechInv, Replay
  PROVE  SpeechInv'
<1>0. /\ gap \in {"none", "seen", "resumed"} /\ texts \in Nat
      /\ InTextOrder(replays, texts) /\ OnePerSession(replays)
      /\ gap = "none" => ReplaysAgree
      /\ gap = "seen" => replays = <<>>
  BY DEF SpeechInv
<1>1. /\ replays # <<>> /\ replays' = Tail(replays) /\ GapSettles
      /\ suppressed' = suppressed /\ texts' = texts /\ spoken' = spoken
      /\ generating' = generating \/ generating' = Head(replays)
      /\ generating \notin Said
  BY NotSaid DEF Replay, Announce
<1>2. PICK t : t = Tail(replays)
  OBVIOUS
<1>3. /\ InTextOrder(t, texts) /\ OnePerSession(t)
      /\ StillToSay(replays) => StillToSay(t)
      /\ \A i \in 1 .. Len(t) : i + 1 \in 1 .. Len(replays) /\ t[i] = replays[i + 1]
  BY <1>0, <1>1, <1>2, TailThins
<1>4. /\ Head(replays) = replays[1] /\ 1 \in 1 .. Len(replays)
      /\ Len(replays) \in Nat
      /\ \A i \in 1 .. Len(replays) : replays[i].text \in Nat
  <2>1. replays \in Seq(Said)
    BY <1>0 DEF InTextOrder
  <2> QED
    BY <1>0, <1>1, <2>1, EmptySeq, OrderFacts
<1>5. generating' \in Said => generating' = replays[1]
  BY <1>1, <1>4
<1>6. replays[1].text <= texts /\ \A i \in 1 .. Len(t) : replays[1].text <= t[i].text
  <2>1. \A i \in 1 .. Len(t) : i + 1 \in 1 .. Len(replays) /\ 1 < i + 1
    BY <1>3
  <2>2. \A i \in 1 .. Len(t) : replays[1].text < replays[i + 1].text
    BY <1>0, <1>4, <2>1 DEF InTextOrder
  <2>3. \A i \in 1 .. Len(t) : replays[i + 1].text \in Nat
    BY <1>4, <2>1
  <2>4. \A i \in 1 .. Len(t) : replays[1].text <= t[i].text
    BY <1>3, <1>4, <2>2, <2>3
  <2> QED
    BY <1>0, <1>4, <2>4 DEF InTextOrder
<1>7. /\ gap' \in {"none", "seen", "resumed"}
      /\ gap' = "none" => gap = "none" \/ AllOut'
      /\ gap' = "seen" => gap = "seen"
  BY <1>0, <1>1, SettleFacts
<1>8. gap' # "seen"
  BY <1>0, <1>1, <1>7
<1>9. gap' = "none" => ReplaysAgree'
  <2>1. CASE AllOut'
    BY <2>1, AllOutAgrees, PTL
  <2>2. CASE gap = "none"
    <3>1. StillToSay(replays) /\ suppressed = <<>> /\ StillToSay(suppressed)
      BY <1>0, <1>1, <2>2 DEF ReplaysAgree
    <3>2. StillToSay(t)
      BY <1>3, <3>1
    <3>3. StillToSay(suppressed)' /\ StillToSay(replays)'
      BY <1>1, <1>2, <3>1, <3>2 DEF StillToSay
    <3>4. generating' \in Said =>
            \A i \in 1 .. Len(replays') : generating'.text <= replays'[i].text
      BY <1>1, <1>2, <1>5, <1>6
    <3> QED
      BY <1>1, <3>1, <3>3, <3>4 DEF ReplaysAgree
  <2> QED
    BY <1>7, <2>1, <2>2
<1>10. gap' # "resumed" /\ generating' \in Said =>
         spoken'[generating'.of] <= generating'.text
  <2> SUFFICES ASSUME gap' # "resumed", generating' \in Said
               PROVE  spoken'[generating'.of] <= generating'.text
    OBVIOUS
  <2>1. gap = "none"
    BY <1>7, <1>8, NotSaid DEF AllOut
  <2>2. StillToSay(replays)
    BY <1>0, <2>1 DEF ReplaysAgree
  <2> QED
    BY <1>1, <1>4, <1>5, <2>2 DEF StillToSay
<1>11. InTextOrder(replays', texts') /\ OnePerSession(replays')
  BY <1>1, <1>2, <1>3
<1>12. generating' \in Said => generating'.text <= texts'
  BY <1>1, <1>5, <1>6
<1> QED
  BY <1>1, <1>7, <1>8, <1>9, <1>10, <1>11, <1>12 DEF SpeechInv

(* The clip goes to the player, which is what is said, or is not made.     *)
LEMMA ClipSpeech ==
  ASSUME SpeechInv, Generated \/ GenerationFails
  PROVE  /\ SpeechInv'
         /\ \A s \in Speaker : gap = "resumed" \/ spoken'[s] >= spoken[s]
<1>0. /\ gap \in {"none", "seen", "resumed"} /\ texts \in Nat
      /\ spoken \in [Speaker -> Nat] /\ \A s \in Speaker : spoken[s] <= texts
      /\ InTextOrder(replays, texts)
      /\ gap = "none" => ReplaysAgree
      /\ gap = "seen" => replays = <<>> /\ ~wasActive
      /\ generating \in Said => generating.text <= texts
      /\ gap # "resumed" /\ generating \in Said =>
           spoken[generating.of] <= generating.text
  BY DEF SpeechInv
<1>1. /\ suppressed' = suppressed /\ replays' = replays /\ texts' = texts
      /\ wasActive' = wasActive /\ generating' = NoClip /\ GapSettles
  BY DEF Generated, GenerationFails
<1>2. \/ spoken' = spoken
      \/ /\ generating \in Said /\ generating.of \in Speaker /\ generating.text \in Nat
         /\ spoken' = [spoken EXCEPT ![generating.of] = generating.text]
  BY NotSaid DEF Generated, GenerationFails, Said
<1>3. /\ spoken' \in [Speaker -> Nat] /\ \A s \in Speaker : spoken'[s] <= texts
      /\ \A s \in Speaker : gap = "resumed" \/ spoken'[s] >= spoken[s]
  BY <1>0, <1>2
<1>4. /\ gap' \in {"none", "seen", "resumed"}
      /\ gap' = "none" => gap = "none" \/ AllOut'
      /\ gap' = "seen" => gap = "seen"
  BY <1>0, <1>1, SettleFacts
<1>5. generating' \notin Said
  BY <1>1, NotSaid
<1>6. gap' = "none" => ReplaysAgree'
  <2>1. CASE AllOut'
    BY <2>1, AllOutAgrees, PTL
  <2>2. CASE gap = "none"
    <3>1. ReplaysAgree
      BY <1>0, <2>2
    <3>2. StillToSay(suppressed)'
      <4>1. CASE spoken' = spoken
        BY <1>1, <3>1, <4>1 DEF ReplaysAgree, StillToSay
      <4>2. CASE generating \in Said
        <5>1. suppressed' = <<>>
          BY <1>1, <3>1, <4>2 DEF ReplaysAgree
        <5>2. Len(suppressed') = 0
          BY <5>1, EmptySeq
        <5> QED
          BY <5>2 DEF StillToSay
      <4> QED
        BY <1>2, <4>1, <4>2
    <3>3. StillToSay(replays)'
      <4> SUFFICES ASSUME NEW i \in 1 .. Len(replays)
                   PROVE  spoken'[replays[i].of] <= replays[i].text
        BY <1>1 DEF StillToSay
      <4>1. replays[i].of \in Speaker /\ spoken[replays[i].of] <= replays[i].text
        BY <1>0, <3>1, OrderFacts DEF ReplaysAgree, StillToSay
      <4>2. generating \in Said => generating.text <= replays[i].text
        BY <3>1 DEF ReplaysAgree
      <4> QED
        BY <1>0, <1>2, <4>1, <4>2
    <3>4. replays' # <<>> => suppressed' = <<>>
      BY <1>1, <3>1 DEF ReplaysAgree
    <3> QED
      BY <1>5, <3>2, <3>3, <3>4 DEF ReplaysAgree
  <2> QED
    BY <1>4, <2>1, <2>2
<1> QED
  BY <1>0, <1>1, <1>3, <1>4, <1>5, <1>6 DEF SpeechInv

(* A request is no announcement.                                           *)
LEMMA RequestSpeech ==
  ASSUME SpeechInv, NEW high \in BOOLEAN, Speak(high)
  PROVE  SpeechInv'
<1>1. /\ generating' \notin Said /\ replays = <<>>
      /\ UNCHANGED <<texts, spoken, gap, suppressed, replays, wasActive>>
  BY NotSaid DEF Speak, LoopFree
<1>2. ReplaysAgree => ReplaysAgree'
  BY <1>1 DEF ReplaysAgree, StillToSay
<1> QED
  BY <1>1, <1>2 DEF SpeechInv

(* The player, the links and the mute switch say nothing themselves.       *)
LEMMA SpeechRests ==
  ASSUME SpeechInv,
         UNCHANGED <<texts, spoken, gap, suppressed, replays, generating, wasActive>>
  PROVE  SpeechInv'
<1>1. ReplaysAgree => ReplaysAgree'
  BY DEF ReplaysAgree, StillToSay
<1> QED
  BY <1>1 DEF SpeechInv

(* Each step keeps the order, and says nothing out of it.                  *)
LEMMA SpeechSteps ==
  ASSUME SpeechInv, [AnnouncerNext \/ VoiceChanges]_announcerVars
  PROVE  /\ SpeechInv'
         /\ \A s \in Speaker : gap = "resumed" \/ spoken'[s] >= spoken[s]
<1>0. spoken \in [Speaker -> Nat]
  BY DEF SpeechInv
<1>1. ASSUME NEW s \in Speaker, Event(s) PROVE SpeechInv' /\ spoken' = spoken
  BY <1>1, EventSpeech DEF Event
<1>2. CASE Tick
  BY <1>0, <1>2, TickSpeech DEF Tick
<1>3. CASE Replay
  BY <1>0, <1>3, ReplaySpeech DEF Replay
<1>4. CASE Generated \/ GenerationFails
  BY <1>4, ClipSpeech
<1>5. ASSUME NEW high \in BOOLEAN, Speak(high) PROVE SpeechInv' /\ spoken' = spoken
  BY <1>5, RequestSpeech DEF Speak
<1>6. ASSUME \/ \E s \in Speaker : DebounceEnds(s)
             \/ Disconnect \/ Reconnect \/ ToggleMute \/ VoiceChanges
             \/ SpawnMpv \/ RegisterMpv \/ PollMpv
             \/ \E c \in mpvs : MpvEnds(c)
             \/ UNCHANGED announcerVars
      PROVE  SpeechInv' /\ spoken' = spoken
  <2>1. UNCHANGED <<texts, spoken, gap, suppressed, replays, generating, wasActive>>
    BY <1>6 DEF DebounceEnds, Disconnect, Reconnect, ToggleMute, VoiceChanges, SpawnMpv,
                RegisterMpv, PollMpv, MpvEnds, loopVars, announcerVars
  <2> QED
    BY <2>1, SpeechRests
<1>7. ASSUME spoken' = spoken
      PROVE  \A s \in Speaker : gap = "resumed" \/ spoken'[s] >= spoken[s]
  BY <1>0, <1>7
<1> QED
  BY <1>1, <1>2, <1>3, <1>4, <1>5, <1>6, <1>7 DEF AnnouncerNext

(* For any sessions and any length of the queue: an announcement never     *)
(* comes after a later one of its session, replays included, unless what   *)
(* waited was kept by voice input that came back before the tick.          *)
THEOREM SpeaksInOrder == AnnouncerSpec => SpokenInOrder
<1>1. AnnouncerInit => SpeechInv
  <2> SUFFICES ASSUME AnnouncerInit PROVE SpeechInv
    OBVIOUS
  <2>1. /\ texts = 0 /\ suppressed = <<>> /\ replays = <<>> /\ generating = NoClip
        /\ spoken = [s \in Speaker |-> 0] /\ gap = "none"
    BY DEF AnnouncerInit
  <2>2. ReplaysAgree
    BY <2>1, AllOutAgrees DEF AllOut
  <2>3. /\ InTextOrder(suppressed, texts) /\ OnePerSession(suppressed)
        /\ InTextOrder(replays, texts) /\ OnePerSession(replays)
    BY <2>1, EmptyQueue
  <2>4. generating \notin Said
    BY <2>1, NotSaid
  <2> QED
    BY <2>1, <2>2, <2>3, <2>4 DEF SpeechInv
<1>2. SpeechInv /\ [AnnouncerNext \/ VoiceChanges]_announcerVars
      => /\ SpeechInv'
         /\ [\A s \in Speaker : gap = "resumed" \/ spoken'[s] >= spoken[s]]_announcerVars
  BY SpeechSteps
<1> QED
  BY <1>1, <1>2, PTL DEF AnnouncerSpec, SpokenInOrder

(* The types, with a player that has what it is about to register and      *)
(* numbers that have not all been given out.                               *)
AnnouncerTypesInv == AnnouncerTypeOK /\ PlayerInv /\ texts + requests <= MaxText

(* A list without one of its entries.                                      *)
LEMMA RemovalTypes ==
  ASSUME NEW S, NEW q \in Seq(S), NEW k \in 1 .. Len(q)
  PROVE  RemoveAt(q, k) \in Seq(S) /\ Len(RemoveAt(q, k)) = Len(q) - 1
<1>1. Len(q) \in Nat /\ k \in Nat /\ \A i \in 1 .. Len(q) : q[i] \in S
  BY LenProperties, ElementOfSeq
<1>2. /\ SubSeq(q, 1, k - 1) \in Seq(S)
      /\ Len(SubSeq(q, 1, k - 1)) = IF 1 <= k - 1 THEN (k - 1) - 1 + 1 ELSE 0
  <2>1. \A i \in 1 .. k - 1 : q[i] \in S
    BY <1>1
  <2> QED
    BY <1>1, <2>1, SubSeqProperties
<1>3. /\ SubSeq(q, k + 1, Len(q)) \in Seq(S)
      /\ Len(SubSeq(q, k + 1, Len(q))) = IF k + 1 <= Len(q) THEN Len(q) - (k + 1) + 1 ELSE 0
  <2>1. \A i \in k + 1 .. Len(q) : q[i] \in S
    BY <1>1
  <2> QED
    BY <1>1, <2>1, SubSeqProperties
<1> DEFINE a == SubSeq(q, 1, k - 1)
           b == SubSeq(q, k + 1, Len(q))
<1>4. Len(a) = k - 1 /\ Len(b) = Len(q) - k
  BY <1>1, <1>2, <1>3
<1>5. a \in Seq(S) /\ b \in Seq(S)
  BY <1>2, <1>3
<1>6. RemoveAt(q, k) = a \o b
  BY DEF RemoveAt
<1> HIDE DEF a, b
<1>7. a \o b \in Seq(S) /\ Len(a \o b) = Len(a) + Len(b)
  BY <1>5, ConcatProperties
<1> QED
  BY <1>1, <1>4, <1>6, <1>7

(* push never leaves more than SuppressedMax entries.                      *)
LEMMA SuppressTypes ==
  ASSUME suppressed \in Seq(Announcement), Len(suppressed) <= SuppressedMax,
         NEW a \in Announcement
  PROVE  Suppress(a) \in Seq(Announcement) /\ Len(Suppress(a)) <= SuppressedMax
<1> DEFINE others == Others(a.of)
           rest == IF Len(others) >= SuppressedMax THEN Tail(others) ELSE others
           mine == {i \in DOMAIN suppressed : suppressed[i].of = a.of}
<1>0. SuppressedMax \in Nat \ {0}
  BY AnnouncerAssumption
<1>1. DOMAIN suppressed = 1 .. Len(suppressed) /\ Len(suppressed) \in Nat
  BY LenProperties
<1>2. others \in Seq(Announcement) /\ Len(others) <= SuppressedMax /\ Len(others) \in Nat
  <2>1. CASE mine = {}
    <3>1. others = suppressed
      BY <2>1 DEF Others
    <3> HIDE DEF others
    <3> QED
      BY <1>1, <3>1
  <2>2. CASE mine # {}
    <3> DEFINE k == CHOOSE i \in mine : TRUE
    <3>1. k \in mine /\ others = RemoveAt(suppressed, k)
      BY <2>2 DEF Others
    <3>2. k \in 1 .. Len(suppressed)
      BY <1>1, <3>1
    <3> HIDE DEF k, others
    <3>3. others \in Seq(Announcement) /\ Len(others) = Len(suppressed) - 1
      BY <3>1, <3>2, RemovalTypes
    <3> QED
      BY <1>0, <1>1, <3>2, <3>3
  <2> QED
    BY <2>1, <2>2
<1> HIDE DEF others
<1>3. rest \in Seq(Announcement) /\ Len(rest) < SuppressedMax /\ Len(rest) \in Nat
  <2>1. CASE Len(others) >= SuppressedMax
    <3>1. others # <<>>
      BY <1>0, <1>2, <2>1, EmptySeq
    <3>2. Tail(others) \in Seq(Announcement) /\ Len(Tail(others)) = Len(others) - 1
      BY <1>2, <3>1, HeadTailProperties
    <3>3. rest = Tail(others)
      BY <2>1
    <3> HIDE DEF rest
    <3> QED
      BY <1>0, <1>2, <2>1, <3>2, <3>3
  <2>2. CASE ~(Len(others) >= SuppressedMax)
    <3>1. rest = others
      BY <2>2
    <3> HIDE DEF rest
    <3> QED
      BY <1>0, <1>2, <2>2, <3>1
  <2> QED
    BY <2>1, <2>2
<1> HIDE DEF rest
<1>4. Append(rest, a) \in Seq(Announcement) /\ Len(Append(rest, a)) = Len(rest) + 1
  BY <1>3, AppendProperties
<1>5. Suppress(a) = Append(rest, a)
  BY DEF Suppress, others, rest
<1> QED
  BY <1>0, <1>3, <1>4, <1>5

(* Every step of the announcer, and what voice capture does to its file,   *)
(* keeps the types.                                                        *)
LEMMA AnnouncerTypeSteps ==
  AnnouncerTypesInv /\ [AnnouncerNext \/ VoiceChanges]_announcerVars => AnnouncerTypesInv'
<1> SUFFICES ASSUME AnnouncerTypesInv, [AnnouncerNext \/ VoiceChanges]_announcerVars
             PROVE  AnnouncerTypeOK' /\ (texts + requests <= MaxText)'
  BY PlayerSteps DEF AnnouncerTypesInv
<1> USE DEF AnnouncerTypesInv
<1>0. /\ MaxText \in Nat /\ MaxRequest \in Nat /\ SuppressedMax \in Nat \ {0}
      /\ texts \in Nat /\ requests \in Nat
      /\ <<>> \in Seq(Announcement) /\ Len(<<>>) = 0
      /\ Announcement \subseteq Clip /\ Request \subseteq Clip
  BY AnnouncerAssumption, EmptySeq DEF AnnouncerTypeOK, Clip
<1>1. ASSUME NEW s \in Speaker, Event(s)
      PROVE  AnnouncerTypeOK' /\ (texts + requests <= MaxText)'
  <2> DEFINE a == [of |-> s, text |-> texts + 1]
  <2>1. /\ texts' = texts + 1 /\ texts + requests < MaxText /\ requests' = requests
        /\ UNCHANGED <<voiceFile, muted, replays, linked, clips, player, current, mpvs, spoken>>
        /\ wasActive' \in BOOLEAN
    BY <1>1 DEF Event, playerVars, VoiceActive
  <2>2. a \in Announcement
    BY <1>0, <2>1 DEF Announcement
  <2>3. gap' \in {"none", "seen", "resumed"}
    BY <1>1 DEF Event, GapSeen, AnnouncerTypeOK
  <2>4. /\ suppressed' \in {suppressed, Suppress(a)}
        /\ recent' \in {recent, recent \cup {s}} /\ generating' \in {generating, a}
    BY <1>1 DEF Event, Announce
  <2> HIDE DEF a
  <2>5. Suppress(a) \in Seq(Announcement) /\ Len(Suppress(a)) <= SuppressedMax
    BY <2>2, SuppressTypes DEF AnnouncerTypeOK
  <2>6. suppressed' \in Seq(Announcement) /\ Len(suppressed') <= SuppressedMax
    BY <2>4, <2>5 DEF AnnouncerTypeOK
  <2>7. generating' \in Clip \cup {NoClip} /\ recent' \subseteq Speaker
    BY <1>0, <2>2, <2>4 DEF AnnouncerTypeOK
  <2>8. texts' \in 0 .. MaxText /\ texts' + requests' <= MaxText
    BY <1>0, <2>1
  <2> QED
    BY <2>1, <2>3, <2>6, <2>7, <2>8 DEF AnnouncerTypeOK
<1>2. CASE Tick
  <2>1. gap' \in {"none", "seen", "resumed"}
    BY <1>2 DEF Tick, GapSettles, AnnouncerTypeOK
  <2>2. /\ suppressed' \in {suppressed, <<>>} /\ replays' \in {suppressed, <<>>}
        /\ wasActive' \in BOOLEAN
    BY <1>2 DEF Tick, VoiceActive
  <2>3. UNCHANGED <<voiceFile, muted, recent, generating, linked, clips, player, current,
                    mpvs, texts, requests, spoken>>
    BY <1>2 DEF Tick, playerVars
  <2>4. suppressed' \in Seq(Announcement) /\ Len(suppressed') <= SuppressedMax
    <3>1. CASE suppressed' = suppressed
      BY <3>1 DEF AnnouncerTypeOK
    <3>2. CASE suppressed' = <<>>
      <4>1. 0 <= SuppressedMax
        BY <1>0
      <4> QED
        BY <1>0, <3>2, <4>1
    <3> QED
      BY <2>2, <3>1, <3>2
  <2>5. replays' \in Seq(Announcement)
    BY <1>0, <2>2 DEF AnnouncerTypeOK
  <2> QED
    BY <2>1, <2>2, <2>3, <2>4, <2>5 DEF AnnouncerTypeOK
<1>3. CASE Replay
  <2>1. gap' \in {"none", "seen", "resumed"}
    BY <1>3 DEF Replay, GapSettles, AnnouncerTypeOK
  <2>2. Head(replays) \in Announcement /\ Tail(replays) \in Seq(Announcement)
    BY <1>3, HeadTailProperties DEF Replay, AnnouncerTypeOK
  <2>3. /\ replays' = Tail(replays)
        /\ recent' \in {recent, recent \cup {Head(replays).of}}
        /\ generating' \in {generating, Head(replays)}
        /\ UNCHANGED <<voiceFile, muted, wasActive, suppressed, linked, clips,
                       player, current, mpvs, texts, requests, spoken>>
    BY <1>3 DEF Replay, Announce, playerVars
  <2>4. generating' \in Clip \cup {NoClip} /\ recent' \subseteq Speaker
    BY <1>0, <2>2, <2>3 DEF AnnouncerTypeOK, Announcement
  <2> QED
    BY <2>1, <2>2, <2>3, <2>4 DEF AnnouncerTypeOK
<1>4. ASSUME NEW high \in BOOLEAN, Speak(high)
      PROVE  AnnouncerTypeOK' /\ (texts + requests <= MaxText)'
  <2>1. /\ requests < MaxRequest /\ texts + requests < MaxText
        /\ requests' = requests + 1
        /\ generating' \in {NoClip, [text |-> requests + 1, high |-> high]}
        /\ UNCHANGED <<voiceFile, muted, wasActive, suppressed, recent, replays,
                       linked, clips, player, current, mpvs, texts, spoken, gap>>
    BY <1>4 DEF Speak, playerVars
  <2>2. [text |-> requests + 1, high |-> high] \in Request
    BY <1>0, <2>1 DEF Request
  <2>3. generating' \in Clip \cup {NoClip}
    BY <1>0, <2>1, <2>2
  <2>4. requests' \in 0 .. MaxRequest /\ texts' + requests' <= MaxText
    BY <1>0, <2>1
  <2> QED
    BY <2>1, <2>3, <2>4 DEF AnnouncerTypeOK
<1>5. CASE Generated
  <2>1. gap' \in {"none", "seen", "resumed"}
    BY <1>5 DEF Generated, GapSettles, AnnouncerTypeOK
  <2>2. /\ clips' = Append(clips, generating) /\ generating # NoClip /\ generating' = NoClip
        /\ mpvs' \subseteq mpvs /\ current' \in {current, NoClip}
        /\ UNCHANGED <<voiceFile, muted, wasActive, suppressed, recent, replays,
                       linked, player, texts, requests>>
    BY <1>5 DEF Generated, Interrupt
  <2>3. clips' \in Seq(Clip)
    BY <2>2, AppendProperties DEF AnnouncerTypeOK
  <2>4. spoken' \in [Speaker -> 0 .. MaxText]
    <3>1. CASE generating \in Announcement
      <4>1. spoken' = [spoken EXCEPT ![generating.of] = generating.text]
        BY <1>5, <3>1 DEF Generated
      <4>2. generating.of \in Speaker /\ generating.text \in 0 .. MaxText
        BY <1>0, <3>1 DEF Announcement
      <4> QED
        BY <4>1, <4>2 DEF AnnouncerTypeOK
    <3>2. CASE generating \notin Announcement
      BY <1>5, <3>2 DEF Generated, AnnouncerTypeOK
    <3> QED
      BY <3>1, <3>2
  <2> QED
    BY <2>1, <2>2, <2>3, <2>4 DEF AnnouncerTypeOK
<1>6. CASE GenerationFails
  <2>1. gap' \in {"none", "seen", "resumed"}
    BY <1>6 DEF GenerationFails, GapSettles, AnnouncerTypeOK
  <2> QED
    BY <1>6, <2>1 DEF GenerationFails, AnnouncerTypeOK, playerVars
<1>7. ASSUME NEW s \in Speaker, DebounceEnds(s)
      PROVE  AnnouncerTypeOK' /\ (texts + requests <= MaxText)'
  BY <1>7 DEF DebounceEnds, AnnouncerTypeOK, playerVars
<1>8. CASE Disconnect \/ Reconnect \/ ToggleMute \/ VoiceChanges
  BY <1>8 DEF Disconnect, Reconnect, ToggleMute, VoiceChanges, VoiceFileNext,
              AnnouncerTypeOK, loopVars, playerVars
<1>9. CASE SpawnMpv \/ RegisterMpv \/ PollMpv
  <2>1. clips # <<>> => Head(clips) \in Clip /\ Tail(clips) \in Seq(Clip)
    BY HeadTailProperties DEF AnnouncerTypeOK
  <2>2. CASE SpawnMpv
    BY <2>1, <2>2 DEF SpawnMpv, AnnouncerTypeOK, loopVars
  <2>3. CASE RegisterMpv
    BY <2>1, <2>3 DEF RegisterMpv, AnnouncerTypeOK, PlayerInv, loopVars
  <2>4. CASE PollMpv
    BY <2>4 DEF PollMpv, AnnouncerTypeOK, loopVars
  <2> QED
    BY <1>9, <2>2, <2>3, <2>4
<1>10. ASSUME NEW c \in mpvs, MpvEnds(c)
       PROVE  AnnouncerTypeOK' /\ (texts + requests <= MaxText)'
  BY <1>10 DEF MpvEnds, AnnouncerTypeOK, loopVars
<1>11. CASE UNCHANGED announcerVars
  BY <1>11 DEF announcerVars, AnnouncerTypeOK
<1> QED
  BY <1>1, <1>2, <1>3, <1>4, <1>5, <1>6, <1>7, <1>8, <1>9, <1>10, <1>11 DEF AnnouncerNext

(* The announcer starts with nothing to say.                               *)
LEMMA AnnouncerTypesStart == AnnouncerInit => AnnouncerTypesInv
<1> SUFFICES ASSUME AnnouncerInit PROVE AnnouncerTypesInv
  OBVIOUS
<1>1. /\ MaxText \in Nat /\ MaxRequest \in Nat /\ SuppressedMax \in Nat
      /\ <<>> \in Seq(Announcement) /\ <<>> \in Seq(Clip) /\ Len(<<>>) = 0
  BY AnnouncerAssumption, EmptySeq
<1>2. 0 \in 0 .. MaxText /\ 0 \in 0 .. MaxRequest /\ 0 <= SuppressedMax /\ 0 + 0 <= MaxText
  BY <1>1
<1>3. [s \in Speaker |-> 0] \in [Speaker -> 0 .. MaxText]
  BY <1>2
<1>4. AnnouncerTypeOK
  BY <1>1, <1>2, <1>3 DEF AnnouncerInit, AnnouncerTypeOK
<1>5. PlayerInv
  BY <1>1 DEF AnnouncerInit, PlayerInv
<1>6. texts + requests <= MaxText
  BY <1>2 DEF AnnouncerInit
<1> QED
  BY <1>4, <1>5, <1>6 DEF AnnouncerTypesInv

(* The announcer's variables keep their types, whatever voice capture does *)
(* to its file: the suppressed queue stays within its limit.               *)
THEOREM AnnouncerTyped == AnnouncerSpec => []AnnouncerTypeOK
<1>1. AnnouncerTypesInv => AnnouncerTypeOK
  BY DEF AnnouncerTypesInv
<1> QED
  BY <1>1, AnnouncerTypesStart, AnnouncerTypeSteps, PTL DEF AnnouncerSpec

-----------------------------------------------------------------------------
(* VoiceCapture: what the state file says, and whose words are typed.      *)

DetectorTypes == inSpeech \in BOOLEAN /\ silence \in 0 .. SilenceRequired

(* The push-to-talk daemon captures nothing by itself; the other one's     *)
(* recorder runs under its flag, and it only leaves the state that says    *)
(* somebody is heard when the detector, the flag or a handler is at work.  *)
CaptureAgrees ==
  /\ mode \in {"listen", "ptt"}
  /\ capture \in {"muted", "monitoring", "wake_word", "listening"}
  /\ mode = "ptt" => capture = "muted"
  /\ mode = "listen" /\ recording => ptt
  /\ capture = "listening" => inSpeech \/ ptt \/ awaiting # "none"
  /\ awaiting # "none" => ~recording

IndicatorInv ==
  DetectorTypes /\ CaptureAgrees /\ fallbacks \in Nat /\ IndicatorTrue

(* What the file holds after a write of the loop: that state, when it is   *)
(* the loop's, and nothing new of a fallback.                              *)
LEMMA WriteFacts ==
  ASSUME NEW earlier, NEW state, WriteState(earlier, state)
  PROVE  /\ voiceWriter' = "capture" => voiceFile' = state
         /\ voiceWriter' = "fallback" => voiceFile' = voiceFile /\ voiceWriter = "fallback"
BY DEF WriteState, WriteFails

(* And after a chunk that shows no more than its way past the gate.        *)
LEMMA GateFacts ==
  ASSUME NEW shown, ShowGate(shown)
  PROVE  /\ voiceWriter' = "capture" =>
              voiceFile' = shown \/ (shown = capture /\ voiceFile' = voiceFile
                                       /\ voiceWriter = "capture")
         /\ voiceWriter' = "fallback" => voiceFile' = voiceFile /\ voiceWriter = "fallback"
BY WriteFacts DEF ShowGate, fileVars

(* After a write of another: what the loop or a fallback has left is then  *)
(* as it was, but for what a fallback has just written.                    *)
LEMMA OtherFacts ==
  ASSUME NEW who, who # "capture", NEW state, OtherWrites(who, state)
  PROVE  /\ voiceWriter' = "capture" => voiceFile' = voiceFile /\ voiceWriter = "capture"
         /\ voiceWriter' = "fallback" =>
              IF who = "fallback" THEN voiceFile' \in {state, "torn"}
              ELSE voiceFile' = voiceFile /\ voiceWriter = "fallback"
BY DEF OtherWrites, WriteFails

Verdict == [in : BOOLEAN, silence : 0 .. SilenceRequired, event : {"start", "continue", "end", "silence"}]

Windows == (BOOLEAN \X BOOLEAN) \cup {<<b>> : b \in BOOLEAN}

(* What one window makes of the detector and of the event so far.          *)
LEMMA HeardProperties ==
  ASSUME NEW v \in Verdict, NEW b \in BOOLEAN, NEW h, h = Heard(v, b)
  PROVE  /\ h \in Verdict
         /\ b => h.in /\ h.event = IF v.in THEN "continue" ELSE "start"
         /\ ~b /\ ~v.in => ~h.in /\ h.event = v.event
         /\ ~b /\ v.in => \/ h.in /\ h.event = "continue"
                          \/ ~h.in /\ h.event = "end"
<1>0. SilenceRequired \in Nat /\ 0 \in 0 .. SilenceRequired
  BY VoiceAssumption
<1>1. CASE b
  BY <1>0, <1>1 DEF Heard, Verdict
<1>2. CASE ~b /\ ~v.in
  <2>1. h = [v EXCEPT !.silence = IF v.silence < SilenceRequired THEN v.silence + 1
                                                                 ELSE v.silence]
    BY <1>2 DEF Heard
  <2>2. h = [in |-> v.in, event |-> v.event,
             silence |-> IF v.silence < SilenceRequired THEN v.silence + 1 ELSE v.silence]
    BY <2>1 DEF Verdict
  <2>3. h.silence \in 0 .. SilenceRequired
    BY <1>0, <2>2 DEF Verdict
  <2> QED
    BY <1>2, <2>2, <2>3 DEF Verdict
<1>3. CASE ~b /\ v.in
  BY <1>0, <1>3 DEF Heard, Verdict
<1> QED
  BY <1>1, <1>2, <1>3

(* What a chunk makes of the detector: an utterance that began in it was   *)
(* not there before, unless the event says that one began.                 *)
LEMMA ChunkProperties ==
  ASSUME DetectorTypes, NEW windows \in Windows, NEW p, p = ProcessChunk(windows)
  PROVE  /\ p.last.in \in BOOLEAN /\ p.last.silence \in 0 .. SilenceRequired /\ p.started \in BOOLEAN
         /\ p.last.event = "start" => p.last.in
         /\ p.last.event = "continue" => p.last.in
         /\ p.last.event = "end" => ~p.last.in
         /\ p.last.event = "silence" => ~p.last.in /\ ~inSpeech
         /\ p.last.event # "start" /\ p.started => ~inSpeech
         /\ p.last.event \in {"start", "continue"} => p.started \/ inSpeech
<1> DEFINE before == [in |-> inSpeech, silence |-> silence,
                      event |-> IF inSpeech THEN "continue" ELSE "silence"]
           first == Heard(before, windows[1])
<1>1. before \in Verdict /\ before.in = inSpeech /\ (~inSpeech => before.event = "silence")
  BY DEF DetectorTypes, Verdict
<1>2. windows[1] \in BOOLEAN /\ (Len(windows) = 1 \/ windows[2] \in BOOLEAN)
  BY DEF Windows
<1> HIDE DEF before
<1>3. /\ first \in Verdict
      /\ windows[1] => first.in /\ first.event = IF inSpeech THEN "continue" ELSE "start"
      /\ ~windows[1] /\ ~inSpeech => ~first.in /\ first.event = "silence"
      /\ ~windows[1] /\ inSpeech => \/ first.in /\ first.event = "continue"
                                    \/ ~first.in /\ first.event = "end"
  BY <1>1, <1>2, HeardProperties
<1>4. first.event = "start" => ~inSpeech
  BY <1>3 DEF DetectorTypes
<1>5. CASE Len(windows) = 1
  <2>1. p = [last |-> first, started |-> "start" \in {first.event, first.event}]
    BY <1>5 DEF ProcessChunk, before
  <2> HIDE DEF first
  <2>2. p.last = first /\ p.started \in BOOLEAN
    BY <2>1
  <2>3. /\ first.in \in BOOLEAN /\ first.silence \in 0 .. SilenceRequired
        /\ first.event = "start" => first.in
        /\ first.event = "continue" => first.in
        /\ first.event = "end" => ~first.in
        /\ first.event = "silence" => ~first.in /\ ~inSpeech
    BY <1>2, <1>3 DEF Verdict, DetectorTypes
  <2>4. first.event # "start" => ~p.started
    <3>1. p.started = ("start" \in {first.event, first.event})
      BY <2>1
    <3> QED
      BY <3>1, Zenon
  <2>5. first.event = "start" => p.started
    <3>1. p.started = ("start" \in {first.event, first.event})
      BY <2>1
    <3> QED
      BY <3>1, Zenon
  <2>6. first.event = "continue" => inSpeech
    BY <1>2, <1>3 DEF DetectorTypes
  <2> QED
    BY <2>2, <2>3, <2>4, <2>5, <2>6
<1>6. CASE Len(windows) # 1
  <2> DEFINE last == Heard(first, windows[2])
  <2>1. p = [last |-> last, started |-> "start" \in {first.event, last.event}]
    BY <1>6 DEF ProcessChunk, before
  <2>2. /\ last \in Verdict
        /\ windows[2] => last.in /\ last.event = IF first.in THEN "continue" ELSE "start"
        /\ ~windows[2] /\ ~first.in => ~last.in /\ last.event = first.event
        /\ ~windows[2] /\ first.in => \/ last.in /\ last.event = "continue"
                                      \/ ~last.in /\ last.event = "end"
    <3>1. windows[2] \in BOOLEAN
      BY <1>2, <1>6
    <3> HIDE DEF first
    <3> QED
      BY <1>3, <3>1, HeardProperties
  <2> HIDE DEF last, first
  <2>3. p.last = last /\ p.started \in BOOLEAN
    BY <2>1
  <2>4. /\ first.in \in BOOLEAN
        /\ first.event = "start" => first.in
        /\ first.event = "continue" => first.in
        /\ first.event = "silence" => ~first.in /\ ~inSpeech
    BY <1>2, <1>3 DEF DetectorTypes, Verdict
  <2>5. windows[2] \in BOOLEAN
    BY <1>2, <1>6
  <2>6. /\ last.in \in BOOLEAN /\ last.silence \in 0 .. SilenceRequired
        /\ last.event = "start" => last.in
        /\ last.event = "continue" => last.in
        /\ last.event = "end" => ~last.in
        /\ last.event = "silence" => ~last.in /\ ~inSpeech
    BY <2>2, <2>4, <2>5 DEF Verdict
  <2>7. last.event # "start" /\ p.started => ~inSpeech
    <3>1. p.started = ("start" \in {first.event, last.event})
      BY <2>1
    <3>2. p.started => first.event = "start" \/ last.event = "start"
      BY <3>1, Zenon
    <3> QED
      BY <1>4, <3>2
  <2>8. first.event = "start" \/ last.event = "start" => p.started
    <3>1. p.started = ("start" \in {first.event, last.event})
      BY <2>1
    <3> QED
      BY <3>1, Zenon
  <2>9. last.event = "continue" => first.event = "start" \/ inSpeech
    BY <1>2, <1>3, <2>2, <2>4, <2>5 DEF DetectorTypes
  <2> QED
    BY <2>3, <2>6, <2>7, <2>8, <2>9
<1> QED
  BY <1>5, <1>6

(* One chunk that the loop acts on.                                        *)
Hears(p, u, shown) ==
  \/ p.last.event = "start" /\ OnSpeechStart(u, shown)
  \/ p.last.event = "continue" /\ OnSpeechContinue(u, shown)
  \/ p.last.event = "end" /\ OnSpeechEnd(shown)
  \/ p.last.event = "silence" /\ OnSilence(shown)

(* What a microphone chunk does: p is what the detector makes of it, u    *)
(* the utterance it belongs to and shown the state the daemon publishes;  *)
(* Hears acts on all three.                                               *)
LEMMA ChunkActs ==
  ASSUME DetectorTypes, NEW windows \in Windows, Chunk(windows)
  PROVE  \E p : \E u, shown :
           /\ p.last.in \in BOOLEAN /\ p.last.silence \in 0 .. SilenceRequired /\ p.started \in BOOLEAN
           /\ p.last.event \in {"start", "continue"} => p.last.in
           /\ p.last.event \in {"end", "silence"} => ~p.last.in
           /\ p.last.event = "silence" => ~inSpeech
           /\ p.last.event # "start" /\ p.started => ~inSpeech
           /\ p.last.event \in {"start", "continue"} => p.started \/ inSpeech
           /\ u = utterance + (IF p.started THEN 1 ELSE 0) /\ utterance' = u
           /\ shown = IF capture = "wake_word" THEN "monitoring" ELSE capture
           /\ inSpeech' = (p.last.in /\ ~(p.last.event = "continue" /\ Len(buffer) >= MaxSpeech))
           /\ silence' \in 0 .. SilenceRequired
           /\ Hears(p, u, shown)
           /\ UNCHANGED <<mode, wakeWord, streaming, ptt, recording, taskVars, transcripts>>
           /\ mode = "listen" /\ awaiting = "none" /\ ~ptt
<1> DEFINE p == ProcessChunk(windows)
           u == utterance + (IF p.started THEN 1 ELSE 0)
           shown == IF capture = "wake_word" THEN "monitoring" ELSE capture
           capped == p.last.event = "continue" /\ Len(buffer) >= MaxSpeech
<1>1. /\ p.last.in \in BOOLEAN /\ p.last.silence \in 0 .. SilenceRequired /\ p.started \in BOOLEAN
      /\ p.last.event = "start" => p.last.in
      /\ p.last.event = "continue" => p.last.in
      /\ p.last.event = "end" => ~p.last.in
      /\ p.last.event = "silence" => ~p.last.in /\ ~inSpeech
      /\ p.last.event # "start" /\ p.started => ~inSpeech
      /\ p.last.event \in {"start", "continue"} => p.started \/ inSpeech
  BY ChunkProperties
<1>2. /\ utterance' = u /\ inSpeech' = (p.last.in /\ ~capped)
      /\ silence' = IF capped THEN 0 ELSE p.last.silence
      /\ 0 \in 0 .. SilenceRequired
      /\ Hears(p, u, shown)
      /\ UNCHANGED <<mode, wakeWord, streaming, ptt, recording, taskVars, transcripts>>
      /\ mode = "listen" /\ awaiting = "none" /\ ~ptt
  BY VoiceAssumption DEF Chunk, Hears, ChunkGate, fixedVars
<1> HIDE DEF p
<1> QED
  BY <1>1, <1>2

(* A chunk keeps the published state true.                                *)
LEMMA IndicatorHears ==
  ASSUME IndicatorInv, NEW windows \in Windows, Chunk(windows)
  PROVE  IndicatorInv'
<1>1. PICK p : \E u, shown :
        /\ p.last.in \in BOOLEAN /\ p.last.silence \in 0 .. SilenceRequired /\ p.started \in BOOLEAN
        /\ p.last.event \in {"start", "continue"} => p.last.in
        /\ p.last.event \in {"end", "silence"} => ~p.last.in
        /\ p.last.event = "silence" => ~inSpeech
        /\ p.last.event # "start" /\ p.started => ~inSpeech
        /\ p.last.event \in {"start", "continue"} => p.started \/ inSpeech
        /\ u = utterance + (IF p.started THEN 1 ELSE 0) /\ utterance' = u
        /\ shown = IF capture = "wake_word" THEN "monitoring" ELSE capture
        /\ inSpeech' = (p.last.in /\ ~(p.last.event = "continue" /\ Len(buffer) >= MaxSpeech))
        /\ silence' \in 0 .. SilenceRequired
        /\ Hears(p, u, shown)
        /\ UNCHANGED <<mode, wakeWord, streaming, ptt, recording, taskVars, transcripts>>
        /\ mode = "listen" /\ awaiting = "none" /\ ~ptt
  BY ChunkActs DEF IndicatorInv
<1>2. PICK u, shown :
        /\ shown = IF capture = "wake_word" THEN "monitoring" ELSE capture
        /\ Hears(p, u, shown)
  BY <1>1
<1>3. /\ shown \in {"muted", "monitoring", "listening"}
      /\ shown = "listening" => capture = "listening"
      /\ shown = "listening" => inSpeech
      /\ recording = FALSE \/ ~recording
      /\ ~recording
  BY <1>1, <1>2 DEF IndicatorInv, CaptureAgrees
<1>4. DetectorTypes'
  BY <1>1 DEF DetectorTypes
<1>5. RestState \in {"monitoring", "wake_word"}
  BY <1>1 DEF RestState
<1> DEFINE Rests(f) == voiceWriter' = "fallback" => f = voiceFile /\ voiceWriter = "fallback"
<1>5a. fallbacks' = fallbacks /\ UNCHANGED <<mode, ptt, recording>>
  BY <1>1 DEF taskVars
<1>6. CASE p.last.event = "start"
  <2>1. /\ capture' = "listening" /\ awaiting' = awaiting
        /\ voiceWriter' = "capture" => voiceFile' = "listening"
        /\ Rests(voiceFile')
    BY <1>2, <1>6, WriteFacts DEF Hears, OnSpeechStart
  <2> QED
    BY <1>1, <1>3, <1>4, <1>5a, <1>6, <2>1 DEF IndicatorInv, CaptureAgrees, IndicatorTrue
<1>7. CASE p.last.event = "continue"
  <2>1. CASE Len(buffer) >= MaxSpeech
    <3>1. /\ capture' = RestState /\ awaiting' = awaiting
          /\ voiceWriter' = "capture" => voiceFile' = RestState
          /\ Rests(voiceFile')
      BY <1>2, <1>7, <2>1, WriteFacts DEF Hears, OnSpeechContinue
    <3> QED
      BY <1>1, <1>3, <1>4, <1>5, <1>5a, <3>1 DEF IndicatorInv, CaptureAgrees, IndicatorTrue
  <2>2. CASE ~ (Len(buffer) >= MaxSpeech)
    <3>1. /\ capture' = shown /\ awaiting' = awaiting
          /\ voiceWriter' = "capture" =>
               voiceFile' = shown \/ (shown = capture /\ voiceFile' = voiceFile
                                        /\ voiceWriter = "capture")
          /\ Rests(voiceFile')
      BY <1>2, <1>7, <2>2, GateFacts DEF Hears, OnSpeechContinue
    <3>2. inSpeech'
      BY <1>1, <1>7, <2>2
    <3> QED
      BY <1>1, <1>3, <1>4, <1>5a, <3>1, <3>2 DEF IndicatorInv, CaptureAgrees, IndicatorTrue
  <2> QED
    BY <2>1, <2>2
<1>8. CASE p.last.event = "end"
  <2>1. /\ capture' = shown /\ awaiting' = "utterance"
        /\ voiceWriter' = "capture" => voiceFile' = "processing"
        /\ Rests(voiceFile')
    BY <1>2, <1>8, WriteFacts DEF Hears, OnSpeechEnd
  <2> QED
    BY <1>1, <1>3, <1>4, <1>5a, <1>8, <2>1 DEF IndicatorInv, CaptureAgrees, IndicatorTrue
<1>9. CASE p.last.event = "silence"
  <2>1. /\ capture' = shown /\ awaiting' = awaiting
        /\ voiceWriter' = "capture" =>
             voiceFile' = shown \/ (shown = capture /\ voiceFile' = voiceFile
                                      /\ voiceWriter = "capture")
        /\ Rests(voiceFile')
    BY <1>2, <1>9, GateFacts DEF Hears, OnSilence
  <2> QED
    BY <1>1, <1>3, <1>4, <1>5a, <1>9, <2>1 DEF IndicatorInv, CaptureAgrees, IndicatorTrue
<1> QED
  BY <1>2, <1>6, <1>7, <1>8, <1>9 DEF Hears

(* So does every step of the capture daemon.                              *)
LEMMA IndicatorSteps == IndicatorInv /\ [VoiceNext]_voiceVars => IndicatorInv'
<1> SUFFICES ASSUME IndicatorInv, [VoiceNext]_voiceVars PROVE IndicatorInv'
  OBVIOUS
<1>0. /\ RestState \in {"muted", "monitoring", "wake_word"}
      /\ mode = "ptt" => RestState = "muted"
      /\ 0 \in 0 .. SilenceRequired
  BY VoiceAssumption DEF RestState
<1>1. ASSUME NEW windows \in Windows, Chunk(windows) PROVE IndicatorInv'
  BY <1>1, IndicatorHears
<1> DEFINE Rests(f) == voiceWriter' = "fallback" => f = voiceFile /\ voiceWriter = "fallback"
<1> USE DEF IndicatorInv, DetectorTypes, CaptureAgrees, IndicatorTrue
<1>2. CASE ChunkUnheard
  <2>1. /\ voiceWriter' = "capture" =>
             voiceFile' = capture \/ (voiceFile' = voiceFile /\ voiceWriter = "capture")
        /\ Rests(voiceFile')
    BY <1>2, GateFacts DEF ChunkUnheard
  <2>2. /\ UNCHANGED <<mode, capture, inSpeech, silence, ptt, recording, awaiting, fallbacks>>
        /\ capture = "wake_word" /\ mode = "listen" /\ awaiting = "none" /\ ~ptt
    BY <1>2 DEF ChunkUnheard, ChunkGate, fixedVars, vadVars, taskVars
  <2> QED
    BY <2>1, <2>2
<1>3. CASE UtteranceTranscribed
  <2>1. /\ voiceWriter' = "capture" => voiceFile' = RestState
        /\ Rests(voiceFile')
    BY <1>3, WriteFacts DEF UtteranceTranscribed, Rest
  <2>2. /\ awaiting = "utterance" /\ awaiting' = "none" /\ capture' = RestState
        /\ inSpeech' = FALSE /\ silence' = 0 /\ fallbacks' = fallbacks
        /\ UNCHANGED <<mode, ptt, recording>>
    BY <1>3 DEF UtteranceTranscribed, Rest, VadReset, SpawnDispatch, fixedVars, taskVars
  <2>3. RestState # "listening" /\ RestState # "processing"
    BY <1>0
  <2> QED
    BY <1>0, <2>1, <2>2, <2>3
<1>4. CASE StartTalking
  <2>1. /\ voiceWriter' = "capture" => voiceFile' = IF recording' THEN "listening" ELSE "muted"
        /\ Rests(voiceFile')
    BY <1>4, WriteFacts DEF StartTalking
  <2>2. /\ awaiting = "none" /\ awaiting' = "none" /\ ptt' = (mode = "listen")
        /\ inSpeech' = FALSE /\ silence' = 0 /\ recording' \in BOOLEAN
        /\ UNCHANGED <<mode, capture, fallbacks>>
    BY <1>4 DEF StartTalking, VadReset, fixedVars, taskVars
  <2> QED
    BY <1>0, <2>1, <2>2
<1>5. CASE StopTalking
  <2>1. /\ awaiting = "none" /\ recording' = FALSE
        /\ UNCHANGED <<mode, inSpeech, silence, fallbacks>>
    BY <1>5 DEF StopTalking, fixedVars, vadVars, taskVars
  <2>2. CASE recording
    <3>1. /\ voiceWriter' = "capture" => voiceFile' = "processing"
          /\ Rests(voiceFile')
      BY <1>5, <2>2, WriteFacts DEF StopTalking
    <3>2. awaiting' = "recording" /\ UNCHANGED <<ptt, capture>>
      BY <1>5, <2>2 DEF StopTalking
    <3> QED
      BY <2>1, <3>1, <3>2
  <2>3. CASE ~recording
    <3>1. /\ voiceWriter' = "capture" => voiceFile' = RestState
          /\ Rests(voiceFile')
      BY <1>5, <2>3, WriteFacts DEF StopTalking, Rest
    <3>2. capture' = RestState /\ awaiting' = "none" /\ ptt' = FALSE
      BY <1>5, <2>3 DEF StopTalking, Rest
    <3> QED
      BY <1>0, <2>1, <3>1, <3>2
  <2> QED
    BY <2>2, <2>3
<1>6. CASE RecordingTranscribed
  <2>1. /\ voiceWriter' = "capture" => voiceFile' = RestState
        /\ Rests(voiceFile')
    BY <1>6, WriteFacts DEF RecordingTranscribed, Rest
  <2>2. /\ awaiting = "recording" /\ awaiting' = "none" /\ capture' = RestState
        /\ ptt' = FALSE /\ fallbacks' = fallbacks
        /\ UNCHANGED <<mode, inSpeech, silence, recording>>
    BY <1>6 DEF RecordingTranscribed, Rest, SpawnDispatch, fixedVars, vadVars, taskVars
  <2> QED
    BY <1>0, <2>1, <2>2
<1>7. CASE Shutdown
  <2>1. /\ voiceWriter' = "capture" => voiceFile' = "muted"
        /\ Rests(voiceFile')
    BY <1>7, WriteFacts DEF Shutdown
  <2>2. /\ awaiting' = "shutdown" /\ recording' = FALSE
        /\ UNCHANGED <<mode, capture, inSpeech, silence, ptt, fallbacks>>
    BY <1>7 DEF Shutdown, fixedVars, vadVars, taskVars
  <2> QED
    BY <2>1, <2>2
<1>8. CASE DispatchAnswered \/ UNCHANGED voiceVars
  BY <1>8 DEF DispatchAnswered, loopKeeps, fixedVars, vadVars, fileVars, voiceVars
<1>9. CASE FallbackBegins \/ FallbackEnds \/ SpeechLeftInFile
  <2>1. UNCHANGED <<mode, capture, inSpeech, silence, ptt, recording, awaiting>>
    BY <1>9 DEF FallbackBegins, FallbackEnds, SpeechLeftInFile, loopKeeps, fixedVars, vadVars
  <2>2. voiceWriter' = "capture" => voiceFile' = voiceFile /\ voiceWriter = "capture"
    BY <1>9, OtherFacts DEF FallbackBegins, FallbackEnds, SpeechLeftInFile
  <2>3. fallbacks' \in Nat
    BY <1>9 DEF FallbackBegins, FallbackEnds, SpeechLeftInFile, taskVars
  <2>4. voiceWriter' = "fallback" /\ voiceFile' = "processing" => fallbacks' > 0
    <3>1. CASE FallbackBegins
      BY <3>1 DEF FallbackBegins
    <3>2. CASE FallbackEnds
      <4>1. voiceWriter' = "fallback" => voiceFile' \in {"muted", "torn"}
        BY <3>2, OtherFacts DEF FallbackEnds
      <4> QED
        BY <4>1
    <3>3. CASE SpeechLeftInFile
      <4>1. Rests(voiceFile') /\ fallbacks' = fallbacks
        BY <3>3, OtherFacts DEF SpeechLeftInFile, taskVars
      <4> QED
        BY <4>1
    <3> QED
      BY <1>9, <3>1, <3>2, <3>3
  <2> QED
    BY <2>1, <2>2, <2>3, <2>4
<1> QED
  BY <1>1, <1>2, <1>3, <1>4, <1>5, <1>6, <1>7, <1>8, <1>9 DEF VoiceNext, Windows

(* As the loop has left it, the state file says that somebody is heard     *)
(* only while that is so, and always while a push-to-talk records, and     *)
(* that a text is awaited exactly while one is; as a fallback has left it, *)
(* that a text is awaited only while Claude is asked.                      *)
THEOREM IndicatorIsTrue == VoiceSpec => []IndicatorTrue
<1>1. VoiceInit => IndicatorInv
  <2> SUFFICES ASSUME VoiceInit PROVE IndicatorInv
    OBVIOUS
  <2>1. /\ mode \in {"listen", "ptt"} /\ recording = FALSE /\ awaiting = "none"
        /\ capture = RestState /\ voiceFile = RestState /\ inSpeech = FALSE /\ silence = 0
        /\ voiceWriter = "capture" /\ fallbacks = 0
    BY DEF VoiceInit
  <2>2. /\ 0 \in 0 .. SilenceRequired
        /\ RestState \in {"muted", "monitoring", "wake_word"}
        /\ mode = "ptt" => RestState = "muted"
    BY VoiceAssumption DEF RestState
  <2> QED
    BY <2>1, <2>2 DEF IndicatorInv, DetectorTypes, CaptureAgrees, IndicatorTrue
<1>2. IndicatorInv => IndicatorTrue
  BY DEF IndicatorInv
<1> QED
  BY <1>1, <1>2, IndicatorSteps, PTL DEF VoiceSpec

(* As long as the loop runs, the buffer and an open transcriber are the    *)
(* utterance's that was heard last, and nobody's between utterances.       *)
OneUtterance ==
  awaiting # "shutdown" =>
    /\ \A i \in DOMAIN buffer : buffer[i] = utterance
    /\ Sent \ orphans \subseteq {utterance}
    /\ ~inSpeech /\ awaiting # "utterance" => buffer = <<>> /\ Sent \subseteq orphans

WordsInv ==
  /\ DetectorTypes /\ utterance \in Nat /\ buffer \in Seq(Nat)
  /\ OneUtterance
  /\ \A t \in transcripts : \E u : t \ orphans \subseteq {u}

(* A chunk keeps each buffer within one utterance.                        *)
LEMMA WordsHear ==
  ASSUME WordsInv, NEW windows \in Windows, Chunk(windows)
  PROVE  WordsInv'
<1>1. PICK p : \E u, shown :
        /\ p.last.in \in BOOLEAN /\ p.last.silence \in 0 .. SilenceRequired /\ p.started \in BOOLEAN
        /\ p.last.event \in {"start", "continue"} => p.last.in
        /\ p.last.event \in {"end", "silence"} => ~p.last.in
        /\ p.last.event = "silence" => ~inSpeech
        /\ p.last.event # "start" /\ p.started => ~inSpeech
        /\ p.last.event \in {"start", "continue"} => p.started \/ inSpeech
        /\ u = utterance + (IF p.started THEN 1 ELSE 0) /\ utterance' = u
        /\ shown = IF capture = "wake_word" THEN "monitoring" ELSE capture
        /\ inSpeech' = (p.last.in /\ ~(p.last.event = "continue" /\ Len(buffer) >= MaxSpeech))
        /\ silence' \in 0 .. SilenceRequired
        /\ Hears(p, u, shown)
        /\ UNCHANGED <<mode, wakeWord, streaming, ptt, recording, taskVars, transcripts>>
        /\ mode = "listen" /\ awaiting = "none" /\ ~ptt
  BY ChunkActs DEF WordsInv
<1>2. PICK u, shown :
        /\ u = utterance + (IF p.started THEN 1 ELSE 0) /\ utterance' = u
        /\ Hears(p, u, shown)
  BY <1>1
<1>3. /\ u \in Nat /\ (~p.started => u = utterance)
      /\ p.last.event # "start" /\ p.started => ~inSpeech
      /\ \A i \in DOMAIN buffer : buffer[i] = utterance
      /\ Sent \ orphans \subseteq {utterance}
      /\ ~inSpeech => buffer = <<>> /\ Sent \subseteq orphans
      /\ buffer \in Seq(Nat) /\ awaiting = "none" /\ transcripts' = transcripts
      /\ inSpeech' \in BOOLEAN
  BY <1>1, <1>2 DEF WordsInv, OneUtterance
<1>4. DetectorTypes'
  BY <1>1 DEF DetectorTypes
<1>5. p.last.event # "start" =>
        /\ \A i \in DOMAIN buffer : buffer[i] = u
        /\ Sent \ orphans \subseteq {u}
  <2>1. DOMAIN <<>> = {}
    BY EmptySeq, LenProperties
  <2> QED
    BY <1>1, <1>3, <2>1
<1> DEFINE Ok(b) == b \in Seq(Nat) /\ \A i \in DOMAIN b : b[i] = u
<1>5a. p.last.event # "start" => Ok(buffer)
  BY <1>3, <1>5
<1> HIDE DEF Ok
<1> DEFINE Goal == /\ Ok(buffer') /\ orphans \subseteq orphans'
                   /\ Sent' \ orphans' \subseteq {u}
                   /\ inSpeech' \/ awaiting' = "utterance"
                        \/ (buffer' = <<>> /\ Sent' \subseteq orphans')
<1>6. ASSUME p.last.event = "start", OnSpeechStart(u, shown)
      PROVE  Goal
  <2>1. Ok(<<u>>)
    BY <1>3 DEF Ok
  <2>2. /\ buffer' = <<u>> /\ orphans' = orphans \cup Sent
        /\ transcriber' = {u} \/ transcriber' = transcriber
    BY <1>6 DEF OnSpeechStart
  <2>3. Sent' \subseteq {u} \cup Sent
    BY <2>2 DEF Sent
  <2>4. inSpeech'
    BY <1>1, <1>6
  <2>5. Ok(buffer')
    BY <2>1, <2>2
  <2> QED
    BY <2>2, <2>3, <2>4, <2>5
<1>7. ASSUME p.last.event = "continue", OnSpeechContinue(u, shown)
      PROVE  Goal
  <2>1. CASE Len(buffer) >= MaxSpeech
    <3>1. transcriber' = NoStream /\ buffer' = <<>> /\ orphans' = orphans
      BY <1>7, <2>1 DEF OnSpeechContinue, AfterCap
    <3>2. Sent' = {}
      BY <3>1 DEF Sent
    <3>3. Ok(<<>>)
      <4>1. <<>> \in Seq(Nat) /\ DOMAIN <<>> = {}
        BY EmptySeq, LenProperties
      <4> QED
        BY <4>1 DEF Ok
    <3>4. Ok(buffer')
      BY <3>1, <3>3
    <3> QED
      BY <3>1, <3>2, <3>4
  <2>2. CASE ~(Len(buffer) >= MaxSpeech)
    <3>1. /\ buffer' = Append(buffer, u) /\ orphans' = orphans
          /\ transcriber' \in IF transcriber = NoStream THEN {NoStream}
                              ELSE {transcriber \cup {u}, NoStream}
      BY <1>7, <2>2 DEF OnSpeechContinue
    <3>2. Sent' \subseteq Sent \cup {u}
      BY <3>1 DEF Sent
    <3>3. Ok(Append(buffer, u))
      <4>1. buffer \in Seq(Nat) /\ u \in Nat /\ DOMAIN buffer = 1 .. Len(buffer) /\ Len(buffer) \in Nat
        BY <1>3, LenProperties
      <4>2. /\ Append(buffer, u) \in Seq(Nat) /\ Len(Append(buffer, u)) = Len(buffer) + 1
            /\ \A i \in 1 .. Len(buffer) : Append(buffer, u)[i] = buffer[i]
            /\ Append(buffer, u)[Len(buffer) + 1] = u
        BY <4>1, AppendProperties
      <4>3. DOMAIN Append(buffer, u) = 1 .. Len(buffer) + 1
        BY <4>2, LenProperties
      <4> QED
        BY <1>5, <1>7, <4>1, <4>2, <4>3 DEF Ok
    <3>4. inSpeech'
      BY <1>1, <1>7, <2>2
    <3>5. Ok(buffer')
      BY <3>1, <3>3
    <3> QED
      BY <1>5, <1>7, <3>1, <3>2, <3>4, <3>5
  <2> QED
    BY <2>1, <2>2
<1>8. ASSUME p.last.event = "end", OnSpeechEnd(shown)
      PROVE  Goal
  <2>1. buffer' = buffer /\ transcriber' = transcriber /\ orphans' = orphans /\ awaiting' = "utterance"
    BY <1>8 DEF OnSpeechEnd
  <2>2. Sent' = Sent
    BY <2>1 DEF Sent
  <2>3. Ok(buffer')
    BY <1>5a, <1>8, <2>1
  <2> QED
    BY <1>5, <1>8, <2>1, <2>2, <2>3
<1>9. ASSUME p.last.event = "silence", OnSilence(shown)
      PROVE  Goal
  <2>1. buffer' = buffer /\ transcriber' = transcriber /\ orphans' = orphans
    BY <1>9 DEF OnSilence
  <2>2. Sent' = Sent
    BY <2>1 DEF Sent
  <2>3. buffer = <<>> /\ Sent \subseteq orphans
    BY <1>1, <1>3, <1>9
  <2>4. Ok(buffer')
    BY <1>5a, <1>9, <2>1
  <2> QED
    BY <1>5, <1>9, <2>1, <2>2, <2>3, <2>4
<1>10a. Goal
  BY <1>2, <1>6, <1>7, <1>8, <1>9 DEF Hears
<1>10. /\ buffer' \in Seq(Nat) /\ \A i \in DOMAIN buffer' : buffer'[i] = u
       /\ orphans \subseteq orphans' /\ Sent' \ orphans' \subseteq {u}
       /\ inSpeech' \/ awaiting' = "utterance" \/ (buffer' = <<>> /\ Sent' \subseteq orphans')
  BY <1>10a DEF Ok
<1>11. OneUtterance'
  BY <1>2, <1>10 DEF OneUtterance
<1>12. \A t \in transcripts' : \E v : t \ orphans' \subseteq {v}
  BY <1>3, <1>10 DEF WordsInv
<1> QED
  BY <1>2, <1>3, <1>4, <1>10, <1>11, <1>12 DEF WordsInv

(* So does every step of the capture daemon.                              *)
LEMMA WordsSteps == WordsInv /\ [VoiceNext]_voiceVars => WordsInv'
<1> SUFFICES ASSUME WordsInv, [VoiceNext]_voiceVars PROVE WordsInv'
  OBVIOUS
<1>0. <<>> \in Seq(Nat) /\ DOMAIN <<>> = {} /\ 0 \in 0 .. SilenceRequired
  BY EmptySeq, LenProperties, VoiceAssumption
<1>1. ASSUME NEW windows \in Windows, Chunk(windows) PROVE WordsInv'
  BY <1>1, WordsHear
<1>2. CASE ChunkUnheard
  BY <1>2 DEF ChunkUnheard, fixedVars, vadVars, WordsInv, DetectorTypes, OneUtterance, Sent
<1>3. CASE UtteranceTranscribed
  <2>1. /\ awaiting = "utterance" /\ awaiting' = "none" /\ orphans' = orphans
        /\ transcriber' = NoStream /\ buffer' = <<>> /\ inSpeech' = FALSE /\ silence' = 0
        /\ utterance' = utterance
    BY <1>3 DEF UtteranceTranscribed, VadReset
  <2> DEFINE t == IF transcriber # NoStream THEN transcriber
                  ELSE {buffer[i] : i \in DOMAIN buffer}
  <2>2. transcripts' \subseteq transcripts \cup {t}
    BY <1>3 DEF UtteranceTranscribed
  <2>3. t \ orphans \subseteq {utterance}
    BY <2>1 DEF WordsInv, OneUtterance, Sent
  <2>4. Sent' = {}
    BY <2>1 DEF Sent
  <2>5. \A s \in transcripts' : \E u : s \ orphans \subseteq {u}
    BY <2>2, <2>3 DEF WordsInv
  <2>6. OneUtterance'
    BY <1>0, <2>1, <2>4 DEF OneUtterance
  <2> QED
    BY <1>0, <2>1, <2>5, <2>6 DEF WordsInv, DetectorTypes
<1>4. CASE StartTalking
  <2>1. /\ buffer' = <<>> /\ orphans' = orphans \cup Sent /\ inSpeech' = FALSE /\ silence' = 0
        /\ utterance' = utterance /\ transcriber' = transcriber /\ transcripts' = transcripts
    BY <1>4 DEF StartTalking, VadReset
  <2>2. Sent' = Sent
    BY <2>1 DEF Sent
  <2>3. OneUtterance'
    BY <1>0, <2>1, <2>2 DEF OneUtterance
  <2>4. \A s \in transcripts : \E u : s \ orphans' \subseteq {u}
    BY <2>1 DEF WordsInv
  <2> QED
    BY <1>0, <2>1, <2>3, <2>4 DEF WordsInv, DetectorTypes
<1>5. CASE StopTalking
  BY <1>5 DEF StopTalking, vadVars, WordsInv, DetectorTypes, OneUtterance, Sent
<1>6. CASE RecordingTranscribed
  BY <1>6 DEF RecordingTranscribed, vadVars, WordsInv, DetectorTypes, OneUtterance, Sent
<1>7. CASE Shutdown
  BY <1>7 DEF Shutdown, vadVars, WordsInv, DetectorTypes, OneUtterance
<1>8. CASE UNCHANGED voiceVars
  BY <1>8 DEF voiceVars, WordsInv, DetectorTypes, OneUtterance, Sent
<1>9. CASE DispatchAnswered \/ FallbackBegins \/ FallbackEnds \/ SpeechLeftInFile
  <2>1. UNCHANGED <<inSpeech, silence, utterance, buffer, transcriber, awaiting, transcripts,
                    orphans>>
    BY <1>9 DEF DispatchAnswered, FallbackBegins, FallbackEnds, SpeechLeftInFile, loopKeeps,
                vadVars
  <2> QED
    BY <2>1 DEF WordsInv, DetectorTypes, OneUtterance, Sent
<1> QED
  BY <1>1, <1>2, <1>3, <1>4, <1>5, <1>6, <1>7, <1>8, <1>9 DEF VoiceNext, Windows

(* What is typed or dispatched was said in one utterance, but for audio    *)
(* that was left behind in an open streaming transcriber.                  *)
THEOREM WordsAreOwn == VoiceSpec => []OwnWords
<1>1. VoiceInit => WordsInv
  <2>1. <<>> \in Seq(Nat) /\ DOMAIN <<>> = {}
    BY EmptySeq, LenProperties
  <2> SUFFICES ASSUME VoiceInit PROVE WordsInv
    OBVIOUS
  <2>2. Sent = {} /\ buffer = <<>> /\ transcripts = {}
    BY DEF VoiceInit, Sent
  <2>3. utterance = 0 /\ inSpeech = FALSE /\ silence = 0
    BY DEF VoiceInit
  <2>4. utterance \in Nat /\ DetectorTypes
    <3>1. 0 \in Nat /\ 0 \in 0 .. SilenceRequired
      BY VoiceAssumption
    <3> QED
      BY <2>3, <3>1, Zenon DEF DetectorTypes
  <2> QED
    BY <2>1, <2>2, <2>4 DEF WordsInv, OneUtterance
<1>2. WordsInv => OwnWords
  <2> SUFFICES ASSUME WordsInv, NEW t \in transcripts PROVE Cardinality(t \ orphans) <= 1
    BY DEF OwnWords
  <2>1. PICK u : t \ orphans \subseteq {u}
    BY DEF WordsInv
  <2>2. t \ orphans = {} \/ t \ orphans = {u}
    BY <2>1
  <2>3. Cardinality({}) = 0 /\ Cardinality({u}) = 1
    BY FS_EmptySet, FS_Singleton
  <2> QED
    BY <2>2, <2>3
<1> QED
  BY <1>1, <1>2, WordsSteps, PTL DEF VoiceSpec

(* The state file and the tasks beside the loop.                           *)
FileTyped ==
  /\ voiceFile \in FileState
  /\ voiceWriter \in {"capture", "fallback", "dispatcher", "failed"}

TasksTyped ==
  /\ dispatching \in Nat /\ fallbacks \in Nat
  /\ dispatching + fallbacks <= MaxDispatch

(* The types, with an utterance for the detector to be in.                 *)
VoiceTypesInv ==
  VoiceTypeOK /\ FileTyped /\ TasksTyped /\ (inSpeech => utterance >= 1)

(* Writes of a state leave a state, or what is no state.                   *)
LEMMA WriteTyped ==
  ASSUME FileTyped, NEW earlier \in SUBSET VoiceState, NEW state \in VoiceState,
         WriteState(earlier, state)
  PROVE  FileTyped'
BY DEF FileTyped, FileState, WriteState, WriteFails

LEMMA GateTyped ==
  ASSUME FileTyped, capture \in VoiceState, NEW shown \in VoiceState, ShowGate(shown)
  PROVE  FileTyped'
<1>1. {} \in SUBSET VoiceState /\ {capture} \in SUBSET VoiceState
  OBVIOUS
<1>2. CASE UNCHANGED fileVars
  BY <1>2 DEF fileVars, FileTyped
<1>3. CASE WriteState({}, shown) \/ WriteState({capture}, shown)
  BY <1>1, <1>3, WriteTyped
<1> QED
  BY <1>2, <1>3 DEF ShowGate

LEMMA OtherTyped ==
  ASSUME FileTyped, NEW who \in {"fallback", "dispatcher"}, NEW state \in VoiceState,
         OtherWrites(who, state)
  PROVE  FileTyped'
BY DEF FileTyped, FileState, OtherWrites, WriteFails

(* The tasks are left alone, or one is spawned.                            *)
LEMMA TasksRest == TasksTyped /\ UNCHANGED taskVars => TasksTyped'
BY DEF TasksTyped, taskVars

LEMMA TasksGrow == TasksTyped /\ SpawnDispatch => TasksTyped'
BY VoiceAssumption DEF TasksTyped, SpawnDispatch

(* No handler changes what is in the types but these variables.            *)
LEMMA VoiceTypesHear ==
  ASSUME VoiceTypesInv, NEW windows \in Windows, Chunk(windows)
  PROVE  VoiceTypesInv'
<1>1. DetectorTypes
  BY DEF VoiceTypesInv, VoiceTypeOK, DetectorTypes
<1>2. PICK p : \E u, shown :
        /\ p.last.in \in BOOLEAN /\ p.last.silence \in 0 .. SilenceRequired /\ p.started \in BOOLEAN
        /\ p.last.event \in {"start", "continue"} => p.last.in
        /\ p.last.event \in {"end", "silence"} => ~p.last.in
        /\ p.last.event = "silence" => ~inSpeech
        /\ p.last.event # "start" /\ p.started => ~inSpeech
        /\ p.last.event \in {"start", "continue"} => p.started \/ inSpeech
        /\ u = utterance + (IF p.started THEN 1 ELSE 0) /\ utterance' = u
        /\ shown = IF capture = "wake_word" THEN "monitoring" ELSE capture
        /\ inSpeech' = (p.last.in /\ ~(p.last.event = "continue" /\ Len(buffer) >= MaxSpeech))
        /\ silence' \in 0 .. SilenceRequired
        /\ Hears(p, u, shown)
        /\ UNCHANGED <<mode, wakeWord, streaming, ptt, recording, taskVars, transcripts>>
        /\ mode = "listen" /\ awaiting = "none" /\ ~ptt
  BY <1>1, ChunkActs
<1>3. PICK u, shown :
        /\ u = utterance + (IF p.started THEN 1 ELSE 0) /\ utterance' = u
        /\ shown = IF capture = "wake_word" THEN "monitoring" ELSE capture
        /\ Hears(p, u, shown)
  BY <1>2
<1>4. u <= MaxUtterance
  BY <1>3 DEF Chunk
<1>5. /\ utterance \in 0 .. MaxUtterance /\ MaxUtterance \in Nat /\ (inSpeech => utterance >= 1)
      /\ MaxSpeech \in Nat \ {0}
  BY VoiceAssumption DEF VoiceTypesInv, VoiceTypeOK
<1>5a. /\ (p.started => u = utterance + 1) /\ (~p.started => u = utterance)
  BY <1>2, <1>3, <1>5
<1>6. utterance' \in 0 .. MaxUtterance
  <2>1. u \in Nat
    BY <1>2, <1>5, <1>5a
  <2> QED
    BY <1>3, <1>4, <1>5, <2>1
<1>7. p.last.event \in {"start", "continue"} => u \in Utterance
  <2> SUFFICES ASSUME p.last.event \in {"start", "continue"} PROVE u \in Utterance
    OBVIOUS
  <2>1. CASE p.started
    BY <1>4, <1>5, <1>5a, <2>1 DEF Utterance
  <2>2. CASE ~p.started
    <3>1. inSpeech
      BY <1>2, <2>2
    <3> QED
      BY <1>4, <1>5, <1>5a, <2>2, <3>1 DEF Utterance
  <2> QED
    BY <2>1, <2>2
<1>8. inSpeech' => utterance' >= 1
  <2>1. p.last.event \in {"start", "continue", "end", "silence"}
    BY <1>3 DEF Hears
  <2>2. p.last.event \notin {"start", "continue"} => ~inSpeech'
    BY <1>2, <2>1
  <2> QED
    BY <1>3, <1>5, <1>7, <2>2 DEF Utterance
<1>9. /\ buffer \in Seq(Utterance) /\ Len(buffer) \in Nat /\ Len(buffer) <= MaxSpeech
      /\ transcriber \in {NoStream} \cup SUBSET Utterance
      /\ Sent \subseteq Utterance /\ orphans \subseteq Utterance
      /\ shown \in VoiceState /\ RestState \in VoiceState
      /\ capture \in VoiceState
      /\ {"listening", "processing"} \subseteq VoiceState
  BY <1>3, LenProperties DEF VoiceTypesInv, VoiceTypeOK, Sent, RestState, VoiceState
<1> DEFINE Goal == /\ buffer' \in Seq(Utterance) /\ Len(buffer') <= MaxSpeech
                   /\ transcriber' \in {NoStream} \cup SUBSET Utterance
                   /\ orphans' \subseteq Utterance
                   /\ awaiting' \in {"none", "utterance"}
                   /\ FileTyped' /\ capture' \in VoiceState
<1>10. ASSUME p.last.event = "start", OnSpeechStart(u, shown) PROVE Goal
  <2>1. <<u>> \in Seq(Utterance) /\ Len(<<u>>) = 1
    BY <1>7, <1>10
  <2>2. /\ buffer' = <<u>> /\ orphans' = orphans \cup Sent /\ awaiting' = awaiting
        /\ transcriber' = {u} \/ transcriber' = transcriber
        /\ capture' = "listening"
    BY <1>10 DEF OnSpeechStart
  <2>3. FileTyped'
    BY <1>9, <1>10, WriteTyped DEF OnSpeechStart, VoiceTypesInv
  <2> QED
    BY <1>2, <1>5, <1>7, <1>9, <1>10, <2>1, <2>2, <2>3
<1>11. ASSUME p.last.event = "continue", OnSpeechContinue(u, shown) PROVE Goal
  <2>1. CASE Len(buffer) >= MaxSpeech
    <3>1. <<>> \in Seq(Utterance) /\ Len(<<>>) = 0
      BY EmptySeq
    <3>2. /\ transcriber' = NoStream /\ buffer' = <<>> /\ orphans' = orphans
          /\ capture' = RestState /\ awaiting' = awaiting
      BY <1>11, <2>1 DEF OnSpeechContinue, AfterCap
    <3>3. FileTyped'
      BY <1>9, <1>11, <2>1, WriteTyped DEF OnSpeechContinue, VoiceTypesInv
    <3> QED
      BY <1>2, <1>5, <1>9, <3>1, <3>2, <3>3
  <2>2. CASE ~(Len(buffer) >= MaxSpeech)
    <3>1. /\ buffer' = Append(buffer, u) /\ orphans' = orphans
          /\ transcriber' \in {NoStream, transcriber \cup {u}}
          /\ transcriber = NoStream => transcriber' = NoStream
          /\ capture' = shown /\ awaiting' = awaiting
      BY <1>11, <2>2 DEF OnSpeechContinue
    <3>2. /\ Append(buffer, u) \in Seq(Utterance)
          /\ Len(Append(buffer, u)) = Len(buffer) + 1
      BY <1>7, <1>9, <1>11, AppendProperties
    <3>3. transcriber' \in {NoStream} \cup SUBSET Utterance
      BY <1>7, <1>9, <1>11, <3>1
    <3>4. FileTyped'
      BY <1>9, <1>11, <2>2, GateTyped DEF OnSpeechContinue, VoiceTypesInv
    <3> QED
      BY <1>2, <1>5, <1>9, <2>2, <3>1, <3>2, <3>3, <3>4
  <2> QED
    BY <2>1, <2>2
<1>12. ASSUME p.last.event = "end", OnSpeechEnd(shown) PROVE Goal
  <2>1. FileTyped'
    BY <1>9, <1>12, WriteTyped DEF OnSpeechEnd, VoiceTypesInv
  <2> QED
    BY <1>9, <1>12, <2>1 DEF OnSpeechEnd
<1>13. ASSUME p.last.event = "silence", OnSilence(shown) PROVE Goal
  <2>1. FileTyped'
    BY <1>9, <1>13, GateTyped DEF OnSilence, VoiceTypesInv
  <2> QED
    BY <1>2, <1>9, <1>13, <2>1 DEF OnSilence
<1>14. Goal
  BY <1>3, <1>10, <1>11, <1>12, <1>13 DEF Hears
<1> HIDE DEF Goal
<1>15. inSpeech' \in BOOLEAN
  BY <1>2
<1>16. TasksTyped'
  BY <1>2, TasksRest DEF VoiceTypesInv
<1> QED
  BY <1>2, <1>6, <1>8, <1>14, <1>15, <1>16 DEF Goal, VoiceTypesInv, VoiceTypeOK, FileTyped, TasksTyped

(* So do the other handlers.                                               *)
LEMMA VoiceTypeSteps == VoiceTypesInv /\ [VoiceNext]_voiceVars => VoiceTypesInv'
<1> SUFFICES ASSUME VoiceTypesInv, [VoiceNext]_voiceVars PROVE VoiceTypesInv'
  OBVIOUS
<1>0. /\ RestState \in VoiceState /\ <<>> \in Seq(Utterance) /\ Len(<<>>) = 0
      /\ 0 \in 0 .. SilenceRequired /\ 0 <= MaxSpeech
      /\ {"muted", "listening", "processing"} \subseteq VoiceState
  BY VoiceAssumption, EmptySeq DEF RestState, VoiceState
<1>1. ASSUME NEW windows \in Windows, Chunk(windows) PROVE VoiceTypesInv'
  BY <1>1, VoiceTypesHear
<1> USE DEF VoiceTypesInv
<1>2. CASE ChunkUnheard
  <2>1. FileTyped'
    BY <1>2, GateTyped DEF ChunkUnheard, VoiceTypeOK
  <2>2. TasksTyped'
    BY <1>2, TasksRest DEF ChunkUnheard
  <2> QED
    BY <1>2, <2>1, <2>2 DEF ChunkUnheard, fixedVars, vadVars, VoiceTypeOK, FileTyped, TasksTyped
<1>3. CASE UtteranceTranscribed
  <2>1. /\ awaiting' = "none" /\ orphans' = orphans /\ transcriber' = NoStream /\ buffer' = <<>>
        /\ inSpeech' = FALSE /\ silence' = 0 /\ utterance' = utterance
        /\ capture' = RestState
        /\ UNCHANGED <<mode, wakeWord, streaming, ptt, recording>>
    BY <1>3 DEF UtteranceTranscribed, VadReset, Rest, fixedVars
  <2>2. {buffer[i] : i \in DOMAIN buffer} \subseteq Utterance
    BY LenProperties, ElementOfSeq DEF VoiceTypeOK
  <2>3. transcriber # NoStream => transcriber \subseteq Utterance
    BY DEF VoiceTypeOK
  <2>4. transcripts' \subseteq SUBSET Utterance
    BY <1>3, <2>2, <2>3 DEF UtteranceTranscribed, VoiceTypeOK
  <2>5. FileTyped'
    BY <1>0, <1>3, WriteTyped DEF UtteranceTranscribed, Rest
  <2>6. TasksTyped'
    BY <1>3, TasksRest, TasksGrow DEF UtteranceTranscribed, taskVars
  <2> QED
    BY <1>0, <2>1, <2>4, <2>5, <2>6 DEF VoiceTypeOK, FileTyped, TasksTyped
<1>4. CASE StartTalking
  <2>1. orphans' \subseteq Utterance
    BY <1>4 DEF StartTalking, Sent, VoiceTypeOK
  <2>2. FileTyped'
    <3>1. (IF recording' THEN "listening" ELSE "muted") \in VoiceState
      BY <1>0
    <3> QED
      BY <1>0, <1>4, <3>1, WriteTyped DEF StartTalking
  <2>3. TasksTyped'
    BY <1>4, TasksRest DEF StartTalking
  <2> QED
    BY <1>0, <1>4, <2>1, <2>2, <2>3
    DEF StartTalking, VadReset, fixedVars, VoiceTypeOK, FileTyped, TasksTyped
<1>5. CASE StopTalking
  <2>1. FileTyped'
    BY <1>0, <1>5, WriteTyped DEF StopTalking, Rest
  <2>2. TasksTyped'
    BY <1>5, TasksRest DEF StopTalking
  <2> QED
    BY <1>0, <1>5, <2>1, <2>2
    DEF StopTalking, Rest, vadVars, fixedVars, VoiceTypeOK, FileTyped, TasksTyped
<1>6. CASE RecordingTranscribed
  <2>1. FileTyped'
    BY <1>0, <1>6, WriteTyped DEF RecordingTranscribed, Rest
  <2>2. TasksTyped'
    BY <1>6, TasksRest, TasksGrow DEF RecordingTranscribed
  <2> QED
    BY <1>0, <1>6, <2>1, <2>2
    DEF RecordingTranscribed, Rest, vadVars, fixedVars, VoiceTypeOK, FileTyped, TasksTyped
<1>7. CASE Shutdown
  <2>1. FileTyped'
    BY <1>0, <1>7, WriteTyped DEF Shutdown
  <2>2. TasksTyped'
    BY <1>7, TasksRest DEF Shutdown
  <2> QED
    BY <1>0, <1>7, <2>1, <2>2 DEF Shutdown, vadVars, fixedVars, VoiceTypeOK, FileTyped, TasksTyped
<1>8. CASE UNCHANGED voiceVars
  BY <1>8 DEF voiceVars, VoiceTypeOK, FileTyped, TasksTyped
<1>9. CASE DispatchAnswered \/ FallbackBegins \/ FallbackEnds \/ SpeechLeftInFile
  <2>1. FileTyped'
    BY <1>0, <1>9, OtherTyped
    DEF DispatchAnswered, FallbackBegins, FallbackEnds, SpeechLeftInFile, fileVars, FileTyped
  <2>2. TasksTyped'
    BY <1>9, VoiceAssumption
    DEF DispatchAnswered, FallbackBegins, FallbackEnds, SpeechLeftInFile, taskVars, TasksTyped
  <2>3. UNCHANGED loopKeeps
    BY <1>9 DEF DispatchAnswered, FallbackBegins, FallbackEnds, SpeechLeftInFile
  <2> QED
    BY <2>1, <2>2, <2>3 DEF loopKeeps, fixedVars, vadVars, VoiceTypeOK, FileTyped, TasksTyped
<1> QED
  BY <1>1, <1>2, <1>3, <1>4, <1>5, <1>6, <1>7, <1>8, <1>9 DEF VoiceNext, Windows

(* The capture daemon starts at rest.                                      *)
LEMMA VoiceTypesStart == VoiceInit => VoiceTypesInv
<1> SUFFICES ASSUME VoiceInit PROVE VoiceTypesInv
  OBVIOUS
<1>1. /\ 0 \in 0 .. SilenceRequired /\ 0 \in 0 .. MaxUtterance /\ 0 <= MaxSpeech
      /\ <<>> \in Seq(Utterance) /\ Len(<<>>) = 0 /\ RestState \in VoiceState
  BY VoiceAssumption, EmptySeq DEF RestState, VoiceState
<1>1a. FileTyped /\ TasksTyped
  BY <1>1, VoiceAssumption DEF VoiceInit, FileTyped, FileState, TasksTyped
<1>2. /\ mode \in {"listen", "ptt"} /\ wakeWord \in BOOLEAN /\ streaming \in BOOLEAN
      /\ capture = RestState /\ voiceFile = RestState
      /\ inSpeech = FALSE /\ silence = 0 /\ utterance = 0 /\ buffer = <<>>
      /\ transcriber = NoStream /\ ptt = FALSE /\ recording = FALSE /\ awaiting = "none"
      /\ transcripts = {} /\ orphans = {}
  BY DEF VoiceInit
<1> QED
  BY <1>1, <1>1a, <1>2 DEF VoiceTypesInv, VoiceTypeOK, FileTyped, TasksTyped

(* The capture daemon's variables keep their types: the speech buffer      *)
(* stays within its cap, and the state file says one of its words.         *)
THEOREM VoiceTyped == VoiceSpec => []VoiceTypeOK
<1>1. VoiceTypesInv => VoiceTypeOK
  BY DEF VoiceTypesInv
<1> QED
  BY <1>1, VoiceTypesStart, VoiceTypeSteps, PTL DEF VoiceSpec

-----------------------------------------------------------------------------
(* Dispatcher: the HUD's state file settles on how a command ended.        *)

(* What the task writes next is how its command ended.                     *)
Final(c) == writing[c] # "thinking"

DispatchTypes ==
  /\ step \in [Command -> {"connected", "open", "fill", "rename", "dispatch",
                           "ask", "done"}]
  /\ writing \in [Command -> HudState]
  /\ {tmpFile, hudFile} \subseteq Content
  /\ handle \in [Command -> {"closed", "tmp", "hud", "gone"}]
  /\ unsaid \in BOOLEAN

(* A task on its way to the result that it has still to write.             *)
Underway(c) ==
  \/ ~Final(c) /\ step[c] \in {"rename", "dispatch", "ask"}
  \/ Final(c) /\ step[c] = "open"

(* One that has begun to write it, and will rename a file that is there.   *)
Replacing(c) ==
  /\ Final(c)
  /\ \/ step[c] = "fill" /\ handle[c] = "tmp"
     \/ step[c] = "rename" /\ tmpFile # "none"

(* A file that says "thinking", or nothing, is excused by a task that has  *)
(* still to write, or by a failure that nothing has made up for.           *)
FilesExcused ==
  /\ tmpFile = "empty" => unsaid \/ \E c \in Command :
       Underway(c) \/ (step[c] = "fill" /\ handle[c] = "tmp")
  /\ hudFile = "empty" => unsaid \/ \E c \in Command :
       Underway(c) \/ Replacing(c) \/ (step[c] = "fill" /\ handle[c] = "hud")
  /\ tmpFile = "thinking" => unsaid \/ \E c \in Command : Underway(c)
  /\ hudFile = "thinking" => unsaid \/ \E c \in Command : Underway(c) \/ Replacing(c)

HudInv ==
  /\ DispatchTypes
  /\ \A c \in Command : step[c] \in {"connected", "dispatch", "ask"} => ~Final(c)
  /\ \A c \in Command : handle[c] = "tmp" => tmpFile # "none"
  /\ FilesExcused

(* Steps of a task that do not touch the HUD files.                       *)
LEMMA HudUntouched ==
  ASSUME HudInv, NEW c \in Command, NEW s \in {"open", "dispatch", "ask"},
         UNCHANGED <<tmpFile, hudFile, handle, unsaid>>, step' = [step EXCEPT ![c] = s],
         NEW w \in HudState, writing' = [writing EXCEPT ![c] = w],
         \/ step[c] = "connected" /\ s = "open" /\ w = "thinking"
         \/ step[c] = "dispatch" /\ s = "ask" /\ w = "thinking"
         \/ step[c] = "ask" /\ s = "open" /\ w # "thinking"
  PROVE  HudInv'
<1>1. DispatchTypes'
  BY DEF HudInv, DispatchTypes
<1>2. /\ \A d \in Command \ {c} : step'[d] = step[d] /\ writing'[d] = writing[d]
      /\ step'[c] = s /\ writing'[c] = w /\ unsaid' = unsaid
      /\ tmpFile' = tmpFile /\ hudFile' = hudFile /\ handle' = handle
  BY DEF HudInv, DispatchTypes
<1>3. \A d \in Command : Underway(d) => Underway(d)'
  BY <1>2 DEF HudInv, Underway, Final
<1>4. \A d \in Command : Replacing(d) => Replacing(d)'
  BY <1>2 DEF HudInv, Replacing, Final
<1>5. \A d \in Command : step[d] = "fill" => d # c /\ step'[d] = "fill"
  BY <1>2
<1>6. \A d \in Command : step'[d] \in {"connected", "dispatch", "ask"} => ~Final(d)'
  BY <1>2 DEF HudInv, Final
<1>7. FilesExcused'
  BY <1>2, <1>3, <1>4, <1>5 DEF HudInv, FilesExcused
<1> QED
  BY <1>1, <1>2, <1>6, <1>7 DEF HudInv

(* A refused command ends before it has written anything.                 *)
LEMMA HudRefuses ==
  ASSUME HudInv, NEW c \in Command, step[c] = "connected",
         UNCHANGED hudVars, step' = [step EXCEPT ![c] = "done"]
  PROVE  HudInv'
<1>1. DispatchTypes'
  BY DEF HudInv, DispatchTypes, hudVars
<1>2. /\ \A d \in Command \ {c} : step'[d] = step[d]
      /\ step'[c] = "done" /\ writing' = writing /\ unsaid' = unsaid
      /\ tmpFile' = tmpFile /\ hudFile' = hudFile /\ handle' = handle
  BY DEF HudInv, DispatchTypes, hudVars
<1>3. \A d \in Command : Underway(d) => Underway(d)'
  BY <1>2 DEF HudInv, Underway, Final
<1>4. \A d \in Command : Replacing(d) => Replacing(d)'
  BY <1>2 DEF HudInv, Replacing, Final
<1>5. \A d \in Command : step[d] = "fill" => d # c /\ step'[d] = "fill"
  BY <1>2
<1>6. \A d \in Command : step'[d] \in {"connected", "dispatch", "ask"} => ~Final(d)'
  BY <1>2 DEF HudInv, Final
<1>7. FilesExcused'
  BY <1>2, <1>3, <1>4, <1>5 DEF HudInv, FilesExcused
<1> QED
  BY <1>1, <1>2, <1>6, <1>7 DEF HudInv

(* A task whose write has failed goes on to its model, or leaves the end   *)
(* of its command unsaid: either excuses both files.                       *)
LEMMA HudGivesUp ==
  ASSUME HudInv, NEW c \in Command, GivesUp(c),
         step[c] \in {"open", "fill", "rename"}, UNCHANGED writing,
         {tmpFile', hudFile'} \subseteq Content,
         handle' \in [Command -> {"closed", "tmp", "hud", "gone"}],
         \A d \in Command : handle'[d] = "tmp" => handle[d] = "tmp",
         tmpFile' = "none" => tmpFile = "none"
  PROVE  HudInv'
<1>1. /\ step' = [step EXCEPT ![c] = IF writing[c] = "thinking" THEN "dispatch" ELSE "done"]
      /\ unsaid' = (unsaid \/ writing[c] # "thinking")
  BY DEF GivesUp, GoesOn, Becomes
<1>2. DispatchTypes'
  BY <1>1 DEF HudInv, DispatchTypes
<1>3. /\ \A d \in Command \ {c} : step'[d] = step[d]
      /\ step'[c] = (IF writing[c] = "thinking" THEN "dispatch" ELSE "done")
  BY <1>1 DEF HudInv, DispatchTypes
<1>4. unsaid' \/ Underway(c)'
  BY <1>1, <1>3 DEF Underway, Final
<1>5. FilesExcused'
  BY <1>4 DEF FilesExcused
<1>6. \A d \in Command : step'[d] \in {"connected", "dispatch", "ask"} => ~Final(d)'
  BY <1>3 DEF HudInv, Final
<1>7. \A d \in Command : handle'[d] = "tmp" => tmpFile' # "none"
  BY DEF HudInv
<1> QED
  BY <1>2, <1>5, <1>6, <1>7 DEF HudInv

(* fs::write truncates the shared .tmp file, or cannot open it.            *)
LEMMA HudOpens ==
  ASSUME HudInv, NEW c \in Command, OpenTmp(c)
  PROVE  HudInv'
<1>1. CASE GivesUp(c) /\ UNCHANGED <<tmpFile, handle>>
  BY <1>1, HudGivesUp DEF OpenTmp, HudInv, DispatchTypes
<1>2. CASE ~ (GivesUp(c) /\ UNCHANGED <<tmpFile, handle>>)
  <2>0. /\ step[c] = "open" /\ tmpFile' = "empty" /\ handle' = [handle EXCEPT ![c] = "tmp"]
        /\ step' = [step EXCEPT ![c] = "fill"] /\ UNCHANGED <<writing, hudFile, unsaid>>
    BY <1>2 DEF OpenTmp, Becomes
  <2>1. DispatchTypes'
    BY <2>0 DEF HudInv, DispatchTypes, Content
  <2>2. /\ \A d \in Command \ {c} : step'[d] = step[d] /\ handle'[d] = handle[d]
        /\ step'[c] = "fill" /\ handle'[c] = "tmp"
    BY <2>0 DEF HudInv, DispatchTypes
  <2>3. \A d \in Command : Underway(d) => Underway(d)' \/ Replacing(d)'
    BY <2>0, <2>2 DEF Underway, Replacing, Final
  <2>4. \A d \in Command : Replacing(d) => Replacing(d)'
    BY <2>0, <2>2 DEF Replacing, Final
  <2>5. \A d \in Command : step[d] = "fill" => d # c /\ step'[d] = "fill"
    BY <2>0, <2>2
  <2>6. \A d \in Command : step'[d] \in {"connected", "dispatch", "ask"} => ~Final(d)'
    BY <2>0, <2>2 DEF HudInv, Final
  <2>7. FilesExcused'
    BY <2>0, <2>2, <2>3, <2>4, <2>5 DEF HudInv, FilesExcused
  <2>8. \A d \in Command : handle'[d] = "tmp" => tmpFile' # "none"
    BY <2>0
  <2> QED
    BY <2>1, <2>6, <2>7, <2>8 DEF HudInv
<1> QED
  BY <1>1, <1>2

(* fs::write fills the file that the task holds open, or fails.            *)
LEMMA HudFills ==
  ASSUME HudInv, NEW c \in Command, FillTmp(c)
  PROVE  HudInv'
<1>0. PICK whole \in BOOLEAN :
        /\ IF handle[c] = "tmp" THEN tmpFile' \in Over(tmpFile, writing[c], whole)
                                ELSE UNCHANGED tmpFile
        /\ IF handle[c] = "hud" THEN hudFile' \in Over(hudFile, writing[c], whole)
                                ELSE UNCHANGED hudFile
        /\ IF whole THEN Becomes(c, "rename") /\ UNCHANGED unsaid ELSE GivesUp(c)
  BY DEF FillTmp
<1>1. /\ handle' = [handle EXCEPT ![c] = "closed"] /\ step[c] = "fill"
      /\ writing' = writing /\ writing[c] \in HudState
  BY DEF FillTmp, HudInv, DispatchTypes
<1>2. /\ \A d \in Command \ {c} : handle'[d] = handle[d]
      /\ handle'[c] = "closed"
      /\ handle' \in [Command -> {"closed", "tmp", "hud", "gone"}]
  BY <1>1 DEF HudInv, DispatchTypes
<1>3. CASE ~whole
  <2>1. /\ tmpFile' \in {tmpFile, "torn"} /\ hudFile' \in {hudFile, "torn"} /\ GivesUp(c)
    BY <1>0, <1>3 DEF Over
  <2>2. {tmpFile', hudFile'} \subseteq Content
    BY <2>1 DEF HudInv, DispatchTypes, Content
  <2>3. tmpFile' = "none" => tmpFile = "none"
    BY <2>1
  <2> QED
    BY <1>1, <1>2, <2>1, <2>2, <2>3, HudGivesUp
<1>4. CASE whole
  <2>1. /\ step' = [step EXCEPT ![c] = "rename"] /\ unsaid' = unsaid
        /\ handle[c] = "tmp" => tmpFile' \in {writing[c], "torn"}
        /\ handle[c] # "tmp" => tmpFile' = tmpFile
        /\ handle[c] = "hud" => hudFile' \in {writing[c], "torn"}
        /\ handle[c] # "hud" => hudFile' = hudFile
    BY <1>0, <1>4 DEF Over, Becomes
  <2>2. \A d \in Command \ {c} : step'[d] = step[d]
    BY <2>1 DEF HudInv, DispatchTypes
  <2>3. step'[c] = "rename"
    BY <2>1 DEF HudInv, DispatchTypes
  <2>4. {tmpFile', hudFile'} \subseteq Content
    BY <1>1, <2>1 DEF HudInv, DispatchTypes, Content
  <2>5. DispatchTypes'
    BY <1>1, <1>2, <2>1, <2>4 DEF HudInv, DispatchTypes
  <2>6. tmpFile' = "none" => tmpFile = "none"
    BY <1>1, <2>1 DEF HudState
  <2>7. \A d \in Command : Underway(d) => Underway(d)'
    BY <1>1, <2>2, <2>3 DEF Underway, Final
  <2>8. \A d \in Command : Replacing(d) => Replacing(d)'
    BY <1>1, <1>2, <2>2, <2>3, <2>6 DEF HudInv, Replacing, Final
  <2>9. writing[c] = "thinking" => Underway(c)'
    BY <1>1, <2>3 DEF Underway, Final
  <2>10. FilesExcused'
    <3>1. /\ tmpFile' = "thinking" => tmpFile = "thinking" \/ writing[c] = "thinking"
          /\ hudFile' = "thinking" => hudFile = "thinking" \/ writing[c] = "thinking"
      BY <2>1
    <3>2. /\ tmpFile' = "empty" => tmpFile = "empty" /\ handle[c] # "tmp"
          /\ hudFile' = "empty" => hudFile = "empty" /\ handle[c] # "hud"
      BY <1>1, <2>1 DEF HudState
    <3> QED
      BY <1>2, <2>1, <2>2, <2>7, <2>8, <2>9, <3>1, <3>2 DEF HudInv, FilesExcused
  <2>11. /\ \A d \in Command : step'[d] \in {"connected", "dispatch", "ask"} => ~Final(d)'
         /\ \A d \in Command : handle'[d] = "tmp" => tmpFile' # "none"
    BY <1>1, <1>2, <2>2, <2>3, <2>6 DEF HudInv, Final
  <2> QED
    BY <2>5, <2>10, <2>11 DEF HudInv
<1> QED
  BY <1>3, <1>4

(* fs::rename puts the .tmp file in place, or fails.                      *)
LEMMA HudRenames ==
  ASSUME HudInv, NEW c \in Command, RenameTmp(c)
  PROVE  HudInv'
<1>1. CASE GivesUp(c) /\ UNCHANGED <<tmpFile, hudFile, handle>>
  BY <1>1, HudGivesUp DEF RenameTmp, HudInv, DispatchTypes
<1>2. CASE GoesOn(c)
  <2>1. /\ step' = [step EXCEPT ![c] = IF writing[c] = "thinking" THEN "dispatch" ELSE "done"]
        /\ step[c] = "rename" /\ writing' = writing
    BY <1>2 DEF RenameTmp, GoesOn, Becomes
  <2>2. /\ \A d \in Command \ {c} : step'[d] = step[d]
        /\ step'[c] = (IF writing[c] = "thinking" THEN "dispatch" ELSE "done")
        /\ step' \in [Command -> {"connected", "open", "fill", "rename", "dispatch",
                                  "ask", "done"}]
    BY <2>1 DEF HudInv, DispatchTypes
  <2>3. \A d \in Command : Underway(d) => Underway(d)'
    BY <2>1, <2>2 DEF Underway, Final
  <2>4. \A d \in Command : step'[d] \in {"connected", "dispatch", "ask"} => ~Final(d)'
    BY <2>1, <2>2 DEF HudInv, Final
  <2>5. \A d \in Command : step[d] = "fill" => d # c /\ step'[d] = "fill"
    BY <2>1, <2>2
  <2>6. CASE UNCHANGED <<tmpFile, hudFile, handle, unsaid>> /\ tmpFile = "none"
    <3>1. \A d \in Command : Replacing(d) => Replacing(d)'
      BY <2>1, <2>2, <2>6 DEF Replacing, Final
    <3>2. FilesExcused'
      BY <2>3, <2>5, <2>6, <3>1 DEF HudInv, FilesExcused
    <3>3. DispatchTypes'
      BY <2>1, <2>2, <2>6 DEF HudInv, DispatchTypes
    <3> QED
      BY <2>4, <2>6, <3>2, <3>3 DEF HudInv
  <2>7. CASE /\ tmpFile # "none" /\ hudFile' = tmpFile /\ tmpFile' = "none"
             /\ handle' = [d \in Command |-> CASE handle[d] = "tmp" -> "hud"
                                               [] handle[d] = "hud" -> "gone"
                                               [] OTHER -> handle[d]]
             /\ unsaid' = (unsaid /\ tmpFile \notin {"result", "error"})
    <3>1. \A d \in Command : /\ handle[d] = "tmp" => handle'[d] = "hud"
                             /\ handle'[d] # "tmp"
                             /\ handle'[d] \in {"closed", "tmp", "hud", "gone"}
      BY <2>7 DEF HudInv, DispatchTypes
    <3>2. handle' \in [Command -> {"closed", "tmp", "hud", "gone"}]
      BY <2>7, <3>1
    <3>3. unsaid' \in BOOLEAN /\ (unsaid /\ tmpFile \in {"thinking", "empty"} => unsaid')
      BY <2>7
    <3>4. DispatchTypes'
      BY <2>1, <2>2, <2>7, <3>2, <3>3 DEF HudInv, DispatchTypes, Content
    <3>5. FilesExcused'
      BY <2>3, <2>5, <2>7, <3>1, <3>3 DEF HudInv, FilesExcused
    <3> QED
      BY <2>4, <3>1, <3>4, <3>5 DEF HudInv
  <2> QED
    BY <2>6, <2>7, <1>1 DEF RenameTmp
<1> QED
  BY <1>1, <1>2 DEF RenameTmp

(* Every step of the tasks keeps the invariant of the HUD file.           *)
LEMMA HudSteps == HudInv /\ [DispatchNext]_dispatchVars => HudInv'
<1> SUFFICES ASSUME HudInv, [DispatchNext]_dispatchVars PROVE HudInv'
  OBVIOUS
<1>1. CASE UNCHANGED <<step, hudVars>>
  BY <1>1 DEF hudVars, HudInv, FilesExcused, DispatchTypes, Underway, Replacing, Final
<1>2. ASSUME NEW c \in Command, ReceiveTranscript(c) PROVE HudInv'
  <2>1. /\ step[c] = "connected" /\ UNCHANGED hudVars
        /\ step' = [step EXCEPT ![c] = "open"] \/ step' = [step EXCEPT ![c] = "done"]
    BY <1>2 DEF ReceiveTranscript, Becomes
  <2>2. writing' = [writing EXCEPT ![c] = "thinking"]
    BY <2>1 DEF hudVars, HudInv, DispatchTypes, Final
  <2> QED
    BY <2>1, <2>2, HudUntouched, HudRefuses DEF hudVars, HudState
<1>3. ASSUME NEW c \in Command, BeginDispatch(c) PROVE HudInv'
  <2>1. /\ step[c] = "dispatch" /\ UNCHANGED hudVars
        /\ step' = [step EXCEPT ![c] = "ask"]
    BY <1>3 DEF BeginDispatch, Becomes
  <2>2. writing' = [writing EXCEPT ![c] = "thinking"]
    BY <2>1 DEF hudVars, HudInv, DispatchTypes, Final
  <2> QED
    BY <2>1, <2>2, HudUntouched DEF hudVars, HudState
<1>4. ASSUME NEW c \in Command, Answer(c) \/ ModelFails(c) PROVE HudInv'
  <2>1. /\ step[c] = "ask" /\ UNCHANGED <<tmpFile, hudFile, handle, unsaid>>
        /\ step' = [step EXCEPT ![c] = "open"]
    BY <1>4 DEF Answer, ModelFails, Becomes
  <2>2. PICK w \in {"result", "error"} : writing' = [writing EXCEPT ![c] = w]
    BY <1>4 DEF Answer, ModelFails
  <2>3. w \in HudState /\ w # "thinking"
    BY DEF HudState
  <2> QED
    BY <2>1, <2>2, <2>3, HudUntouched
<1>5. CASE ClockTicks
  BY <1>1, <1>5 DEF ClockTicks
<1>6. CASE UNCHANGED dispatchVars
  BY <1>1, <1>6 DEF dispatchVars
<1> QED
  BY <1>2, <1>3, <1>4, <1>5, <1>6, HudOpens, HudFills, HudRenames DEF DispatchNext

(* Once no command is in progress the HUD does not say that one is,        *)
(* however many tasks wrote its file at once, whichever of their writes    *)
(* failed and whoever renamed it, unless how a command ended could not be  *)
(* written.                                                                *)
THEOREM HudSettled == DispatchSpec => []HudSettles
<1>1. DispatchInit => HudInv
  BY DEF DispatchInit, HudInv, FilesExcused, DispatchTypes, HudState, Content, Final
<1>2. HudInv => HudSettles
  BY DEF HudInv, FilesExcused, HudSettles, Underway, Replacing
<1> QED
  BY <1>1, <1>2, HudSteps, PTL DEF DispatchSpec

-----------------------------------------------------------------------------
(* Dispatcher: what a command is told of those before it.                  *)

(* A turn that has its place at the end of the conversation.               *)
StandsAt(i) ==
  \E j \in 1 .. Len(turns) :
    Len(turns) - j = Len(completed) - i /\ turns[j] = completed[i]

(* The conversation ends in the last of the completed turns; one that a    *)
(* reset has taken began longer ago than any command from then on allows.  *)
TalkInv ==
  /\ now \in Nat /\ lastInteraction \in Nat /\ lastInteraction <= now
  /\ began \in [Command -> Nat]
  /\ \A c \in Command : began[c] <= lastInteraction
  /\ turns \in Seq(Command) /\ Len(turns) <= MaxTurns /\ completed \in Seq(Command)
  /\ messages \in [Command -> Seq(Command)]
  /\ completedBefore \in [Command -> Nat]
  /\ \A c \in Command : completedBefore[c] <= Len(completed)
  /\ \A i \in 1 .. Len(completed) : Final(completed[i])
  /\ \A i \in 1 .. Len(completed) :
       i + MaxTurns > Len(completed) /\ lastInteraction - began[completed[i]] <= SessionTimeout
         => StandsAt(i)
  /\ RecentTurnsAreTold

(* The invariant of the conversation, with its types in the form the      *)
(* steps use.                                                             *)
LEMMA TalkFacts ==
  ASSUME TalkInv
  PROVE  /\ now \in Nat /\ lastInteraction \in Nat /\ lastInteraction <= now
         /\ Len(turns) \in Nat /\ Len(completed) \in Nat
         /\ MaxTurns \in Nat \ {0} /\ SessionTimeout \in Nat
         /\ \A i \in 1 .. Len(turns) : turns[i] \in Command
         /\ \A i \in 1 .. Len(completed) :
              completed[i] \in Command /\ began[completed[i]] \in Nat
                /\ began[completed[i]] <= lastInteraction
BY LenProperties, ElementOfSeq, DispatchAssumption DEF TalkInv

(* A command begins: it is told the conversation, reset if it has expired. *)
LEMMA TalkBegins ==
  ASSUME TalkInv, HudInv, NEW c \in Command, BeginDispatch(c)
  PROVE  TalkInv'
<1>0. /\ now \in Nat /\ lastInteraction \in Nat /\ lastInteraction <= now
      /\ Len(turns) \in Nat /\ Len(completed) \in Nat
      /\ MaxTurns \in Nat \ {0} /\ SessionTimeout \in Nat
      /\ \A i \in 1 .. Len(completed) :
           completed[i] \in Command /\ began[completed[i]] \in Nat
             /\ began[completed[i]] <= lastInteraction
  BY TalkFacts
<1>1. /\ step[c] = "dispatch" /\ step' = [step EXCEPT ![c] = "ask"]
      /\ turns' = (IF Expired THEN <<>> ELSE turns)
      /\ lastInteraction' = now /\ now' = now /\ completed' = completed
      /\ began' = [began EXCEPT ![c] = now]
      /\ messages' = [messages EXCEPT ![c] = turns']
      /\ completedBefore' = [completedBefore EXCEPT ![c] = Len(completed)]
      /\ writing' = writing
  BY DEF BeginDispatch, Becomes, hudVars
<1>2. /\ began \in [Command -> Nat] /\ messages \in [Command -> Seq(Command)]
      /\ completedBefore \in [Command -> Nat]
      /\ turns \in Seq(Command) /\ completed \in Seq(Command) /\ Len(turns) <= MaxTurns
  BY DEF TalkInv, HudInv, DispatchTypes
<1>3. /\ \A d \in Command : began'[d] = (IF d = c THEN now ELSE began[d])
      /\ \A d \in Command : messages'[d] = (IF d = c THEN turns' ELSE messages[d])
      /\ \A d \in Command : completedBefore'[d] = (IF d = c THEN Len(completed)
                                                            ELSE completedBefore[d])
      /\ \A d \in Command \ {c} : step'[d] = step[d]
  BY <1>1, <1>2 DEF HudInv, DispatchTypes
<1>4. turns' \in Seq(Command) /\ Len(turns') <= MaxTurns
  <2>1. <<>> \in Seq(Command) /\ Len(<<>>) = 0
    BY EmptySeq
  <2> QED
    BY <1>0, <1>1, <1>2, <2>1
<1>5. \A i \in 1 .. Len(completed) : completed[i] # c /\ Final(completed[i])
  BY <1>1 DEF TalkInv, HudInv
<1>6. ASSUME NEW i \in 1 .. Len(completed), i + MaxTurns > Len(completed),
             now - began[completed[i]] <= SessionTimeout
      PROVE  StandsAt(i)'
  <2>1. began[completed[i]] \in Nat /\ began[completed[i]] <= lastInteraction
    BY <1>0
  <2>2. ~Expired
    BY <1>0, <1>6, <2>1 DEF Expired
  <2>3. lastInteraction - began[completed[i]] <= SessionTimeout
    BY <1>0, <1>6, <2>1
  <2>4. StandsAt(i) /\ turns' = turns
    BY <1>1, <1>6, <2>2, <2>3 DEF TalkInv
  <2> QED
    BY <1>1, <2>4 DEF StandsAt
<1>7. \A i \in 1 .. Len(completed) : began'[completed[i]] = began[completed[i]]
  BY <1>0, <1>3, <1>5
<1>8. RecentTurnsAreTold'
  <2> SUFFICES ASSUME NEW d \in Command, step'[d] = "ask",
                      NEW i \in 1 .. completedBefore'[d],
                      began'[d] - began'[completed[i]] <= SessionTimeout,
                      i + MaxTurns > completedBefore'[d]
               PROVE  completed[i] \in Range(messages'[d])
    BY <1>1 DEF RecentTurnsAreTold
  <2>1. i \in 1 .. Len(completed)
    <3>1. /\ completedBefore[d] \in Nat /\ completedBefore[d] <= Len(completed)
          /\ completedBefore'[d] \in {completedBefore[d], Len(completed)}
      BY <1>3 DEF TalkInv
    <3> QED
      BY <1>0, <3>1
  <2>2. CASE d = c
    <3>1. StandsAt(i)'
      BY <1>3, <1>6, <1>7, <2>1, <2>2
    <3>2. PICK j \in 1 .. Len(turns') : turns'[j] = completed[i]
      BY <1>1, <3>1 DEF StandsAt
    <3>3. DOMAIN turns' = 1 .. Len(turns')
      BY <1>4, LenProperties
    <3> QED
      BY <1>3, <2>2, <3>2, <3>3 DEF Range
  <2>3. CASE d # c
    BY <1>3, <1>7, <2>1, <2>3 DEF TalkInv, RecentTurnsAreTold
  <2> QED
    BY <2>2, <2>3
<1>9. /\ began' \in [Command -> Nat] /\ messages' \in [Command -> Seq(Command)]
      /\ completedBefore' \in [Command -> Nat]
  BY <1>0, <1>1, <1>2, <1>4
<1>10. /\ \A d \in Command : began'[d] <= now
       /\ \A d \in Command : completedBefore'[d] <= Len(completed)
  <2>1. \A d \in Command : began[d] \in Nat /\ began[d] <= lastInteraction
    BY DEF TalkInv
  <2>2. \A d \in Command : completedBefore[d] <= Len(completed)
    BY DEF TalkInv
  <2> QED
    BY <1>0, <1>3, <2>1, <2>2
<1>11. \A i \in 1 .. Len(completed) : Final(completed[i])'
  BY <1>1, <1>5 DEF Final
<1>12. \A i \in 1 .. Len(completed') :
         i + MaxTurns > Len(completed') /\ lastInteraction' - began'[completed'[i]] <= SessionTimeout
           => StandsAt(i)'
  BY <1>1, <1>6, <1>7
<1> QED
  BY <1>0, <1>1, <1>2, <1>4, <1>8, <1>9, <1>10, <1>11, <1>12 DEF TalkInv

(* A command is answered: its turn goes to the end, the first may go.      *)
LEMMA TalkAnswers ==
  ASSUME TalkInv, HudInv, NEW c \in Command, Answer(c)
  PROVE  TalkInv'
<1>0. /\ now \in Nat /\ lastInteraction \in Nat /\ lastInteraction <= now
      /\ Len(turns) \in Nat /\ Len(completed) \in Nat
      /\ MaxTurns \in Nat \ {0} /\ SessionTimeout \in Nat
      /\ \A i \in 1 .. Len(completed) :
           completed[i] \in Command /\ began[completed[i]] \in Nat
             /\ began[completed[i]] <= lastInteraction
  BY TalkFacts
<1>1. /\ step[c] = "ask" /\ step' = [step EXCEPT ![c] = "open"]
      /\ turns' = WithTurn(c) /\ completed' = Append(completed, c)
      /\ lastInteraction' = lastInteraction /\ now' = now /\ began' = began
      /\ messages' = [messages EXCEPT ![c] = <<>>]
      /\ completedBefore' = [completedBefore EXCEPT ![c] = 0]
      /\ writing' = [writing EXCEPT ![c] = "result"]
  BY DEF Answer, StopsAsking, Becomes
<1>2. /\ messages \in [Command -> Seq(Command)] /\ completedBefore \in [Command -> Nat]
      /\ turns \in Seq(Command) /\ completed \in Seq(Command) /\ Len(turns) <= MaxTurns
      /\ began \in [Command -> Nat]
  BY DEF TalkInv
<1>3. /\ \A d \in Command \ {c} : /\ messages'[d] = messages[d] /\ step'[d] = step[d]
                                  /\ completedBefore'[d] = completedBefore[d]
                                  /\ writing'[d] = writing[d]
      /\ step'[c] = "open" /\ writing'[c] = "result" /\ completedBefore'[c] = 0
  BY <1>1, <1>2 DEF HudInv, DispatchTypes
<1>4. /\ completed' \in Seq(Command) /\ Len(completed') = Len(completed) + 1
      /\ \A i \in 1 .. Len(completed) : completed'[i] = completed[i]
      /\ completed'[Len(completed) + 1] = c
  BY <1>1, <1>2, AppendProperties
<1> DEFINE all == Append(turns, c)
<1>5. /\ all \in Seq(Command) /\ Len(all) = Len(turns) + 1 /\ all # <<>>
      /\ \A j \in 1 .. Len(turns) : all[j] = turns[j]
      /\ all[Len(turns) + 1] = c
  <2>1. turns \in Seq(Command)
    BY <1>2
  <2> QED
    BY <2>1, AppendProperties
<1>6. turns' = IF Len(all) > MaxTurns THEN Tail(all) ELSE all
  BY <1>1 DEF WithTurn
<1> HIDE DEF all
<1>7. PICK k \in {0, 1} :
        /\ turns' \in Seq(Command) /\ Len(turns') = Len(all) - k /\ Len(turns') <= MaxTurns
        /\ k = 1 => Len(all) > MaxTurns
        /\ \A j \in 1 .. Len(turns') : turns'[j] = all[j + k]
  <2>1. CASE Len(all) > MaxTurns
    <3>1. /\ turns' \in Seq(Command) /\ Len(turns') = Len(all) - 1
          /\ \A j \in 1 .. Len(turns') : turns'[j] = all[j + 1]
      BY <1>5, <1>6, <2>1, HeadTailProperties
    <3>2. Len(turns') <= MaxTurns
      BY <1>0, <1>2, <1>5, <3>1
    <3> QED
      BY <2>1, <3>1, <3>2
  <2>2. CASE ~(Len(all) > MaxTurns)
    <3>1. turns' = all /\ Len(all) \in Nat /\ Len(all) <= MaxTurns
      BY <1>0, <1>5, <1>6, <2>2
    <3>2. \A j \in 1 .. Len(turns') : turns'[j] = all[j + 0]
      BY <3>1
    <3>3. Len(turns') = Len(all) - 0
      BY <3>1
    <3> QED
      BY <1>5, <3>1, <3>2, <3>3
  <2> QED
    BY <2>1, <2>2
<1>8. ASSUME NEW i \in 1 .. Len(completed'), i + MaxTurns > Len(completed'),
             lastInteraction - began[completed'[i]] <= SessionTimeout
      PROVE  StandsAt(i)'
  <2>1. PICK j \in 1 .. Len(all) : Len(all) - j = Len(completed') - i /\ all[j] = completed'[i]
    <3>1. CASE i = Len(completed) + 1
      <4>1. Len(turns) + 1 \in 1 .. Len(all) /\ Len(all) - (Len(turns) + 1) = Len(completed') - i
        BY <1>0, <1>4, <1>5, <3>1
      <4> QED
        BY <1>4, <1>5, <3>1, <4>1
    <3>2. CASE i \in 1 .. Len(completed)
      <4>1. completed'[i] = completed[i]
        BY <1>4, <3>2
      <4>2. i + MaxTurns > Len(completed)
        BY <1>0, <1>4, <1>8, <3>2
      <4>3. StandsAt(i)
        BY <1>8, <3>2, <4>1, <4>2 DEF TalkInv
      <4>4. PICK j \in 1 .. Len(turns) :
              Len(turns) - j = Len(completed) - i /\ turns[j] = completed[i]
        BY <4>3 DEF StandsAt
      <4>5. j \in 1 .. Len(all) /\ Len(all) - j = Len(completed') - i
        <5>1. /\ Len(turns) \in Nat /\ Len(completed) \in Nat
              /\ Len(all) = Len(turns) + 1 /\ Len(completed') = Len(completed) + 1
          BY <1>0, <1>4, <1>5
        <5>2. Len(turns) - j = Len(completed) - i
          BY <4>4
        <5> QED
          BY <3>2, <5>1, <5>2
      <4> QED
        BY <1>5, <4>1, <4>4, <4>5
    <3> QED
      BY <1>0, <1>4, <1>8, <3>1, <3>2
  <2>2. j - k \in 1 .. Len(turns') /\ Len(turns') - (j - k) = Len(completed') - i
    <3>1. /\ Len(all) \in Nat /\ Len(completed') \in Nat /\ MaxTurns \in Nat
          /\ Len(turns') = Len(all) - k /\ (k = 1 => Len(all) > MaxTurns)
      BY <1>0, <1>4, <1>5, <1>7
    <3>2. Len(all) - j = Len(completed') - i /\ i + MaxTurns > Len(completed')
      BY <1>8, <2>1
    <3> QED
      BY <1>8, <3>1, <3>2
  <2>3. turns'[j - k] = completed'[i]
    <3>1. turns'[j - k] = all[(j - k) + k]
      BY <1>7, <2>2
    <3> QED
      BY <2>1, <3>1
  <2> QED
    BY <2>2, <2>3 DEF StandsAt
<1>9. RecentTurnsAreTold'
  <2> SUFFICES ASSUME NEW d \in Command, step'[d] = "ask",
                      NEW i \in 1 .. completedBefore'[d],
                      began[d] - began[completed'[i]] <= SessionTimeout,
                      i + MaxTurns > completedBefore'[d]
               PROVE  completed'[i] \in Range(messages'[d])
    BY <1>1 DEF RecentTurnsAreTold
  <2>1. d # c
    BY <1>3
  <2>2. i \in 1 .. completedBefore[d] /\ completedBefore[d] \in Nat
        /\ completedBefore[d] <= Len(completed)
    BY <1>2, <1>3, <2>1 DEF TalkInv
  <2>3. completed'[i] = completed[i]
    BY <1>0, <1>4, <2>2
  <2> QED
    BY <1>3, <2>1, <2>2, <2>3 DEF TalkInv, RecentTurnsAreTold
<1>10. \A d \in Command : completedBefore'[d] <= Len(completed')
  <2>1. \A d \in Command : completedBefore[d] \in Nat /\ completedBefore[d] <= Len(completed)
    BY DEF TalkInv
  <2> QED
    BY <1>0, <1>3, <1>4, <2>1
<1>11. \A i \in 1 .. Len(completed') : writing'[completed'[i]] # "thinking"
  <2>1. \A i \in 1 .. Len(completed') :
          i \in 1 .. Len(completed) \/ i = Len(completed) + 1
    BY <1>0, <1>4
  <2>2. \A i \in 1 .. Len(completed) : writing[completed[i]] # "thinking"
    BY DEF TalkInv, Final
  <2> QED
    BY <1>0, <1>3, <1>4, <2>1, <2>2
<1>12. messages' \in [Command -> Seq(Command)] /\ completedBefore' \in [Command -> Nat]
  <2>1. <<>> \in Seq(Command)
    BY EmptySeq
  <2> QED
    BY <1>1, <1>2, <2>1
<1>13. \A d \in Command : began'[d] <= lastInteraction'
  BY <1>1 DEF TalkInv
<1>14. \A i \in 1 .. Len(completed') :
         i + MaxTurns > Len(completed') /\ lastInteraction' - began'[completed'[i]] <= SessionTimeout
           => StandsAt(i)'
  BY <1>1, <1>8
<1> QED
  BY <1>0, <1>1, <1>2, <1>4, <1>7, <1>9, <1>10, <1>11, <1>12, <1>13, <1>14 DEF TalkInv, Final

(* A model call that fails leaves the conversation as it was.             *)
LEMMA TalkFails ==
  ASSUME TalkInv, HudInv, NEW c \in Command, ModelFails(c)
  PROVE  TalkInv'
<1>1. /\ step' = [step EXCEPT ![c] = "open"]
      /\ messages' = [messages EXCEPT ![c] = <<>>]
      /\ completedBefore' = [completedBefore EXCEPT ![c] = 0]
      /\ writing' = [writing EXCEPT ![c] = "error"]
      /\ UNCHANGED <<now, turns, lastInteraction, began, completed>>
  BY DEF ModelFails, StopsAsking, Becomes
<1>2. messages' \in [Command -> Seq(Command)] /\ completedBefore' \in [Command -> Nat]
  <2>1. <<>> \in Seq(Command)
    BY EmptySeq
  <2> QED
    BY <1>1, <2>1 DEF TalkInv
<1>3. \A d \in Command : /\ step'[d] = "ask" => d # c
                         /\ writing'[d] # "thinking" \/ writing'[d] = writing[d]
                         /\ d # c => /\ messages'[d] = messages[d] /\ step'[d] = step[d]
                                     /\ completedBefore'[d] = completedBefore[d]
                         /\ completedBefore'[d] \in {0, completedBefore[d]}
  BY <1>1 DEF TalkInv, HudInv, DispatchTypes
<1>4. \A i \in 1 .. Len(completed) : completed[i] \in Command
  BY TalkFacts
<1>5. \A i \in 1 .. Len(completed) : Final(completed[i])'
  BY <1>1, <1>3, <1>4 DEF TalkInv, Final
<1>6. \A d \in Command : completedBefore'[d] <= Len(completed)
  <2>1. Len(completed) \in Nat
    BY TalkFacts
  <2>2. \A d \in Command : completedBefore[d] <= Len(completed)
    BY DEF TalkInv
  <2> QED
    BY <1>3, <2>1, <2>2
<1>7. RecentTurnsAreTold'
  BY <1>1, <1>3 DEF TalkInv, RecentTurnsAreTold
<1>8. \A i \in 1 .. Len(completed) : StandsAt(i) => StandsAt(i)'
  BY <1>1 DEF StandsAt
<1> QED
  BY <1>1, <1>2, <1>5, <1>6, <1>7, <1>8 DEF TalkInv

(* What leaves the conversation alone and asks nothing new.                *)
LEMMA TalkWaits ==
  ASSUME TalkInv, UNCHANGED talkVars, UNCHANGED writing,
         now' \in Nat, now' >= now,
         \A c \in Command : step'[c] = "ask" => step[c] = "ask"
  PROVE  TalkInv'
<1>1. UNCHANGED <<turns, lastInteraction, began, messages, completed, completedBefore>>
  BY DEF talkVars
<1>2. lastInteraction' <= now'
  BY <1>1 DEF TalkInv
<1>3. RecentTurnsAreTold'
  BY <1>1 DEF TalkInv, RecentTurnsAreTold
<1>4. \A i \in 1 .. Len(completed) : StandsAt(i) => StandsAt(i)'
  BY <1>1 DEF StandsAt
<1>5. \A i \in 1 .. Len(completed) : Final(completed[i])'
  BY <1>1 DEF TalkInv, Final
<1> QED
  BY <1>1, <1>2, <1>3, <1>4, <1>5 DEF TalkInv

(* Every step of the tasks keeps the invariant of the conversation.       *)
LEMMA TalkSteps == TalkInv /\ HudInv /\ [DispatchNext]_dispatchVars => TalkInv'
<1> SUFFICES ASSUME TalkInv, HudInv, [DispatchNext]_dispatchVars PROVE TalkInv'
  OBVIOUS
<1>0. /\ now \in Nat /\ now >= now
      /\ step \in [Command -> {"connected", "open", "fill", "rename", "dispatch",
                               "ask", "done"}]
  BY DEF TalkInv, HudInv, DispatchTypes
<1>1. ASSUME NEW c \in Command, NEW s, s # "ask", step' = [step EXCEPT ![c] = s]
      PROVE  \A d \in Command : step'[d] = "ask" => step[d] = "ask"
  BY <1>0, <1>1
<1>2. ASSUME NEW c \in Command, ReceiveTranscript(c) PROVE TalkInv'
  <2>1. /\ now' = now /\ UNCHANGED talkVars /\ UNCHANGED writing
        /\ step' = [step EXCEPT ![c] = "open"] \/ step' = [step EXCEPT ![c] = "done"]
    BY <1>2 DEF ReceiveTranscript, Becomes, hudVars
  <2> QED
    BY <1>0, <1>1, <2>1, TalkWaits
<1>3. ASSUME NEW c \in Command, OpenTmp(c) \/ FillTmp(c) \/ RenameTmp(c) PROVE TalkInv'
  <2>1. /\ now' = now /\ UNCHANGED talkVars /\ UNCHANGED writing
        /\ \E s \in {"fill", "rename", "dispatch", "done"} : step' = [step EXCEPT ![c] = s]
    BY <1>3 DEF OpenTmp, FillTmp, RenameTmp, GoesOn, GivesUp, Becomes
  <2> QED
    BY <1>0, <1>1, <2>1, TalkWaits
<1>4. CASE ClockTicks
  <2>1. /\ now' \in Nat /\ now' >= now /\ UNCHANGED talkVars /\ UNCHANGED writing
        /\ step' = step
    BY <1>0, <1>4 DEF ClockTicks, hudVars
  <2> QED
    BY <2>1, TalkWaits
<1>5. CASE UNCHANGED dispatchVars
  BY <1>0, <1>5, TalkWaits DEF dispatchVars, hudVars
<1> QED
  BY <1>2, <1>3, <1>4, <1>5, TalkBegins, TalkAnswers, TalkFails DEF DispatchNext

(* It holds before the first command.                                     *)
LEMMA TalkStarts == DispatchInit => TalkInv
<1> SUFFICES ASSUME DispatchInit PROVE TalkInv
  OBVIOUS
<1>1. <<>> \in Seq(Command) /\ Len(<<>>) = 0 /\ MaxTurns \in Nat
  BY EmptySeq, DispatchAssumption
<1> QED
  BY <1>1 DEF DispatchInit, TalkInv, RecentTurnsAreTold

(* A command that follows another within the session timeout is told that  *)
(* one's turn if it was complete by then and is among the last MaxTurns,   *)
(* however many tasks ran, expired or failed in between.                   *)
THEOREM RecentTurnsTold == DispatchSpec => []RecentTurnsAreTold
<1>1. DispatchInit => HudInv
  BY DEF DispatchInit, HudInv, FilesExcused, DispatchTypes, HudState, Content, Final
<1>2. TalkInv => RecentTurnsAreTold
  BY DEF TalkInv
<1> QED
  BY <1>1, <1>2, HudSteps, TalkStarts, TalkSteps, PTL DEF DispatchSpec

(* The clock stops at its bound.                                           *)
LEMMA ClockSteps ==
  TalkInv /\ now <= MaxClock /\ [DispatchNext]_dispatchVars => (now <= MaxClock)'
<1> SUFFICES ASSUME TalkInv, now <= MaxClock, [DispatchNext]_dispatchVars
             PROVE  (now <= MaxClock)'
  OBVIOUS
<1>1. CASE ClockTicks
  BY <1>1, DispatchAssumption DEF ClockTicks, TalkInv
<1>2. CASE now' = now
  BY <1>2
<1> QED
  BY <1>1, <1>2 DEF DispatchNext, dispatchVars, ReceiveTranscript, OpenTmp, FillTmp, RenameTmp,
     BeginDispatch, Answer, ModelFails

(* The dispatcher's variables keep their types.                            *)
THEOREM DispatchTyped == DispatchSpec => []DispatchTypeOK
<1>1. DispatchInit => HudInv /\ now <= MaxClock
  <2>1. DispatchInit => HudInv
    BY DEF DispatchInit, HudInv, FilesExcused, DispatchTypes, HudState, Content, Final
  <2>2. DispatchInit => now <= MaxClock
    BY DispatchAssumption DEF DispatchInit
  <2> QED
    BY <2>1, <2>2
<1>2. HudInv /\ TalkInv /\ now <= MaxClock => DispatchTypeOK
  <2> SUFFICES ASSUME HudInv, TalkInv, now <= MaxClock PROVE DispatchTypeOK
    OBVIOUS
  <2>1. now \in 0 .. MaxClock /\ lastInteraction \in 0 .. now
    BY DispatchAssumption DEF TalkInv
  <2>2. began \in [Command -> 0 .. now]
    <3>1. \A c \in Command : began[c] \in 0 .. now
      BY <2>1 DEF TalkInv
    <3> QED
      BY <3>1 DEF TalkInv
  <2>3. \A c \in Command : completedBefore[c] \in 0 .. Len(completed)
    BY TalkFacts DEF TalkInv
  <2> QED
    BY <2>1, <2>2, <2>3 DEF HudInv, DispatchTypes, TalkInv, DispatchTypeOK
<1> QED
  BY <1>1, <1>2, HudSteps, TalkStarts, TalkSteps, ClockSteps, PTL DEF DispatchSpec

-----------------------------------------------------------------------------
(* NotifyStack: what a frame shows, whatever happened before it.           *)

(* A list in the order of arrival, and one in the opposite order.          *)
Rising(q) == \A i, j \in 1 .. Len(q) : i < j => q[i].serial < q[j].serial
Falling(q) == \A i, j \in 1 .. Len(q) : i < j => q[j].serial < q[i].serial

(* The stack has the newest card on top, the queue is newer than all of    *)
(* it and both have arrived.                                               *)
StackInv ==
  /\ Falling(cards) /\ Rising(notifyQueue)
  /\ \A i \in 1 .. Len(cards), j \in 1 .. Len(notifyQueue) :
       cards[i].serial < notifyQueue[j].serial
  /\ \A i \in 1 .. Len(cards) : cards[i].serial <= arrived
  /\ \A j \in 1 .. Len(notifyQueue) : notifyQueue[j].serial <= arrived
  /\ counter <= arrived + 1

InStack(serial) == \E i \in 1 .. Len(cards) : cards[i].serial = serial

(* The surface is visible while there is a card to show, and one that is   *)
(* not has been cleared unless there was no texture for it.                *)
SurfaceInv ==
  /\ \A i \in 1 .. Len(cards) : cards[i].serial \notin fadedOut => visible
  /\ ~visible => clearLost \/ onScreen = 0

NotifyInv == NotifyTypeOK /\ StackInv /\ SurfaceInv

(* No notification has arrived.                                            *)
LEMMA NotifyStarts == NotifyInit => NotifyInv
<1> SUFFICES ASSUME NotifyInit PROVE NotifyInv
  OBVIOUS
<1>1. <<>> \in Seq(Notification) /\ Len(<<>>) = 0
  BY EmptySeq
<1>2. \A i \in 1 .. 0 : FALSE
  OBVIOUS
<1>3. 1 \in 1 .. MaxNotification + 1 /\ 0 \in 0 .. MaxNotification
  BY NotifyAssumption
<1>4. NotifyTypeOK
  BY <1>1, <1>3 DEF NotifyInit, NotifyTypeOK
<1> QED
  BY <1>1, <1>2, <1>4 DEF NotifyInit, NotifyInv, StackInv, SurfaceInv, Rising, Falling

(* Notifications are numbered.                                             *)
LEMMA Serials ==
  ASSUME NotifyTypeOK
  PROVE  /\ Len(cards) \in Nat /\ \A i \in 1 .. Len(cards) : cards[i].serial \in Nat
         /\ Len(notifyQueue) \in Nat
         /\ \A j \in 1 .. Len(notifyQueue) : notifyQueue[j].serial \in Nat
<1>1. \A n \in Notification : n.serial \in Nat
  BY NotifyAssumption DEF Notification, Serial
<1>2. cards \in Seq(Notification) /\ notifyQueue \in Seq(Notification)
  BY DEF NotifyTypeOK
<1>3. /\ \A i \in 1 .. Len(cards) : cards[i] \in Notification
      /\ \A j \in 1 .. Len(notifyQueue) : notifyQueue[j] \in Notification
  BY <1>2, ElementOfSeq
<1> QED
  BY <1>1, <1>2, <1>3, LenProperties

(* A part of a list keeps its order.                                       *)
LEMMA KeptInOrder ==
  ASSUME NEW q \in Seq(Notification), NEW keep
  PROVE  /\ Retained(q, keep) \in Seq(Notification)
         /\ Rising(q) => Rising(Retained(q, keep))
         /\ Falling(q) => Falling(Retained(q, keep))
         /\ \A i \in 1 .. Len(Retained(q, keep)) :
              \E j \in 1 .. Len(q) : Retained(q, keep)[i] = q[j] /\ q[j] \in keep
<1> DEFINE r == Retained(q, keep)
<1>1. r \in Seq(Notification) /\ KeptOf(r, q, keep, Len(q))
  BY RetainedProperties
<1> HIDE DEF r
<1>2. PICK p \in [1 .. Len(r) -> 1 .. Len(q)] :
        /\ \A i \in 1 .. Len(r) : r[i] = q[p[i]] /\ q[p[i]] \in keep
        /\ \A i, j \in 1 .. Len(r) : i < j => p[i] < p[j]
  BY <1>1 DEF KeptOf
<1>3. Rising(q) => Rising(r)
  BY <1>2 DEF Rising
<1>4. Falling(q) => Falling(r)
  BY <1>2 DEF Falling
<1>5. \A i \in 1 .. Len(r) : \E j \in 1 .. Len(q) : r[i] = q[j] /\ q[j] \in keep
  BY <1>2
<1> QED
  BY <1>1, <1>3, <1>4, <1>5 DEF r

(* InSight has the cards that have not faded out, the newest first.        *)
LEMMA InSightProperties ==
  ASSUME NotifyInv
  PROVE  /\ InSight \in Seq(Notification) /\ Falling(InSight)
         /\ \A i \in 1 .. Len(InSight) :
              InSight[i].serial \notin fadedOut /\ \E j \in 1 .. Len(cards) : InSight[i] = cards[j]
         /\ \A j \in 1 .. Len(cards) : cards[j].serial \notin fadedOut =>
              \E i \in 1 .. Len(InSight) : InSight[i] = cards[j]
<1> DEFINE keep == {n \in Range(cards) : n.serial \notin fadedOut}
<1>1. cards \in Seq(Notification) /\ Falling(cards)
  BY DEF NotifyInv, NotifyTypeOK, StackInv
<1>2. InSight = Retained(cards, keep)
  BY DEF InSight
<1>3. \A j \in 1 .. Len(cards) : cards[j] \in keep <=> cards[j].serial \notin fadedOut
  BY <1>1 DEF Range
<1> HIDE DEF keep
<1>4. KeptOf(InSight, cards, keep, Len(cards))
  BY <1>1, <1>2, RetainedProperties
<1>5. \A j \in 1 .. Len(cards) : cards[j] \in keep =>
        \E i \in 1 .. Len(InSight) : InSight[i] = cards[j]
  BY <1>4 DEF KeptOf
<1>6. /\ InSight \in Seq(Notification) /\ Falling(InSight)
      /\ \A i \in 1 .. Len(InSight) :
           \E j \in 1 .. Len(cards) : InSight[i] = cards[j] /\ cards[j] \in keep
  BY <1>1, <1>2, KeptInOrder, Zenon
<1> QED
  BY <1>3, <1>5, <1>6

(* A new notification is the newest, and goes to the end of the queue.     *)
LEMMA NotifyKeeps ==
  ASSUME NotifyInv, NEW replaces \in 0 .. counter - 1, NEW timed \in BOOLEAN,
         Notify(replaces, timed)
  PROVE  NotifyInv'
<1> DEFINE n == [serial |-> arrived + 1, timed |-> timed,
                 id |-> IF replaces = 0 THEN counter ELSE replaces]
<1>1. /\ counter \in Nat /\ arrived \in Nat /\ MaxNotification \in Nat /\ counter <= arrived + 1
      /\ arrived < MaxNotification /\ arrived' = arrived + 1 /\ counter >= 1
      /\ replaces \in Nat /\ replaces < counter
  BY NotifyAssumption DEF NotifyInv, NotifyTypeOK, StackInv, Notify
<1>2. n \in Notification /\ n.serial = arrived'
  BY <1>1 DEF Notification, Serial
<1>3. notifyQueue \in Seq(Notification) /\ notifyQueue' = Append(notifyQueue, n)
  BY DEF NotifyInv, NotifyTypeOK, Notify
<1> HIDE DEF n
<1>4. /\ notifyQueue' \in Seq(Notification) /\ Len(notifyQueue') = Len(notifyQueue) + 1
      /\ notifyQueue'[Len(notifyQueue')] = n
      /\ \A i \in 1 .. Len(notifyQueue) : notifyQueue'[i] = notifyQueue[i]
      /\ Len(notifyQueue) \in Nat
  BY <1>2, <1>3, AppendProperties, LenProperties
<1>5. \A i \in 1 .. Len(notifyQueue') : i # Len(notifyQueue') => i \in 1 .. Len(notifyQueue)
  BY <1>4
<1>6. NotifyTypeOK'
  BY <1>1, <1>4 DEF NotifyInv, NotifyTypeOK, Notify
<1>7. /\ \A i \in 1 .. Len(notifyQueue) : notifyQueue[i].serial \in Nat
      /\ \A i \in 1 .. Len(cards) : cards[i].serial \in Nat
  BY Serials DEF NotifyInv
<1>8. UNCHANGED <<cards, fadedOut, onScreen, visible, clearLost>>
      /\ counter' \in {counter, counter + 1}
  BY DEF Notify
<1>9. \A i \in 1 .. Len(notifyQueue') : notifyQueue'[i].serial <= arrived'
  BY <1>1, <1>2, <1>4, <1>5, <1>7 DEF NotifyInv, StackInv
<1>10. Rising(notifyQueue)'
  <2> SUFFICES ASSUME NEW i \in 1 .. Len(notifyQueue'), NEW j \in 1 .. Len(notifyQueue'), i < j
               PROVE  notifyQueue'[i].serial < notifyQueue'[j].serial
    BY DEF Rising
  <2>1. i \in 1 .. Len(notifyQueue)
    BY <1>4
  <2> QED
    BY <1>1, <1>2, <1>4, <1>5, <1>7, <2>1 DEF NotifyInv, StackInv, Rising
<1>11. \A i \in 1 .. Len(cards), j \in 1 .. Len(notifyQueue') :
         cards[i].serial < notifyQueue'[j].serial
  BY <1>1, <1>2, <1>4, <1>5, <1>7 DEF NotifyInv, StackInv
<1>12. \A i \in 1 .. Len(cards) : cards[i].serial <= arrived'
  BY <1>1, <1>7 DEF NotifyInv, StackInv
<1>13. Falling(cards)'
  BY <1>8 DEF NotifyInv, StackInv, Falling
<1>14. StackInv'
  BY <1>1, <1>8, <1>9, <1>10, <1>11, <1>12, <1>13 DEF StackInv
<1>15. SurfaceInv'
  BY <1>8 DEF NotifyInv, SurfaceInv
<1> QED
  BY <1>6, <1>14, <1>15 DEF NotifyInv

(* A close thins the queue.                                                *)
LEMMA CloseKeeps ==
  ASSUME NotifyInv, NEW id \in 1 .. counter - 1, CloseNotification(id)
  PROVE  NotifyInv'
<1> DEFINE keep == {n \in Range(notifyQueue) : n.id # id}
<1>1. notifyQueue \in Seq(Notification) /\ notifyQueue' = Retained(notifyQueue, keep)
  BY DEF NotifyInv, NotifyTypeOK, CloseNotification
<1> HIDE DEF keep
<1>2. /\ notifyQueue' \in Seq(Notification)
      /\ Rising(notifyQueue) => Rising(notifyQueue')
      /\ \A i \in 1 .. Len(notifyQueue') :
           \E j \in 1 .. Len(notifyQueue) : notifyQueue'[i] = notifyQueue[j]
  <2> DEFINE r == Retained(notifyQueue, keep)
  <2>1. /\ r \in Seq(Notification)
        /\ Rising(notifyQueue) => Rising(r)
        /\ \A i \in 1 .. Len(r) : \E j \in 1 .. Len(notifyQueue) : r[i] = notifyQueue[j]
    BY <1>1, KeptInOrder
  <2>2. notifyQueue' = r
    BY <1>1
  <2> HIDE DEF r
  <2> QED
    BY <2>1, <2>2
<1>3. UNCHANGED <<counter, arrived, cards, fadedOut, onScreen, visible, renderLoop, clearLost>>
  BY DEF CloseNotification
<1>4. NotifyTypeOK'
  BY <1>2, <1>3 DEF NotifyInv, NotifyTypeOK
<1>5. SurfaceInv'
  BY <1>3 DEF NotifyInv, SurfaceInv
<1>6. StackInv'
  BY <1>2, <1>3 DEF NotifyInv, StackInv, Falling, Rising
<1> QED
  BY <1>4, <1>5, <1>6 DEF NotifyInv

(* A card that fades takes nothing from the stack yet.                     *)
LEMMA FadeKeeps ==
  ASSUME NotifyInv, NEW n \in Range(cards), FadesOut(n)
  PROVE  NotifyInv'
<1>1. /\ UNCHANGED <<counter, arrived, notifyQueue, cards, onScreen, visible, renderLoop, clearLost>>
      /\ fadedOut' = fadedOut \cup {n.serial}
  BY DEF FadesOut
<1>2. n.serial \in Serial
  <2>1. cards \in Seq(Notification)
    BY DEF NotifyInv, NotifyTypeOK
  <2>2. PICK i \in DOMAIN cards : n = cards[i]
    BY DEF Range
  <2>3. n \in Notification
    BY <2>1, <2>2
  <2> QED
    BY <2>3 DEF Notification
<1>3. NotifyTypeOK'
  BY <1>1, <1>2 DEF NotifyInv, NotifyTypeOK
<1>4. SurfaceInv'
  BY <1>1 DEF NotifyInv, SurfaceInv
<1>5. StackInv'
  BY <1>1 DEF NotifyInv, StackInv, Falling, Rising
<1> QED
  BY <1>3, <1>4, <1>5 DEF NotifyInv

(* The queue goes on top of the stack in the opposite order.               *)
LEMMA PushedProperties ==
  ASSUME NEW q \in Seq(Notification), NEW s \in Seq(Notification)
  PROVE  /\ Pushed(q, s) \in Seq(Notification)
         /\ Len(q) \in Nat /\ Len(s) \in Nat
         /\ Len(Pushed(q, s)) = Len(q) + Len(s)
         /\ \A i \in 1 .. Len(q) : Pushed(q, s)[i] = q[Len(q) - i + 1]
         /\ \A i \in 1 .. Len(s) : Pushed(q, s)[Len(q) + i] = s[i]
<1>1. /\ Len(q) \in Nat /\ Len(s) \in Nat
      /\ \A i \in 1 .. Len(q) : q[i] \in Notification
  BY LenProperties, ElementOfSeq
<1> DEFINE r == Reverse(q)
<1>2. r = [i \in 1 .. Len(q) |-> q[(Len(q) - i) + 1]]
  BY DEF Reverse
<1>3. \A i \in 1 .. Len(q) : q[(Len(q) - i) + 1] \in Notification
  BY <1>1
<1>4. r \in Seq(Notification) /\ Len(r) = Len(q)
  BY <1>1, <1>2, <1>3, IsASeq
<1>5. \A i \in 1 .. Len(q) : r[i] = q[Len(q) - i + 1]
  BY <1>2
<1>6. Pushed(q, s) = r \o s
  BY DEF Pushed
<1> HIDE DEF r
<1>7. /\ r \o s \in Seq(Notification) /\ Len(r \o s) = Len(r) + Len(s)
      /\ \A i \in 1 .. Len(r) + Len(s) :
           (r \o s)[i] = IF i <= Len(r) THEN r[i] ELSE s[i - Len(r)]
  BY <1>4, ConcatProperties
<1> HIDE DEF Pushed
<1>8. \A i \in 1 .. Len(q) : Pushed(q, s)[i] = q[Len(q) - i + 1]
  BY <1>1, <1>4, <1>5, <1>6, <1>7
<1>9. \A i \in 1 .. Len(s) : Pushed(q, s)[Len(q) + i] = s[i]
  BY <1>1, <1>4, <1>6, <1>7
<1> QED
  BY <1>1, <1>4, <1>6, <1>7, <1>8, <1>9

(* The queue is newer than the stack and goes on top of it, the newest     *)
(* first; whatever there is to show makes the surface visible.             *)
LEMMA DrainKeeps ==
  ASSUME NotifyInv, Drain
  PROVE  NotifyInv'
<1> DEFINE m == Len(notifyQueue)
           k == Len(cards)
<1>1. /\ cards \in Seq(Notification) /\ notifyQueue \in Seq(Notification)
      /\ cards' = Pushed(notifyQueue, cards) /\ notifyQueue' = <<>>
      /\ UNCHANGED <<counter, arrived, fadedOut, onScreen, clearLost>>
      /\ renderLoop' = "tick" /\ visible' = Shows
  BY DEF NotifyInv, NotifyTypeOK, Drain
<1>2. /\ cards' \in Seq(Notification) /\ m \in Nat /\ k \in Nat /\ Len(cards') = m + k
      /\ \A i \in 1 .. m : cards'[i] = notifyQueue[m - i + 1]
      /\ \A i \in 1 .. k : cards'[m + i] = cards[i]
  BY <1>1, PushedProperties
<1> HIDE DEF m, k
<1>3. \A i \in 1 .. m + k :
        \/ i \in 1 .. m /\ m - i + 1 \in 1 .. m /\ cards'[i] = notifyQueue[m - i + 1]
        \/ i - m \in 1 .. k /\ cards'[i] = cards[i - m]
  <2> TAKE i \in 1 .. m + k
  <2>1. CASE i <= m
    BY <1>2, <2>1
  <2>2. CASE i > m
    <3>1. i - m \in 1 .. k /\ m + (i - m) = i
      BY <1>2, <2>2
    <3> QED
      BY <1>2, <3>1
  <2> QED
    BY <1>2, <2>1, <2>2
<1>4. /\ \A i \in 1 .. k : cards[i].serial \in Nat /\ cards[i].serial <= arrived
      /\ \A i \in 1 .. m : notifyQueue[i].serial \in Nat /\ notifyQueue[i].serial <= arrived
      /\ \A i \in 1 .. k, j \in 1 .. m : cards[i].serial < notifyQueue[j].serial
      /\ \A i, j \in 1 .. k : i < j => cards[j].serial < cards[i].serial
      /\ \A i, j \in 1 .. m : i < j => notifyQueue[i].serial < notifyQueue[j].serial
  BY Serials DEF NotifyInv, StackInv, Rising, Falling, m, k
<1>5. \A i \in 1 .. m + k : cards'[i].serial <= arrived
  BY <1>3, <1>4
<1>6. ASSUME NEW i \in 1 .. m + k, NEW j \in 1 .. m + k, i < j
      PROVE  cards'[j].serial < cards'[i].serial
  <2>1. CASE j \in 1 .. m
    BY <1>2, <1>3, <1>4, <1>6, <2>1
  <2>2. CASE i \in 1 .. m /\ j \notin 1 .. m
    BY <1>2, <1>3, <1>4, <1>6, <2>2
  <2>3. CASE i \notin 1 .. m /\ j \notin 1 .. m
    <3>1. /\ i - m \in 1 .. k /\ cards'[i] = cards[i - m]
          /\ j - m \in 1 .. k /\ cards'[j] = cards[j - m]
      BY <1>3, <2>3
    <3>2. i - m < j - m
      BY <1>2, <1>6
    <3> HIDE DEF Falling
    <3> QED
      BY <1>4, <3>1, <3>2
  <2> QED
    BY <1>2, <1>6, <2>1, <2>2, <2>3
<1>7. <<>> \in Seq(Notification) /\ Len(<<>>) = 0 /\ \A i \in 1 .. 0 : FALSE
  BY EmptySeq
<1>8. Len(notifyQueue') = 0
  BY <1>1, <1>7
<1>9. StackInv'
  <2>1. Falling(cards)' /\ Rising(notifyQueue)'
    BY <1>2, <1>6, <1>7, <1>8 DEF Falling, Rising
  <2>2. \A i \in 1 .. Len(cards') : cards'[i].serial <= arrived'
    BY <1>1, <1>2, <1>5
  <2> QED
    BY <1>1, <1>7, <1>8, <2>1, <2>2 DEF NotifyInv, StackInv
<1>10. NotifyTypeOK'
  BY <1>1, <1>2, <1>7 DEF NotifyInv, NotifyTypeOK, Shows
<1>11. SurfaceInv'
  <2>1. ASSUME NEW i \in 1 .. Len(cards'), cards'[i].serial \notin fadedOut PROVE visible'
    <3>1. CASE i \in 1 .. m
      <4>1. notifyQueue # <<>>
        BY <1>2, <1>7, <3>1 DEF m
      <4> QED
        BY <1>1, <4>1 DEF Shows
    <3>2. CASE i \notin 1 .. m
      <4>1. i - m \in 1 .. k /\ cards'[i] = cards[i - m]
        BY <1>2, <1>3, <3>2
      <4>2. visible
        BY <2>1, <4>1 DEF NotifyInv, SurfaceInv, k
      <4> QED
        BY <1>1, <4>2 DEF Shows
    <3> QED
      BY <3>1, <3>2
  <2>2. ~visible' => ~visible
    BY <1>1 DEF Shows
  <2> QED
    BY <1>1, <2>1, <2>2 DEF NotifyInv, SurfaceInv
<1> QED
  BY <1>9, <1>10, <1>11 DEF NotifyInv

(* The faded cards go, the others keep their order.                        *)
LEMMA TickKeeps ==
  ASSUME NotifyInv, TickStack
  PROVE  NotifyInv'
<1>1. /\ cards' = InSight /\ renderLoop' = "draw"
      /\ UNCHANGED <<counter, arrived, notifyQueue, fadedOut, onScreen, visible, clearLost>>
  BY DEF TickStack
<1>2. /\ cards' \in Seq(Notification) /\ Falling(cards')
      /\ \A i \in 1 .. Len(cards') : \E j \in 1 .. Len(cards) : cards'[i] = cards[j]
  <2> HIDE DEF InSight
  <2> QED
    BY <1>1, InSightProperties, Zenon
<1>3. StackInv'
  BY <1>1, <1>2 DEF NotifyInv, StackInv, Rising, Falling
<1>4. SurfaceInv'
  BY <1>1, <1>2 DEF NotifyInv, SurfaceInv
<1>5. NotifyTypeOK'
  BY <1>1, <1>2 DEF NotifyInv, NotifyTypeOK
<1> QED
  BY <1>3, <1>4, <1>5 DEF NotifyInv

(* The head of what is in sight is the newest card that has not faded out. *)
LEMMA NewestInSight ==
  ASSUME NotifyInv
  PROVE  /\ InSight = <<>> <=> \A i \in 1 .. Len(cards) : cards[i].serial \in fadedOut
         /\ InSight # <<>> =>
              /\ Head(InSight).serial \in Serial \ fadedOut
              /\ \E i \in 1 .. Len(cards) : cards[i] = Head(InSight)
              /\ \A i \in 1 .. Len(cards) :
                   cards[i].serial \notin fadedOut => cards[i].serial <= Head(InSight).serial
<1>1. /\ InSight \in Seq(Notification) /\ Falling(InSight)
      /\ \A i \in 1 .. Len(InSight) :
           InSight[i].serial \notin fadedOut /\ \E j \in 1 .. Len(cards) : InSight[i] = cards[j]
      /\ \A j \in 1 .. Len(cards) : cards[j].serial \notin fadedOut =>
           \E i \in 1 .. Len(InSight) : InSight[i] = cards[j]
  BY InSightProperties
<1>2. /\ Len(InSight) \in Nat /\ (InSight = <<>> <=> Len(InSight) = 0)
      /\ InSight # <<>> => 1 \in 1 .. Len(InSight) /\ Head(InSight) = InSight[1]
  BY <1>1, LenProperties, EmptySeq
<1>3. \A i \in 1 .. Len(InSight) : InSight[i].serial \in Serial /\ InSight[i].serial \in Nat
  <2>1. \A i \in 1 .. Len(InSight) : InSight[i] \in Notification
    BY <1>1, ElementOfSeq
  <2>2. \A n \in Notification : n.serial \in Serial /\ n.serial \in Nat
    BY NotifyAssumption DEF Notification, Serial
  <2> QED
    BY <2>1, <2>2
<1>4. \A i \in 1 .. Len(InSight) : InSight[i].serial <= InSight[1].serial
  BY <1>1, <1>2, <1>3 DEF Falling
<1> QED
  BY <1>1, <1>2, <1>3, <1>4

(* The surface is hidden only when there is nothing to show.               *)
LEMMA DrawKeeps ==
  ASSUME NotifyInv, NEW texture \in BOOLEAN, Draw(texture)
  PROVE  NotifyInv'
<1>1. UNCHANGED <<counter, arrived, notifyQueue, cards, fadedOut>> /\ renderLoop' = "drain"
  BY DEF Draw
<1>2. StackInv'
  BY <1>1 DEF NotifyInv, StackInv, Rising, Falling
<1>3. CASE InSight # <<>>
  <2>1. onScreen' \in {0} \cup Serial /\ UNCHANGED <<visible, clearLost>>
    BY <1>3, NewestInSight DEF Draw, NotifyInv, NotifyTypeOK
  <2>2. visible
    BY <1>3, NewestInSight DEF NotifyInv, SurfaceInv
  <2>3. NotifyTypeOK'
    BY <1>1, <2>1 DEF NotifyInv, NotifyTypeOK
  <2>4. SurfaceInv'
    BY <1>1, <2>1, <2>2 DEF NotifyInv, SurfaceInv
  <2> QED
    BY <1>2, <2>3, <2>4 DEF NotifyInv
<1>4. CASE InSight = <<>>
  <2>1. /\ onScreen' = IF visible /\ texture THEN 0 ELSE onScreen
        /\ clearLost' = (clearLost \/ (visible /\ ~texture))
        /\ visible' = FALSE
    BY <1>4 DEF Draw
  <2>2. \A i \in 1 .. Len(cards) : cards[i].serial \in fadedOut
    BY <1>4, NewestInSight
  <2>3. NotifyTypeOK'
    BY <1>1, <2>1 DEF NotifyInv, NotifyTypeOK
  <2>4. SurfaceInv'
    BY <1>1, <2>1, <2>2 DEF NotifyInv, SurfaceInv
  <2> QED
    BY <1>2, <2>3, <2>4 DEF NotifyInv
<1> QED
  BY <1>3, <1>4

(* Every step keeps the stack and the surface in agreement.                *)
LEMMA NotifySteps == NotifyInv /\ [NotifyNext]_notifyVars => NotifyInv'
<1> SUFFICES ASSUME NotifyInv, [NotifyNext]_notifyVars PROVE NotifyInv'
  OBVIOUS
<1>1. CASE UNCHANGED notifyVars
  BY <1>1 DEF notifyVars, NotifyInv, NotifyTypeOK, StackInv, SurfaceInv, Rising, Falling
<1>2. CASE NotifyNext
  BY <1>2, NotifyKeeps, CloseKeeps, FadeKeeps, DrainKeeps, TickKeeps, DrawKeeps DEF NotifyNext
<1> QED
  BY <1>1, <1>2

(* The notification daemon's variables keep their types.                   *)
THEOREM NotifyTyped == NotifySpec => []NotifyTypeOK
<1>1. NotifyInv => NotifyTypeOK
  BY DEF NotifyInv
<1> QED
  BY <1>1, NotifyStarts, NotifySteps, PTL DEF NotifySpec

(* What a frame shows: the newest card that has not faded out, or nothing. *)
FrameShows(serial) ==
  IF \A i \in 1 .. Len(cards) : cards[i].serial \in fadedOut THEN serial = 0
  ELSE /\ \E i \in 1 .. Len(cards) : cards[i].serial = serial /\ serial \notin fadedOut
       /\ \A i \in 1 .. Len(cards) : cards[i].serial \notin fadedOut => cards[i].serial <= serial

(* Whatever bursts, closes, expiries and failed frames there were, a frame *)
(* that gets its texture shows the newest card alive, and clears the       *)
(* surface when there is none, unless a clear was lost for want of one.    *)
FrameIsRight == [][Draw(TRUE) => clearLost' \/ FrameShows(onScreen')]_notifyVars

(* So it is, for any number of notifications.                             *)
THEOREM FramesAreRight == NotifySpec => FrameIsRight
<1>1. ASSUME NotifyInv, Draw(TRUE) PROVE clearLost' \/ FrameShows(onScreen')
  <2>1. CASE InSight # <<>>
    <3>1. onScreen' = Head(InSight).serial
      BY <1>1, <2>1 DEF Draw
    <3> QED
      BY <1>1, <2>1, <3>1, NewestInSight DEF FrameShows
  <2>2. CASE InSight = <<>>
    <3>1. clearLost' \/ onScreen' = 0
      BY <1>1, <2>2 DEF Draw, NotifyInv, SurfaceInv
    <3> QED
      BY <1>1, <2>2, <3>1, NewestInSight DEF FrameShows
  <2> QED
    BY <2>1, <2>2
<1>2. NotifyInv => (Draw(TRUE) => clearLost' \/ FrameShows(onScreen'))
  BY <1>1
<1> QED
  BY <1>2, NotifyStarts, NotifySteps, PTL DEF NotifySpec, FrameIsRight

-----------------------------------------------------------------------------
(* MCDesktop: the programs side by side.                                   *)

(* A step of the desktop is a step of each program, or none; what voice    *)
(* capture does to its file is what the announcer is prepared for.         *)
LEMMA DesktopParts ==
  ASSUME [DesktopNext]_desktopVars
  PROVE  /\ [NotifyNext]_notifyVars /\ [LockNext]_lockVars /\ [VoiceNext]_voiceVars
         /\ VoiceTypeOK' => [AnnouncerNext \/ VoiceChanges]_announcerVars
         /\ [DispatchNext]_dispatchVars
<1> DEFINE Rests == UNCHANGED <<muted, loopVars, clips, playerVars>>
<1>1. CASE UNCHANGED desktopVars
  BY <1>1 DEF desktopVars
<1>2. VoiceTypeOK' /\ Rests => VoiceChanges
  BY DEF VoiceTypeOK, VoiceChanges, VoiceFileNext
<1>3. CASE NotifyRuns
  BY <1>3 DEF NotifyRuns
<1>4. CASE LockRuns
  BY <1>4 DEF LockRuns
<1>5. CASE CaptureRuns
  BY <1>2, <1>5 DEF CaptureRuns
<1>6. CASE AudioRuns
  BY <1>2, <1>6 DEF AudioRuns
<1>7. CASE DispatcherRuns
  BY <1>7 DEF DispatcherRuns
<1> QED
  BY <1>1, <1>3, <1>4, <1>5, <1>6, <1>7 DEF DesktopNext

(* Each program of the desktop behaves as it does alone: what is proved of *)
(* one by itself holds of all of them together.                            *)
THEOREM ProgramsRunAsAlone ==
  DesktopSpec => NotifySpec /\ LockSpec /\ VoiceSpec /\ AnnouncerSpec /\ DispatchSpec
<1>1. DesktopInit => NotifyInit /\ LockInit /\ VoiceInit /\ AnnouncerInit /\ DispatchInit
  BY DEF DesktopInit
<1>2. [DesktopNext]_desktopVars =>
        [NotifyNext]_notifyVars /\ [LockNext]_lockVars /\ [VoiceNext]_voiceVars
        /\ [DispatchNext]_dispatchVars
  BY DesktopParts
<1>3. [DesktopNext]_desktopVars /\ VoiceTypeOK' => [AnnouncerNext \/ VoiceChanges]_announcerVars
  BY DesktopParts
<1>4. DesktopSpec => NotifySpec /\ LockSpec /\ VoiceSpec /\ DispatchSpec
  BY <1>1, <1>2, PTL DEF DesktopSpec, NotifySpec, LockSpec, VoiceSpec, DispatchSpec
<1>5. DesktopSpec => []VoiceTypeOK
  BY <1>4, VoiceTyped, PTL
<1>6. DesktopSpec => AnnouncerSpec
  BY <1>1, <1>3, <1>5, PTL DEF DesktopSpec, AnnouncerSpec
<1> QED
  BY <1>4, <1>6

(* Every variable of the desktop programs keeps its type.                  *)
THEOREM DesktopTyped == DesktopSpec => []DesktopTypeOK
<1>1. NotifyTypeOK /\ LockTypeOK /\ VoiceTypeOK /\ AnnouncerTypeOK /\ DispatchTypeOK
        => DesktopTypeOK
  BY DEF DesktopTypeOK
<1> QED
  BY <1>1, ProgramsRunAsAlone, NotifyTyped, LockTyped, VoiceTyped, AnnouncerTyped,
     DispatchTyped, PTL

(* Together the programs keep what each keeps alone.                       *)
THEOREM DesktopKeeps ==
  DesktopSpec => /\ [](RateLimited /\ TypedIsKept /\ FallbackIsKept)
                 /\ [](OneVoice /\ IndicatorTrue /\ OwnWords)
                 /\ [](HudSettles /\ RecentTurnsAreTold)
                 /\ SpokenInOrder
BY ProgramsRunAsAlone, LimitHolds, TypingKept, BuffersKept, OneVoiceSpeaks, IndicatorIsTrue,
   WordsAreOwn, HudSettled, RecentTurnsTold, SpeaksInOrder, PTL
=============================================================================
