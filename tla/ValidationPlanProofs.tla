------------------------ MODULE ValidationPlanProofs ------------------------
(***************************************************************************)
(* What _cap_validation_plan computes, for every plan and every allowance. *)
(***************************************************************************)
EXTENDS ValidationRunner, SumLemmas

\* The cap of the first n commands, given the caps of the first n - 1
CapFrom(timeouts, available, f, n) ==
    IF n = 0 THEN <<>>
    ELSE LET left == available - Total(f[n - 1]) - (Len(timeouts) - n)
         IN Append(f[n - 1], IF timeouts[n] < left THEN timeouts[n] ELSE left)

IsCap(timeouts, available, f) ==
    f = [n \in 0 .. Len(timeouts) |-> CapFrom(timeouts, available, f, n)]

Available(timeouts, allowance) ==
    IF allowance < Total(timeouts) THEN allowance ELSE Total(timeouts)

\* The capped plan is the last value of a function that satisfies the recursion.
LEMMA CapDef ==
    ASSUME NEW timeouts, NEW allowance
    PROVE  CapValidationPlan(timeouts, allowance) =
             IF Available(timeouts, allowance) < Len(timeouts) THEN None
             ELSE (CHOOSE f : IsCap(timeouts, Available(timeouts, allowance), f))[Len(timeouts)]
BY DEF CapValidationPlan, Available, IsCap, CapFrom

\* f satisfies the recursion for the first n commands.
CapsUpTo(timeouts, available, f, n) ==
    \A i \in 0 .. n : f[i] = CapFrom(timeouts, available, f, i)

\* The recursion has a solution.
LEMMA CapExists ==
    ASSUME NEW timeouts, NEW available, Len(timeouts) \in Nat
    PROVE  \E f : IsCap(timeouts, available, f)
<1>1. ASSUME NEW n \in Nat, NEW f, CapsUpTo(timeouts, available, f, n)
      PROVE  \E h : CapsUpTo(timeouts, available, h, n + 1)
  <2> DEFINE h == [i \in 0 .. n + 1 |-> IF i <= n THEN f[i] ELSE CapFrom(timeouts, available, f, i)]
  <2>1. ASSUME NEW i \in 0 .. n + 1
        PROVE  h[i] = CapFrom(timeouts, available, h, i)
    <3>1. h[i] = CapFrom(timeouts, available, f, i)
      BY <1>1 DEF CapsUpTo
    <3>2. i # 0 => h[i - 1] = f[i - 1]
      OBVIOUS
    <3> QED BY <3>1, <3>2 DEF CapFrom
  <2>2. CapsUpTo(timeouts, available, h, n + 1)
    BY <2>1 DEF CapsUpTo
  <2> QED BY <2>2
<1>2. \A n \in Nat : \E f : CapsUpTo(timeouts, available, f, n)
  <2> DEFINE Bad == {n \in Nat : ~ \E f : CapsUpTo(timeouts, available, f, n)}
  <2> SUFFICES ASSUME Bad # {} PROVE FALSE
    OBVIOUS
  <2>1. PICK n \in Bad : \A k \in Bad : n <= k
    <3> HIDE DEF Bad
    <3>1. Bad \subseteq Nat
      BY DEF Bad
    <3> QED BY <3>1, LeastNatural
  <2>2. CASE n = 0
    <3>1. CapsUpTo(timeouts, available, [i \in {0} |-> <<>>], 0)
      BY DEF CapsUpTo, CapFrom
    <3> QED BY <2>1, <2>2, <3>1
  <2>3. CASE n # 0
    <3>1. n - 1 \in Nat /\ n - 1 \notin Bad
      BY <2>1, <2>3
    <3>2. \E f : CapsUpTo(timeouts, available, f, (n - 1) + 1)
      BY <1>1, <3>1
    <3> QED BY <2>1, <3>1, <3>2
  <2> QED BY <2>2, <2>3
<1>3. PICK f : CapsUpTo(timeouts, available, f, Len(timeouts))
  BY <1>2
<1> DEFINE h == [n \in 0 .. Len(timeouts) |-> f[n]]
<1>4. \A n \in 0 .. Len(timeouts) : CapFrom(timeouts, available, h, n) = CapFrom(timeouts, available, f, n)
  BY DEF CapFrom
<1>5. IsCap(timeouts, available, h)
  BY <1>3, <1>4 DEF IsCap, CapsUpTo
<1> QED BY <1>5

\* What the first commands declare together
Declares(timeouts, n) == SumOver(timeouts, 1 .. n)

\* What is left for the first n commands when each later one gets a second
Leaves(timeouts, available, n) == available - (Len(timeouts) - n)

\* The caps of the first n commands: each at least a second and at most what it
\* declares, and together as much as they can have.
Fits(timeouts, available, c, n) ==
    /\ c \in Seq(Nat \ {0}) /\ Len(c) = n
    /\ \A i \in 1 .. n : c[i] <= timeouts[i]
    /\ Declares(timeouts, n) \in Nat /\ Declares(timeouts, n) >= n
    /\ SumOver(c, 1 .. n) = IF Declares(timeouts, n) < Leaves(timeouts, available, n)
                            THEN Declares(timeouts, n) ELSE Leaves(timeouts, available, n)

\* One more second for each later command is always left.
LEMMA FitsNext ==
    ASSUME NEW timeouts \in Seq(Nat \ {0}), NEW available \in Nat, Len(timeouts) <= available,
           NEW n \in 1 .. Len(timeouts), NEW c, Fits(timeouts, available, c, n - 1),
           NEW left, left = available - Total(c) - (Len(timeouts) - n)
    PROVE  Fits(timeouts, available, Append(c, IF timeouts[n] < left THEN timeouts[n] ELSE left), n)
<1>0. Len(timeouts) \in Nat /\ \A i \in 1 .. Len(timeouts) : timeouts[i] \in Nat \ {0}
  OBVIOUS
<1>1. PICK x : x = IF timeouts[n] < left THEN timeouts[n] ELSE left
  OBVIOUS
<1>2. /\ c \in Seq(Nat \ {0}) /\ Len(c) = n - 1 /\ DOMAIN c = 1 .. n - 1
      /\ \A i \in 1 .. n - 1 : c[i] <= timeouts[i] /\ c[i] \in Nat
  <2>1. /\ c \in Seq(Nat \ {0}) /\ Len(c) = n - 1
        /\ \A i \in 1 .. n - 1 : c[i] <= timeouts[i]
    BY DEF Fits
  <2>2. DOMAIN c = 1 .. n - 1 /\ \A i \in 1 .. n - 1 : c[i] \in Nat
    BY ONLY <2>1
  <2> QED BY <2>1, <2>2
<1>3. Total(c) = SumOver(c, 1 .. n - 1)
  BY <1>2 DEF Total
<1>4. PICK d : /\ d = Declares(timeouts, n - 1) /\ d \in Nat /\ d >= n - 1
               /\ Total(c) = IF d < available - (Len(timeouts) - (n - 1))
                             THEN d ELSE available - (Len(timeouts) - (n - 1))
  BY <1>3 DEF Fits, Leaves
<1>5. Declares(timeouts, n) = d + timeouts[n]
  <2>1. n \in Nat \ {0} /\ \A i \in 1 .. n : timeouts[i] \in Nat
    BY <1>0
  <2>2. SumOver(timeouts, 1 .. n) = SumOver(timeouts, 1 .. n - 1) + timeouts[n]
    BY ONLY <2>1, SumOneMore
  <2> QED BY <1>4, <2>2 DEF Declares
<1>6. x \in Nat \ {0} /\ x <= timeouts[n]
  BY <1>0, <1>1, <1>4
<1>7. PICK e : e = Append(c, x)
  OBVIOUS
<1>8. /\ e \in Seq(Nat \ {0}) /\ Len(e) = n /\ e[n] = x
      /\ \A i \in 1 .. n - 1 : e[i] = c[i]
  BY <1>2, <1>6, <1>7
<1>9. SumOver(e, 1 .. n) = Total(c) + x
  <2>1. SumOver(e, 1 .. n) = SumOver(e, 1 .. n - 1) + e[n]
    <3>1. n \in Nat \ {0} /\ \A i \in 1 .. n : e[i] \in Nat
      BY <1>0, <1>8
    <3> QED BY ONLY <3>1, SumOneMore
  <2>2. SumOver(e, 1 .. n - 1) = SumOver(c, 1 .. n - 1)
    <3>1. IsFiniteSet(1 .. n - 1)
      BY FS_Interval
    <3> QED BY ONLY <1>8, <3>1, SumSame, ZenonT(40)
  <2> QED BY <1>3, <1>8, <2>1, <2>2
<1>10. Total(c) + x = IF d + timeouts[n] < available - (Len(timeouts) - n)
                      THEN d + timeouts[n] ELSE available - (Len(timeouts) - n)
  BY <1>0, <1>1, <1>4, SMTT(30)
<1>11. \A i \in 1 .. n : e[i] <= timeouts[i]
  <2>1. \A i \in 1 .. n : i = n \/ i \in 1 .. n - 1
    OBVIOUS
  <2> QED BY ONLY <1>2, <1>6, <1>8, <2>1
<1>12. d + timeouts[n] \in Nat /\ d + timeouts[n] >= n
  BY <1>0, <1>4, SMTT(30)
<1>13. Fits(timeouts, available, e, n)
  BY <1>5, <1>8, <1>9, <1>10, <1>11, <1>12 DEF Fits, Leaves
<1> QED BY <1>1, <1>7, <1>13

(* _cap_validation_plan, for every plan and every allowance: it returns None  *)
(* exactly when the whole seconds that are left do not give each command one; *)
(* otherwise every command gets between one second and what it declares, and  *)
(* together they get all the seconds that are left or all that they declare.  *)
THEOREM CapFits ==
    ASSUME NEW timeouts \in Seq(Nat \ {0}), NEW allowance \in Nat,
           NEW capped, capped = CapValidationPlan(timeouts, allowance)
    PROVE  IF allowance < Len(timeouts) THEN capped = None
           ELSE /\ capped \in Seq(Nat \ {0}) /\ Len(capped) = Len(timeouts)
                /\ \A n \in 1 .. Len(timeouts) : capped[n] <= timeouts[n]
                /\ Total(capped) = IF allowance < Total(timeouts) THEN allowance ELSE Total(timeouts)
<1>0. /\ Len(timeouts) \in Nat /\ DOMAIN timeouts = 1 .. Len(timeouts)
      /\ \A i \in 1 .. Len(timeouts) : timeouts[i] \in Nat \ {0}
  OBVIOUS
<1>1. PICK available : available = Available(timeouts, allowance)
  OBVIOUS
<1>2. PICK f : IsCap(timeouts, available, f) /\ f = CHOOSE g : IsCap(timeouts, available, g)
  BY <1>0, CapExists
<1>3. Total(timeouts) = Declares(timeouts, Len(timeouts))
  BY <1>0 DEF Total, Declares
<1>4. ASSUME NEW n \in 0 .. Len(timeouts)
      PROVE  Declares(timeouts, n) \in Nat /\ Declares(timeouts, n) >= n
  <2> DEFINE Bad == {k \in 0 .. Len(timeouts) :
                       ~ (Declares(timeouts, k) \in Nat /\ Declares(timeouts, k) >= k)}
  <2> SUFFICES ASSUME Bad # {} PROVE FALSE
    OBVIOUS
  <2>1. PICK k \in Bad : \A j \in Bad : k <= j
    <3> HIDE DEF Bad
    <3>1. Bad \subseteq Nat
      BY <1>0 DEF Bad
    <3> QED BY <3>1, LeastNatural
  <2>2. k # 0
    <3>1. Declares(timeouts, 0) = 0
      <4>1. 1 .. 0 = {}
        OBVIOUS
      <4> QED BY <4>1, SumEmpty DEF Declares
    <3> QED BY <2>1, <3>1
  <2>3. k \in Nat \ {0} /\ \A i \in 1 .. k : timeouts[i] \in Nat \ {0}
    BY <1>0, <2>1, <2>2
  <2>4. Declares(timeouts, k) = Declares(timeouts, k - 1) + timeouts[k]
    BY <2>3, SumOneMore DEF Declares
  <2>5. Declares(timeouts, k - 1) \in Nat /\ Declares(timeouts, k - 1) >= k - 1
    BY <1>0, <2>1, <2>3
  <2>6. timeouts[k] \in Nat \ {0}
    BY <2>3
  <2> QED BY <2>1, <2>3, <2>4, <2>5, <2>6
<1>5. /\ Total(timeouts) \in Nat /\ Total(timeouts) >= Len(timeouts)
      /\ available \in Nat /\ (available < Len(timeouts) <=> allowance < Len(timeouts))
  BY <1>0, <1>1, <1>3, <1>4 DEF Available
<1>6. capped = IF available < Len(timeouts) THEN None ELSE f[Len(timeouts)]
  BY <1>1, <1>2, CapDef
<1>7. ASSUME Len(timeouts) <= available
      PROVE  \A n \in 0 .. Len(timeouts) : Fits(timeouts, available, f[n], n)
  <2> DEFINE Bad == {n \in 0 .. Len(timeouts) : ~ Fits(timeouts, available, f[n], n)}
  <2> SUFFICES ASSUME Bad # {} PROVE FALSE
    OBVIOUS
  <2>1. PICK n \in Bad : \A k \in Bad : n <= k
    <3> HIDE DEF Bad
    <3>1. Bad \subseteq Nat
      BY <1>0 DEF Bad
    <3> QED BY <3>1, LeastNatural
  <2>2. n \in 0 .. Len(timeouts) /\ f[n] = CapFrom(timeouts, available, f, n)
    BY <1>2, <2>1 DEF IsCap
  <2>3. CASE n = 0
    <3>1. f[n] = <<>> /\ Declares(timeouts, 0) = 0 /\ SumOver(<<>>, 1 .. 0) = 0
      <4>1. 1 .. 0 = {}
        OBVIOUS
      <4> QED BY <2>2, <2>3, <4>1, SumEmpty DEF CapFrom, Declares
    <3>2. Fits(timeouts, available, <<>>, 0)
      BY <1>0, <1>5, <1>7, <3>1 DEF Fits, Leaves
    <3> QED BY <2>1, <2>3, <3>1, <3>2
  <2>4. CASE n # 0
    <3>1. n \in 1 .. Len(timeouts) /\ n - 1 \in 0 .. Len(timeouts) /\ n - 1 \notin Bad
      BY <1>0, <2>1, <2>2, <2>4
    <3>2. Fits(timeouts, available, f[n - 1], n - 1)
      BY <3>1
    <3>3. PICK left : left = available - Total(f[n - 1]) - (Len(timeouts) - n)
      OBVIOUS
    <3>4. Fits(timeouts, available,
               Append(f[n - 1], IF timeouts[n] < left THEN timeouts[n] ELSE left), n)
      BY <1>5, <1>7, <3>1, <3>2, <3>3, FitsNext
    <3>5. f[n] = Append(f[n - 1], IF timeouts[n] < left THEN timeouts[n] ELSE left)
      BY <2>2, <2>4, <3>3 DEF CapFrom
    <3> QED BY <2>1, <3>4, <3>5
  <2> QED BY <2>3, <2>4
<1>8. CASE allowance < Len(timeouts)
  BY <1>5, <1>6, <1>8
<1>9. CASE ~(allowance < Len(timeouts))
  <2>1. capped = f[Len(timeouts)] /\ Len(timeouts) <= available
    BY <1>0, <1>5, <1>6, <1>9
  <2>2. Fits(timeouts, available, capped, Len(timeouts))
    BY <1>0, <1>7, <2>1
  <2>3. /\ capped \in Seq(Nat \ {0}) /\ Len(capped) = Len(timeouts)
        /\ \A n \in 1 .. Len(timeouts) : capped[n] <= timeouts[n]
    BY <2>2 DEF Fits
  <2>4. DOMAIN capped = 1 .. Len(timeouts)
    BY <2>3
  <2>5. Total(capped) = SumOver(capped, 1 .. Len(timeouts))
    BY <2>4 DEF Total
  <2>6. SumOver(capped, 1 .. Len(timeouts)) =
          IF Total(timeouts) < available THEN Total(timeouts) ELSE available
    BY <1>0, <1>3, <1>5, <2>2 DEF Fits, Leaves
  <2> QED BY <1>1, <1>5, <1>9, <2>3, <2>5, <2>6 DEF Available
<1> QED BY <1>8, <1>9
=============================================================================
