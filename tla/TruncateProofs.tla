--------------------------- MODULE TruncateProofs ---------------------------
(***************************************************************************)
(* Machine-checked proofs about truncate_output, for outputs of any        *)
(* length.  The callers use a capacity of 2500 bytes, a title of 24 and    *)
(* marks of 23, which is Roomy.                                            *)
(***************************************************************************)
EXTENDS TruncateOutput, TLAPS

\* With room for the marks no subtraction wraps around.
LEMMA NoWrap ==
    ASSUME NEW err \in Nat, NEW capacity, Roomy(capacity)
    PROVE  /\ Available(err, capacity) = capacity - Title(err)
           /\ Available(err, capacity) \in Nat
           /\ Title(err) \in Nat
           /\ Available(err, capacity) >= 4 * MarkSize
           /\ Minus(Available(err, capacity), MarkSize) = Available(err, capacity) - MarkSize
           /\ ShareOfBoth(err, capacity) = (Available(err, capacity) - 2 * MarkSize) \div 2
  <1>1. Title(err) \in Nat /\ Title(err) <= TitleSize
    BY SizesAssumption DEF Title
  <1>2. Available(err, capacity) = capacity - Title(err)
    BY <1>1, SizesAssumption DEF Available, Above, Roomy
  <1>3. Available(err, capacity) \in Nat /\ Available(err, capacity) >= 4 * MarkSize
    BY <1>1, <1>2, SizesAssumption DEF Roomy
  <1>4. Minus(Available(err, capacity), MarkSize) = Available(err, capacity) - MarkSize
    BY <1>3, SizesAssumption DEF Minus
  <1>5. Minus(Available(err, capacity) - MarkSize, MarkSize) = Available(err, capacity) - 2 * MarkSize
    BY <1>3, SizesAssumption DEF Minus
  <1>6. QED
    BY <1>1, <1>2, <1>3, <1>4, <1>5 DEF ShareOfBoth

\* Halving: twice the half is the whole, or one less.
LEMMA Halving ==
    ASSUME NEW n \in Nat
    PROVE  n \div 2 \in Nat /\ 2 * (n \div 2) <= n /\ n <= 2 * (n \div 2) + 1
  OBVIOUS

\* The reply never exceeds its capacity.
THEOREM ReplyFits ==
    ASSUME NEW out \in Nat, NEW err \in Nat, NEW capacity, Roomy(capacity)
    PROVE  WithinCapacity(out, err, capacity)
  <1> DEFINE available == Available(err, capacity)
  <1> DEFINE half == Half(err, capacity)
  <1> DEFINE share == ShareOfBoth(err, capacity)
  <1>1. /\ available = capacity - Title(err) /\ available \in Nat
        /\ available >= 4 * MarkSize
        /\ Minus(available, MarkSize) = available - MarkSize
        /\ Title(err) \in Nat /\ capacity \in Nat /\ MarkSize \in Nat
    BY NoWrap, SizesAssumption DEF Roomy
  <1>2. half \in Nat /\ 2 * half <= available /\ half >= MarkSize
    BY <1>1, Halving DEF Half
  <1>3. share \in Nat /\ 2 * share <= available - 2 * MarkSize
    <2>1. available - 2 * MarkSize \in Nat
      BY <1>1
    <2>2. share = (available - 2 * MarkSize) \div 2
      BY NoWrap
    <2>3. QED
      BY <2>1, <2>2, Halving
  <1> HIDE DEF available, half, share
  <1>4. CASE Fits(out, err, capacity)
    BY <1>1, <1>4 DEF WithinCapacity, ShownSize, Shown, Fits, available
  <1>5. CASE ~Fits(out, err, capacity) /\ out > half /\ err > half
    <2>1. Shown(out, err, capacity) = [out |-> Prefix(share, out), err |-> Prefix(share, err), marks |-> 2]
      BY <1>5 DEF Shown, half, share
    <2>2. Prefix(share, out) \in Nat /\ Prefix(share, out) <= share
      BY <1>3 DEF Prefix
    <2>3. Prefix(share, err) \in Nat /\ Prefix(share, err) <= share
      BY <1>3 DEF Prefix
    <2>4. QED
      BY <1>1, <1>3, <2>1, <2>2, <2>3 DEF WithinCapacity, ShownSize
  <1>6. CASE ~Fits(out, err, capacity) /\ out <= half
    <2>1. Shown(out, err, capacity) = [out |-> out, err |-> KeepOfErr(out, err, capacity), marks |-> 1]
      BY <1>2, <1>6 DEF Shown, half
    <2>2. KeepOfErr(out, err, capacity) \in Nat /\ KeepOfErr(out, err, capacity) <= Above(available - MarkSize, out)
      BY <1>1 DEF KeepOfErr, Prefix, Above, available
    <2>3. out + Above(available - MarkSize, out) + MarkSize <= available
      BY <1>1, <1>2, <1>6 DEF Above
    <2>4. Above(available - MarkSize, out) \in Nat
      BY <1>1 DEF Above
    <2>5. QED
      BY <1>1, <2>1, <2>2, <2>3, <2>4 DEF WithinCapacity, ShownSize
  <1>7. CASE ~Fits(out, err, capacity) /\ out > half /\ err <= half
    <2>1. Shown(out, err, capacity) = [out |-> KeepOfOut(out, err, capacity), err |-> err, marks |-> 1]
      BY <1>2, <1>7 DEF Shown, half
    <2>2. KeepOfOut(out, err, capacity) \in Nat /\ KeepOfOut(out, err, capacity) <= Above(available - MarkSize, err)
      BY <1>1 DEF KeepOfOut, Prefix, Above, available
    <2>3. err + Above(available - MarkSize, err) + MarkSize <= available
      BY <1>1, <1>2, <1>7 DEF Above
    <2>4. Above(available - MarkSize, err) \in Nat
      BY <1>1 DEF Above
    <2>5. QED
      BY <1>1, <2>1, <2>2, <2>3, <2>4 DEF WithinCapacity, ShownSize
  <1>8. QED
    BY <1>2, <1>4, <1>5, <1>6, <1>7

\* A short output is shown whole beside a long one.
THEOREM ShortOutputSurvives ==
    ASSUME NEW out \in Nat, NEW err \in Nat, NEW capacity, Roomy(capacity)
    PROVE  ShorterIsShown(out, err, capacity)
  <1>1. Half(err, capacity) \in Nat
    BY NoWrap, Halving DEF Half
  <1>2. ASSUME err <= Half(err, capacity), out > Half(err, capacity)
        PROVE  Shown(out, err, capacity).err = err
    BY <1>1, <1>2 DEF Shown
  <1>3. ASSUME out <= Half(err, capacity), err > Half(err, capacity)
        PROVE  Shown(out, err, capacity).out = out
    BY <1>1, <1>3 DEF Shown
  <1>4. QED
    BY <1>2, <1>3 DEF ShorterIsShown
=============================================================================
