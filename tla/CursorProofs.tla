---------------------------- MODULE CursorProofs ----------------------------
(***************************************************************************)
(* What the odometer of the walk computes, for every length and base.      *)
(***************************************************************************)
EXTENDS Cursor, WellFoundedInduction, TLAPS

(* A set of numbers has a least one.                                       *)
LEMMA Least ==
    ASSUME NEW S, S \subseteq Nat, S # {}
    PROVE  \E m \in S : \A x \in S : m <= x
<1>1. PICK m \in S : \A y \in S : <<y, m>> \notin OpToRel(<, Nat)
  BY WFMin, NatLessThanWellFounded
<1>2. ASSUME NEW x \in S PROVE m <= x
  <2>1. ~ (<<x, m>> \in OpToRel(<, Nat))
    BY <1>1
  <2>2. ~ (x < m)
    BY <2>1 DEF OpToRel
  <2> QED
    BY <2>2
<1> QED
  BY <1>2

(* The first and the last of some slots.                                   *)
LEMMA FirstSlot ==
    ASSUME NEW S, S \subseteq Slots, S # {}
    PROVE  \E m \in S : \A x \in S : m <= x
<1>1. S \subseteq Nat
  BY CursorAssumption DEF Slots
<1> QED
  BY <1>1, Least

LEMMA LastSlot ==
    ASSUME NEW S, S \subseteq Slots, S # {}
    PROVE  \E m \in S : \A x \in S : x <= m
<1> DEFINE T == {CursorLength + 1 - x : x \in S}
<1>1. /\ CursorLength \in Nat
      /\ \A x \in S : x \in Nat /\ x >= 1 /\ x <= CursorLength
  BY CursorAssumption DEF Slots
<1>2. T \subseteq Slots /\ T # {}
  <2>1. ASSUME NEW x \in S PROVE CursorLength + 1 - x \in Slots
    BY <1>1 DEF Slots
  <2> QED
    BY <2>1
<1>3. PICK t \in T : \A x \in T : t <= x
  <2> HIDE DEF T
  <2> QED
    BY <1>2, FirstSlot
<1>4. PICK m \in S : t = CursorLength + 1 - m
  BY <1>3
<1>5. \A x \in S : CursorLength + 1 - x \in T
  OBVIOUS
<1>6. \A x \in S : CursorLength + 1 - m <= CursorLength + 1 - x
  BY <1>3, <1>4, <1>5
<1> QED
  BY <1>1, <1>4, <1>6

LEMMA ZeroType == Zero \in Odometers
BY CursorAssumption DEF Zero, Odometers, Digits

LEMMA IncType ==
    ASSUME NEW c \in Odometers PROVE Inc(c) \in Odometers
BY CursorAssumption DEF Inc, Odometers, Digits

LEMMA DecType ==
    ASSUME NEW c \in Odometers PROVE decCursor(c) \in Odometers
BY CursorAssumption, ZeroType DEF decCursor, Odometers, Digits

(* The increment wraps to Zero exactly at the last cursor.                 *)
LEMMA OverflowWraps ==
    ASSUME NEW c \in Odometers, Overflows(c) PROVE Inc(c) = Zero
BY CursorAssumption DEF Overflows, Inc, Zero, Odometers

(* The slot the increment stops at.                                        *)
LEMMA IncAt ==
    ASSUME NEW c \in Odometers, ~ Overflows(c)
    PROVE  \E m \in Slots :
             /\ c[m] < CursorBase - 1
             /\ Inc(c)[m] = c[m] + 1
             /\ \A i \in Slots : i < m => Inc(c)[i] = c[i]
             /\ \A i \in Slots : m < i => c[i] = CursorBase - 1 /\ Inc(c)[i] = 0
<1> DEFINE S == {i \in Slots : c[i] # CursorBase - 1}
<1>1. PICK m \in S : \A x \in S : x <= m
  <2>1. S \subseteq Slots /\ S # {}
    BY DEF Overflows
  <2> QED
    BY <2>1, LastSlot
<1>2. /\ CursorLength \in Nat /\ CursorBase \in Nat
      /\ Slots \subseteq Nat
      /\ \A i \in Slots : c[i] \in Nat /\ c[i] <= CursorBase - 1
  BY CursorAssumption DEF Odometers, Digits, Slots
<1>3. m \in Slots /\ c[m] # CursorBase - 1 /\ c[m] < CursorBase - 1
  BY <1>2
<1>4. \A i \in Slots : m < i => c[i] = CursorBase - 1
  <2>1. ASSUME NEW i \in Slots, m < i, c[i] # CursorBase - 1 PROVE FALSE
    <3>1. i \in S
      BY <2>1
    <3> QED
      BY <1>1, <1>2, <1>3, <2>1, <3>1
  <2> QED
    BY <2>1
<1> HIDE DEF S
<1>5. Inc(c)[m] = c[m] + 1
  BY <1>2, <1>3, <1>4 DEF Inc
<1>6. \A i \in Slots : i < m => Inc(c)[i] = c[i]
  BY <1>2, <1>3 DEF Inc
<1>7. \A i \in Slots : m < i => Inc(c)[i] = 0
  <2>1. ASSUME NEW i \in Slots, m < i PROVE Inc(c)[i] = 0
    <3>1. \A j \in Slots : j > i => c[j] = CursorBase - 1
      BY <1>2, <1>3, <1>4, <2>1
    <3> QED
      BY <1>4, <2>1, <3>1 DEF Inc
  <2> QED
    BY <2>1
<1> QED
  BY <1>3, <1>4, <1>5, <1>6, <1>7

(* The increment leads to Zero only by wrapping.                           *)
LEMMA IncNotZero ==
    ASSUME NEW c \in Odometers, ~ Overflows(c) PROVE Inc(c) # Zero
<1>1. PICK m \in Slots : Inc(c)[m] = c[m] + 1
  BY IncAt
<1>2. c[m] \in Nat
  BY CursorAssumption DEF Odometers, Digits
<1> QED
  BY <1>1, <1>2 DEF Zero

(* decCursor undoes an increment: the final flush persists the candidate   *)
(* that was tried last.                                                    *)
THEOREM DecUndoesInc ==
    ASSUME NEW c \in Odometers, ~ Overflows(c) PROVE decCursor(Inc(c)) = c
<1>1. PICK m \in Slots :
        /\ c[m] < CursorBase - 1
        /\ Inc(c)[m] = c[m] + 1
        /\ \A i \in Slots : i < m => Inc(c)[i] = c[i]
        /\ \A i \in Slots : m < i => c[i] = CursorBase - 1 /\ Inc(c)[i] = 0
  BY IncAt
<1>2. /\ CursorBase \in Nat /\ Slots \subseteq Nat
      /\ \A i \in Slots : c[i] \in Nat /\ c[i] <= CursorBase - 1
      /\ c = [i \in Slots |-> c[i]]
  BY CursorAssumption DEF Odometers, Digits, Slots
<1>3. Inc(c) # Zero
  BY IncNotZero
<1> DEFINE d == decCursor(Inc(c))
<1>4. d = [i \in Slots |->
             IF \A j \in Slots : j > i => Inc(c)[j] = 0
             THEN IF Inc(c)[i] = 0 THEN CursorBase - 1 ELSE Inc(c)[i] - 1
             ELSE Inc(c)[i]]
  BY <1>3 DEF decCursor
<1>5. ASSUME NEW i \in Slots PROVE d[i] = c[i]
  <2>1. CASE i < m
    <3>1. Inc(c)[m] # 0 /\ m > i /\ Inc(c)[i] = c[i]
      BY <1>1, <1>2, <2>1
    <3> QED
      BY <1>4, <3>1
  <2>2. CASE i = m
    <3>1. \A j \in Slots : j > i => Inc(c)[j] = 0
      BY <1>1, <1>2, <2>2
    <3>2. Inc(c)[i] # 0 /\ Inc(c)[i] - 1 = c[i]
      BY <1>1, <1>2, <2>2
    <3> QED
      BY <1>4, <3>1, <3>2
  <2>3. CASE m < i
    <3>1. \A j \in Slots : j > i => Inc(c)[j] = 0
      BY <1>1, <1>2, <2>3
    <3>2. Inc(c)[i] = 0 /\ c[i] = CursorBase - 1
      BY <1>1, <2>3
    <3> QED
      BY <1>4, <3>1, <3>2
  <2> QED
    BY <1>2, <2>1, <2>2, <2>3
<1> QED
  BY <1>2, <1>4, <1>5

(* The slot the decrement stops at.                                        *)
LEMMA DecAt ==
    ASSUME NEW c \in Odometers, c # Zero
    PROVE  \E m \in Slots :
             /\ c[m] > 0
             /\ decCursor(c)[m] = c[m] - 1
             /\ \A i \in Slots : i < m => decCursor(c)[i] = c[i]
             /\ \A i \in Slots : m < i => c[i] = 0 /\ decCursor(c)[i] = CursorBase - 1
<1> DEFINE S == {i \in Slots : c[i] # 0}
<1>1. /\ CursorLength \in Nat /\ CursorBase \in Nat
      /\ Slots \subseteq Nat
      /\ \A i \in Slots : c[i] \in Nat /\ c[i] <= CursorBase - 1
      /\ c = [i \in Slots |-> c[i]]
  BY CursorAssumption DEF Odometers, Digits, Slots
<1>2. S \subseteq Slots /\ S # {}
  BY <1>1 DEF Zero
<1>3. PICK m \in S : \A x \in S : x <= m
  BY <1>2, LastSlot
<1>4. m \in Slots /\ c[m] # 0 /\ c[m] > 0
  BY <1>1
<1>5. \A i \in Slots : m < i => c[i] = 0
  <2>1. ASSUME NEW i \in Slots, m < i, c[i] # 0 PROVE FALSE
    <3>1. i \in S
      BY <2>1
    <3> QED
      BY <1>1, <1>3, <1>4, <2>1, <3>1
  <2> QED
    BY <2>1
<1> HIDE DEF S
<1>6. decCursor(c) = [i \in Slots |->
         IF \A j \in Slots : j > i => c[j] = 0
         THEN IF c[i] = 0 THEN CursorBase - 1 ELSE c[i] - 1
         ELSE c[i]]
  BY DEF decCursor
<1>7. decCursor(c)[m] = c[m] - 1
  BY <1>1, <1>4, <1>5, <1>6
<1>8. \A i \in Slots : i < m => decCursor(c)[i] = c[i]
  BY <1>1, <1>4, <1>6
<1>9. \A i \in Slots : m < i => decCursor(c)[i] = CursorBase - 1
  <2>1. ASSUME NEW i \in Slots, m < i PROVE decCursor(c)[i] = CursorBase - 1
    <3>1. \A j \in Slots : j > i => c[j] = 0
      BY <1>1, <1>4, <1>5, <2>1
    <3> QED
      BY <1>5, <1>6, <2>1, <3>1
  <2> QED
    BY <2>1
<1> QED
  BY <1>4, <1>5, <1>7, <1>8, <1>9

(* An increment undoes decCursor: the resume after a final flush begins    *)
(* with the candidate the loop had come to.                                *)
THEOREM IncUndoesDec ==
    ASSUME NEW c \in Odometers, c # Zero
    PROVE  Inc(decCursor(c)) = c /\ ~ Overflows(decCursor(c))
<1> DEFINE d == decCursor(c)
<1>1. PICK m \in Slots :
        /\ c[m] > 0
        /\ d[m] = c[m] - 1
        /\ \A i \in Slots : i < m => d[i] = c[i]
        /\ \A i \in Slots : m < i => c[i] = 0 /\ d[i] = CursorBase - 1
  BY DecAt
<1>2. /\ CursorBase \in Nat /\ Slots \subseteq Nat
      /\ \A i \in Slots : c[i] \in Nat /\ c[i] <= CursorBase - 1
      /\ c = [i \in Slots |-> c[i]]
  BY CursorAssumption DEF Odometers, Digits, Slots
<1> HIDE DEF d
<1>3. d[m] # CursorBase - 1
  BY <1>1, <1>2
<1>4. ASSUME NEW i \in Slots PROVE Inc(d)[i] = c[i]
  <2>1. CASE i < m
    BY <1>1, <1>2, <1>3, <2>1 DEF Inc
  <2>2. CASE i = m
    <3>1. \A j \in Slots : j > i => d[j] = CursorBase - 1
      BY <1>1, <1>2, <2>2
    <3>2. d[i] + 1 = c[i]
      BY <1>1, <1>2, <2>2
    <3> QED
      BY <1>3, <2>2, <3>1, <3>2 DEF Inc
  <2>3. CASE m < i
    <3>1. \A j \in Slots : j > i => d[j] = CursorBase - 1
      BY <1>1, <1>2, <2>3
    <3>2. d[i] = CursorBase - 1 /\ c[i] = 0
      BY <1>1, <2>3
    <3> QED
      BY <3>1, <3>2 DEF Inc
  <2> QED
    BY <1>2, <2>1, <2>2, <2>3
<1>5. Inc(d) = c
  BY <1>2, <1>4 DEF Inc
<1>6. ~ Overflows(d)
  BY <1>3 DEF Overflows
<1> QED
  BY <1>5, <1>6 DEF d

-----------------------------------------------------------------------------
(* The order.                                                              *)

LEMMA FirstDifference ==
    ASSUME NEW c \in Odometers, NEW d \in Odometers, c # d
    PROVE  \E k \in Slots : c[k] # d[k] /\ \A j \in Slots : j < k => c[j] = d[j]
<1> DEFINE S == {k \in Slots : c[k] # d[k]}
<1>1. S \subseteq Slots /\ S # {}
  BY DEF Odometers
<1>2. PICK k \in S : \A x \in S : k <= x
  BY <1>1, FirstSlot
<1>3. Slots \subseteq Nat
  BY CursorAssumption DEF Slots
<1>4. ASSUME NEW j \in Slots, j < k PROVE c[j] = d[j]
  BY <1>2, <1>3, <1>4
<1> QED
  BY <1>2, <1>4

(* The order of the walk is transitive.                                    *)
LEMMA PrecedesTransitive ==
    ASSUME NEW b \in Odometers, NEW c \in Odometers, NEW d \in Odometers,
           Precedes(b, c), Precedes(c, d)
    PROVE  Precedes(b, d)
<1>1. PICK i \in Slots : b[i] < c[i] /\ \A j \in Slots : j < i => b[j] = c[j]
  BY DEF Precedes
<1>2. PICK k \in Slots : c[k] < d[k] /\ \A j \in Slots : j < k => c[j] = d[j]
  BY DEF Precedes
<1>3. \A x \in Odometers : \A j \in Slots : x[j] \in Int
  BY CursorAssumption DEF Odometers, Digits
<1>4. Slots \subseteq Int
  BY DEF Slots
<1>5. CASE i <= k
  <2>1. b[i] < d[i]
    BY <1>1, <1>2, <1>3, <1>4, <1>5
  <2>2. \A j \in Slots : j < i => b[j] = d[j]
    BY <1>1, <1>2, <1>4, <1>5
  <2> QED
    BY <2>1, <2>2 DEF Precedes
<1>6. CASE k < i
  <2>1. b[k] < d[k]
    BY <1>1, <1>2, <1>3, <1>6
  <2>2. \A j \in Slots : j < k => b[j] = d[j]
    BY <1>1, <1>2, <1>4, <1>6
  <2> QED
    BY <2>1, <2>2 DEF Precedes
<1> QED
  BY <1>4, <1>5, <1>6

LEMMA UptoZero == Upto(Zero) = {Zero}
<1>1. ASSUME NEW d \in Odometers PROVE ~ Precedes(d, Zero)
  BY <1>1, CursorAssumption DEF Precedes, Zero, Odometers, Digits
<1> QED
  BY <1>1, ZeroType DEF Upto

(* Everything comes before the last cursor.                                *)
LEMMA UptoLast ==
    ASSUME NEW c \in Odometers, Overflows(c) PROVE Upto(c) = Odometers
<1>1. ASSUME NEW d \in Odometers, d # c PROVE Precedes(d, c)
  <2>1. PICK k \in Slots : d[k] # c[k] /\ \A j \in Slots : j < k => d[j] = c[j]
    BY <1>1, FirstDifference
  <2>2. d[k] < c[k]
    BY <2>1, CursorAssumption DEF Overflows, Odometers, Digits
  <2> QED
    BY <2>1, <2>2 DEF Precedes
<1> QED
  BY <1>1 DEF Upto

(* What comes before the successor of a cursor.                            *)
LEMMA BelowInc ==
    ASSUME NEW c \in Odometers, ~ Overflows(c)
    PROVE  \A d \in Odometers : Precedes(d, Inc(c)) <=> d \in Upto(c)
<1> DEFINE e == Inc(c)
<1>1. PICK m \in Slots :
        /\ c[m] < CursorBase - 1
        /\ e[m] = c[m] + 1
        /\ \A i \in Slots : i < m => e[i] = c[i]
        /\ \A i \in Slots : m < i => c[i] = CursorBase - 1 /\ e[i] = 0
  BY IncAt
<1>2. /\ CursorBase \in Nat /\ Slots \subseteq Nat /\ e \in Odometers
      /\ \A d \in Odometers : \A i \in Slots : d[i] \in Nat /\ d[i] <= CursorBase - 1
  BY IncType, CursorAssumption DEF Odometers, Digits, Slots
<1> HIDE DEF e
<1>3. ASSUME NEW d \in Odometers, d = c \/ Precedes(d, c) PROVE Precedes(d, e)
  <2>1. CASE d = c
    <3>1. d[m] < e[m] /\ \A j \in Slots : j < m => d[j] = e[j]
      BY <1>1, <1>2, <2>1
    <3> QED
      BY <3>1 DEF Precedes
  <2>2. CASE Precedes(d, c)
    <3>1. PICK i \in Slots : d[i] < c[i] /\ \A j \in Slots : j < i => d[j] = c[j]
      BY <2>2 DEF Precedes
    <3>2. CASE i < m
      <4>1. d[i] < e[i] /\ \A j \in Slots : j < i => d[j] = e[j]
        BY <1>1, <1>2, <3>1, <3>2
      <4> QED
        BY <4>1 DEF Precedes
    <3>3. CASE m <= i
      <4>1. d[m] <= c[m]
        BY <1>2, <3>1, <3>3
      <4>2. d[m] < e[m] /\ \A j \in Slots : j < m => d[j] = e[j]
        BY <1>1, <1>2, <3>1, <3>3, <4>1
      <4> QED
        BY <4>2 DEF Precedes
    <3> QED
      BY <1>2, <3>2, <3>3
  <2> QED
    BY <1>3, <2>1, <2>2
<1>4. ASSUME NEW d \in Odometers, Precedes(d, e), d # c PROVE Precedes(d, c)
  <2>1. PICK i \in Slots : d[i] < e[i] /\ \A j \in Slots : j < i => d[j] = e[j]
    BY <1>4 DEF Precedes
  <2>2. PICK k \in Slots : d[k] # c[k] /\ \A j \in Slots : j < k => d[j] = c[j]
    BY <1>4, FirstDifference
  <2>3. i <= m
    <3>1. CASE m < i
      BY <1>1, <1>2, <2>1, <3>1
    <3> QED
      BY <1>2, <3>1
  <2>4. CASE i < m
    <3>1. d[i] < c[i] /\ \A j \in Slots : j < i => d[j] = c[j]
      BY <1>1, <1>2, <2>1, <2>4
    <3> QED
      BY <3>1 DEF Precedes
  <2>5. CASE i = m
    <3>1. d[m] <= c[m] /\ \A j \in Slots : j < m => d[j] = c[j]
      BY <1>1, <1>2, <2>1, <2>5
    <3>2. k >= m
      BY <1>2, <2>2, <3>1
    <3>3. d[k] <= c[k]
      BY <1>1, <1>2, <3>1, <3>2
    <3>4. d[k] < c[k]
      BY <1>2, <2>2, <3>3
    <3> QED
      BY <2>2, <3>4 DEF Precedes
  <2> QED
    BY <1>2, <2>3, <2>4, <2>5
<1> QED
  BY <1>2, <1>3, <1>4 DEF Upto, e

(* Between a cursor and its successor there is nothing.                    *)
THEOREM UptoInc ==
    ASSUME NEW c \in Odometers, ~ Overflows(c)
    PROVE  Upto(Inc(c)) = Upto(c) \cup {Inc(c)}
BY BelowInc, IncType DEF Upto

LEMMA BelowDec ==
    ASSUME NEW c \in Odometers, c # Zero
    PROVE  \A d \in Odometers : Precedes(d, c) <=> d \in Upto(decCursor(c))
BY BelowInc, IncUndoesDec, DecType
=============================================================================
