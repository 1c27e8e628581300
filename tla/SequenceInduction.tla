-------------------------- MODULE SequenceInduction --------------------------
(***************************************************************************)
(* Induction along a sequence, stated about sets instead of predicates so  *)
(* that it can be cited: the naturals are within every set that holds zero *)
(* and the successor of each of its members, and a loop over a sequence    *)
(* has a function that gives its state after each turn.                    *)
(***************************************************************************)
EXTENDS Naturals, Sequences, WellFoundedInduction, TLAPS

\* A set that holds 0 and n + 1 for each n it holds has every natural number.
LEMMA NatSetInduction ==
    ASSUME NEW S, 0 \in S, \A n \in Nat : n \in S => n + 1 \in S
    PROVE  Nat \subseteq S
<1> DEFINE T == Nat \ S
<1> SUFFICES ASSUME T # {} PROVE FALSE
  OBVIOUS
<1>1. \E x \in T : \A y \in T : ~ (<<y, x>> \in OpToRel(<, Nat))
  <2> HIDE DEF T
  <2>1. T \subseteq Nat
    BY DEF T
  <2>2. QED
    BY <2>1, NatLessThanWellFounded, WFMin
<1>2. PICK x \in T : \A y \in T : ~ (y < x)
  BY <1>1 DEF OpToRel
<1>3. x # 0 /\ x - 1 \in Nat /\ x - 1 < x /\ (x - 1) + 1 = x
  OBVIOUS
<1>4. x - 1 \in S
  BY <1>2, <1>3
<1>5. QED
  BY <1>3, <1>4

\* f[i] is the state after i turns of a loop that starts in s0 and takes the
\* members of q one by one.
Loop(f, S, s0, step, q) ==
    /\ f \in [0 .. Len(q) -> S]
    /\ f[0] = s0
    /\ \A i \in 1 .. Len(q) : f[i] = step[<<f[i - 1], q[i]>>]

\* The states of a loop that takes the members of q one by one: there is a
\* function that gives the state after each turn.
LEMMA Iteration ==
    ASSUME NEW S, NEW T, NEW s0 \in S, NEW step \in [S \X T -> S], NEW q \in Seq(T)
    PROVE  \E f : Loop(f, S, s0, step, q)
<1> DEFINE P(n) == n <= Len(q) =>
              \E f \in [0 .. n -> S] :
                 f[0] = s0 /\ \A i \in 1 .. n : f[i] = step[<<f[i - 1], q[i]>>]
           N == {n \in Nat : P(n)}
<1>1. 0 \in N
  <2> DEFINE g == [i \in {0} |-> s0]
  <2>1. 0 .. 0 = {0} /\ 1 .. 0 = {}
    OBVIOUS
  <2>2. g \in [0 .. 0 -> S] /\ g[0] = s0
    BY <2>1
  <2>3. \A i \in 1 .. 0 : g[i] = step[<<g[i - 1], q[i]>>]
    BY <2>1
  <2>4. P(0)
    <3> HIDE DEF g
    <3> QED BY <2>2, <2>3
  <2>5. QED
    BY <2>4
<1>2. \A n \in Nat : n \in N => n + 1 \in N
  <2> HIDE DEF P
  <2> SUFFICES ASSUME NEW n \in Nat, P(n) PROVE P(n + 1)
    OBVIOUS
  <2> SUFFICES ASSUME n + 1 <= Len(q)
               PROVE  \E f \in [0 .. n + 1 -> S] :
                 f[0] = s0 /\ \A i \in 1 .. n + 1 : f[i] = step[<<f[i - 1], q[i]>>]
    BY DEF P
  <2>1. n <= Len(q) /\ Len(q) \in Nat
    OBVIOUS
  <2>2. PICK f \in [0 .. n -> S] :
             f[0] = s0 /\ \A i \in 1 .. n : f[i] = step[<<f[i - 1], q[i]>>]
    BY <2>1 DEF P
  <2> DEFINE x == step[<<f[n], q[n + 1]>>]
             g == [i \in 0 .. n + 1 |-> IF i = n + 1 THEN x ELSE f[i]]
  <2>3. x \in S
    <3>1. f[n] \in S /\ q[n + 1] \in T
      BY <2>1
    <3>2. QED
      BY <3>1
  <2>4. g \in [0 .. n + 1 -> S]
    <3> HIDE DEF x
    <3> QED BY <2>3
  <2>5. g[0] = s0 /\ g[n + 1] = step[<<g[n], q[n + 1]>>]
    <3>1. 0 \in 0 .. n + 1 /\ n \in 0 .. n + 1 /\ n + 1 \in 0 .. n + 1 /\ n # n + 1 /\ 0 # n + 1
      OBVIOUS
    <3>2. g[0] = f[0] /\ g[n] = f[n] /\ g[n + 1] = x
      <4> HIDE DEF x
      <4> QED BY <3>1
    <3>3. QED
      BY <3>2, <2>2
  <2>6. \A i \in 1 .. n : g[i] = f[i] /\ g[i - 1] = f[i - 1]
    <3> HIDE DEF x
    <3> QED OBVIOUS
  <2>7. \A i \in 1 .. n + 1 : g[i] = step[<<g[i - 1], q[i]>>]
    <3> HIDE DEF g, x
    <3> TAKE i \in 1 .. n + 1
    <3>1. CASE i = n + 1
      BY <2>5, <3>1
    <3>2. CASE i \in 1 .. n
      BY <2>2, <2>6, <3>2
    <3>3. QED
      BY <3>1, <3>2
  <2>8. QED
    <3> HIDE DEF g
    <3> QED BY <2>4, <2>5, <2>7
<1> HIDE DEF P
<1>3. Nat \subseteq N
  <2> HIDE DEF N
  <2>1. QED
    BY <1>1, <1>2, NatSetInduction
<1>4. Len(q) \in Nat /\ P(Len(q))
  BY <1>3
<1>5. QED
  BY <1>4 DEF P, Loop
=============================================================================
