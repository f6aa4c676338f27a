-------------------------- MODULE ProcessDataProofs --------------------------
(***************************************************************************)
(* Proofs about the process data: where the master puts it, and what the   *)
(* force/torque slave puts into its own.                                   *)
(*                                                                         *)
(* IOMap, for every network, division into groups and size of the address  *)
(* space and the frames: no two FMMUs claim one bit, every byte of a sync  *)
(* manager is in one FMMU, the slaves' pointers name the bytes that their  *)
(* FMMUs stand for, and the segments cover each group's image.  MapInv     *)
(* says of each FMMU that it is inside its group's outputs or inputs, or,  *)
(* while its group is mapped, before the first bit that is free; PointInv  *)
(* relates the pointers to the FMMUs, SegInv the segments to the address   *)
(* that is reached.  The mapping functions never look whether an image     *)
(* reaches into the addresses of the next group, or whether a segment is   *)
(* left: ImageFits and SegmentsLeft are hypotheses about the behaviour.    *)
(*                                                                         *)
(* ProcessData, over such an image: what comes back never changes the      *)
(* outputs in the IOmap.  KeptInv says of each frame, and of what is left  *)
(* to send, that it is copied back behind the outputs or holds them as     *)
(* they are, since the slaves only fill what their input FMMUs claim.      *)
(* And the work counter proves the cycle: WkcInv says that whatever has    *)
(* been added to it so far is not more than some FMMUs are worth that have *)
(* all been served, and that no frame still to come serves one of them     *)
(* again; CountInv, that the expected counter is not less than what all    *)
(* FMMUs of the group are worth.                                           *)
(*                                                                         *)
(* FtAcquisition, for every numbering of the samples and every limit of    *)
(* sendMsg, of a sensor that loses no frame (Paced): a cycle leaves        *)
(* nothing to the next one, the master only ever sees whole samples, and   *)
(* sees all of them in order.  The invariant follows one request: it is in *)
(* the transmit buffer, or the four frames that answer it are on the bus,  *)
(* in the receive buffers or stored, and storeFT has been called once for  *)
(* each frame that is not outstanding any more.                            *)
(***************************************************************************)
EXTENDS ProcessData, FtAcquisition, WellFoundedInduction, FiniteSetTheorems, TLAPS

-----------------------------------------------------------------------------
(* Numbers, sums and functions defined step by step.                       *)

LEMMA Induction ==
  ASSUME NEW T, 0 \in T, \A n \in Nat : n \in T => n + 1 \in T
  PROVE  Nat \subseteq T
<1> DEFINE M == {n \in Nat : n \notin T}
<1> SUFFICES ASSUME M # {} PROVE FALSE  OBVIOUS
<1>1. PICK x \in M : \A y \in M : <<y, x>> \notin OpToRel(<, Nat)
  <2>1. M \subseteq Nat  OBVIOUS
  <2> HIDE DEF M
  <2> QED BY <2>1, NatLessThanWellFounded, WFMin, Zenon
<1>2. \A y \in M : ~ (y < x)  BY <1>1 DEF OpToRel
<1>3. x # 0 /\ x \in Nat  OBVIOUS
<1>4. x - 1 \in Nat /\ x - 1 < x  BY <1>3
<1>5. x - 1 \notin M  BY <1>2, <1>4
<1>6. x - 1 \in T  BY <1>4, <1>5
<1>7. (x - 1) + 1 \in T  BY <1>4, <1>6
<1> QED BY <1>7, <1>3

\* Over 0 .. n.
LEMMA UpTo ==
  ASSUME NEW n \in Nat, NEW T, 0 \in T, \A i \in 1 .. n : i - 1 \in T => i \in T
  PROVE  0 .. n \subseteq T
<1> DEFINE U == {i \in Nat : i <= n => i \in T}
<1>1. 0 \in U  OBVIOUS
<1>2. ASSUME NEW i \in Nat, i \in U  PROVE i + 1 \in U
  <2> SUFFICES ASSUME i + 1 <= n PROVE i + 1 \in T  OBVIOUS
  <2>1. i \in T  BY <1>2
  <2>2. i + 1 \in 1 .. n /\ (i + 1) - 1 = i  OBVIOUS
  <2> QED BY <2>1, <2>2
<1> HIDE DEF U
<1>3. Nat \subseteq U  BY <1>1, <1>2, Induction
<1> QED BY <1>3 DEF U

\* What is defined step by step exists, as far as the steps stay in a set.
LEMMA RecursionStep ==
  ASSUME NEW n \in Nat, NEW A, NEW a \in A, NEW G \in [A \X (1 .. n) -> A]
  PROVE  \E r \in [0 .. n -> A] :
           r = [i \in 0 .. n |-> IF i = 0 THEN a ELSE G[r[i - 1], i]]
<1> DEFINE Good(r, k) == /\ r \in [0 .. k -> A]
                         /\ r[0] = a
                         /\ \A i \in 1 .. k : r[i] = G[r[i - 1], i]
           T == {k \in Nat : \E r : Good(r, k)}
<1>1. 0 \in T
  <2> DEFINE r == [i \in 0 .. 0 |-> a]
  <2>1. Good(r, 0)  OBVIOUS
  <2> QED BY <2>1
<1>2. ASSUME NEW k \in 1 .. n, k - 1 \in T  PROVE k \in T
  <2>1. PICK r : Good(r, k - 1)  BY <1>2
  <2>2. k \in Nat /\ k - 1 \in Nat /\ k # 0 /\ k - 1 \in 0 .. k - 1 /\ 0 \in 0 .. k - 1  OBVIOUS
  <2>3. r[k - 1] \in A  BY <2>1, <2>2
  <2>4. PICK v : v = G[r[k - 1], k]  OBVIOUS
  <2>5. v \in A  BY <2>3, <2>4
  <2>6. PICK s : s = [i \in 0 .. k |-> IF i = k THEN v ELSE r[i]]  OBVIOUS
  <2>7. \A i \in 0 .. k - 1 : i \in 0 .. k /\ i # k  BY <2>2
  <2>8. \A i \in 0 .. k : i # k => i \in 0 .. k - 1  BY <2>2
  <2>9. k \in 0 .. k /\ s[k] = v /\ \A i \in 0 .. k - 1 : s[i] = r[i]  BY <2>2, <2>6, <2>7
  <2>10. s \in [0 .. k -> A]  BY <2>1, <2>5, <2>6, <2>8
  <2>11. s[0] = a  BY <2>1, <2>2, <2>9
  <2>12. ASSUME NEW i \in 1 .. k  PROVE s[i] = G[s[i - 1], i]
    <3>1. i - 1 \in 0 .. k - 1 /\ s[i - 1] = r[i - 1]  BY <2>2, <2>9
    <3>2. CASE i = k  BY <3>1, <3>2, <2>4, <2>9
    <3>3. CASE i # k
      <4>1. i \in 1 .. k - 1 /\ i \in 0 .. k - 1  BY <3>3, <2>2
      <4> QED BY <2>1, <2>9, <3>1, <4>1
    <3> QED BY <3>2, <3>3
  <2>13. Good(s, k)  BY <2>10, <2>11, <2>12
  <2> HIDE DEF Good
  <2> QED BY <2>2, <2>13
<1>3. n \in T
  <2> HIDE DEF T
  <2> QED BY <1>1, <1>2, UpTo
<1>4. PICK r : Good(r, n)  BY <1>3
<1>5. ASSUME NEW i \in 0 .. n  PROVE r[i] = IF i = 0 THEN a ELSE G[r[i - 1], i]
  <2>1. i # 0 => i \in 1 .. n  OBVIOUS
  <2> QED BY <1>4, <2>1
<1>6. r = [i \in 0 .. n |-> IF i = 0 THEN a ELSE G[r[i - 1], i]]
  BY <1>4, <1>5
<1> QED BY <1>4, <1>6

Steps(n, a, G, r) == r = [i \in 0 .. n |-> IF i = 0 THEN a ELSE G[r[i - 1], i]]
LEMMA Recursion ==
  \A n \in Nat : \A A : \A a \in A : \A G \in [A \X (1 .. n) -> A] :
    \E r \in [0 .. n -> A] : Steps(n, a, G, r)
BY RecursionStep DEF Steps

LEMMA TotalDefined ==
  ASSUME NEW n \in Nat, NEW f, \A i \in 1 .. n : f[i] \in Nat
  PROVE  \E sum \in [0 .. n -> Nat] :
           /\ Total(f, n) = sum[n] /\ sum[0] = 0
           /\ \A i \in 1 .. n : sum[i] = sum[i - 1] + f[i]
<1> DEFINE Sum(s) == s = [i \in 0 .. n |-> IF i = 0 THEN 0 ELSE s[i - 1] + f[i]]
           G == [x \in Nat \X (1 .. n) |-> x[1] + f[x[2]]]
<1>1. \E s : Sum(s)
  <2>1. G \in [Nat \X (1 .. n) -> Nat]  OBVIOUS
  <2>2. \A x \in Nat, i \in 1 .. n : G[x, i] = x + f[i]  OBVIOUS
  <2> HIDE DEF G
  <2>3. PICK r \in [0 .. n -> Nat] : Steps(n, 0, G, r)
    <3>1. 0 \in Nat  OBVIOUS
    <3> QED BY <2>1, <3>1, Recursion
  <2>4. \A i \in 0 .. n : i # 0 => i - 1 \in 0 .. n /\ i \in 1 .. n  OBVIOUS
  <2>5. \A i \in 0 .. n : i # 0 => G[r[i - 1], i] = r[i - 1] + f[i]  BY <2>2, <2>4
  <2>6. Sum(r)  BY <2>3, <2>5 DEF Steps
  <2> QED BY <2>6
<1>2. PICK s : s = CHOOSE t : Sum(t)  OBVIOUS
<1>3. Sum(s)  BY <1>1, <1>2
<1>4. Total(f, n) = s[n]  BY <1>2 DEF Total
<1>5. s[0] = 0 /\ \A i \in 1 .. n : s[i] = s[i - 1] + f[i]  BY <1>3
<1> DEFINE T == {i \in Nat : s[i] \in Nat}
<1>6. 0 \in T  BY <1>5
<1>7. \A i \in 1 .. n : i - 1 \in T => i \in T  BY <1>5
<1>8. 0 .. n \subseteq T
  <2> HIDE DEF T
  <2> QED BY <1>6, <1>7, UpTo
<1>9. s \in [0 .. n -> Nat]  BY <1>3, <1>8
<1> QED BY <1>4, <1>5, <1>9

LEMMA TotalOfNone == \A f : Total(f, 0) = 0
<1> TAKE f
<1>1. PICK sum \in [0 .. 0 -> Nat] : Total(f, 0) = sum[0] /\ sum[0] = 0
  <2>1. \A i \in 1 .. 0 : f[i] \in Nat  OBVIOUS
  <2>2. 0 \in Nat  OBVIOUS
  <2> QED BY <2>1, <2>2, TotalDefined
<1> QED BY <1>1

\* The sum of one more.
LEMMA TotalNext ==
  ASSUME NEW n \in Nat, NEW f, NEW g, \A i \in 1 .. n + 1 : f[i] \in Nat,
         \A i \in 1 .. n : g[i] = f[i]
  PROVE  Total(g, n) \in Nat /\ Total(f, n + 1) = Total(g, n) + f[n + 1]
<1>1. n + 1 \in Nat /\ n + 1 \in 1 .. n + 1 /\ \A i \in 1 .. n : i \in 1 .. n + 1  OBVIOUS
<1>2. PICK s \in [0 .. n + 1 -> Nat] :
        /\ Total(f, n + 1) = s[n + 1] /\ s[0] = 0
        /\ \A i \in 1 .. n + 1 : s[i] = s[i - 1] + f[i]
  <2>1. PICK k : k = n + 1  OBVIOUS
  <2>2. k \in Nat /\ \A i \in 1 .. k : f[i] \in Nat  BY <1>1, <2>1
  <2>3. \E s \in [0 .. k -> Nat] :
           /\ Total(f, k) = s[k] /\ s[0] = 0
           /\ \A i \in 1 .. k : s[i] = s[i - 1] + f[i]
    BY <2>2, TotalDefined
  <2> QED BY <2>1, <2>3
<1>3. PICK t \in [0 .. n -> Nat] :
        /\ Total(g, n) = t[n] /\ t[0] = 0
        /\ \A i \in 1 .. n : t[i] = t[i - 1] + g[i]
  <2>1. \A i \in 1 .. n : g[i] \in Nat  BY <1>1
  <2> QED BY <2>1, TotalDefined
<1> DEFINE T == {i \in Nat : s[i] = t[i]}
<1>4. 0 \in T  BY <1>2, <1>3
<1>5. \A i \in 1 .. n : i - 1 \in T => i \in T  BY <1>1, <1>2, <1>3
<1>6. 0 .. n \subseteq T
  <2> HIDE DEF T
  <2> QED BY <1>4, <1>5, UpTo
<1>7. s[n] = t[n] /\ t[n] \in Nat  BY <1>3, <1>6
<1>8. s[n + 1] = s[n] + f[n + 1]  BY <1>1, <1>2
<1> QED BY <1>2, <1>3, <1>7, <1>8

LEMMA TotalIsNat ==
  ASSUME NEW n \in Nat, NEW f, \A i \in 1 .. n : f[i] \in Nat
  PROVE  Total(f, n) \in Nat /\ (n > 0 /\ f[n] > 0 => Total(f, n) > 0)
<1>1. PICK s \in [0 .. n -> Nat] :
        /\ Total(f, n) = s[n] /\ s[0] = 0
        /\ \A i \in 1 .. n : s[i] = s[i - 1] + f[i]
  BY TotalDefined
<1>2. s[n] \in Nat  OBVIOUS
<1>3. ASSUME n > 0, f[n] > 0  PROVE s[n] > 0
  <2>1. n \in 1 .. n /\ n - 1 \in 0 .. n  BY <1>3
  <2>2. s[n] = s[n - 1] + f[n] /\ s[n - 1] \in Nat /\ f[n] \in Nat  BY <1>1, <2>1
  <2> QED BY <2>2, <1>3
<1> QED BY <1>1, <1>2, <1>3

LEMMA MaxOf ==
  ASSUME NEW m \in Int, NEW n \in Int, NEW S \in SUBSET (m .. n), S # {}
  PROVE  Max(S) \in S /\ \A x \in S : x <= Max(S)
<1> DEFINE D == {d \in Nat : n - d \in S}
<1>1. D # {} /\ D \subseteq Nat
  <2>1. PICK x \in S : TRUE  OBVIOUS
  <2>2. x \in m .. n  OBVIOUS
  <2>3. n - x \in Nat /\ n - (n - x) = x  BY <2>2
  <2> QED BY <2>3
<1>2. PICK d \in D : \A e \in D : <<e, d>> \notin OpToRel(<, Nat)
  <2> HIDE DEF D
  <2> QED BY <1>1, NatLessThanWellFounded, WFMin, Zenon
<1>3. \A e \in D : ~ (e < d)  BY <1>2 DEF OpToRel
<1>4. n - d \in S  OBVIOUS
<1>5. ASSUME NEW x \in S  PROVE x <= n - d
  <2>1. x \in m .. n  OBVIOUS
  <2>2. n - x \in Nat /\ n - (n - x) = x  BY <2>1
  <2>3. ~ (n - x < d)  BY <1>3, <2>2
  <2> QED BY <2>1, <2>3
<1>6. n - d \in S /\ \A y \in S : n - d >= y  BY <1>4, <1>5
<1>7. Max(S) \in S /\ \A y \in S : Max(S) >= y  BY <1>6, Zenon DEF Max
<1>8. \A x \in S : x \in Int  OBVIOUS
<1> QED BY <1>7, <1>8

LEMMA MinOfTwo == \A a, b \in Int : Min({a, b}) = IF a <= b THEN a ELSE b
<1> TAKE a, b \in Int
<1> DEFINE R(x) == x \in {a, b} /\ \A y \in {a, b} : x =< y
<1>1. PICK c : c = IF a <= b THEN a ELSE b  OBVIOUS
<1>2. R(c)  BY <1>1
<1>3. \A x : R(x) => x = c  BY <1>1
<1>4. Min({a, b}) = CHOOSE x : R(x)  BY Zenon DEF Min
<1>5. R(CHOOSE x : R(x))
  <2> HIDE DEF R
  <2> QED BY <1>2, Zenon
<1> QED BY <1>1, <1>3, <1>4, <1>5

LEMMA MaxOfTwo == \A a, b \in Int : Max({a, b}) = IF a <= b THEN b ELSE a
<1> TAKE a, b \in Int
<1> DEFINE R(x) == x \in {a, b} /\ \A y \in {a, b} : x >= y
<1>1. PICK c : c = IF a <= b THEN b ELSE a  OBVIOUS
<1>2. R(c)  BY <1>1
<1>3. \A x : R(x) => x = c  BY <1>1
<1>4. Max({a, b}) = CHOOSE x : R(x)  BY Zenon DEF Max
<1>5. R(CHOOSE x : R(x))
  <2> HIDE DEF R
  <2> QED BY <1>2, Zenon
<1> QED BY <1>1, <1>3, <1>4, <1>5
-----------------------------------------------------------------------------
(***************************************************************************)
(* Where the process data is (IOMap)                                       *)
(***************************************************************************)

\* The first and the last bit that an FMMU claims.
FirstBit(f) == 8 * f.start + f.startbit
LastBit(f) == 8 * (f.start + f.len - 1) + f.endbit
BitsApart(f, h) == LastBit(f) < FirstBit(h) \/ LastBit(h) < FirstBit(f)

\* What the FMMUs of a slave look like, before they are its own.
Placed == [phys : Nat, start : Nat, startbit : 0 .. 7, len : Nat \ {0}, endbit : 0 .. 7]

\* The FMMUs of one slave lie in order between the first free bit and the next.
Laid(m, addr, bit) ==
  /\ m.addr \in Nat /\ m.bit \in 0 .. 7 /\ m.list \in Seq(Placed) /\ m.list # << >>
  /\ 8 * addr + bit <= 8 * m.addr + m.bit
  /\ \A i \in 1 .. Len(m.list) :
       /\ 8 * addr + bit <= FirstBit(m.list[i])
       /\ LastBit(m.list[i]) < 8 * m.addr + m.bit
       /\ m.list[1].start <= m.list[i].start
  /\ \A i, j \in 1 .. Len(m.list) : i < j => LastBit(m.list[i]) < FirstBit(m.list[j])

LEMMA LayoutFacts ==
  ASSUME NEW l, IsLayout(l), l.bits > 0
  PROVE  /\ Bytes(l.bits) \in Nat \ {0} /\ l.sm \in Seq([start : Nat, len : Nat \ {0}])
         /\ Len(l.sm) \in Nat \ {0} /\ l.bits \in Nat
         /\ \A i \in 1 .. Len(l.sm) : l.sm[i].start \in Nat /\ l.sm[i].len \in Nat \ {0}
<1>1. l.bits \in Nat /\ l.sm \in Seq([start : Nat, len : Nat \ {0}])  BY DEF IsLayout
<1>2. Bytes(l.bits) \in Nat \ {0}  BY <1>1 DEF Bytes
<1>3. Len(l.sm) # 0
  <2>1. Len(l.sm) = 0 => Bytes(l.bits) = 0
    <3>1. \A f : Total(f, 0) = 0  BY TotalOfNone
    <3> QED BY <3>1 DEF IsLayout, SmBytes
  <2> QED BY <2>1, <1>2
<1>4. ASSUME NEW i \in 1 .. Len(l.sm)  PROVE l.sm[i].start \in Nat /\ l.sm[i].len \in Nat \ {0}
  <2>1. PICK S : S = [start : Nat, len : Nat \ {0}]  OBVIOUS
  <2>2. PICK sm : sm = l.sm  OBVIOUS
  <2>3. sm \in Seq(S) /\ i \in 1 .. Len(sm)  BY <1>1, <2>1, <2>2
  <2>4. sm[i] \in S  BY <2>3
  <2> QED BY <2>1, <2>2, <2>4
<1> QED BY <1>1, <1>2, <1>3, <1>4

LEMMA SmBytesIsNat ==
  ASSUME NEW l, IsLayout(l), l.bits > 0, NEW n \in 1 .. Len(l.sm)
  PROVE  SmBytes(l.sm, n) \in Nat \ {0}
<1> DEFINE f == [i \in 1 .. n |-> l.sm[i].len]
<1>1. \A i \in 1 .. n : f[i] \in Nat \ {0}  BY LayoutFacts
<1>2. n \in Nat /\ n > 0 /\ n \in 1 .. n  BY LayoutFacts
<1>3. f[n] > 0 /\ \A i \in 1 .. n : f[i] \in Nat  BY <1>1, <1>2
<1> HIDE DEF f
<1>4. Total(f, n) \in Nat /\ Total(f, n) > 0  BY <1>2, <1>3, TotalIsNat
<1> QED BY <1>4 DEF SmBytes, f

LEMMA RunEndIn ==
  ASSUME NEW sm, NEW n \in Nat, n = Len(sm), NEW i \in 1 .. n
  PROVE  /\ RunEnd(sm, i) \in i .. n
         /\ \A k \in i + 1 .. RunEnd(sm, i) : Joined(sm, k)
         /\ \A j \in i .. n : (\A k \in i + 1 .. j : Joined(sm, k)) => j <= RunEnd(sm, i)
<1> DEFINE S == {j \in i .. n : \A k \in i + 1 .. j : Joined(sm, k)}
<1>1. i \in S  OBVIOUS
<1>2. RunEnd(sm, i) = Max(S)  BY DEF RunEnd
<1>3. Max(S) \in S /\ \A x \in S : x <= Max(S)
  <2>1. S \in SUBSET (i .. n) /\ S # {} /\ i \in Int /\ n \in Int  BY <1>1
  <2> HIDE DEF S
  <2> QED BY <2>1, MaxOf
<1> QED BY <1>2, <1>3

LEMMA BitFmmuLaid ==
  ASSUME NEW l, IsLayout(l), l.bits \in 1 .. 7, NEW addr \in Nat, NEW bit \in 0 .. 7
  PROVE  Laid(BitFmmu(l, addr, bit), addr, bit)
<1>1. PICK last : last = bit + l.bits - 1  OBVIOUS
<1>2. last \in 0 .. 13  BY <1>1
<1>3. PICK f : f = [phys |-> l.sm[1].start, start |-> addr, startbit |-> bit,
                    len |-> last \div 8 + 1, endbit |-> last % 8]  OBVIOUS
<1>4. BitFmmu(l, addr, bit) = [addr |-> addr + (last + 1) \div 8, bit |-> (last + 1) % 8,
                               list |-> << f >>]
  BY <1>1, <1>3 DEF BitFmmu
<1>5. l.sm[1].start \in Nat
  <2>1. 1 \in 1 .. Len(l.sm)  BY LayoutFacts
  <2> QED BY <2>1, LayoutFacts
<1>6. last = 8 * (last \div 8) + (last % 8) /\ (last % 8) \in 0 .. 7 /\ last \div 8 \in Nat
  BY <1>2
<1>7. last + 1 = 8 * ((last + 1) \div 8) + ((last + 1) % 8) /\ ((last + 1) % 8) \in 0 .. 7
      /\ (last + 1) \div 8 \in Nat
  BY <1>2
<1>8. f \in Placed  BY <1>3, <1>5, <1>6 DEF Placed
<1>9. FirstBit(f) = 8 * addr + bit  BY <1>3 DEF FirstBit
<1>10. LastBit(f) = 8 * addr + last
  <2>1. f.start = addr /\ f.len = last \div 8 + 1 /\ f.endbit = last % 8  BY <1>3
  <2> QED BY <2>1, <1>6 DEF LastBit
<1>11. PICK m : m = BitFmmu(l, addr, bit)  OBVIOUS
<1>12. /\ m.addr = addr + (last + 1) \div 8 /\ m.bit = (last + 1) % 8 /\ m.list = << f >>
  BY <1>4, <1>11
<1>13. 8 * m.addr + m.bit = 8 * addr + last + 1  BY <1>2, <1>7, <1>12
<1>14. m.addr \in Nat /\ m.bit \in 0 .. 7  BY <1>7, <1>12
<1>15. m.list \in Seq(Placed) /\ m.list # << >> /\ Len(m.list) = 1 /\ m.list[1] = f
  BY <1>8, <1>12
<1>16. f.start \in Nat  BY <1>3
<1>17. 8 * addr + bit <= 8 * m.addr + m.bit  BY <1>1, <1>13, <1>2
<1>18. LastBit(f) < 8 * m.addr + m.bit  BY <1>10, <1>13, <1>2
<1>19. Laid(m, addr, bit)
  <2>1. ASSUME NEW i \in 1 .. Len(m.list)
        PROVE  /\ 8 * addr + bit <= FirstBit(m.list[i])
               /\ LastBit(m.list[i]) < 8 * m.addr + m.bit
               /\ m.list[1].start <= m.list[i].start
    <3>1. i = 1 /\ m.list[i] = f  BY <1>15
    <3>2. 8 * addr + bit <= FirstBit(f)  BY <1>9
    <3>3. m.list[1].start <= m.list[i].start  BY <3>1, <1>15, <1>16
    <3> QED BY <3>1, <3>2, <3>3, <1>18
  <2>2. \A i, j \in 1 .. Len(m.list) : ~ (i < j)  BY <1>15
  <2> QED BY <2>1, <2>2, <1>14, <1>15, <1>17 DEF Laid
<1> QED BY <1>11, <1>19

\* The FMMUs of the first sync managers: in order from base on, without a gap.
Building(m, base, n) ==
  /\ m.done \in 0 .. n /\ m.list \in Seq(Placed)
  /\ m.list = << >> => m.done = 0
  /\ \A k \in 1 .. Len(m.list) :
       /\ base <= m.list[k].start /\ m.list[k].start + m.list[k].len <= base + m.done
       /\ m.list[k].startbit = 0 /\ m.list[k].endbit = 7
       /\ m.list[1].start <= m.list[k].start
  /\ \A i, j \in 1 .. Len(m.list) : i < j => m.list[i].start + m.list[i].len <= m.list[j].start
  /\ m.list # << >> => m.list[1].start = base

LEMMA MapSmBuilds ==
  ASSUME NEW l, IsLayout(l), l.bits > 0, NEW base \in Nat, NEW i \in 1 .. Len(l.sm),
         NEW done \in Nat, NEW list \in Seq(Placed), NEW m, m = [done |-> done, list |-> list],
         Building(m, base, Bytes(l.bits))
  PROVE  /\ MapSm(l, base, m, i) \in [done : Nat, list : Seq(Placed)]
         /\ Building(MapSm(l, base, m, i), base, Bytes(l.bits))
         /\ Len(list) <= Len(MapSm(l, base, m, i).list)
         /\ i = 1 /\ list = << >> => MapSm(l, base, m, i).list # << >>
<1>1. PICK B : B = Bytes(l.bits)  OBVIOUS
<1>2. B \in Nat \ {0} /\ Len(l.sm) \in Nat /\ l.sm[i].start \in Nat  BY <1>1, LayoutFacts
<1>3. PICK e : e = RunEnd(l.sm, i)  OBVIOUS
<1>4. e \in 1 .. Len(l.sm)
  <2>1. e \in i .. Len(l.sm)  BY <1>2, <1>3, RunEndIn
  <2> QED BY <2>1
<1>5. PICK c : c = SmBytes(l.sm, e)  OBVIOUS
<1>6. c \in Nat \ {0}  BY <1>4, <1>5, SmBytesIsNat
<1>7. m.done = done /\ m.list = list /\ done <= B  BY <1>1 DEF Building
<1>8. CASE Joined(l.sm, i) \/ B - done <= 0
  <2>1. MapSm(l, base, m, i) = m  BY <1>1, <1>7, <1>8, Zenon DEF MapSm
  <2>2. ~ (i = 1 /\ list = << >>)
    <3>1. i = 1 => ~ Joined(l.sm, i)  BY DEF Joined
    <3>2. list = << >> => done = 0  BY <1>7 DEF Building
    <3> QED BY <3>1, <3>2, <1>8, <1>2
  <2>3. m \in [done : Nat, list : Seq(Placed)]  OBVIOUS
  <2>4. Len(list) <= Len(m.list)  BY <1>7
  <2> QED BY <2>1, <2>2, <2>3, <2>4
<1>9. CASE ~ (Joined(l.sm, i) \/ B - done <= 0)
  <2>1. PICK size : size = Min({c, B - done})  OBVIOUS
  <2>2. size \in Nat \ {0} /\ done + size <= B
    <3>1. B - done \in Nat \ {0}  BY <1>2, <1>7, <1>9
    <3>2. size = IF c <= B - done THEN c ELSE B - done
      <4>1. c \in Int /\ B - done \in Int  BY <3>1, <1>6
      <4> QED BY <4>1, <2>1, MinOfTwo
    <3> QED BY <3>1, <3>2, <1>6, <1>2
  <2>3. PICK f : f = [phys |-> l.sm[i].start, start |-> base + done, startbit |-> 0,
                      len |-> size, endbit |-> 7]  OBVIOUS
  <2>4. MapSm(l, base, m, i) = [done |-> done + size, list |-> Append(list, f)]
    BY <1>1, <1>3, <1>5, <1>7, <1>9, <2>1, <2>3, Zenon DEF MapSm
  <2>5. f \in Placed  BY <1>2, <2>2, <2>3 DEF Placed
  <2>6. PICK x : x = Append(list, f)  OBVIOUS
  <2>7. /\ x \in Seq(Placed) /\ Len(x) = Len(list) + 1 /\ Len(list) \in Nat
        /\ x[Len(list) + 1] = f /\ \A k \in 1 .. Len(list) : x[k] = list[k]
    BY <2>5, <2>6
  <2>8. PICK r : r = MapSm(l, base, m, i)  OBVIOUS
  <2>9. r.done = done + size /\ r.list = x  BY <2>4, <2>6, <2>8
  <2>10. f.start = base + done /\ f.len = size /\ f.startbit = 0 /\ f.endbit = 7  BY <2>3
  <2>11. ASSUME NEW k \in 1 .. Len(x)
         PROVE  /\ base <= x[k].start /\ x[k].start + x[k].len <= base + (done + size)
                /\ x[k].startbit = 0 /\ x[k].endbit = 7
    <3>1. CASE k = Len(list) + 1  BY <3>1, <2>2, <2>7, <2>10
    <3>2. CASE k \in 1 .. Len(list)
      <4>1. /\ base <= list[k].start /\ list[k].start + list[k].len <= base + done
            /\ list[k].startbit = 0 /\ list[k].endbit = 7
        BY <3>2, <1>7 DEF Building
      <4>2. list[k] \in Placed  BY <3>2
      <4>3. list[k].start \in Nat /\ list[k].len \in Nat  BY <4>2 DEF Placed
      <4>4. x[k] = list[k]  BY <3>2, <2>7
      <4>5. PICK st, ln : st = list[k].start /\ ln = list[k].len  OBVIOUS
      <4>6. st \in Nat /\ ln \in Nat /\ size \in Nat /\ base <= st /\ st + ln <= base + done
        BY <4>1, <4>3, <4>5, <2>2
      <4>7. st + ln <= base + (done + size)  BY <4>6
      <4> QED BY <4>1, <4>4, <4>5, <4>6, <4>7
    <3> QED BY <3>1, <3>2, <2>7
  <2>12. x[1].start = base
    <3>1. CASE list = << >>
      <4>1. Len(list) = 0 /\ done = 0  BY <3>1, <1>7 DEF Building
      <4> QED BY <4>1, <2>7, <2>10
    <3>2. CASE list # << >>
      <4>1. 1 \in 1 .. Len(list)  BY <3>2
      <4> QED BY <4>1, <3>2, <1>7, <2>7 DEF Building
    <3> QED BY <3>1, <3>2
  <2>13. ASSUME NEW a \in 1 .. Len(x), NEW b \in 1 .. Len(x), a < b
         PROVE  x[a].start + x[a].len <= x[b].start
    <3>1. a \in 1 .. Len(list)  BY <2>7, <2>13
    <3>2. CASE b = Len(list) + 1
      <4>1. list[a].start + list[a].len <= base + done  BY <3>1, <1>7 DEF Building
      <4> QED BY <4>1, <3>1, <3>2, <2>7, <2>10
    <3>3. CASE b \in 1 .. Len(list)
      <4>1. list[a].start + list[a].len <= list[b].start
        BY <3>1, <3>3, <2>13, <1>7 DEF Building
      <4> QED BY <4>1, <3>1, <3>3, <2>7
    <3> QED BY <3>2, <3>3, <2>7
  <2>14. r.done \in 0 .. B /\ r.list \in Seq(Placed) /\ r.list # << >>
    BY <2>2, <2>7, <2>9
  <2>15. \A k \in 1 .. Len(x) : x[1].start <= x[k].start  BY <2>11, <2>12
  <2>16. Building(r, base, B)
    BY <2>9, <2>11, <2>12, <2>13, <2>14, <2>15, Zenon DEF Building
  <2>17. r \in [done : Nat, list : Seq(Placed)]  BY <2>2, <2>4, <2>6, <2>7, <2>8
  <2>18. Len(list) <= Len(r.list)  BY <2>7, <2>9
  <2> QED BY <1>1, <2>8, <2>14, <2>16, <2>17, <2>18
<1> QED BY <1>8, <1>9

LEMMA ByteFmmusDefined ==
  ASSUME NEW l, IsLayout(l), l.bits > 0, NEW addr \in Nat, NEW bit \in 0 .. 7
  PROVE  \E mapped, base :
           /\ base = StartByte(addr, bit) /\ base \in Nat
           /\ mapped[0] = [done |-> 0, list |-> << >>]
           /\ \A i \in 1 .. Len(l.sm) : mapped[i] = MapSm(l, base, mapped[i - 1], i)
           /\ ByteFmmus(l, addr, bit) =
                [addr |-> base + mapped[Len(l.sm)].done, bit |-> 0,
                 list |-> mapped[Len(l.sm)].list]
<1>1. PICK n : n = Len(l.sm)  OBVIOUS
<1>2. n \in Nat  BY <1>1, LayoutFacts
<1>3. PICK base : base = StartByte(addr, bit)  OBVIOUS
<1>4. base \in Nat  BY <1>3 DEF StartByte
<1>5. PICK none : none = [done |-> 0, list |-> << >>]  OBVIOUS
<1> DEFINE Eq(g) == g = [i \in 0 .. n |-> IF i = 0 THEN none ELSE MapSm(l, base, g[i - 1], i)]
           A == {m \in [done : Nat, list : Seq(Placed)] : Building(m, base, Bytes(l.bits))}
           G == [x \in A \X (1 .. n) |-> MapSm(l, base, x[1], x[2])]
<1>6. \E g : Eq(g)
  <2>1. none \in A
    <3>1. << >> \in Seq(Placed) /\ Len(<< >>) = 0 /\ 0 \in Nat  OBVIOUS
    <3>2. Bytes(l.bits) \in Nat  BY LayoutFacts
    <3>3. none.done = 0 /\ none.list = << >>  BY <1>5
    <3>4. none \in [done : Nat, list : Seq(Placed)]  BY <1>5, <3>1
    <3>5. Building(none, base, Bytes(l.bits))  BY <3>1, <3>2, <3>3 DEF Building
    <3> QED BY <3>4, <3>5
  <2>2. \A m \in A, i \in 1 .. n : MapSm(l, base, m, i) \in A
    <3> SUFFICES ASSUME NEW m \in A, NEW i \in 1 .. n  PROVE MapSm(l, base, m, i) \in A  OBVIOUS
    <3>1. PICK done \in Nat, list \in Seq(Placed) : m = [done |-> done, list |-> list]  OBVIOUS
    <3>2. Building(m, base, Bytes(l.bits))  OBVIOUS
    <3>3. i \in 1 .. Len(l.sm)  BY <1>1
    <3>4. /\ MapSm(l, base, m, i) \in [done : Nat, list : Seq(Placed)]
          /\ Building(MapSm(l, base, m, i), base, Bytes(l.bits))
      BY <1>4, <3>1, <3>2, <3>3, MapSmBuilds
    <3> QED BY <3>4
  <2> HIDE DEF A
  <2>3. G \in [A \X (1 .. n) -> A]  BY <2>2
  <2>4. \A m \in A, i \in 1 .. n : G[m, i] = MapSm(l, base, m, i)  OBVIOUS
  <2> HIDE DEF G
  <2>5. PICK r \in [0 .. n -> A] : Steps(n, none, G, r)  BY <1>2, <2>1, <2>3, Recursion
  <2>6. \A i \in 0 .. n : i # 0 => i - 1 \in 0 .. n /\ i \in 1 .. n  BY <1>2
  <2>7. \A i \in 0 .. n : i # 0 => G[r[i - 1], i] = MapSm(l, base, r[i - 1], i)  BY <2>4, <2>6
  <2>8. Eq(r)  BY <2>5, <2>7 DEF Steps
  <2> QED BY <2>8
<1>7. PICK mapped : mapped = CHOOSE g : Eq(g)  OBVIOUS
<1>8. Eq(mapped)  BY <1>6, <1>7
<1>9. ByteFmmus(l, addr, bit) =
        [addr |-> base + mapped[n].done, bit |-> 0, list |-> mapped[n].list]
  BY <1>1, <1>3, <1>5, <1>7, Zenon DEF ByteFmmus
<1>10. mapped[0] = none /\ \A i \in 1 .. n : mapped[i] = MapSm(l, base, mapped[i - 1], i)
  <2>1. 0 \in 0 .. n /\ \A i \in 1 .. n : i \in 0 .. n /\ i # 0  BY <1>2
  <2> QED BY <1>8, <2>1
<1> QED BY <1>1, <1>3, <1>4, <1>5, <1>9, <1>10

LEMMA ByteFmmusLaid ==
  ASSUME NEW l, IsLayout(l), l.bits >= 8, NEW addr \in Nat, NEW bit \in 0 .. 7
  PROVE  /\ Laid(ByteFmmus(l, addr, bit), addr, bit)
         /\ ByteFmmus(l, addr, bit).bit = 0
         /\ ByteFmmus(l, addr, bit).addr <= addr + 1 + Bytes(l.bits)
<1>1. l.bits > 0
  <2>1. l.bits \in Nat  BY DEF IsLayout
  <2> QED BY <2>1
<1>2. PICK mapped, base :
        /\ base = StartByte(addr, bit) /\ base \in Nat
        /\ mapped[0] = [done |-> 0, list |-> << >>]
        /\ \A i \in 1 .. Len(l.sm) : mapped[i] = MapSm(l, base, mapped[i - 1], i)
        /\ ByteFmmus(l, addr, bit) =
             [addr |-> base + mapped[Len(l.sm)].done, bit |-> 0,
              list |-> mapped[Len(l.sm)].list]
  BY <1>1, ByteFmmusDefined
<1>3. PICK n : n = Len(l.sm)  OBVIOUS
<1>4. n \in Nat \ {0} /\ Bytes(l.bits) \in Nat  BY <1>1, <1>3, LayoutFacts
<1> DEFINE Fine(m) == /\ m \in [done : Nat, list : Seq(Placed)]
                      /\ Building(m, base, Bytes(l.bits))
           T == {i \in Nat : Fine(mapped[i]) /\ (i > 0 => mapped[i].list # << >>)}
<1>5. 0 \in T
  <2>1. << >> \in Seq(Placed) /\ Len(<< >>) = 0 /\ 0 \in Nat  OBVIOUS
  <2>2. mapped[0].done = 0 /\ mapped[0].list = << >>  BY <1>2
  <2>3. Building(mapped[0], base, Bytes(l.bits))  BY <1>4, <2>1, <2>2 DEF Building
  <2>4. mapped[0] \in [done : Nat, list : Seq(Placed)]  BY <1>2, <2>1
  <2> QED BY <2>3, <2>4
<1>6. ASSUME NEW i \in 1 .. n, i - 1 \in T  PROVE i \in T
  <2>1. PICK m : m = mapped[i - 1]  OBVIOUS
  <2>2. Fine(m) /\ (i - 1 > 0 => m.list # << >>)  BY <1>6, <2>1
  <2>3. PICK done \in Nat, list \in Seq(Placed) : m = [done |-> done, list |-> list]  BY <2>2
  <2>4. i \in 1 .. Len(l.sm) /\ m.list = list  BY <1>3, <2>3
  <2>5. PICK r : r = MapSm(l, base, m, i)  OBVIOUS
  <2>6. /\ r \in [done : Nat, list : Seq(Placed)] /\ Building(r, base, Bytes(l.bits))
        /\ Len(list) <= Len(r.list) /\ (i = 1 /\ list = << >> => r.list # << >>)
    BY <1>1, <1>2, <2>2, <2>3, <2>4, <2>5, MapSmBuilds
  <2>7. r.list # << >>
    <3>1. CASE list = << >>  BY <3>1, <2>2, <2>4, <2>6, <1>4
    <3>2. CASE list # << >>
      <4>1. r.list \in Seq(Placed) /\ Len(list) > 0  BY <2>6, <3>2
      <4> QED BY <4>1, <2>6
    <3> QED BY <3>1, <3>2
  <2>8. mapped[i] = r  BY <1>2, <2>1, <2>4, <2>5
  <2>9. i \in Nat  OBVIOUS
  <2> QED BY <2>6, <2>7, <2>8, <2>9
<1>7. n \in T
  <2>1. n \in Nat  BY <1>4
  <2>2. 0 .. n \subseteq T
    <3> HIDE DEF T
    <3> QED BY <2>1, <1>5, <1>6, UpTo
  <2> QED BY <2>1, <2>2
<1>8. PICK done, list : done = mapped[n].done /\ list = mapped[n].list  OBVIOUS
<1>9. Fine(mapped[n]) /\ list # << >>  BY <1>4, <1>7, <1>8
<1>10. done \in Nat /\ list \in Seq(Placed)  BY <1>8, <1>9
<1>11. PICK m : m = ByteFmmus(l, addr, bit)  OBVIOUS
<1>12. m.addr = base + done /\ m.bit = 0 /\ m.list = list  BY <1>2, <1>3, <1>8, <1>11
<1>13. 8 * addr + bit <= 8 * base
  BY <1>2 DEF StartByte
<1>14. ASSUME NEW k \in 1 .. Len(list)
       PROVE  /\ list[k].start \in Nat /\ list[k].len \in Nat \ {0}
              /\ base <= list[k].start /\ list[k].start + list[k].len <= base + done
              /\ FirstBit(list[k]) = 8 * list[k].start
              /\ LastBit(list[k]) = 8 * (list[k].start + list[k].len) - 1
              /\ list[1].start <= list[k].start
  <2>1. list[k] \in Placed  BY <1>10
  <2>2. list[k].start \in Nat /\ list[k].len \in Nat \ {0}  BY <2>1 DEF Placed
  <2>3. /\ base <= list[k].start /\ list[k].start + list[k].len <= base + done
        /\ list[k].startbit = 0 /\ list[k].endbit = 7 /\ list[1].start <= list[k].start
    BY <1>8, <1>9 DEF Building
  <2>4. FirstBit(list[k]) = 8 * list[k].start  BY <2>2, <2>3 DEF FirstBit
  <2>5. LastBit(list[k]) = 8 * (list[k].start + list[k].len) - 1  BY <2>2, <2>3 DEF LastBit
  <2> QED BY <2>2, <2>3, <2>4, <2>5
<1>15. ASSUME NEW k \in 1 .. Len(list)
       PROVE  8 * addr + bit <= FirstBit(list[k]) /\ LastBit(list[k]) < 8 * (base + done) + 0
  <2>1. PICK st, ln : st = list[k].start /\ ln = list[k].len  OBVIOUS
  <2>2. st \in Nat /\ ln \in Nat /\ base <= st /\ st + ln <= base + done  BY <1>14, <2>1
  <2>3. 8 * addr + bit <= 8 * st /\ 8 * (st + ln) - 1 < 8 * (base + done) + 0
    BY <2>2, <1>2, <1>10, <1>13
  <2> QED BY <1>14, <2>1, <2>3
<1>16. ASSUME NEW i \in 1 .. Len(list), NEW j \in 1 .. Len(list), i < j
       PROVE  LastBit(list[i]) < FirstBit(list[j])
  <2>1. list[i].start + list[i].len <= list[j].start  BY <1>8, <1>9, <1>16 DEF Building
  <2> QED BY <2>1, <1>14
<1>17. m.addr \in Nat /\ m.bit \in 0 .. 7 /\ 8 * addr + bit <= 8 * m.addr + m.bit
  BY <1>2, <1>10, <1>12, <1>13
<1>18. Laid(m, addr, bit)
  BY <1>9, <1>10, <1>12, <1>14, <1>15, <1>16, <1>17 DEF Laid
<1>19. base + done <= addr + 1 + Bytes(l.bits)
  <2>1. base <= addr + 1  BY <1>2 DEF StartByte
  <2>2. done <= Bytes(l.bits)  BY <1>8, <1>9 DEF Building
  <2> QED BY <1>2, <1>4, <1>10, <2>1, <2>2
<1> QED BY <1>11, <1>12, <1>18, <1>19

LEMMA FmmusLaid ==
  ASSUME NEW l, IsLayout(l), l.bits > 0, NEW addr \in Nat, NEW bit \in 0 .. 7
  PROVE  Laid(Fmmus(l, addr, bit), addr, bit)
<1>1. l.bits \in Nat  BY DEF IsLayout
<1>2. CASE l.bits < 8  BY <1>1, <1>2, BitFmmuLaid DEF Fmmus
<1>3. CASE l.bits >= 8  BY <1>1, <1>3, ByteFmmusLaid DEF Fmmus
<1> QED BY <1>1, <1>2, <1>3

\* And they are not longer than the slave's data and a byte that was begun.
LEMMA FmmusShort ==
  ASSUME NEW l, IsLayout(l), l.bits > 0, NEW addr \in Nat, NEW bit \in 0 .. 7,
         NEW m, m = Fmmus(l, addr, bit)
  PROVE  8 * m.addr + m.bit <= 8 * (addr + Bytes(l.bits) + 1)
<1>1. l.bits \in Nat /\ Bytes(l.bits) \in Nat \ {0}  BY LayoutFacts DEF IsLayout
<1>2. CASE l.bits < 8
  <2>1. m = BitFmmu(l, addr, bit)  BY <1>2 DEF Fmmus
  <2>2. PICK last : last = bit + l.bits - 1  OBVIOUS
  <2>3. m.addr = addr + (last + 1) \div 8 /\ m.bit = (last + 1) % 8
    BY <2>1, <2>2 DEF BitFmmu
  <2>4. last \in 0 .. 13  BY <1>1, <1>2, <2>2
  <2>5. last + 1 = 8 * ((last + 1) \div 8) + ((last + 1) % 8)  BY <2>4
  <2>6. PICK q, r : q = (last + 1) \div 8 /\ r = (last + 1) % 8  OBVIOUS
  <2>7. q \in Nat /\ r \in Nat  BY <2>4, <2>6
  <2>8. 8 * (addr + q) + r <= 8 * (addr + Bytes(l.bits) + 1)
    BY <1>1, <2>4, <2>5, <2>6, <2>7
  <2> QED BY <2>3, <2>6, <2>8
<1>3. CASE l.bits >= 8
  <2>1. m = ByteFmmus(l, addr, bit)  BY <1>1, <1>3 DEF Fmmus
  <2>2. m.bit = 0 /\ m.addr <= addr + 1 + Bytes(l.bits) /\ Laid(m, addr, bit)
    BY <1>3, <2>1, ByteFmmusLaid
  <2>3. m.addr \in Nat  BY <2>2 DEF Laid
  <2> QED BY <1>1, <2>2, <2>3
<1> QED BY <1>1, <1>2, <1>3
-----------------------------------------------------------------------------
(* What holds while the slaves are mapped.                                 *)

\* The first bit that is free, and the first that is not the group's.
FreeBit == 8 * LogAddr + BitPos
EndBit(g) == 8 * (Base(g) + GroupStride)

\* The image of a group does not reach into the addresses of the next one.
ImageFits == phase # "idle" => FreeBit <= EndBit(cur)

Records == [mapped : BOOLEAN, Obytes : Nat, Ibytes : Nat, nsegments : Nat,
            IOsegment : [0 .. MaxIOSegments - 1 -> Nat], Isegment : Nat, Ioffset : Nat,
            outputs : Nat, inputs : Nat, outputsWKC : Nat, inputsWKC : Nat, blockLRW : Nat]
SegType == [n : 0 .. MaxIOSegments - 1, size : Nat, list : [0 .. MaxIOSegments - 1 -> Nat]]
Pointers == [map : Groups \cup {NoMap}, off : Nat]

Running == phase # "idle"
MapTypes ==
  /\ setup \in Setups
  /\ out \in [Slaves -> setup.outs] /\ in \in [Slaves -> setup.ins]
  /\ fmmu \subseteq Fmmu
  /\ outputs \in [Slaves -> Pointers] /\ inputs \in [Slaves -> Pointers]
  /\ group \in [Groups -> Records]
  /\ phase \in {"idle", "out", "in", "both"} /\ slave \in 1 .. slavecount + 1
  /\ LogAddr \in Nat /\ BitPos \in 0 .. 7 /\ soLogAddr \in Nat /\ siLogAddr \in Nat
  /\ seg \in SegType

\* Where the pass over the slaves is.
PassRight ==
  /\ Running => cur \in Groups /\ ~group[cur].mapped /\ Base(cur) <= LogAddr
  /\ phase \in {"out", "in"} => ~Overlap
  /\ phase = "in" => Base(cur) + group[cur].Obytes <= LogAddr
  /\ phase = "both" =>
       /\ Overlap /\ BitPos = 0 /\ Base(cur) <= soLogAddr /\ Base(cur) <= siLogAddr
       /\ soLogAddr <= LogAddr /\ siLogAddr <= LogAddr
       /\ soLogAddr = LogAddr \/ siLogAddr = LogAddr

\* An FMMU of the group that is mapped.
BegunRight(f) ==
  /\ 8 * Base(cur) <= FirstBit(f) /\ LastBit(f) < FreeBit
  /\ phase = "out" => f.dir = "out"
  /\ phase = "in" /\ f.dir = "out" => f.start + f.len <= Base(cur) + group[cur].Obytes
  /\ phase = "in" /\ f.dir = "in" => Base(cur) + group[cur].Obytes <= f.start
  /\ phase = "both" => f.start + f.len <= IF f.dir = "out" THEN soLogAddr ELSE siLogAddr

\* An FMMU of a group that has been mapped is inside its outputs or inputs.
FirstInput(g) == IF Overlap THEN Base(g) ELSE Base(g) + group[g].Obytes
Inside(f) ==
  IF f.dir = "out"
  THEN Base(f.group) <= f.start /\ f.start + f.len <= Base(f.group) + group[f.group].Obytes
  ELSE /\ FirstInput(f.group) <= f.start
       /\ f.start + f.len <= FirstInput(f.group) + group[f.group].Ibytes

FmmuRight(f) ==
  \/ group[f.group].mapped /\ Inside(f)
  \/ Running /\ f.group = cur /\ BegunRight(f)

\* What a group has, it has within its addresses.
GroupFits(g) ==
  group[g].mapped =>
    /\ group[g].Obytes <= GroupStride
    /\ FirstInput(g) + group[g].Ibytes <= Base(g) + GroupStride

AllApart(S) ==
  \A f, h \in S : f # h /\ (f.dir = h.dir \/ ~Overlap) => BitsApart(f, h)

MapInv ==
  /\ MapTypes /\ PassRight
  /\ \A f \in fmmu : FmmuRight(f)
  /\ \A g \in Groups : GroupFits(g)
  /\ AllApart(fmmu)

-----------------------------------------------------------------------------
LEMMA FmmuFields ==
  ASSUME MapTypes, NEW f \in fmmu
  PROVE  /\ f.slave \in Slaves /\ f.group \in Groups /\ f.dir \in {"out", "in"}
         /\ f.start \in Nat /\ f.len \in Nat /\ f.len > 0
         /\ f.startbit \in 0 .. 7 /\ f.endbit \in 0 .. 7
         /\ FirstBit(f) \in Nat /\ LastBit(f) \in Nat
<1>1. f \in Fmmu  BY DEF MapTypes
<1>2. /\ f.slave \in Slaves /\ f.group \in Groups /\ f.dir \in {"out", "in"}
      /\ f.start \in Nat /\ f.len \in Nat \ {0}
      /\ f.startbit \in 0 .. 7 /\ f.endbit \in 0 .. 7
  BY <1>1 DEF Fmmu
<1>3. PICK st, ln, sb, eb :
        st = f.start /\ ln = f.len /\ sb = f.startbit /\ eb = f.endbit  OBVIOUS
<1>4. st \in Nat /\ ln \in Nat /\ ln > 0 /\ sb \in Nat /\ eb \in Nat  BY <1>2, <1>3
<1>5. 8 * st + sb \in Nat /\ 8 * (st + ln - 1) + eb \in Nat  BY <1>4
<1>6. FirstBit(f) = 8 * st + sb /\ LastBit(f) = 8 * (st + ln - 1) + eb
  BY <1>3 DEF FirstBit, LastBit
<1> QED BY <1>2, <1>5, <1>6

LEMMA SetupFacts ==
  ASSUME MapTypes
  PROVE  /\ Groups \subseteq Nat /\ Overlap \in BOOLEAN /\ GroupStride \in Nat
         /\ Slaves = 1 .. slavecount /\ slavecount \in Nat
         /\ MaxIOSegments \in Nat \ {0} /\ Limit \in Nat
         /\ \A s \in Slaves : IsLayout(out[s]) /\ IsLayout(in[s])
         /\ \A g \in Groups : Base(g) \in Nat /\ EndBit(g) \in Nat
<1>1. PICK u \in Setups : u = setup  BY DEF MapTypes
<1>2. /\ Limit \in Nat /\ GroupStride \in Nat /\ MaxIOSegments \in Nat \ {0}
      /\ u.group \in Seq(Nat) /\ u.groups \subseteq Nat /\ u.overlap \in BOOLEAN
      /\ \A l \in u.outs \cup u.ins : IsLayout(l)
  BY <1>1, LayoutAssumption
<1>3. Groups \subseteq Nat /\ Overlap \in BOOLEAN  BY <1>1, <1>2 DEF Groups, Overlap
<1>4. Slaves = 1 .. slavecount /\ slavecount \in Nat
  BY <1>1, <1>2 DEF Slaves, slavecount, SlaveGroup
<1>5. \A s \in Slaves : IsLayout(out[s]) /\ IsLayout(in[s])
  BY <1>1, <1>2 DEF MapTypes
<1>6. ASSUME NEW g \in Groups  PROVE Base(g) \in Nat /\ EndBit(g) \in Nat
  <2>1. g \in Nat /\ GroupStride \in Nat  BY <1>2, <1>3
  <2>2. g * GroupStride \in Nat  BY <2>1
  <2> QED BY <2>1, <2>2 DEF Base, EndBit
<1> QED BY <1>2, <1>3, <1>4, <1>5, <1>6

\* The addresses of different groups.
LEMMA Strides ==
  ASSUME NEW g \in Nat, NEW h \in Nat, g < h, NEW k \in Nat, k = GroupStride
  PROVE  Base(g) + GroupStride <= Base(h)
<1>1. PICK d \in Nat : h = g + 1 + d
  <2>1. h - g - 1 \in Nat /\ h = g + 1 + (h - g - 1)  OBVIOUS
  <2> QED BY <2>1
<1>2. h * k = g * k + k + d * k /\ d * k \in Nat /\ g * k \in Nat
  <2>1. (g + 1 + d) * k = g * k + k + d * k  OBVIOUS
  <2> QED BY <1>1, <2>1
<1> QED BY <1>2 DEF Base
-----------------------------------------------------------------------------
(* FMMUs that are added are apart from all earlier ones.                   *)

\* The bits of a group that has been mapped are within its addresses.
LEMMA GroupBits ==
  ASSUME MapTypes, NEW f \in fmmu, Inside(f), GroupFits(f.group), group[f.group].mapped
  PROVE  8 * Base(f.group) <= FirstBit(f) /\ LastBit(f) < EndBit(f.group)
<1>1. PICK g : g = f.group  OBVIOUS
<1>2. PICK st, ln, sb, eb :
        st = f.start /\ ln = f.len /\ sb = f.startbit /\ eb = f.endbit  OBVIOUS
<1>3. /\ g \in Groups /\ st \in Nat /\ ln \in Nat /\ ln > 0 /\ sb \in 0 .. 7 /\ eb \in 0 .. 7
      /\ f.dir \in {"out", "in"}
  BY <1>1, <1>2, FmmuFields
<1>4. PICK b, k : b = Base(g) /\ k = GroupStride  OBVIOUS
<1>5. b \in Nat /\ k \in Nat  BY <1>3, <1>4, SetupFacts
<1>6. group[g].Obytes \in Nat /\ group[g].Ibytes \in Nat
  <2>1. group[g] \in Records  BY <1>3 DEF MapTypes
  <2> QED BY <2>1 DEF Records
<1>7. PICK o, i : o = group[g].Obytes /\ i = group[g].Ibytes  OBVIOUS
<1>8. b <= st /\ st + ln <= b + k
  <2>1. o \in Nat /\ i \in Nat  BY <1>6, <1>7
  <2>2. FirstInput(g) \in {b, b + o}  BY <1>4, <1>7 DEF FirstInput
  <2>3. o <= k /\ FirstInput(g) + i <= b + k  BY <1>1, <1>4, <1>7 DEF GroupFits
  <2>4. CASE f.dir = "out"
    <3>1. b <= st /\ st + ln <= b + o  BY <1>1, <1>2, <1>4, <1>7, <2>4 DEF Inside
    <3> QED BY <3>1, <2>1, <2>3, <1>3, <1>5
  <2>5. CASE f.dir = "in"
    <3>1. PICK a : a = FirstInput(g)  OBVIOUS
    <3>2. a <= st /\ st + ln <= a + i  BY <1>1, <1>2, <1>7, <2>5, <3>1 DEF Inside
    <3>3. a \in Nat /\ b <= a  BY <2>1, <2>2, <3>1, <1>5
    <3> QED BY <3>1, <3>2, <3>3, <2>1, <2>3, <1>3, <1>5
  <2> QED BY <1>3, <2>4, <2>5
<1>9. FirstBit(f) = 8 * st + sb /\ LastBit(f) = 8 * (st + ln - 1) + eb
  BY <1>2 DEF FirstBit, LastBit
<1>10. EndBit(g) = 8 * (b + k)  BY <1>4 DEF EndBit
<1>11. 8 * b <= 8 * st + sb /\ 8 * (st + ln - 1) + eb < 8 * (b + k)
  BY <1>3, <1>5, <1>8
<1> QED BY <1>1, <1>4, <1>9, <1>10, <1>11

\* Bits from the free bit on, within the addresses of the running group, are in no FMMU.
LEMMA OldApart ==
  ASSUME MapInv, Running, NEW f \in fmmu,
         NEW first \in Nat, NEW last \in Nat, FreeBit <= first, last < EndBit(cur)
  PROVE  LastBit(f) < first \/ last < FirstBit(f)
<1>1. MapTypes /\ FmmuRight(f) /\ GroupFits(f.group) /\ cur \in Groups
  BY FmmuFields DEF MapInv, PassRight
<1>2. /\ FirstBit(f) \in Nat /\ LastBit(f) \in Nat /\ FreeBit \in Nat /\ f.group \in Groups
  <2>1. LogAddr \in Nat /\ BitPos \in Nat  BY <1>1 DEF MapTypes
  <2> QED BY <1>1, <2>1, FmmuFields DEF FreeBit
<1>3. CASE f.group = cur
  <2>1. BegunRight(f)  BY <1>1, <1>3 DEF FmmuRight, MapInv, PassRight
  <2>2. LastBit(f) < FreeBit  BY <2>1 DEF BegunRight
  <2> QED BY <2>2, <1>2
<1>4. CASE f.group # cur
  <2>1. group[f.group].mapped /\ Inside(f)  BY <1>1, <1>4 DEF FmmuRight
  <2>2. 8 * Base(f.group) <= FirstBit(f) /\ LastBit(f) < EndBit(f.group)
    BY <1>1, <2>1, GroupBits
  <2>3. f.group \in Nat /\ cur \in Nat /\ GroupStride \in Nat  BY <1>1, <1>2, SetupFacts
  <2>4. Base(f.group) \in Nat /\ Base(cur) \in Nat  BY <1>1, <1>2, SetupFacts
  <2>5. 8 * Base(cur) <= FreeBit
    <3>1. Base(cur) <= LogAddr /\ LogAddr \in Nat /\ BitPos \in Nat
      BY <1>1 DEF MapInv, PassRight, MapTypes
    <3> QED BY <3>1, <2>4 DEF FreeBit
  <2>6. CASE f.group < cur
    <3>1. Base(f.group) + GroupStride <= Base(cur)  BY <2>3, <2>6, Strides
    <3>2. EndBit(f.group) <= 8 * Base(cur)  BY <3>1, <2>3, <2>4 DEF EndBit
    <3>3. EndBit(f.group) \in Nat  BY <1>1, <1>2, SetupFacts
    <3> QED BY <3>2, <3>3, <2>2, <2>4, <2>5, <1>2
  <2>7. CASE cur < f.group
    <3>1. Base(cur) + GroupStride <= Base(f.group)  BY <2>3, <2>7, Strides
    <3>2. EndBit(cur) <= 8 * Base(f.group)  BY <3>1, <2>3, <2>4 DEF EndBit
    <3>3. EndBit(cur) \in Nat  BY <1>1, SetupFacts
    <3> QED BY <3>2, <3>3, <2>2, <2>4, <1>2
  <2> QED BY <1>4, <2>3, <2>6, <2>7
<1> QED BY <1>3, <1>4

\* FMMUs whose bits are from the free bit on, up to one of the group.
Fresh(new, end) ==
  /\ new \subseteq Fmmu
  /\ \A p \in new : /\ p.group = cur /\ p.slave = slave
                    /\ FirstBit(p) \in Nat /\ LastBit(p) \in Nat
                    /\ FreeBit <= FirstBit(p) /\ LastBit(p) < end

LEMMA StaysApart ==
  ASSUME MapInv, Running, NEW new, NEW end \in Nat, Fresh(new, end), end <= EndBit(cur),
         AllApart(new)
  PROVE  AllApart(fmmu \cup new)
<1>1. ASSUME NEW f \in fmmu, NEW p \in new  PROVE BitsApart(f, p) /\ BitsApart(p, f)
  <2>1. FirstBit(p) \in Nat /\ LastBit(p) \in Nat /\ FreeBit <= FirstBit(p)
        /\ LastBit(p) < EndBit(cur)
    <3>1. EndBit(cur) \in Nat  BY SetupFacts DEF MapInv, PassRight
    <3> QED BY <3>1 DEF Fresh
  <2>2. LastBit(f) < FirstBit(p) \/ LastBit(p) < FirstBit(f)  BY <2>1, OldApart
  <2> QED BY <2>2 DEF BitsApart
<1> QED BY <1>1 DEF AllApart, MapInv

LEMMA ProgrammedFresh ==
  ASSUME MapTypes, Running, cur \in Groups, slave \in Slaves, NEW dir \in {"out", "in"},
         NEW m, NEW bit \in 0 .. 7, Laid(m, LogAddr, bit), BitPos = bit
  PROVE  /\ Fresh(Programmed(dir, m.list), 8 * m.addr + m.bit)
         /\ AllApart(Programmed(dir, m.list))
         /\ \A p \in Programmed(dir, m.list) : p.dir = dir
<1>1. PICK list : list = m.list  OBVIOUS
<1>2. list \in Seq(Placed)  BY <1>1 DEF Laid
<1> DEFINE P(i) == [slave |-> slave, group |-> cur, dir |-> dir, phys |-> list[i].phys,
                    start |-> list[i].start, startbit |-> list[i].startbit,
                    len |-> list[i].len, endbit |-> list[i].endbit]
<1>3. Programmed(dir, list) = {P(i) : i \in 1 .. Len(list)}
  <2>1. DOMAIN list = 1 .. Len(list)  BY <1>2
  <2> QED BY <2>1 DEF Programmed
<1>4. ASSUME NEW i \in 1 .. Len(list)
      PROVE  /\ P(i) \in Fmmu /\ P(i).slave = slave /\ P(i).group = cur /\ P(i).dir = dir
             /\ FirstBit(P(i)) = FirstBit(list[i]) /\ LastBit(P(i)) = LastBit(list[i])
             /\ FirstBit(P(i)) \in Nat /\ LastBit(P(i)) \in Nat
  <2>1. list[i] \in Placed  BY <1>2
  <2>2. PICK x \in Placed : x = list[i]  BY <2>1
  <2>3. PICK ph, st, sb, ln, eb : /\ ph = x.phys /\ st = x.start /\ sb = x.startbit
                                  /\ ln = x.len /\ eb = x.endbit  OBVIOUS
  <2>4. ph \in Nat /\ st \in Nat /\ sb \in 0 .. 7 /\ ln \in Nat \ {0} /\ eb \in 0 .. 7
    BY <2>2, <2>3 DEF Placed
  <2>5. PICK p : p = P(i)  OBVIOUS
  <2>6. p = [slave |-> slave, group |-> cur, dir |-> dir, phys |-> ph, start |-> st,
             startbit |-> sb, len |-> ln, endbit |-> eb]  BY <2>2, <2>3, <2>5
  <2>7. p \in Fmmu  BY <2>4, <2>6 DEF Fmmu
  <2>8. FirstBit(p) = 8 * st + sb /\ LastBit(p) = 8 * (st + ln - 1) + eb
    BY <2>6 DEF FirstBit, LastBit
  <2>9. FirstBit(x) = 8 * st + sb /\ LastBit(x) = 8 * (st + ln - 1) + eb
    BY <2>3 DEF FirstBit, LastBit
  <2>10. 8 * st + sb \in Nat /\ 8 * (st + ln - 1) + eb \in Nat
    <3>1. st \in Nat /\ sb \in Nat /\ ln \in Nat /\ ln > 0 /\ eb \in Nat  BY <2>4
    <3> QED BY <3>1
  <2>11. p.slave = slave /\ p.group = cur /\ p.dir = dir  BY <2>6
  <2> QED BY <2>2, <2>5, <2>7, <2>8, <2>9, <2>10, <2>11
<1> HIDE DEF P
<1>5. \A i \in 1 .. Len(list) :
        FreeBit <= FirstBit(list[i]) /\ LastBit(list[i]) < 8 * m.addr + m.bit
  BY <1>1 DEF Laid, FreeBit
<1>6. \A i, j \in 1 .. Len(list) : i < j => LastBit(list[i]) < FirstBit(list[j])
  BY <1>1 DEF Laid
<1>7. Fresh(Programmed(dir, list), 8 * m.addr + m.bit)
  BY <1>3, <1>4, <1>5 DEF Fresh
<1>8. AllApart(Programmed(dir, list))
  <2>1. ASSUME NEW i \in 1 .. Len(list), NEW j \in 1 .. Len(list), P(i) # P(j)
        PROVE  BitsApart(P(i), P(j))
    <3>1. Len(list) \in Nat  BY <1>2
    <3>2. i < j \/ j < i  BY <2>1, <3>1
    <3>3. LastBit(list[i]) < FirstBit(list[j]) \/ LastBit(list[j]) < FirstBit(list[i])
      BY <1>6, <3>2
    <3> QED BY <1>4, <3>3 DEF BitsApart
  <2> QED BY <1>3, <2>1 DEF AllApart
<1>9. \A p \in Programmed(dir, list) : p.dir = dir  BY <1>3, <1>4
<1> QED BY <1>1, <1>7, <1>8, <1>9
-----------------------------------------------------------------------------
(* Each step keeps the invariant.                                          *)

LEMMA GrowType ==
  ASSUME NEW sg \in SegType, NEW diff \in Nat, Limit \in Nat, MaxIOSegments \in Nat \ {0}
  PROVE  Grow(sg, diff) \in SegType
<1>1. PICK n \in 0 .. MaxIOSegments - 1, size \in Nat, list \in [0 .. MaxIOSegments - 1 -> Nat] :
        sg = [n |-> n, size |-> size, list |-> list]
  BY DEF SegType
<1>2. CASE size + diff <= Limit
  <2>1. Grow(sg, diff) = [n |-> n, size |-> size + diff, list |-> list]
    BY <1>1, <1>2 DEF Grow
  <2>2. size + diff \in Nat  OBVIOUS
  <2> QED BY <2>1, <2>2 DEF SegType
<1>3. CASE ~ (size + diff <= Limit)
  <2>1. PICK closed : closed = [list EXCEPT ![n] = size]  OBVIOUS
  <2>2. closed \in [0 .. MaxIOSegments - 1 -> Nat]  BY <2>1
  <2>3. Grow(sg, diff) = IF n < MaxIOSegments - 1
                         THEN [n |-> n + 1, size |-> diff, list |-> closed]
                         ELSE [n |-> n, size |-> size, list |-> closed]
    <3>1. Close(sg) = closed /\ sg.n = n /\ ~ (sg.size + diff <= Limit)
      BY <1>1, <1>3, <2>1 DEF Close
    <3>2. [sg EXCEPT !.list = closed] = [n |-> n, size |-> size, list |-> closed]  BY <1>1
    <3> QED BY <3>1, <3>2, Zenon DEF Grow
  <2>4. n < MaxIOSegments - 1 => n + 1 \in 0 .. MaxIOSegments - 1  OBVIOUS
  <2> QED BY <2>2, <2>3, <2>4 DEF SegType
<1> QED BY <1>2, <1>3

LEMMA PointAtType ==
  ASSUME MapTypes, cur \in Groups, Base(cur) <= LogAddr, NEW p \in Pointers,
         NEW m, NEW bit \in 0 .. 7, Laid(m, LogAddr, bit)
  PROVE  PointAt(p, m.list) \in Pointers /\ Head(m.list) = m.list[1] /\ Base(cur) <= m.list[1].start
<1>1. PICK h : h = m.list[1]  OBVIOUS
<1>2. m.list \in Seq(Placed) /\ 1 \in 1 .. Len(m.list) /\ Head(m.list) = h
  BY <1>1 DEF Laid
<1>3. h \in Placed  BY <1>1, <1>2
<1>4. PICK st, sb : st = h.start /\ sb = h.startbit  OBVIOUS
<1>5. st \in Nat /\ sb \in 0 .. 7  BY <1>3, <1>4 DEF Placed
<1>6. 8 * LogAddr + bit <= 8 * st + sb  BY <1>1, <1>2, <1>4 DEF Laid, FirstBit
<1>7. LogAddr \in Nat /\ Base(cur) \in Nat  BY SetupFacts DEF MapTypes
<1>8. Base(cur) <= st  BY <1>5, <1>6, <1>7
<1>9. st - Base(cur) \in Nat  BY <1>5, <1>7, <1>8
<1>10. [map |-> cur, off |-> h.start - Base(cur)] \in Pointers  BY <1>4, <1>9 DEF Pointers
<1> QED BY <1>1, <1>2, <1>4, <1>8, <1>10 DEF PointAt

\* What a step that only adds FMMUs leaves as it was.
SameSizes ==
  /\ setup' = setup /\ cur' = cur /\ phase' = phase
  /\ DOMAIN group' = DOMAIN group
  /\ \A g \in Groups : /\ group'[g].mapped = group[g].mapped
                       /\ group'[g].Obytes = group[g].Obytes
                       /\ group'[g].Ibytes = group[g].Ibytes

LEMMA SameSetup ==
  ASSUME setup' = setup
  PROVE  /\ Groups' = Groups /\ SlaveGroup' = SlaveGroup /\ Slaves' = Slaves
         /\ slavecount' = slavecount /\ Overlap' = Overlap /\ BlockLRW' = BlockLRW
         /\ Fmmu' = Fmmu /\ Pointers' = Pointers /\ SegType' = SegType
  BY DEF Groups, SlaveGroup, Slaves, slavecount, Overlap, BlockLRW, Fmmu, Pointers, SegType

LEMMA OldStay ==
  ASSUME MapInv, Running, SameSizes,
         FreeBit <= FreeBit', FreeBit' \in Nat, soLogAddr <= soLogAddr', siLogAddr <= siLogAddr',
         soLogAddr' \in Nat, siLogAddr' \in Nat
  PROVE  (\A f \in fmmu : FmmuRight(f)') /\ (\A g \in Groups' : GroupFits(g)')
<1>1. MapTypes /\ cur \in Groups  BY DEF MapInv, PassRight
<1>2. ASSUME NEW f \in fmmu  PROVE FmmuRight(f)'
  <2>1. /\ f.group \in Groups /\ f.start \in Nat /\ f.len \in Nat
        /\ FirstBit(f) \in Nat /\ LastBit(f) \in Nat
    BY <1>1, FmmuFields
  <2>2. CASE group[f.group].mapped /\ Inside(f)
    <3>1. group'[f.group].mapped  BY <2>1, <2>2 DEF SameSizes
    <3>2. FirstInput(f.group)' = FirstInput(f.group)
      BY <2>1 DEF FirstInput, SameSizes, Overlap
    <3>3. Inside(f)'  BY <2>1, <2>2, <3>2 DEF Inside, SameSizes
    <3> QED BY <3>1, <3>3 DEF FmmuRight
  <2>3. CASE f.group = cur /\ BegunRight(f)
    <3>1. LastBit(f) < FreeBit'
      <4>1. FreeBit \in Nat
        <5>1. LogAddr \in Nat /\ BitPos \in Nat  BY <1>1 DEF MapTypes
        <5> QED BY <5>1 DEF FreeBit
      <4> QED BY <2>1, <2>3, <4>1 DEF BegunRight
    <3>2. soLogAddr \in Nat /\ siLogAddr \in Nat  BY <1>1 DEF MapTypes
    <3>3. phase = "both" => f.start + f.len <= (IF f.dir = "out" THEN soLogAddr' ELSE siLogAddr')
      <4>1. PICK e : e = f.start + f.len  OBVIOUS
      <4>2. e \in Nat  BY <2>1, <4>1
      <4>3. CASE phase = "both" /\ f.dir = "out"
        <5>1. e <= soLogAddr  BY <2>3, <4>1, <4>3 DEF BegunRight
        <5>2. e <= soLogAddr'  BY <5>1, <4>2, <3>2
        <5> QED BY <5>2, <4>1, <4>3
      <4>4. CASE phase = "both" /\ f.dir # "out"
        <5>1. e <= siLogAddr  BY <2>3, <4>1, <4>4 DEF BegunRight
        <5>2. e <= siLogAddr'  BY <5>1, <4>2, <3>2
        <5> QED BY <5>2, <4>1, <4>4
      <4> QED BY <4>3, <4>4
    <3>4. group'[cur].Obytes = group[cur].Obytes /\ cur' = cur /\ phase' = phase
      BY <1>1 DEF SameSizes
    <3>5. BegunRight(f)'
      BY <2>3, <3>1, <3>3, <3>4 DEF BegunRight
    <3> QED BY <2>3, <3>4, <3>5 DEF FmmuRight, Running
  <2> QED BY <2>2, <2>3 DEF MapInv, FmmuRight
<1>3. ASSUME NEW g \in Groups  PROVE GroupFits(g)'
  <2>1. FirstInput(g)' = FirstInput(g)  BY DEF FirstInput, SameSizes, Overlap
  <2>2. GroupFits(g)  BY DEF MapInv
  <2> QED BY <2>1, <2>2 DEF GroupFits, SameSizes
<1>4. Groups' = Groups  BY SameSetup DEF SameSizes
<1> QED BY <1>2, <1>3, <1>4

\* The counters of the running group change, its sizes do not.
LEMMA CountersOnly ==
  ASSUME MapTypes, cur \in Groups, NEW a \in Nat, NEW b \in Nat, NEW c \in Nat,
         group' = [group EXCEPT ![cur] = Counted(group[cur], a, b, c)]
  PROVE  /\ group' \in [Groups -> Records] /\ DOMAIN group' = DOMAIN group
         /\ \A g \in Groups : /\ group'[g].mapped = group[g].mapped
                              /\ group'[g].Obytes = group[g].Obytes
                              /\ group'[g].Ibytes = group[g].Ibytes
                              /\ group'[g].Isegment = group[g].Isegment
                              /\ group'[g].Ioffset = group[g].Ioffset
                              /\ group'[g].IOsegment = group[g].IOsegment
                              /\ group'[g].nsegments = group[g].nsegments
                              /\ group'[g].outputs = group[g].outputs
                              /\ group'[g].inputs = group[g].inputs
<1>1. group \in [Groups -> Records]  BY DEF MapTypes
<1>2. PICK r \in Records : r = group[cur]  BY <1>1
<1>3. PICK q : q = Counted(r, a, b, c)
  OBVIOUS
<1>4. PICK m \in BOOLEAN, o \in Nat, i \in Nat, n \in Nat,
           l \in [0 .. MaxIOSegments - 1 -> Nat], is \in Nat, io \in Nat, po \in Nat,
           pi \in Nat, wo \in Nat, wi \in Nat, bl \in Nat :
        r = [mapped |-> m, Obytes |-> o, Ibytes |-> i, nsegments |-> n, IOsegment |-> l,
             Isegment |-> is, Ioffset |-> io, outputs |-> po, inputs |-> pi,
             outputsWKC |-> wo, inputsWKC |-> wi, blockLRW |-> bl]
  BY DEF Records
<1>5. q = [mapped |-> m, Obytes |-> o, Ibytes |-> i, nsegments |-> n, IOsegment |-> l,
           Isegment |-> is, Ioffset |-> io, outputs |-> po, inputs |-> pi,
           outputsWKC |-> wo + a, inputsWKC |-> wi + b, blockLRW |-> bl + c]
  <2>1. PICK x, y, z : x = wo + a /\ y = wi + b /\ z = bl + c  OBVIOUS
  <2>2. r.outputsWKC = wo /\ r.inputsWKC = wi /\ r.blockLRW = bl  BY <1>4
  <2>3. q = [[[r EXCEPT !.outputsWKC = x] EXCEPT !.inputsWKC = y] EXCEPT !.blockLRW = z]
    BY <1>3, <2>1, <2>2 DEF Counted
  <2> QED BY <1>4, <2>1, <2>3
<1>6. q \in Records
  <2>1. wo + a \in Nat /\ wi + b \in Nat /\ bl + c \in Nat  OBVIOUS
  <2> QED BY <1>5, <2>1 DEF Records
<1>7. group' = [group EXCEPT ![cur] = q]  BY <1>2, <1>3
<1>8. /\ q.mapped = r.mapped /\ q.Obytes = r.Obytes /\ q.Ibytes = r.Ibytes
      /\ q.Isegment = r.Isegment /\ q.Ioffset = r.Ioffset /\ q.IOsegment = r.IOsegment
      /\ q.nsegments = r.nsegments /\ q.outputs = r.outputs /\ q.inputs = r.inputs
  BY <1>4, <1>5
<1> QED BY <1>1, <1>2, <1>6, <1>7, <1>8

\* One more slave in the direction of the pass.
LEMMA OneMore ==
  ASSUME MapInv, NEW dir \in {"out", "in"}, phase = dir, slave \in Slaves,
         NEW l, IsLayout(l), l.bits > 0, NEW m, m = Fmmus(l, LogAddr, BitPos),
         SameSizes, LogAddr' = m.addr, BitPos' = m.bit, seg' = Grow(seg, m.addr - LogAddr),
         Program(dir, m.list), soLogAddr' = soLogAddr, siLogAddr' = siLogAddr, ImageFits'
  PROVE  /\ fmmu' \subseteq Fmmu /\ LogAddr' \in Nat /\ BitPos' \in 0 .. 7 /\ seg' \in SegType
         /\ LogAddr <= LogAddr' /\ Laid(m, LogAddr, BitPos)
         /\ Fresh(Programmed(dir, m.list), FreeBit') /\ FreeBit <= FreeBit'
         /\ \A f \in fmmu' : FmmuRight(f)'
         /\ \A g \in Groups' : GroupFits(g)'
         /\ AllApart(fmmu)'
<1>1. MapTypes /\ Running /\ cur \in Groups /\ Base(cur) <= LogAddr
  BY DEF MapInv, PassRight, Running
<1>2. LogAddr \in Nat /\ BitPos \in 0 .. 7 /\ soLogAddr \in Nat /\ siLogAddr \in Nat
      /\ seg \in SegType /\ fmmu \subseteq Fmmu
  BY <1>1 DEF MapTypes
<1>3. Laid(m, LogAddr, BitPos)  BY <1>2, FmmusLaid
<1>4. m.addr \in Nat /\ m.bit \in 0 .. 7 /\ 8 * LogAddr + BitPos <= 8 * m.addr + m.bit
  BY <1>3 DEF Laid
<1>5. LogAddr <= m.addr  BY <1>2, <1>4
<1>6. FreeBit = 8 * LogAddr + BitPos /\ FreeBit' = 8 * m.addr + m.bit
      /\ FreeBit \in Nat /\ FreeBit' \in Nat
  BY <1>2, <1>4 DEF FreeBit
<1>7. seg' \in SegType
  <2>1. m.addr - LogAddr \in Nat  BY <1>2, <1>4, <1>5
  <2>2. Limit \in Nat /\ MaxIOSegments \in Nat \ {0}  BY <1>1, SetupFacts
  <2> QED BY <1>2, <2>1, <2>2, GrowType
<1>8. PICK new : new = Programmed(dir, m.list)  OBVIOUS
<1>9. Fresh(new, FreeBit') /\ AllApart(new) /\ \A p \in new : p.dir = dir
  BY <1>1, <1>2, <1>3, <1>6, <1>8, ProgrammedFresh
<1>10. fmmu' = fmmu \cup new /\ new \subseteq Fmmu  BY <1>8, <1>9 DEF Program, Fresh
<1>11. FreeBit' <= EndBit(cur)
  <2>1. cur' = cur /\ phase' # "idle"  BY <1>1 DEF SameSizes, Running
  <2>2. FreeBit' <= EndBit(cur)'  BY <2>1 DEF ImageFits
  <2>3. EndBit(cur)' = EndBit(cur)  BY <2>1 DEF EndBit, Base
  <2> QED BY <2>2, <2>3
<1>12. AllApart(fmmu \cup new)  BY <1>1, <1>6, <1>9, <1>11, StaysApart
<1>13. AllApart(fmmu)'
  <2>1. Overlap' = Overlap  BY SameSetup DEF SameSizes
  <2> QED BY <1>10, <1>12, <2>1 DEF AllApart
<1>14. (\A f \in fmmu : FmmuRight(f)') /\ (\A g \in Groups' : GroupFits(g)')
  BY <1>1, <1>2, <1>4, <1>6, OldStay
<1>15. ASSUME NEW p \in new  PROVE FmmuRight(p)'
  <2>1. /\ p \in Fmmu /\ p.group = cur /\ FirstBit(p) \in Nat /\ LastBit(p) \in Nat
        /\ FreeBit <= FirstBit(p) /\ LastBit(p) < FreeBit' /\ p.dir = dir
    BY <1>9 DEF Fresh
  <2>2. cur' = cur /\ phase' = dir /\ Running'  BY <1>1 DEF SameSizes, Running
  <2>3. 8 * Base(cur) <= FirstBit(p)
    <3>1. Base(cur) \in Nat  BY <1>1, SetupFacts
    <3> QED BY <1>1, <1>2, <1>6, <2>1, <3>1
  <2>4. dir = "in" => Base(cur) + group'[cur].Obytes <= p.start
    <3> HAVE dir = "in"
    <3>1. Base(cur) + group[cur].Obytes <= LogAddr  BY DEF MapInv, PassRight
    <3>2. group'[cur].Obytes = group[cur].Obytes  BY <1>1 DEF SameSizes
    <3>3. PICK st, sb : st = p.start /\ sb = p.startbit  OBVIOUS
    <3>4. st \in Nat /\ sb \in 0 .. 7  BY <2>1, <3>3 DEF Fmmu
    <3>5. FirstBit(p) = 8 * st + sb  BY <3>3 DEF FirstBit
    <3>6. LogAddr <= st  BY <1>2, <1>6, <2>1, <3>4, <3>5
    <3>7. group[cur] \in Records  BY <1>1 DEF MapTypes
    <3>8. group[cur].Obytes \in Nat  BY <3>7 DEF Records
    <3>9. Base(cur) \in Nat  BY <1>1, SetupFacts
    <3> QED BY <3>1, <3>2, <3>3, <3>4, <3>6, <3>8, <3>9, <1>2
  <2>5. BegunRight(p)'
    <3>1. Base(cur)' = Base(cur)  BY <2>2 DEF Base
    <3>2. 8 * Base(cur)' <= FirstBit(p) /\ LastBit(p) < FreeBit'  BY <2>1, <2>3, <3>1
    <3>3. dir = "in" => Base(cur)' + group'[cur'].Obytes <= p.start  BY <2>2, <2>4, <3>1
    <3> QED BY <2>1, <2>2, <3>2, <3>3 DEF BegunRight
  <2> QED BY <2>1, <2>2, <2>5 DEF FmmuRight
<1>16. fmmu' \subseteq Fmmu  BY <1>2, <1>10
<1>17. \A f \in fmmu' : FmmuRight(f)'  BY <1>10, <1>14, <1>15
<1> QED BY <1>3, <1>4, <1>5, <1>6, <1>7, <1>8, <1>9, <1>13, <1>14, <1>16, <1>17

LEMMA SlaveOfPass ==
  ASSUME MapTypes, slave <= slavecount
  PROVE  slave \in Slaves /\ slave + 1 \in 1 .. slavecount + 1
<1>1. Slaves = 1 .. slavecount /\ slavecount \in Nat  BY SetupFacts
<1>2. slave \in 1 .. slavecount + 1  BY DEF MapTypes
<1> QED BY <1>1, <1>2

LEMMA MapOutputKeeps ==
  ASSUME MapInv, MapOutput, ImageFits'
  PROVE  MapInv'
<1>1. MapTypes /\ phase = "out" /\ cur \in Groups /\ ~group[cur].mapped /\ Base(cur) <= LogAddr
      /\ ~Overlap
  BY DEF MapInv, PassRight, Running, MapOutput
<1>2. slave \in Slaves /\ slave + 1 \in 1 .. slavecount + 1
  BY <1>1, SlaveOfPass DEF MapOutput
<1>3. PICK m : m = Fmmus(out[slave], LogAddr, BitPos)  OBVIOUS
<1>4. /\ LogAddr' = m.addr /\ BitPos' = m.bit /\ seg' = Grow(seg, m.addr - LogAddr)
      /\ Program("out", m.list)
      /\ outputs' = [outputs EXCEPT ![slave] = PointAt(outputs[slave], m.list)]
      /\ group' = [group EXCEPT ![cur] = Counted(group[cur], Len(m.list), 0, 0)]
      /\ slave' = slave + 1
      /\ setup' = setup /\ out' = out /\ in' = in /\ inputs' = inputs
      /\ phase' = phase /\ cur' = cur /\ soLogAddr' = soLogAddr /\ siLogAddr' = siLogAddr
  BY <1>3 DEF MapOutput
<1>5. IsLayout(out[slave]) /\ out[slave].bits > 0
  <2>1. HasOut(slave)  BY DEF MapOutput
  <2> QED BY <1>1, <1>2, <2>1, SetupFacts DEF HasOut
<1>6. LogAddr \in Nat /\ BitPos \in 0 .. 7  BY <1>1 DEF MapTypes
<1>7. Laid(m, LogAddr, BitPos)  BY <1>3, <1>5, <1>6, FmmusLaid
<1>8. /\ group' \in [Groups -> Records] /\ SameSizes
  <2>1. Len(m.list) \in Nat /\ 0 \in Nat  BY <1>7 DEF Laid
  <2>2. /\ group' \in [Groups -> Records] /\ DOMAIN group' = DOMAIN group
        /\ \A g \in Groups : /\ group'[g].mapped = group[g].mapped
                             /\ group'[g].Obytes = group[g].Obytes
                             /\ group'[g].Ibytes = group[g].Ibytes
    BY <1>1, <1>4, <2>1, CountersOnly
  <2> QED BY <1>4, <2>2 DEF SameSizes
<1>9. /\ fmmu' \subseteq Fmmu /\ LogAddr' \in Nat /\ BitPos' \in 0 .. 7 /\ seg' \in SegType
      /\ LogAddr <= LogAddr'
      /\ \A f \in fmmu' : FmmuRight(f)'
      /\ \A g \in Groups' : GroupFits(g)'
      /\ AllApart(fmmu)'
  BY <1>1, <1>2, <1>3, <1>4, <1>5, <1>8, OneMore
<1>10. outputs' \in [Slaves -> Pointers]
  <2>1. outputs \in [Slaves -> Pointers]  BY <1>1 DEF MapTypes
  <2>2. PointAt(outputs[slave], m.list) \in Pointers
    BY <1>1, <1>2, <1>6, <1>7, <2>1, PointAtType
  <2> QED BY <1>2, <1>4, <2>1, <2>2
<1>11. /\ Groups' = Groups /\ Slaves' = Slaves /\ slavecount' = slavecount /\ Overlap' = Overlap
       /\ Fmmu' = Fmmu /\ Pointers' = Pointers /\ SegType' = SegType
  BY <1>4, SameSetup
<1>12. MapTypes'
  BY <1>1, <1>2, <1>4, <1>8, <1>9, <1>10, <1>11 DEF MapTypes, Records
<1>13. PassRight'
  <2>1. Base(cur)' = Base(cur) /\ Base(cur) \in Nat  BY <1>1, <1>4, SetupFacts DEF Base
  <2>2. Base(cur) <= LogAddr'  BY <1>1, <1>6, <1>9, <2>1
  <2>3. ~group'[cur].mapped  BY <1>1, <1>8 DEF SameSizes
  <2> QED BY <1>1, <1>4, <1>11, <2>1, <2>2, <2>3 DEF PassRight
<1> QED BY <1>9, <1>12, <1>13 DEF MapInv

\* A slave that maps nothing.
LEMMA NoMore ==
  ASSUME MapInv, Running, slave <= slavecount, SameSizes, group' \in [Groups -> Records],
         slave' = slave + 1, out' = out, in' = in, fmmu' = fmmu, outputs' = outputs,
         inputs' = inputs, LogAddr' = LogAddr, BitPos' = BitPos, seg' = seg,
         \/ soLogAddr' = soLogAddr /\ siLogAddr' = siLogAddr
         \/ phase = "both" /\ soLogAddr' = LogAddr /\ siLogAddr' = LogAddr
  PROVE  MapInv'
<1>1. MapTypes /\ cur \in Groups  BY DEF MapInv, PassRight
<1>2. slave + 1 \in 1 .. slavecount + 1  BY <1>1, SlaveOfPass
<1>3. setup' = setup /\ phase' = phase /\ cur' = cur  BY DEF SameSizes
<1>4. /\ Groups' = Groups /\ Slaves' = Slaves /\ slavecount' = slavecount /\ Overlap' = Overlap
      /\ Fmmu' = Fmmu /\ Pointers' = Pointers /\ SegType' = SegType
  BY <1>3, SameSetup
<1>5. /\ LogAddr \in Nat /\ BitPos \in 0 .. 7 /\ soLogAddr \in Nat /\ siLogAddr \in Nat
  BY <1>1 DEF MapTypes
<1>6. soLogAddr' \in Nat /\ siLogAddr' \in Nat  BY <1>5
<1>7. MapTypes'  BY <1>1, <1>2, <1>3, <1>4, <1>6 DEF MapTypes, Records
<1>8. PassRight'
  <2>1. Base(cur)' = Base(cur) /\ group'[cur].mapped = group[cur].mapped
        /\ group'[cur].Obytes = group[cur].Obytes
    BY <1>1, <1>3 DEF SameSizes, Base
  <2>2. Running' = Running  BY <1>3 DEF Running
  <2>3. PassRight  BY DEF MapInv
  <2>4. CASE soLogAddr' = soLogAddr /\ siLogAddr' = siLogAddr
    BY <1>3, <1>4, <2>1, <2>2, <2>3, <2>4 DEF PassRight
  <2>5. CASE phase = "both" /\ soLogAddr' = LogAddr /\ siLogAddr' = LogAddr
    <3>1. LogAddr <= LogAddr  BY <1>5
    <3> QED BY <1>3, <1>4, <2>1, <2>2, <2>3, <2>5, <3>1 DEF PassRight
  <2> QED BY <2>4, <2>5
<1>9. soLogAddr <= soLogAddr' /\ siLogAddr <= siLogAddr'
  BY <1>5 DEF MapInv, PassRight
<1>10. FreeBit' = FreeBit /\ FreeBit \in Nat  BY <1>5 DEF FreeBit
<1>11. (\A f \in fmmu : FmmuRight(f)') /\ (\A g \in Groups' : GroupFits(g)')
  BY <1>6, <1>9, <1>10, OldStay
<1>12. AllApart(fmmu)'  BY <1>4 DEF MapInv, AllApart
<1> QED BY <1>7, <1>8, <1>11, <1>12 DEF MapInv

LEMMA SkipOutputKeeps ==
  ASSUME MapInv, SkipOutput
  PROVE  MapInv'
<1>1. Running /\ group \in [Groups -> Records]
  BY DEF MapInv, MapTypes, Running, SkipOutput
<1>2. /\ slave' = slave + 1 /\ LogAddr' = LogAddr /\ BitPos' = BitPos
      /\ setup' = setup /\ out' = out /\ in' = in /\ fmmu' = fmmu
      /\ outputs' = outputs /\ inputs' = inputs /\ group' = group /\ seg' = seg
      /\ phase' = phase /\ cur' = cur /\ soLogAddr' = soLogAddr /\ siLogAddr' = siLogAddr
      /\ slave <= slavecount
  BY DEF SkipOutput, place
<1>3. SameSizes  BY <1>2 DEF SameSizes
<1> QED BY <1>1, <1>2, <1>3, NoMore

LEMMA SkipInputKeeps ==
  ASSUME MapInv, SkipInput
  PROVE  MapInv'
<1>1. MapTypes /\ cur \in Groups /\ Running
  BY DEF MapInv, PassRight, Running, SkipInput
<1>2. PICK c : c = IF InGroup(slave, cur) THEN Blocked(slave) ELSE 0  OBVIOUS
<1>3. c \in Nat /\ 0 \in Nat  BY <1>2 DEF Blocked
<1>4. /\ slave' = slave + 1 /\ LogAddr' = LogAddr /\ BitPos' = BitPos
      /\ setup' = setup /\ out' = out /\ in' = in /\ fmmu' = fmmu
      /\ outputs' = outputs /\ inputs' = inputs /\ seg' = seg
      /\ group' = [group EXCEPT ![cur] = Counted(group[cur], 0, 0, c)]
      /\ phase' = phase /\ cur' = cur /\ soLogAddr' = soLogAddr /\ siLogAddr' = siLogAddr
      /\ slave <= slavecount
  BY <1>2 DEF SkipInput, place
<1>5. /\ group' \in [Groups -> Records] /\ DOMAIN group' = DOMAIN group
      /\ \A g \in Groups : /\ group'[g].mapped = group[g].mapped
                           /\ group'[g].Obytes = group[g].Obytes
                           /\ group'[g].Ibytes = group[g].Ibytes
  BY <1>1, <1>3, <1>4, CountersOnly
<1>6. SameSizes  BY <1>4, <1>5 DEF SameSizes
<1> QED BY <1>1, <1>4, <1>5, <1>6, NoMore

LEMMA SkipBothKeeps ==
  ASSUME MapInv, SkipBoth
  PROVE  MapInv'
<1>1. Running /\ group \in [Groups -> Records]
  BY DEF MapInv, MapTypes, Running, SkipBoth
<1>2. /\ slave' = slave + 1 /\ LogAddr' = LogAddr /\ BitPos' = BitPos
      /\ setup' = setup /\ out' = out /\ in' = in /\ fmmu' = fmmu
      /\ outputs' = outputs /\ inputs' = inputs /\ group' = group /\ seg' = seg
      /\ phase' = phase /\ cur' = cur /\ soLogAddr' = LogAddr /\ siLogAddr' = LogAddr
      /\ slave <= slavecount /\ phase = "both"
  BY DEF SkipBoth
<1>3. SameSizes  BY <1>2 DEF SameSizes
<1> QED BY <1>1, <1>2, <1>3, NoMore

LEMMA MapInputKeeps ==
  ASSUME MapInv, MapInput, ImageFits'
  PROVE  MapInv'
<1>1. MapTypes /\ phase = "in" /\ cur \in Groups /\ ~group[cur].mapped /\ Base(cur) <= LogAddr
      /\ ~Overlap /\ Base(cur) + group[cur].Obytes <= LogAddr
  BY DEF MapInv, PassRight, Running, MapInput
<1>2. slave \in Slaves /\ slave + 1 \in 1 .. slavecount + 1
  BY <1>1, SlaveOfPass DEF MapInput
<1>3. PICK m : m = Fmmus(in[slave], LogAddr, BitPos)  OBVIOUS
<1>4. /\ LogAddr' = m.addr /\ BitPos' = m.bit /\ seg' = Grow(seg, m.addr - LogAddr)
      /\ Program("in", m.list)
      /\ inputs' = [inputs EXCEPT ![slave] = PointAt(inputs[slave], m.list)]
      /\ group' = [group EXCEPT ![cur] = Counted(group[cur], 0, Len(m.list), Blocked(slave))]
      /\ slave' = slave + 1
      /\ setup' = setup /\ out' = out /\ in' = in /\ outputs' = outputs
      /\ phase' = phase /\ cur' = cur /\ soLogAddr' = soLogAddr /\ siLogAddr' = siLogAddr
  BY <1>3 DEF MapInput
<1>5. IsLayout(in[slave]) /\ in[slave].bits > 0
  <2>1. HasIn(slave)  BY DEF MapInput
  <2> QED BY <1>1, <1>2, <2>1, SetupFacts DEF HasIn
<1>6. LogAddr \in Nat /\ BitPos \in 0 .. 7  BY <1>1 DEF MapTypes
<1>7. Laid(m, LogAddr, BitPos)  BY <1>3, <1>5, <1>6, FmmusLaid
<1>8. /\ group' \in [Groups -> Records] /\ SameSizes
  <2>1. Len(m.list) \in Nat /\ 0 \in Nat /\ Blocked(slave) \in Nat
    BY <1>7 DEF Laid, Blocked
  <2>2. PICK a, c : a = Len(m.list) /\ c = Blocked(slave)  OBVIOUS
  <2>3. group' = [group EXCEPT ![cur] = Counted(group[cur], 0, a, c)]  BY <1>4, <2>2
  <2>4. /\ group' \in [Groups -> Records] /\ DOMAIN group' = DOMAIN group
        /\ \A g \in Groups : /\ group'[g].mapped = group[g].mapped
                             /\ group'[g].Obytes = group[g].Obytes
                             /\ group'[g].Ibytes = group[g].Ibytes
    BY <1>1, <2>1, <2>2, <2>3, CountersOnly
  <2> QED BY <1>4, <2>4 DEF SameSizes
<1>9. /\ fmmu' \subseteq Fmmu /\ LogAddr' \in Nat /\ BitPos' \in 0 .. 7 /\ seg' \in SegType
      /\ LogAddr <= LogAddr'
      /\ \A f \in fmmu' : FmmuRight(f)'
      /\ \A g \in Groups' : GroupFits(g)'
      /\ AllApart(fmmu)'
  BY <1>1, <1>2, <1>3, <1>4, <1>5, <1>8, OneMore
<1>10. inputs' \in [Slaves -> Pointers]
  <2>1. inputs \in [Slaves -> Pointers]  BY <1>1 DEF MapTypes
  <2>2. PointAt(inputs[slave], m.list) \in Pointers
    BY <1>1, <1>2, <1>6, <1>7, <2>1, PointAtType
  <2> QED BY <1>2, <1>4, <2>1, <2>2
<1>11. /\ Groups' = Groups /\ Slaves' = Slaves /\ slavecount' = slavecount /\ Overlap' = Overlap
       /\ Fmmu' = Fmmu /\ Pointers' = Pointers /\ SegType' = SegType
  BY <1>4, SameSetup
<1>12. MapTypes'
  BY <1>1, <1>2, <1>4, <1>8, <1>9, <1>10, <1>11 DEF MapTypes, Records
<1>13. PassRight'
  <2>1. Base(cur)' = Base(cur) /\ Base(cur) \in Nat  BY <1>1, <1>4, SetupFacts DEF Base
  <2>2. Base(cur) <= LogAddr'  BY <1>1, <1>6, <1>9, <2>1
  <2>3. ~group'[cur].mapped /\ group'[cur].Obytes = group[cur].Obytes
    BY <1>1, <1>8 DEF SameSizes
  <2>4. Base(cur) + group[cur].Obytes <= LogAddr'
    <3>1. group[cur] \in Records  BY <1>1 DEF MapTypes
    <3>2. group[cur].Obytes \in Nat  BY <3>1 DEF Records
    <3> QED BY <1>1, <1>6, <1>9, <2>1, <3>2
  <2> QED BY <1>1, <1>4, <1>11, <2>1, <2>2, <2>3, <2>4 DEF PassRight
<1> QED BY <1>9, <1>12, <1>13 DEF MapInv

\* The byte behind the data that is mapped.
LEMMA Padded ==
  ASSUME MapTypes
  PROVE  /\ PadAddr \in Nat /\ LogAddr <= PadAddr /\ FreeBit <= 8 * PadAddr
         /\ Pad(seg) \in SegType
         /\ \A e \in Nat : FreeBit <= 8 * e => PadAddr <= e
         /\ \A f \in fmmu : LastBit(f) < FreeBit => f.start + f.len <= PadAddr
<1>1. LogAddr \in Nat /\ BitPos \in 0 .. 7 /\ seg \in SegType  BY DEF MapTypes
<1>2. FreeBit = 8 * LogAddr + BitPos  BY DEF FreeBit
<1>3. PadAddr = IF BitPos = 0 THEN LogAddr ELSE LogAddr + 1  BY DEF PadAddr
<1>4. PadAddr \in Nat /\ LogAddr <= PadAddr /\ FreeBit <= 8 * PadAddr
      /\ \A e \in Nat : FreeBit <= 8 * e => PadAddr <= e
  BY <1>1, <1>2, <1>3
<1>5. Pad(seg) \in SegType
  <2>1. Limit \in Nat /\ MaxIOSegments \in Nat \ {0} /\ 1 \in Nat  BY SetupFacts
  <2>2. Grow(seg, 1) \in SegType  BY <1>1, <2>1, GrowType
  <2> QED BY <1>1, <2>2 DEF Pad
<1>6. ASSUME NEW f \in fmmu, LastBit(f) < FreeBit  PROVE f.start + f.len <= PadAddr
  <2>1. PICK st, ln, eb : st = f.start /\ ln = f.len /\ eb = f.endbit  OBVIOUS
  <2>2. st \in Nat /\ ln \in Nat /\ eb \in 0 .. 7  BY <2>1, FmmuFields
  <2>3. 8 * (st + ln - 1) + eb < FreeBit  BY <1>6, <2>1 DEF LastBit
  <2>4. st + ln <= PadAddr
    <3>1. CASE BitPos = 0
      <4>1. 8 * (st + ln - 1) < 8 * LogAddr  BY <1>1, <1>2, <2>2, <2>3, <3>1
      <4> QED BY <4>1, <1>1, <1>3, <2>2, <3>1
    <3>2. CASE BitPos # 0
      <4>1. 8 * (st + ln - 1) < 8 * LogAddr + 8  BY <1>1, <1>2, <2>2, <2>3
      <4> QED BY <4>1, <1>1, <1>3, <2>2, <3>2
    <3> QED BY <3>1, <3>2
  <2> QED BY <2>1, <2>4
<1> QED BY <1>4, <1>5, <1>6

LEMMA EndOutputsKeeps ==
  ASSUME MapInv, EndOutputs
  PROVE  MapInv'
<1>1. MapTypes /\ phase = "out" /\ Running /\ cur \in Groups /\ ~group[cur].mapped
      /\ Base(cur) <= LogAddr /\ ~Overlap
  BY DEF MapInv, PassRight, Running, EndOutputs
<1>2. PICK sg, o : sg = Pad(seg) /\ o = PadAddr - Base(cur)  OBVIOUS
<1>3. PICK r : r = group[cur]  OBVIOUS
<1>4. /\ seg' = sg /\ LogAddr' = PadAddr /\ BitPos' = 0 /\ phase' = "in" /\ slave' = 1
      /\ group' = [group EXCEPT ![cur] = [r EXCEPT !.Obytes = o, !.Isegment = sg.n,
                                                   !.Ioffset = sg.size]]
      /\ setup' = setup /\ out' = out /\ in' = in /\ fmmu' = fmmu /\ outputs' = outputs
      /\ inputs' = inputs /\ cur' = cur /\ soLogAddr' = soLogAddr /\ siLogAddr' = siLogAddr
  BY <1>2, <1>3 DEF EndOutputs
<1>5. /\ PadAddr \in Nat /\ LogAddr <= PadAddr /\ FreeBit <= 8 * PadAddr /\ sg \in SegType
      /\ \A f \in fmmu : LastBit(f) < FreeBit => f.start + f.len <= PadAddr
  BY <1>1, <1>2, Padded
<1>6. Base(cur) \in Nat /\ LogAddr \in Nat /\ BitPos \in 0 .. 7 /\ group \in [Groups -> Records]
  BY <1>1, SetupFacts DEF MapTypes
<1>7. o \in Nat /\ Base(cur) + o = PadAddr  BY <1>1, <1>2, <1>5, <1>6
<1>8. PICK q : q = [r EXCEPT !.Obytes = o, !.Isegment = sg.n, !.Ioffset = sg.size]  OBVIOUS
<1>9. q \in Records /\ q.mapped = r.mapped /\ q.Obytes = o
  <2>1. r \in Records  BY <1>1, <1>3, <1>6
  <2>2. sg.n \in Nat /\ sg.size \in Nat
    <3>1. MaxIOSegments \in Nat  BY <1>1, SetupFacts
    <3> QED BY <1>5, <3>1 DEF SegType
  <2>3. PICK x, y : x = sg.n /\ y = sg.size  OBVIOUS
  <2>4. q = [[[r EXCEPT !.Obytes = o] EXCEPT !.Isegment = x] EXCEPT !.Ioffset = y]
    BY <1>8, <2>3
  <2> QED BY <2>1, <2>2, <2>3, <2>4, <1>7 DEF Records
<1>10. group' = [group EXCEPT ![cur] = q]  BY <1>4, <1>8
<1>11. /\ group' \in [Groups -> Records] /\ group'[cur].mapped = group[cur].mapped
       /\ group'[cur].Obytes = o
       /\ \A g \in Groups : g # cur => group'[g] = group[g]
  BY <1>1, <1>3, <1>6, <1>9, <1>10
<1>12. /\ Groups' = Groups /\ Slaves' = Slaves /\ slavecount' = slavecount /\ Overlap' = Overlap
       /\ Fmmu' = Fmmu /\ Pointers' = Pointers /\ SegType' = SegType
  BY <1>4, SameSetup
<1>13. MapTypes'
  <2>1. 1 \in 1 .. slavecount + 1
    <3>1. slavecount \in Nat  BY <1>1, SetupFacts
    <3> QED BY <3>1
  <2>2. group' \in [Groups -> Records]  BY <1>11
  <2>3. LogAddr' \in Nat /\ BitPos' \in 0 .. 7 /\ phase' \in {"idle", "out", "in", "both"}
        /\ slave' \in 1 .. slavecount + 1 /\ seg' \in SegType
    BY <1>4, <1>5, <2>1
  <2>4. /\ setup \in Setups /\ out \in [Slaves -> setup.outs] /\ in \in [Slaves -> setup.ins]
        /\ fmmu \subseteq Fmmu /\ outputs \in [Slaves -> Pointers]
        /\ inputs \in [Slaves -> Pointers] /\ soLogAddr \in Nat /\ siLogAddr \in Nat
    BY <1>1 DEF MapTypes
  <2>5. Records' = Records  BY DEF Records
  <2> QED BY <1>4, <1>12, <2>2, <2>3, <2>4, <2>5, Zenon DEF MapTypes
<1>14. PassRight'
  <2>1. Base(cur)' = Base(cur)  BY <1>4 DEF Base
  <2>2. Base(cur) <= PadAddr /\ Base(cur) + o <= PadAddr  BY <1>1, <1>5, <1>6, <1>7
  <2> QED BY <1>1, <1>4, <1>11, <1>12, <2>1, <2>2 DEF PassRight, Running
<1>15. ASSUME NEW f \in fmmu  PROVE FmmuRight(f)'
  <2>1. f.group \in Groups /\ LastBit(f) \in Nat /\ f.dir \in {"out", "in"}
    BY <1>1, FmmuFields
  <2>2. CASE f.group = cur
    <3>1. BegunRight(f)  BY <1>1, <2>2 DEF MapInv, FmmuRight
    <3>2. LastBit(f) < FreeBit /\ f.dir = "out"  BY <1>1, <3>1 DEF BegunRight
    <3>3. f.start + f.len <= PadAddr  BY <1>5, <3>2
    <3>4. FreeBit' = 8 * PadAddr /\ FreeBit \in Nat
      BY <1>4, <1>5, <1>6 DEF FreeBit
    <3>5. LastBit(f) < FreeBit'  BY <1>5, <2>1, <3>2, <3>4
    <3>6. BegunRight(f)'
      <4>1. Base(cur)' = Base(cur) /\ Base(cur) + group'[cur].Obytes = PadAddr
        BY <1>4, <1>7, <1>11 DEF Base
      <4> QED BY <1>4, <3>1, <3>2, <3>3, <3>5, <4>1 DEF BegunRight
    <3> QED BY <1>4, <2>2, <3>6 DEF FmmuRight, Running
  <2>3. CASE f.group # cur
    <3>1. group[f.group].mapped /\ Inside(f)  BY <1>1, <2>3 DEF MapInv, FmmuRight
    <3>2. group'[f.group] = group[f.group]  BY <1>11, <2>1, <2>3
    <3>3. FirstInput(f.group)' = FirstInput(f.group)
      BY <1>12, <3>2 DEF FirstInput
    <3> QED BY <3>1, <3>2, <3>3 DEF FmmuRight, Inside
  <2> QED BY <2>2, <2>3
<1>16. ASSUME NEW g \in Groups  PROVE GroupFits(g)'
  <2>1. CASE g = cur  BY <1>1, <1>11, <2>1 DEF GroupFits
  <2>2. CASE g # cur
    <3>1. group'[g] = group[g] /\ GroupFits(g)  BY <1>11, <2>2 DEF MapInv
    <3>2. FirstInput(g)' = FirstInput(g)  BY <1>12, <3>1 DEF FirstInput
    <3> QED BY <3>1, <3>2 DEF GroupFits
  <2> QED BY <2>1, <2>2
<1>17. AllApart(fmmu)'  BY <1>4, <1>12 DEF MapInv, AllApart
<1> QED BY <1>4, <1>12, <1>13, <1>14, <1>15, <1>16, <1>17 DEF MapInv

LEMMA EndInputsKeeps ==
  ASSUME MapInv, EndInputs, ImageFits
  PROVE  MapInv'
<1>1. MapTypes /\ phase = "in" /\ Running /\ cur \in Groups /\ ~group[cur].mapped
      /\ Base(cur) <= LogAddr /\ ~Overlap /\ Base(cur) + group[cur].Obytes <= LogAddr
  BY DEF MapInv, PassRight, Running, EndInputs
<1>2. PICK sg, r : sg = Pad(seg) /\ r = group[cur]  OBVIOUS
<1>3. PICK i : i = PadAddr - Base(cur) - r.Obytes  OBVIOUS
<1>4. PICK q : q = [r EXCEPT !.mapped = TRUE, !.IOsegment = Close(sg), !.nsegments = sg.n + 1,
                             !.inputs = r.Obytes, !.Ibytes = i]
  OBVIOUS
<1>5. /\ seg' = sg /\ LogAddr' = PadAddr /\ BitPos' = 0 /\ phase' = "idle" /\ slave' = slave
      /\ group' = [group EXCEPT ![cur] = q]
      /\ setup' = setup /\ out' = out /\ in' = in /\ fmmu' = fmmu /\ outputs' = outputs
      /\ inputs' = inputs /\ cur' = cur /\ soLogAddr' = soLogAddr /\ siLogAddr' = siLogAddr
  BY <1>2, <1>3, <1>4 DEF EndInputs
<1>6. /\ PadAddr \in Nat /\ LogAddr <= PadAddr /\ FreeBit <= 8 * PadAddr /\ sg \in SegType
      /\ \A e \in Nat : FreeBit <= 8 * e => PadAddr <= e
      /\ \A f \in fmmu : LastBit(f) < FreeBit => f.start + f.len <= PadAddr
  BY <1>1, <1>2, Padded
<1>7. Base(cur) \in Nat /\ GroupStride \in Nat /\ LogAddr \in Nat /\ group \in [Groups -> Records]
  BY <1>1, SetupFacts DEF MapTypes
<1>8. r \in Records /\ r.Obytes \in Nat
  <2>1. r \in Records  BY <1>1, <1>2, <1>7
  <2> QED BY <2>1 DEF Records
<1>9. i \in Nat /\ Base(cur) + r.Obytes + i = PadAddr
  BY <1>1, <1>2, <1>3, <1>6, <1>7, <1>8
<1>10. q \in Records /\ q.mapped = TRUE /\ q.Obytes = r.Obytes /\ q.Ibytes = i
  <2>1. PICK x, y, z : x = Close(sg) /\ y = sg.n + 1 /\ z = r.Obytes  OBVIOUS
  <2>2. x \in [0 .. MaxIOSegments - 1 -> Nat] /\ y \in Nat
    <3>1. MaxIOSegments \in Nat  BY <1>1, SetupFacts
    <3> QED BY <1>6, <2>1, <3>1 DEF SegType, Close
  <2>3. q = [[[[[r EXCEPT !.mapped = TRUE] EXCEPT !.IOsegment = x] EXCEPT !.nsegments = y]
               EXCEPT !.inputs = z] EXCEPT !.Ibytes = i]
    BY <1>4, <2>1
  <2>4. z \in Nat  BY <1>8, <2>1
  <2> QED BY <1>8, <1>9, <2>1, <2>2, <2>3, <2>4 DEF Records
<1>11. /\ group' \in [Groups -> Records] /\ group'[cur] = q
       /\ \A g \in Groups : g # cur => group'[g] = group[g]
  BY <1>1, <1>5, <1>7, <1>10
<1>12. /\ Groups' = Groups /\ Slaves' = Slaves /\ slavecount' = slavecount /\ Overlap' = Overlap
       /\ Fmmu' = Fmmu /\ Pointers' = Pointers /\ SegType' = SegType
  BY <1>5, SameSetup
<1>13. MapTypes'
  <2>1. LogAddr' \in Nat /\ BitPos' \in 0 .. 7 /\ phase' \in {"idle", "out", "in", "both"}
        /\ seg' \in SegType
    BY <1>5, <1>6
  <2>2. /\ setup \in Setups /\ out \in [Slaves -> setup.outs] /\ in \in [Slaves -> setup.ins]
        /\ fmmu \subseteq Fmmu /\ outputs \in [Slaves -> Pointers]
        /\ inputs \in [Slaves -> Pointers] /\ soLogAddr \in Nat /\ siLogAddr \in Nat
        /\ slave \in 1 .. slavecount + 1
    BY <1>1 DEF MapTypes
  <2>3. Records' = Records  BY DEF Records
  <2> QED BY <1>5, <1>11, <1>12, <2>1, <2>2, <2>3, Zenon DEF MapTypes
<1>14. PassRight'  BY <1>5 DEF PassRight, Running
<1>15. FirstInput(cur)' = Base(cur) + r.Obytes
  BY <1>1, <1>5, <1>10, <1>11, <1>12 DEF FirstInput, Base
<1>16. ASSUME NEW f \in fmmu  PROVE FmmuRight(f)'
  <2>1. f.group \in Groups  BY <1>1, FmmuFields
  <2>2. CASE f.group = cur
    <3>1. BegunRight(f)  BY <1>1, <2>2 DEF MapInv, FmmuRight
    <3>2. PICK b : b = Base(cur)  OBVIOUS
    <3>3. PICK st, ln, sb : st = f.start /\ ln = f.len /\ sb = f.startbit  OBVIOUS
    <3>4. st \in Nat /\ ln \in Nat /\ sb \in 0 .. 7 /\ f.dir \in {"out", "in"}
      BY <1>1, <3>3, FmmuFields
    <3>5. f.dir = "out" => b <= st
      <4>1. 8 * b <= 8 * st + sb  BY <3>1, <3>2, <3>3 DEF BegunRight, FirstBit
      <4>2. b \in Nat  BY <1>7, <3>2
      <4> QED BY <3>4, <4>1, <4>2
    <3>6. f.dir = "out" => st + ln <= b + r.Obytes
      BY <1>1, <1>2, <3>1, <3>2, <3>3 DEF BegunRight
    <3>7. f.dir = "in" => b + r.Obytes <= st
      BY <1>1, <1>2, <3>1, <3>2, <3>3 DEF BegunRight
    <3>8. st + ln <= PadAddr  BY <1>6, <3>1, <3>3 DEF BegunRight
    <3>9. st + ln <= b + r.Obytes + i  BY <1>9, <3>2, <3>8
    <3>10. Base(f.group)' = b /\ group'[f.group] = q /\ FirstInput(f.group)' = b + r.Obytes
      BY <1>5, <1>11, <1>15, <2>2, <3>2 DEF Base
    <3>11. Inside(f)'
      BY <1>10, <3>3, <3>4, <3>5, <3>6, <3>7, <3>9, <3>10 DEF Inside
    <3>12. group'[f.group].mapped  BY <1>10, <3>10
    <3> QED BY <3>11, <3>12 DEF FmmuRight
  <2>3. CASE f.group # cur
    <3>1. group[f.group].mapped /\ Inside(f)  BY <1>1, <2>3 DEF MapInv, FmmuRight
    <3>2. group'[f.group] = group[f.group]  BY <1>11, <2>1, <2>3
    <3>3. FirstInput(f.group)' = FirstInput(f.group)
      BY <1>12, <3>2 DEF FirstInput
    <3> QED BY <3>1, <3>2, <3>3 DEF FmmuRight, Inside
  <2> QED BY <2>2, <2>3
<1>17. ASSUME NEW g \in Groups  PROVE GroupFits(g)'
  <2>1. CASE g = cur
    <3>1. PICK b, k : b = Base(cur) /\ k = GroupStride  OBVIOUS
    <3>2. FreeBit <= 8 * (b + k)  BY <1>1, <3>1 DEF ImageFits, Running, EndBit
    <3>3. b \in Nat /\ k \in Nat /\ b + k \in Nat  BY <1>7, <3>1
    <3>4. PadAddr <= b + k  BY <1>6, <3>2, <3>3
    <3>5. r.Obytes <= k /\ b + r.Obytes + i <= b + k
      BY <1>8, <1>9, <3>1, <3>3, <3>4
    <3>6. group'[g] = q /\ FirstInput(g)' = b + r.Obytes /\ Base(g)' = b
      BY <1>5, <1>11, <1>15, <2>1, <3>1 DEF Base
    <3> QED BY <1>10, <3>1, <3>5, <3>6 DEF GroupFits
  <2>2. CASE g # cur
    <3>1. group'[g] = group[g] /\ GroupFits(g)  BY <1>11, <2>2 DEF MapInv
    <3>2. FirstInput(g)' = FirstInput(g)  BY <1>12, <3>1 DEF FirstInput
    <3> QED BY <3>1, <3>2 DEF GroupFits
  <2> QED BY <2>1, <2>2
<1>18. AllApart(fmmu)'  BY <1>5, <1>12 DEF MapInv, AllApart
<1> QED BY <1>5, <1>12, <1>13, <1>14, <1>16, <1>17, <1>18 DEF MapInv

LEMMA StartMapKeeps ==
  ASSUME MapInv, NEW g \in Groups, StartMap(g)
  PROVE  MapInv'
<1>1. MapTypes /\ ~Running /\ ~group[g].mapped /\ Base(g) \in Nat
  BY SetupFacts DEF MapInv, Running, StartMap
<1>2. /\ phase' = IF Overlap THEN "both" ELSE "out"
      /\ cur' = g /\ slave' = 1 /\ LogAddr' = Base(g) /\ soLogAddr' = Base(g)
      /\ siLogAddr' = Base(g) /\ BitPos' = 0
      /\ seg' = [n |-> 0, size |-> 0, list |-> NoSegments]
      /\ setup' = setup /\ out' = out /\ in' = in /\ fmmu' = fmmu /\ outputs' = outputs
      /\ inputs' = inputs /\ group' = group
  BY DEF StartMap
<1>3. /\ Groups' = Groups /\ Slaves' = Slaves /\ slavecount' = slavecount /\ Overlap' = Overlap
      /\ Fmmu' = Fmmu /\ Pointers' = Pointers /\ SegType' = SegType
  BY <1>2, SameSetup
<1>4. seg' \in SegType
  <2>1. MaxIOSegments \in Nat \ {0}  BY <1>1, SetupFacts
  <2>2. NoSegments \in [0 .. MaxIOSegments - 1 -> Nat]  BY DEF NoSegments
  <2>3. 0 \in 0 .. MaxIOSegments - 1  BY <2>1
  <2> QED BY <1>2, <2>2, <2>3 DEF SegType
<1>5. MapTypes'
  <2>1. slave' \in 1 .. slavecount + 1
    <3>1. slavecount \in Nat  BY <1>1, SetupFacts
    <3> QED BY <1>2, <3>1
  <2>2. LogAddr' \in Nat /\ BitPos' \in 0 .. 7 /\ phase' \in {"idle", "out", "in", "both"}
        /\ soLogAddr' \in Nat /\ siLogAddr' \in Nat
    BY <1>1, <1>2
  <2>3. /\ setup \in Setups /\ out \in [Slaves -> setup.outs] /\ in \in [Slaves -> setup.ins]
        /\ fmmu \subseteq Fmmu /\ outputs \in [Slaves -> Pointers]
        /\ inputs \in [Slaves -> Pointers] /\ group \in [Groups -> Records]
    BY <1>1 DEF MapTypes
  <2>4. Records' = Records  BY DEF Records
  <2> QED BY <1>2, <1>3, <1>4, <2>1, <2>2, <2>3, <2>4, Zenon DEF MapTypes
<1>6. PassRight'
  <2>1. Base(cur)' = Base(g) /\ Base(g) <= Base(g)  BY <1>1, <1>2 DEF Base
  <2> QED BY <1>1, <1>2, <1>3, <2>1 DEF PassRight
<1>7. ASSUME NEW f \in fmmu  PROVE FmmuRight(f)'
  <2>1. group[f.group].mapped /\ Inside(f)  BY <1>1 DEF MapInv, FmmuRight
  <2>2. FirstInput(f.group)' = FirstInput(f.group)  BY <1>2, <1>3 DEF FirstInput
  <2> QED BY <1>2, <2>1, <2>2 DEF FmmuRight, Inside
<1>8. ASSUME NEW h \in Groups  PROVE GroupFits(h)'
  <2>1. FirstInput(h)' = FirstInput(h)  BY <1>2, <1>3 DEF FirstInput
  <2> QED BY <1>2, <2>1 DEF MapInv, GroupFits
<1>9. AllApart(fmmu)'  BY <1>2, <1>3 DEF MapInv, AllApart
<1> QED BY <1>2, <1>3, <1>5, <1>6, <1>7, <1>8, <1>9 DEF MapInv

\* One direction of a slave in the overlapped mapping.
Side(has, l) == IF has THEN Fmmus(l, LogAddr, 0) ELSE [addr |-> LogAddr, bit |-> 0, list |-> << >>]

LEMMA OneSide ==
  ASSUME MapTypes, Running, cur \in Groups, slave \in Slaves, BitPos = 0, Base(cur) <= LogAddr,
         NEW dir \in {"out", "in"}, NEW l, NEW has, has => IsLayout(l) /\ l.bits > 0,
         has \in BOOLEAN, NEW m, m = Side(has, l)
  PROVE  /\ WholeByte(m) \in Nat /\ LogAddr <= WholeByte(m) /\ Len(m.list) \in Nat
         /\ Fresh(Programmed(dir, m.list), 8 * WholeByte(m))
         /\ AllApart(Programmed(dir, m.list))
         /\ \A p \in Programmed(dir, m.list) :
              p.dir = dir /\ p.start + p.len <= WholeByte(m)
         /\ m.list # << >> => has /\ Laid(m, LogAddr, 0)
         /\ has => m.list # << >>
<1>1. LogAddr \in Nat /\ 0 \in 0 .. 7  BY DEF MapTypes
<1>2. CASE has
  <2>1. Laid(m, LogAddr, 0)  BY <1>1, <1>2, FmmusLaid DEF Side
  <2>2. /\ m.addr \in Nat /\ m.bit \in 0 .. 7 /\ Len(m.list) \in Nat
        /\ 8 * LogAddr + 0 <= 8 * m.addr + m.bit
        /\ m.list # << >>
    BY <2>1 DEF Laid
  <2>3. /\ Fresh(Programmed(dir, m.list), 8 * m.addr + m.bit)
        /\ AllApart(Programmed(dir, m.list))
        /\ \A p \in Programmed(dir, m.list) : p.dir = dir
    BY <1>1, <2>1, ProgrammedFresh
  <2>4. PICK w : w = WholeByte(m)  OBVIOUS
  <2>5. w = IF m.bit = 0 THEN m.addr ELSE m.addr + 1  BY <2>4 DEF WholeByte
  <2>6. w \in Nat /\ LogAddr <= w /\ 8 * m.addr + m.bit <= 8 * w  BY <1>1, <2>2, <2>5
  <2>7. ASSUME NEW p \in Programmed(dir, m.list)
        PROVE  LastBit(p) < 8 * w /\ p.start + p.len <= w
    <3>1. p \in Fmmu /\ LastBit(p) \in Nat /\ LastBit(p) < 8 * m.addr + m.bit
      BY <2>3 DEF Fresh
    <3>2. PICK st, ln, eb : st = p.start /\ ln = p.len /\ eb = p.endbit  OBVIOUS
    <3>3. st \in Nat /\ ln \in Nat /\ eb \in 0 .. 7  BY <3>1, <3>2 DEF Fmmu
    <3>4. 8 * (st + ln - 1) + eb < 8 * m.addr + m.bit  BY <3>1, <3>2 DEF LastBit
    <3>5. LastBit(p) < 8 * w  BY <3>1, <2>2, <2>6
    <3>6. st + ln <= w
      <4>1. CASE m.bit = 0
        <5>1. 8 * (st + ln - 1) < 8 * m.addr  BY <4>1, <3>3, <3>4, <2>2
        <5> QED BY <5>1, <4>1, <2>2, <2>5, <3>3
      <4>2. CASE m.bit # 0
        <5>1. 8 * (st + ln - 1) < 8 * m.addr + 8  BY <3>3, <3>4, <2>2
        <5> QED BY <5>1, <4>2, <2>2, <2>5, <3>3
      <4> QED BY <4>1, <4>2
    <3> QED BY <3>2, <3>5, <3>6
  <2>8. Fresh(Programmed(dir, m.list), 8 * w)  BY <2>3, <2>7 DEF Fresh
  <2> QED BY <1>2, <2>1, <2>2, <2>3, <2>4, <2>6, <2>7, <2>8
<1>3. CASE ~has
  <2>1. m = [addr |-> LogAddr, bit |-> 0, list |-> << >>]  BY <1>3 DEF Side
  <2>2. m.list = << >> /\ Len(m.list) = 0 /\ WholeByte(m) = LogAddr  BY <2>1 DEF WholeByte
  <2>3. Programmed(dir, m.list) = {}
    <3>1. DOMAIN << >> = {}  OBVIOUS
    <3> QED BY <2>2, <3>1 DEF Programmed
  <2>4. LogAddr <= LogAddr  BY <1>1
  <2> QED BY <1>1, <1>3, <2>2, <2>3, <2>4 DEF Fresh, AllApart
<1> QED BY <1>2, <1>3

LEMMA MapBothKeeps ==
  ASSUME MapInv, MapBoth, ImageFits'
  PROVE  MapInv'
<1>1. MapTypes /\ phase = "both" /\ Running /\ cur \in Groups /\ ~group[cur].mapped
      /\ Base(cur) <= LogAddr /\ Overlap /\ BitPos = 0
      /\ soLogAddr <= LogAddr /\ siLogAddr <= LogAddr
  BY DEF MapInv, PassRight, Running, MapBoth
<1>2. slave \in Slaves /\ slave + 1 \in 1 .. slavecount + 1
  BY <1>1, SlaveOfPass DEF MapBoth
<1>3. PICK ho, hi : ho = HasOut(slave) /\ hi = HasIn(slave)  OBVIOUS
<1>4. PICK mo, mi : mo = Side(HasOut(slave), out[slave]) /\ mi = Side(HasIn(slave), in[slave])
  OBVIOUS
<1>5. PICK wo, wi : wo = WholeByte(mo) /\ wi = WholeByte(mi)  OBVIOUS
<1>6. PICK next : next = Max({wo, wi})  OBVIOUS
<1>7. PICK po, pi : po = Programmed("out", mo.list) /\ pi = Programmed("in", mi.list)  OBVIOUS
<1>8. PICK no, ni, bl : no = Len(mo.list) /\ ni = Len(mi.list) /\ bl = Blocked(slave)  OBVIOUS
<1>9. /\ soLogAddr' = wo /\ siLogAddr' = wi /\ LogAddr' = next
      /\ seg' = Grow(seg, next - LogAddr)
      /\ fmmu' = fmmu \cup po \cup pi
      /\ outputs' = IF mo.list = << >> THEN outputs
                    ELSE [outputs EXCEPT ![slave] = PointAt(outputs[slave], mo.list)]
      /\ inputs' = IF mi.list = << >> THEN inputs
                   ELSE [inputs EXCEPT ![slave] = PointAt(inputs[slave], mi.list)]
      /\ group' = [group EXCEPT ![cur] = Counted(group[cur], no, ni, bl)]
      /\ slave' = slave + 1
      /\ setup' = setup /\ out' = out /\ in' = in /\ phase' = phase /\ cur' = cur
      /\ BitPos' = BitPos
  BY <1>4, <1>5, <1>6, <1>7, <1>8, Zenon DEF MapBoth, Side
<1>10. /\ HasOut(slave) => IsLayout(out[slave]) /\ out[slave].bits > 0
       /\ HasIn(slave) => IsLayout(in[slave]) /\ in[slave].bits > 0
       /\ HasOut(slave) \in BOOLEAN /\ HasIn(slave) \in BOOLEAN
  BY <1>1, <1>2, SetupFacts DEF HasOut, HasIn
<1>11. /\ wo \in Nat /\ LogAddr <= wo /\ no \in Nat
       /\ Fresh(po, 8 * wo) /\ AllApart(po)
       /\ \A p \in po : p.dir = "out" /\ p.start + p.len <= wo
       /\ mo.list # << >> => Laid(mo, LogAddr, 0)
  <2>1. PICK h : h = HasOut(slave)  OBVIOUS
  <2>2. PICK l : l = out[slave]  OBVIOUS
  <2>3. (h => IsLayout(l) /\ l.bits > 0) /\ h \in BOOLEAN /\ mo = Side(h, l)
    BY <1>4, <1>10, <2>1, <2>2
  <2>4. "out" \in {"out", "in"}  OBVIOUS
  <2> QED BY <1>1, <1>2, <1>5, <1>7, <1>8, <2>3, <2>4, OneSide
<1>12. /\ wi \in Nat /\ LogAddr <= wi /\ ni \in Nat
       /\ Fresh(pi, 8 * wi) /\ AllApart(pi)
       /\ \A p \in pi : p.dir = "in" /\ p.start + p.len <= wi
       /\ mi.list # << >> => Laid(mi, LogAddr, 0)
  <2>1. PICK h : h = HasIn(slave)  OBVIOUS
  <2>2. PICK l : l = in[slave]  OBVIOUS
  <2>3. (h => IsLayout(l) /\ l.bits > 0) /\ h \in BOOLEAN /\ mi = Side(h, l)
    BY <1>4, <1>10, <2>1, <2>2
  <2>4. "in" \in {"out", "in"}  OBVIOUS
  <2> QED BY <1>1, <1>2, <1>5, <1>7, <1>8, <2>3, <2>4, OneSide
<1>13. next \in Nat /\ wo <= next /\ wi <= next /\ (next = wo \/ next = wi) /\ LogAddr <= next
  <2>1. next \in {wo, wi} /\ wo <= next /\ wi <= next  BY <1>6, <1>11, <1>12, MaxOfTwo
  <2>2. LogAddr \in Nat  BY <1>1 DEF MapTypes
  <2> QED BY <1>11, <1>12, <2>1, <2>2
<1>14. LogAddr \in Nat /\ soLogAddr \in Nat /\ siLogAddr \in Nat /\ seg \in SegType
       /\ fmmu \subseteq Fmmu /\ outputs \in [Slaves -> Pointers]
       /\ inputs \in [Slaves -> Pointers]
  BY <1>1 DEF MapTypes
<1>15. FreeBit = 8 * LogAddr /\ FreeBit' = 8 * next /\ FreeBit <= FreeBit' /\ FreeBit' \in Nat
  <2>1. FreeBit = 8 * LogAddr + 0 /\ FreeBit' = 8 * next + 0  BY <1>1, <1>9 DEF FreeBit
  <2> QED BY <2>1, <1>13, <1>14
<1>16. Fresh(po \cup pi, FreeBit')
  <2>1. \A p \in po : LastBit(p) \in Nat /\ LastBit(p) < 8 * wo  BY <1>11 DEF Fresh
  <2>2. \A p \in pi : LastBit(p) \in Nat /\ LastBit(p) < 8 * wi  BY <1>12 DEF Fresh
  <2>3. \A p \in po : LastBit(p) < FreeBit'  BY <2>1, <1>11, <1>13, <1>15
  <2>4. \A p \in pi : LastBit(p) < FreeBit'  BY <2>2, <1>12, <1>13, <1>15
  <2> QED BY <1>11, <1>12, <2>3, <2>4 DEF Fresh
<1>17. AllApart(po \cup pi)  BY <1>1, <1>11, <1>12 DEF AllApart
<1>18. FreeBit' <= EndBit(cur)
  <2>1. cur' = cur /\ phase' # "idle"  BY <1>1, <1>9
  <2>2. FreeBit' <= EndBit(cur)'  BY <2>1 DEF ImageFits
  <2>3. EndBit(cur)' = EndBit(cur)  BY <2>1 DEF EndBit, Base
  <2> QED BY <2>2, <2>3
<1>19. AllApart(fmmu \cup (po \cup pi))
  <2>1. PICK new, end : new = po \cup pi /\ end = FreeBit'  OBVIOUS
  <2>2. end \in Nat /\ Fresh(new, end) /\ end <= EndBit(cur) /\ AllApart(new)
    BY <1>15, <1>16, <1>17, <1>18, <2>1
  <2> QED BY <1>1, <2>1, <2>2, StaysApart
<1>20. /\ Groups' = Groups /\ Slaves' = Slaves /\ slavecount' = slavecount /\ Overlap' = Overlap
       /\ Fmmu' = Fmmu /\ Pointers' = Pointers /\ SegType' = SegType
  BY <1>9, SameSetup
<1>21. fmmu' = fmmu \cup (po \cup pi)  BY <1>9
<1>22. AllApart(fmmu)'  BY <1>19, <1>20, <1>21 DEF AllApart
<1>23. group' \in [Groups -> Records] /\ SameSizes
  <2>1. bl \in Nat  BY <1>8 DEF Blocked
  <2>2. /\ group' \in [Groups -> Records] /\ DOMAIN group' = DOMAIN group
        /\ \A g \in Groups : /\ group'[g].mapped = group[g].mapped
                             /\ group'[g].Obytes = group[g].Obytes
                             /\ group'[g].Ibytes = group[g].Ibytes
    BY <1>1, <1>9, <1>11, <1>12, <2>1, CountersOnly
  <2> QED BY <1>9, <2>2 DEF SameSizes
<1>24. (\A f \in fmmu : FmmuRight(f)') /\ (\A g \in Groups' : GroupFits(g)')
  <2>1. soLogAddr <= wo /\ siLogAddr <= wi  BY <1>1, <1>11, <1>12, <1>14
  <2>2. /\ soLogAddr <= soLogAddr' /\ siLogAddr <= siLogAddr'
        /\ soLogAddr' \in Nat /\ siLogAddr' \in Nat
    BY <1>9, <1>11, <1>12, <2>1
  <2> QED BY <1>1, <1>15, <1>23, <2>2, OldStay
<1>25. ASSUME NEW p \in po \cup pi  PROVE FmmuRight(p)'
  <2>1. /\ p.group = cur /\ FirstBit(p) \in Nat /\ FreeBit <= FirstBit(p)
        /\ LastBit(p) < FreeBit'
    BY <1>16 DEF Fresh
  <2>2. p.start + p.len <= (IF p.dir = "out" THEN wo ELSE wi)  BY <1>11, <1>12
  <2>3. 8 * Base(cur) <= FirstBit(p)
    <3>1. Base(cur) \in Nat  BY <1>1, SetupFacts
    <3> QED BY <1>1, <1>14, <1>15, <2>1, <3>1
  <2>4. Base(cur)' = Base(cur)  BY <1>9 DEF Base
  <2>5. BegunRight(p)'  BY <1>1, <1>9, <2>1, <2>2, <2>3, <2>4 DEF BegunRight
  <2> QED BY <1>1, <1>9, <2>1, <2>5 DEF FmmuRight, Running
<1>26. seg' \in SegType
  <2>1. next - LogAddr \in Nat  BY <1>13, <1>14
  <2>2. Limit \in Nat /\ MaxIOSegments \in Nat \ {0}  BY <1>1, SetupFacts
  <2> QED BY <1>9, <1>14, <2>1, <2>2, GrowType
<1>27. outputs' \in [Slaves -> Pointers]
  <2>1. CASE mo.list = << >>  BY <1>9, <1>14, <2>1
  <2>2. CASE mo.list # << >>
    <3>1. outputs[slave] \in Pointers /\ 0 \in 0 .. 7  BY <1>2, <1>14
    <3>2. PointAt(outputs[slave], mo.list) \in Pointers
      BY <1>1, <1>11, <2>2, <3>1, PointAtType
    <3> QED BY <1>2, <1>9, <1>14, <2>2, <3>2
  <2> QED BY <2>1, <2>2
<1>28. inputs' \in [Slaves -> Pointers]
  <2>1. CASE mi.list = << >>  BY <1>9, <1>14, <2>1
  <2>2. CASE mi.list # << >>
    <3>1. inputs[slave] \in Pointers /\ 0 \in 0 .. 7  BY <1>2, <1>14
    <3>2. PointAt(inputs[slave], mi.list) \in Pointers
      BY <1>1, <1>12, <2>2, <3>1, PointAtType
    <3> QED BY <1>2, <1>9, <1>14, <2>2, <3>2
  <2> QED BY <2>1, <2>2
<1>29. MapTypes'
  <2>1. fmmu' \subseteq Fmmu  BY <1>14, <1>16, <1>21 DEF Fresh
  <2>2. /\ setup \in Setups /\ out \in [Slaves -> setup.outs] /\ in \in [Slaves -> setup.ins]
        /\ phase \in {"idle", "out", "in", "both"} /\ BitPos \in 0 .. 7
    BY <1>1 DEF MapTypes
  <2>3. Records' = Records  BY DEF Records
  <2>4. LogAddr' \in Nat /\ soLogAddr' \in Nat /\ siLogAddr' \in Nat
    BY <1>9, <1>11, <1>12, <1>13
  <2> QED BY <1>2, <1>9, <1>20, <1>23, <1>26, <1>27, <1>28, <2>1, <2>2, <2>3, <2>4, Zenon
       DEF MapTypes
<1>30. PassRight'
  <2>1. Base(cur)' = Base(cur) /\ Base(cur) \in Nat  BY <1>1, <1>9, SetupFacts DEF Base
  <2>2. ~group'[cur].mapped  BY <1>1, <1>23 DEF SameSizes
  <2>3. Base(cur) <= next /\ Base(cur) <= wo /\ Base(cur) <= wi
    BY <1>1, <1>11, <1>12, <1>13, <1>14, <2>1
  <2> QED BY <1>1, <1>9, <1>13, <1>20, <2>1, <2>2, <2>3 DEF PassRight
<1>31. \A f \in fmmu' : FmmuRight(f)'  BY <1>21, <1>24, <1>25
<1> QED BY <1>22, <1>24, <1>29, <1>30, <1>31 DEF MapInv

LEMMA EndBothKeeps ==
  ASSUME MapInv, EndBoth, ImageFits
  PROVE  MapInv'
<1>1. MapTypes /\ phase = "both" /\ Running /\ cur \in Groups /\ ~group[cur].mapped
      /\ Base(cur) <= LogAddr /\ Overlap /\ BitPos = 0
      /\ soLogAddr <= LogAddr /\ siLogAddr <= LogAddr
      /\ Base(cur) <= soLogAddr /\ Base(cur) <= siLogAddr
  BY DEF MapInv, PassRight, Running, EndBoth
<1>2. PICK o, i, r : o = soLogAddr - Base(cur) /\ i = siLogAddr - Base(cur) /\ r = group[cur]
  OBVIOUS
<1>3. PICK q : q = [r EXCEPT !.mapped = TRUE, !.IOsegment = Close(seg), !.nsegments = seg.n + 1,
                             !.Isegment = 0, !.Ioffset = 0, !.Obytes = o, !.Ibytes = i,
                             !.inputs = o]
  OBVIOUS
<1>4. /\ group' = [group EXCEPT ![cur] = q] /\ inputs' = ShiftInputs(o) /\ phase' = "idle"
      /\ setup' = setup /\ out' = out /\ in' = in /\ fmmu' = fmmu /\ outputs' = outputs
      /\ cur' = cur /\ slave' = slave /\ LogAddr' = LogAddr /\ BitPos' = BitPos
      /\ soLogAddr' = soLogAddr /\ siLogAddr' = siLogAddr /\ seg' = seg
  BY <1>2, <1>3 DEF EndBoth, place
<1>5. Base(cur) \in Nat /\ GroupStride \in Nat /\ LogAddr \in Nat /\ group \in [Groups -> Records]
      /\ soLogAddr \in Nat /\ siLogAddr \in Nat /\ seg \in SegType
      /\ inputs \in [Slaves -> Pointers]
  BY <1>1, SetupFacts DEF MapTypes
<1>6. o \in Nat /\ i \in Nat /\ Base(cur) + o = soLogAddr /\ Base(cur) + i = siLogAddr
  BY <1>1, <1>2, <1>5
<1>7. q \in Records /\ q.mapped = TRUE /\ q.Obytes = o /\ q.Ibytes = i
  <2>1. PICK x, y : x = Close(seg) /\ y = seg.n + 1  OBVIOUS
  <2>2. x \in [0 .. MaxIOSegments - 1 -> Nat] /\ y \in Nat
    <3>1. MaxIOSegments \in Nat  BY <1>1, SetupFacts
    <3> QED BY <1>5, <2>1, <3>1 DEF SegType, Close
  <2>3. r \in Records  BY <1>1, <1>2, <1>5
  <2>4. q = [[[[[[[[r EXCEPT !.mapped = TRUE] EXCEPT !.IOsegment = x] EXCEPT !.nsegments = y]
               EXCEPT !.Isegment = 0] EXCEPT !.Ioffset = 0] EXCEPT !.Obytes = o]
               EXCEPT !.Ibytes = i] EXCEPT !.inputs = o]
    BY <1>3, <2>1
  <2> QED BY <1>6, <2>2, <2>3, <2>4 DEF Records
<1>8. /\ group' \in [Groups -> Records] /\ group'[cur] = q
      /\ \A g \in Groups : g # cur => group'[g] = group[g]
  BY <1>1, <1>4, <1>5, <1>7
<1>9. /\ Groups' = Groups /\ Slaves' = Slaves /\ slavecount' = slavecount /\ Overlap' = Overlap
      /\ Fmmu' = Fmmu /\ Pointers' = Pointers /\ SegType' = SegType
  BY <1>4, SameSetup
<1>10. inputs' \in [Slaves -> Pointers]
  <2>1. ASSUME NEW s \in Slaves
        PROVE  [inputs[s] EXCEPT !.off = inputs[s].off + o] \in Pointers
    <3>1. PICK p \in Pointers : p = inputs[s]  BY <1>5
    <3>2. p.off + o \in Nat  BY <1>6 DEF Pointers
    <3>3. PICK x : x = p.off + o  OBVIOUS
    <3>4. [p EXCEPT !.off = x] \in Pointers  BY <3>2, <3>3 DEF Pointers
    <3> QED BY <3>1, <3>3, <3>4
  <2>2. inputs' = [s \in Slaves |-> [inputs[s] EXCEPT !.off = inputs[s].off + o]]
    BY <1>4 DEF ShiftInputs
  <2> QED BY <2>1, <2>2
<1>11. MapTypes'
  <2>1. /\ setup \in Setups /\ out \in [Slaves -> setup.outs] /\ in \in [Slaves -> setup.ins]
        /\ fmmu \subseteq Fmmu /\ outputs \in [Slaves -> Pointers]
        /\ slave \in 1 .. slavecount + 1 /\ BitPos \in 0 .. 7
    BY <1>1 DEF MapTypes
  <2>2. phase' \in {"idle", "out", "in", "both"}  BY <1>4
  <2>3. Records' = Records  BY DEF Records
  <2> QED BY <1>4, <1>5, <1>8, <1>9, <1>10, <2>1, <2>2, <2>3, Zenon DEF MapTypes
<1>12. PassRight'  BY <1>4 DEF PassRight, Running
<1>13. ASSUME NEW f \in fmmu  PROVE FmmuRight(f)'
  <2>1. f.group \in Groups  BY <1>1, FmmuFields
  <2>2. CASE f.group = cur
    <3>1. BegunRight(f)  BY <1>1, <2>2 DEF MapInv, FmmuRight
    <3>2. PICK b : b = Base(cur)  OBVIOUS
    <3>3. PICK st, ln, sb : st = f.start /\ ln = f.len /\ sb = f.startbit  OBVIOUS
    <3>4. st \in Nat /\ ln \in Nat /\ sb \in 0 .. 7  BY <1>1, <3>3, FmmuFields
    <3>5. b <= st
      <4>1. 8 * b <= 8 * st + sb  BY <3>1, <3>2, <3>3 DEF BegunRight, FirstBit
      <4>2. b \in Nat  BY <1>5, <3>2
      <4> QED BY <3>4, <4>1, <4>2
    <3>6. st + ln <= IF f.dir = "out" THEN soLogAddr ELSE siLogAddr
      BY <1>1, <3>1, <3>3 DEF BegunRight
    <3>7. st + ln <= IF f.dir = "out" THEN b + o ELSE b + i  BY <1>6, <3>2, <3>6
    <3>8. Base(f.group)' = b /\ group'[f.group] = q /\ FirstInput(f.group)' = b
      BY <1>1, <1>4, <1>8, <1>9, <2>2, <3>2 DEF Base, FirstInput
    <3>9. Inside(f)'  BY <1>7, <3>3, <3>5, <3>7, <3>8 DEF Inside
    <3>10. group'[f.group].mapped  BY <1>7, <3>8
    <3> QED BY <3>9, <3>10 DEF FmmuRight
  <2>3. CASE f.group # cur
    <3>1. group[f.group].mapped /\ Inside(f)  BY <1>1, <2>3 DEF MapInv, FmmuRight
    <3>2. group'[f.group] = group[f.group]  BY <1>8, <2>1, <2>3
    <3>3. FirstInput(f.group)' = FirstInput(f.group)
      BY <1>9, <3>2 DEF FirstInput
    <3> QED BY <3>1, <3>2, <3>3 DEF FmmuRight, Inside
  <2> QED BY <2>2, <2>3
<1>14. ASSUME NEW g \in Groups  PROVE GroupFits(g)'
  <2>1. CASE g = cur
    <3>1. PICK b, k : b = Base(cur) /\ k = GroupStride  OBVIOUS
    <3>2. 8 * LogAddr + 0 <= 8 * (b + k)
      BY <1>1, <3>1 DEF ImageFits, Running, EndBit, FreeBit
    <3>3. o <= k /\ b + i <= b + k  BY <1>1, <1>5, <1>6, <3>1, <3>2
    <3>4. group'[g] = q /\ FirstInput(g)' = b /\ Base(g)' = b
      BY <1>1, <1>4, <1>8, <1>9, <2>1, <3>1 DEF Base, FirstInput
    <3> QED BY <1>7, <3>1, <3>3, <3>4 DEF GroupFits
  <2>2. CASE g # cur
    <3>1. group'[g] = group[g] /\ GroupFits(g)  BY <1>8, <2>2 DEF MapInv
    <3>2. FirstInput(g)' = FirstInput(g)  BY <1>9, <3>1 DEF FirstInput
    <3> QED BY <3>1, <3>2 DEF GroupFits
  <2> QED BY <2>1, <2>2
<1>15. AllApart(fmmu)'  BY <1>4, <1>9 DEF MapInv, AllApart
<1> QED BY <1>4, <1>9, <1>11, <1>12, <1>13, <1>14, <1>15 DEF MapInv

LEMMA MapStart ==
  ASSUME MapInit
  PROVE  MapInv
<1>1. PICK u \in Setups : u = setup  BY DEF MapInit
<1>2. /\ out \in [Slaves -> setup.outs] /\ in \in [Slaves -> setup.ins] /\ fmmu = {}
      /\ outputs = [s \in Slaves |-> Null] /\ inputs = [s \in Slaves |-> Null]
      /\ group = [g \in Groups |-> Unmapped] /\ phase = "idle" /\ slave = 1
      /\ LogAddr = 0 /\ BitPos = 0 /\ soLogAddr = 0 /\ siLogAddr = 0
      /\ seg = [n |-> 0, size |-> 0, list |-> NoSegments]
  BY DEF MapInit
<1>3. MaxIOSegments \in Nat \ {0} /\ slavecount \in Nat
  <2>1. u.group \in Seq(Nat)  BY <1>1, LayoutAssumption
  <2> QED BY <1>1, <2>1, LayoutAssumption DEF slavecount, SlaveGroup
<1>4. NoSegments \in [0 .. MaxIOSegments - 1 -> Nat]  BY DEF NoSegments
<1>5. Unmapped \in Records /\ Unmapped.mapped = FALSE  BY <1>4 DEF Unmapped, Records
<1>6. Null \in Pointers  BY DEF Null, Pointers
<1>7. seg \in SegType
  <2>1. 0 \in 0 .. MaxIOSegments - 1  BY <1>3
  <2> QED BY <1>2, <1>4, <2>1 DEF SegType
<1>8. slave \in 1 .. slavecount + 1  BY <1>2, <1>3
<1>9. MapTypes  BY <1>1, <1>2, <1>5, <1>6, <1>7, <1>8 DEF MapTypes
<1>10. PassRight  BY <1>2 DEF PassRight, Running
<1>11. \A g \in Groups : GroupFits(g)  BY <1>2, <1>5 DEF GroupFits
<1> QED BY <1>2, <1>9, <1>10, <1>11 DEF MapInv, AllApart

LEMMA MapStepKeeps ==
  ASSUME MapInv, MapStep, ImageFits, ImageFits'
  PROVE  MapInv'
<1>1. CASE \E g \in Groups : StartMap(g)  BY <1>1, StartMapKeeps
<1>2. CASE MapOutput  BY <1>2, MapOutputKeeps
<1>3. CASE SkipOutput  BY <1>3, SkipOutputKeeps
<1>4. CASE EndOutputs  BY <1>4, EndOutputsKeeps
<1>5. CASE MapInput  BY <1>5, MapInputKeeps
<1>6. CASE SkipInput  BY <1>6, SkipInputKeeps
<1>7. CASE EndInputs  BY <1>7, EndInputsKeeps
<1>8. CASE MapBoth  BY <1>8, MapBothKeeps
<1>9. CASE SkipBoth  BY <1>9, SkipBothKeeps
<1>10. CASE EndBoth  BY <1>10, EndBothKeeps
<1> QED BY <1>1, <1>2, <1>3, <1>4, <1>5, <1>6, <1>7, <1>8, <1>9, <1>10 DEF MapStep

LEMMA MapStutters ==
  ASSUME MapInv, UNCHANGED mapVars
  PROVE  MapInv'
<1>1. /\ setup' = setup /\ out' = out /\ in' = in /\ fmmu' = fmmu /\ outputs' = outputs
      /\ inputs' = inputs /\ group' = group /\ phase' = phase /\ cur' = cur /\ slave' = slave
      /\ LogAddr' = LogAddr /\ BitPos' = BitPos /\ soLogAddr' = soLogAddr
      /\ siLogAddr' = siLogAddr /\ seg' = seg
  BY DEF mapVars, place
<1>2. /\ Groups' = Groups /\ Slaves' = Slaves /\ slavecount' = slavecount /\ Overlap' = Overlap
      /\ Fmmu' = Fmmu /\ Pointers' = Pointers /\ SegType' = SegType
  BY <1>1, SameSetup
<1>3. MapTypes'
  <2>1. Records' = Records  BY DEF Records
  <2> QED BY <1>1, <1>2, <2>1, Zenon DEF MapInv, MapTypes
<1>4. Running' = Running /\ FreeBit' = FreeBit  BY <1>1 DEF Running, FreeBit
<1>5. PassRight'  BY <1>1, <1>2, <1>4 DEF MapInv, PassRight, Base
<1>6. \A g \in Groups : FirstInput(g)' = FirstInput(g)  BY <1>1, <1>2 DEF FirstInput
<1>7. \A g \in Groups : GroupFits(g)'  BY <1>1, <1>6 DEF MapInv, GroupFits
<1>8. ASSUME NEW f \in fmmu  PROVE FmmuRight(f)'
  <2>1. f.group \in Groups  BY FmmuFields DEF MapInv
  <2>2. Inside(f) => Inside(f)'  BY <1>1, <1>6, <2>1 DEF Inside
  <2>3. BegunRight(f) => BegunRight(f)'  BY <1>1, <1>4 DEF BegunRight, Base
  <2> QED BY <1>1, <1>4, <2>2, <2>3 DEF MapInv, FmmuRight
<1>9. AllApart(fmmu)'  BY <1>1, <1>2 DEF MapInv, AllApart
<1> QED BY <1>1, <1>2, <1>3, <1>5, <1>7, <1>8, <1>9 DEF MapInv

\* The image of every group that is mapped is in the addresses of the group.
THEOREM MapInvAlways == ProcessSpec /\ []ImageFits => []MapInv
<1>1. InitProcess => MapInv  BY MapStart DEF InitProcess
<1>2. MapInv /\ [NextProcess]_<<mapVars, pvars>> /\ ImageFits /\ ImageFits' => MapInv'
  <2> SUFFICES ASSUME MapInv, [NextProcess]_<<mapVars, pvars>>, ImageFits, ImageFits'
               PROVE  MapInv'
    OBVIOUS
  <2>1. CASE MapStep  BY <2>1, MapStepKeeps
  <2>2. CASE UNCHANGED mapVars  BY <2>2, MapStutters
  <2> QED BY <2>1, <2>2 DEF NextProcess
<1> QED BY <1>1, <1>2, PTL DEF ProcessSpec

\* No two FMMUs claim one bit of the logical address space, however the slaves
\* share and straddle bytes and in whatever order the groups are mapped.
THEOREM RegionsDisjointAlways == ProcessSpec /\ []ImageFits => []RegionsDisjoint
<1>1. MapInv => RegionsDisjoint
  <2> SUFFICES ASSUME MapInv, NEW f \in fmmu, NEW h \in fmmu, f # h, f.dir = h.dir \/ ~Overlap
               PROVE  BitsOf(f) \cap BitsOf(h) = {}
    BY DEF RegionsDisjoint
  <2>1. BitsApart(f, h)  BY DEF MapInv, AllApart
  <2>2. FirstBit(f) \in Nat /\ LastBit(f) \in Nat /\ FirstBit(h) \in Nat /\ LastBit(h) \in Nat
    BY FmmuFields DEF MapInv
  <2>3. BitsOf(f) = FirstBit(f) .. LastBit(f) /\ BitsOf(h) = FirstBit(h) .. LastBit(h)
    BY DEF BitsOf, FirstBit, LastBit
  <2> QED BY <2>1, <2>2, <2>3 DEF BitsApart
<1> QED BY <1>1, MapInvAlways, PTL
-----------------------------------------------------------------------------
(* The slaves' pointers.                                                   *)

\* A slave is in one of the groups that are mapped: group 0 is all slaves.
OneMapping == \A u \in Setups : 0 \in u.groups => u.groups = {0}

\* The first FMMU of its slave and direction, and where it points.
Leads(f) == \A h \in fmmu : h.slave = f.slave /\ h.dir = f.dir => f.start <= h.start
At(f) == [map |-> f.group, off |-> f.start - Base(f.group)]
PointsAt(ptr, dir) ==
  \A s \in Slaves :
    /\ (\A f \in fmmu : ~ (f.slave = s /\ f.dir = dir)) => ptr[s] = Null
    /\ \A f \in fmmu : f.slave = s /\ f.dir = dir /\ Leads(f) => ptr[s] = At(f)
NoneMapped == \A h \in Groups : ~group[h].mapped

\* The pass has not come to a slave, in its direction, whose FMMUs are not there;
\* each FMMU is in the place that the slave's pointer names.
Passed(f) == Running /\ f.group = cur /\ (phase = "in" => f.dir = "in") => f.slave < slave
ShiftedAt(f) == [map |-> f.group, off |-> f.start - Base(f.group) + group[f.group].Obytes]
Shifted(f) ==
  f.dir = "in" /\ group[f.group].mapped /\ Undisturbed(f.group) /\ Leads(f) =>
    inputs[f.slave] = ShiftedAt(f)
PointInv ==
  /\ \A f \in fmmu : InGroup(f.slave, f.group) /\ Passed(f)
  /\ PointsAt(outputs, "out")
  /\ (~Overlap \/ NoneMapped) => PointsAt(inputs, "in")
  /\ Overlap => \A f \in fmmu : Shifted(f)

LEMMA SameGroup ==
  ASSUME OneMapping, MapTypes, NEW g \in Groups, NEW h \in Groups, NEW s \in Slaves,
         InGroup(s, g), InGroup(s, h)
  PROVE  g = h
<1>1. PICK u \in Setups : u = setup  BY DEF MapTypes
<1>2. 0 \in Groups => Groups = {0}  BY <1>1 DEF OneMapping, Groups
<1> QED BY <1>2 DEF InGroup

\* The slave that is mapped has no FMMU of the direction.
LEMMA NotYet ==
  ASSUME OneMapping, MapInv, PointInv, Running, slave \in Slaves, InGroup(slave, cur),
         NEW dir \in {"out", "in"}, phase = "in" => dir = "in", NEW f \in fmmu
  PROVE  ~ (f.slave = slave /\ f.dir = dir)
<1> SUFFICES ASSUME f.slave = slave, f.dir = dir  PROVE FALSE  OBVIOUS
<1>1. MapTypes /\ cur \in Groups /\ f.group \in Groups
  BY FmmuFields DEF MapInv, PassRight
<1>2. InGroup(slave, f.group) /\ Passed(f)  BY DEF PointInv
<1>3. f.group = cur  BY <1>1, <1>2, SameGroup
<1>4. slave < slave  BY <1>2, <1>3 DEF Passed
<1>5. slave \in Nat
  <2>1. Slaves = 1 .. slavecount /\ slavecount \in Nat  BY <1>1, SetupFacts
  <2> QED BY <2>1
<1> QED BY <1>4, <1>5

\* One direction gets the FMMUs of a slave.
LEMMA PointsMore ==
  ASSUME MapTypes, cur \in Groups, slave \in Slaves, NEW dir, NEW ptr, NEW ptr2,
         PointsAt(ptr, dir), ptr \in [Slaves -> Pointers],
         \A f \in fmmu : ~ (f.slave = slave /\ f.dir = dir),
         NEW m, NEW bit \in 0 .. 7, m.list # << >> => Laid(m, LogAddr, bit),
         setup' = setup, cur' = cur,
         ptr2 = IF m.list = << >> THEN ptr
                ELSE [ptr EXCEPT ![slave] = PointAt(ptr[slave], m.list)],
         \A p \in Programmed(dir, m.list) : p.dir = dir,
         \A f : f \in fmmu' /\ f.dir = dir <=>
                  (f \in fmmu /\ f.dir = dir) \/ f \in Programmed(dir, m.list)
  PROVE  PointsAt(ptr2, dir)'
<1>1. PICK list : list = m.list  OBVIOUS
<1> DEFINE P(i) == [slave |-> slave, group |-> cur, dir |-> dir, phys |-> list[i].phys,
                    start |-> list[i].start, startbit |-> list[i].startbit,
                    len |-> list[i].len, endbit |-> list[i].endbit]
<1>2. Programmed(dir, list) = {P(i) : i \in DOMAIN list}  BY DEF Programmed
<1>3. \A p \in Programmed(dir, list) : p.slave = slave /\ p.group = cur  BY <1>2
<1>4. Slaves' = Slaves  BY SameSetup
<1>5. ASSUME NEW s \in Slaves, s # slave
      PROVE  /\ (\A f \in fmmu' : ~ (f.slave = s /\ f.dir = dir)) => ptr2[s] = Null
             /\ \A f \in fmmu' : f.slave = s /\ f.dir = dir /\ Leads(f)' => ptr2[s] = At(f)'
  <2>1. ptr2[s] = ptr[s]  BY <1>5
  <2>2. \A f : f.slave = s /\ f.dir = dir => (f \in fmmu' <=> f \in fmmu)
    BY <1>1, <1>3, <1>5
  <2>3. (\A f \in fmmu' : ~ (f.slave = s /\ f.dir = dir)) =>
          \A f \in fmmu : ~ (f.slave = s /\ f.dir = dir)
    BY <2>2
  <2>4. ASSUME NEW f \in fmmu', f.slave = s, f.dir = dir, Leads(f)'  PROVE ptr[s] = At(f)
    <3>1. f \in fmmu  BY <2>2, <2>4
    <3>2. Leads(f)  BY <2>2, <2>4 DEF Leads
    <3> QED BY <2>4, <3>1, <3>2 DEF PointsAt
  <2>5. \A f : At(f)' = At(f)  BY DEF At, Base
  <2> QED BY <2>1, <2>3, <2>4, <2>5 DEF PointsAt
<1>6. ASSUME list = << >>
      PROVE  /\ (\A f \in fmmu' : ~ (f.slave = slave /\ f.dir = dir)) => ptr2[slave] = Null
             /\ \A f \in fmmu' : f.slave = slave /\ f.dir = dir /\ Leads(f)' =>
                  ptr2[slave] = At(f)'
  <2>1. ptr2 = ptr  BY <1>1, <1>6
  <2>2. ptr[slave] = Null  BY DEF PointsAt
  <2>3. DOMAIN list = {}  BY <1>6
  <2>4. Programmed(dir, list) = {}  BY <1>2, <2>3
  <2>5. \A f \in fmmu' : ~ (f.slave = slave /\ f.dir = dir)  BY <1>1, <2>4
  <2> QED BY <2>1, <2>2, <2>5
<1>7. ASSUME list # << >>
      PROVE  /\ (\A f \in fmmu' : ~ (f.slave = slave /\ f.dir = dir)) => ptr2[slave] = Null
             /\ \A f \in fmmu' : f.slave = slave /\ f.dir = dir /\ Leads(f)' =>
                  ptr2[slave] = At(f)'
  <2>1. Laid(m, LogAddr, bit)  BY <1>1, <1>7
  <2>2. list \in Seq(Placed) /\ DOMAIN list = 1 .. Len(list) /\ 1 \in 1 .. Len(list)
        /\ Head(list) = list[1]
    BY <1>1, <1>7, <2>1 DEF Laid
  <2>3. \A i \in 1 .. Len(list) : list[i] \in Placed  BY <2>2
  <2>4. \A i \in 1 .. Len(list) : list[i].start \in Nat  BY <2>3 DEF Placed
  <2>5. \A i \in 1 .. Len(list) : list[1].start <= list[i].start  BY <1>1, <2>1 DEF Laid
  <2>6. P(1) \in Programmed(dir, list)  BY <1>2, <2>2
  <2>7. P(1) \in fmmu' /\ P(1).slave = slave /\ P(1).dir = dir /\ P(1).start = list[1].start
    BY <1>1, <2>6
  <2>8. ptr[slave] = Null  BY DEF PointsAt
  <2>9. ptr2[slave] = [map |-> cur, off |-> list[1].start - Base(cur)]
    <3>1. PointAt(ptr[slave], list) = [map |-> cur, off |-> list[1].start - Base(cur)]
      BY <2>2, <2>8 DEF PointAt
    <3> QED BY <1>1, <1>7, <3>1
  <2>10. ASSUME NEW f \in fmmu', f.slave = slave, f.dir = dir, Leads(f)'
         PROVE  ptr2[slave] = At(f)'
    <3>1. f \in Programmed(dir, list)  BY <1>1, <2>10
    <3>2. PICK i \in 1 .. Len(list) : f = P(i)  BY <1>2, <2>2, <3>1
    <3>3. f.start = list[i].start /\ f.group = cur  BY <3>2
    <3>4. f.start <= P(1).start  BY <2>7, <2>10 DEF Leads
    <3>5. f.start = list[1].start  BY <2>2, <2>4, <2>5, <2>7, <3>3, <3>4
    <3> QED BY <2>9, <3>3, <3>5 DEF At, Base
  <2> QED BY <2>7, <2>10
<1>8. PointsAt(ptr2, dir)'
      = (\A s \in Slaves' :
           /\ (\A f \in fmmu' : ~ (f.slave = s /\ f.dir = dir)) => ptr2[s] = Null
           /\ \A f \in fmmu' : f.slave = s /\ f.dir = dir /\ Leads(f)' => ptr2[s] = At(f)')
  BY DEF PointsAt
<1> QED BY <1>4, <1>5, <1>6, <1>7, <1>8

\* A direction that gets no FMMU.
LEMMA PointsSame ==
  ASSUME setup' = setup, NEW dir, NEW ptr, PointsAt(ptr, dir),
         \A f : f \in fmmu' /\ f.dir = dir <=> f \in fmmu /\ f.dir = dir
  PROVE  PointsAt(ptr, dir)'
<1>1. Slaves' = Slaves  BY SameSetup
<1>2. \A f : f.dir = dir => (Leads(f)' <=> Leads(f))  BY DEF Leads
<1>3. \A f : At(f)' = At(f)  BY DEF At, Base
<1> QED BY <1>1, <1>2, <1>3 DEF PointsAt

LEMMA PointInvGrows ==
  ASSUME OneMapping, MapInv, PointInv, Running, SameSizes, slave \in Slaves,
         slave' = slave + 1, NEW new, fmmu' = fmmu \cup new,
         \A p \in new : p.group = cur /\ p.slave = slave /\ InGroup(slave, cur),
         PointsAt(outputs, "out")', (~Overlap \/ NoneMapped) => PointsAt(inputs, "in")',
         \/ inputs' = inputs
         \/ InGroup(slave, cur) /\ \E x : inputs' = [inputs EXCEPT ![slave] = x]
  PROVE  PointInv'
<1>1. MapTypes /\ cur \in Groups /\ ~group[cur].mapped  BY DEF MapInv, PassRight
<1>2. /\ Groups' = Groups /\ SlaveGroup' = SlaveGroup /\ Slaves' = Slaves /\ Overlap' = Overlap
      /\ phase' = phase /\ cur' = cur
  BY SameSetup DEF SameSizes
<1>3. slave \in Nat
  <2>1. Slaves = 1 .. slavecount /\ slavecount \in Nat  BY <1>1, SetupFacts
  <2> QED BY <2>1
<1>4. ASSUME NEW f \in fmmu'  PROVE InGroup(f.slave, f.group)' /\ Passed(f)'
  <2>1. CASE f \in fmmu
    <3>1. InGroup(f.slave, f.group) /\ Passed(f)  BY <2>1 DEF PointInv
    <3>2. f.slave \in Nat
      <4>1. f.slave \in Slaves  BY <1>1, <2>1, FmmuFields
      <4>2. Slaves = 1 .. slavecount /\ slavecount \in Nat  BY <1>1, SetupFacts
      <4> QED BY <4>1, <4>2
    <3>3. f.slave < slave => f.slave < slave + 1  BY <1>3, <3>2
    <3> QED BY <1>2, <3>1, <3>3 DEF InGroup, Passed, Running
  <2>2. CASE f \in new
    <3>1. slave < slave + 1  BY <1>3
    <3> QED BY <1>2, <2>2, <3>1 DEF InGroup, Passed
  <2> QED BY <2>1, <2>2
<1>5. NoneMapped' = NoneMapped  BY <1>2 DEF NoneMapped, SameSizes
<1>6. ASSUME Overlap, NEW f \in fmmu'  PROVE Shifted(f)'
  <2> SUFFICES ASSUME f.dir = "in", group'[f.group].mapped, Undisturbed(f.group)', Leads(f)'
               PROVE  inputs'[f.slave] = ShiftedAt(f)'
    BY DEF Shifted
  <2>1. f.group # cur  BY <1>1 DEF SameSizes
  <2>2. f \in fmmu  BY <2>1
  <2>3. f.group \in Groups /\ f.slave \in Slaves  BY <1>1, <2>2, FmmuFields
  <2>4. group[f.group].mapped /\ group'[f.group].Obytes = group[f.group].Obytes
    BY <2>3 DEF SameSizes
  <2>5. Undisturbed(f.group)  BY <1>2 DEF Undisturbed, SameSizes
  <2>6. Leads(f)  BY DEF Leads
  <2>7. inputs[f.slave] = ShiftedAt(f)
    BY <1>6, <2>2, <2>4, <2>5, <2>6 DEF PointInv, Shifted
  <2>8. inputs'[f.slave] = inputs[f.slave]
    <3>1. InGroup(f.slave, f.group)  BY <2>2 DEF PointInv
    <3>2. InGroup(slave, cur) => f.slave # slave  BY <1>1, <2>1, <2>3, <3>1, SameGroup
    <3>3. inputs \in [Slaves -> Pointers]  BY <1>1 DEF MapTypes
    <3> QED BY <2>3, <3>2, <3>3
  <2>9. ShiftedAt(f)' = ShiftedAt(f)  BY <2>4 DEF ShiftedAt, Base
  <2> QED BY <2>7, <2>8, <2>9
<1> QED BY <1>2, <1>4, <1>5, <1>6 DEF PointInv

LEMMA OneMorePoints ==
  ASSUME OneMapping, MapInv, PointInv, NEW dir \in {"out", "in"}, phase = dir, slave \in Slaves,
         InGroup(slave, cur), NEW m, Laid(m, LogAddr, BitPos),
         NEW ptr, ptr \in [Slaves -> Pointers], PointsAt(ptr, dir),
         NEW ptr2, ptr2 = [ptr EXCEPT ![slave] = PointAt(ptr[slave], m.list)],
         SameSizes, Program(dir, m.list)
  PROVE  /\ PointsAt(ptr2, dir)'
         /\ \A p \in Programmed(dir, m.list) : p.group = cur /\ p.slave = slave /\ p.dir = dir
         /\ fmmu' = fmmu \cup Programmed(dir, m.list)
         /\ \A d : d # dir => \A f : f \in fmmu' /\ f.dir = d <=> f \in fmmu /\ f.dir = d
<1>1. MapTypes /\ Running /\ cur \in Groups  BY DEF MapInv, PassRight, Running
<1>2. fmmu' = fmmu \cup Programmed(dir, m.list)  BY DEF Program
<1>3. BitPos \in 0 .. 7 /\ m.list # << >>  BY <1>1 DEF MapTypes, Laid
<1>4. \A p \in Programmed(dir, m.list) : p.dir = dir /\ p.group = cur /\ p.slave = slave
  <2>1. Fresh(Programmed(dir, m.list), 8 * m.addr + m.bit)
        /\ \A p \in Programmed(dir, m.list) : p.dir = dir
    BY <1>1, <1>3, ProgrammedFresh
  <2> QED BY <2>1 DEF Fresh
<1>5. \A f \in fmmu : ~ (f.slave = slave /\ f.dir = dir)
  <2>1. phase = "in" => dir = "in"  OBVIOUS
  <2> QED BY <1>1, <2>1, NotYet
<1>6. \A f : f \in fmmu' /\ f.dir = dir <=>
               (f \in fmmu /\ f.dir = dir) \/ f \in Programmed(dir, m.list)
  BY <1>2, <1>4
<1>7. setup' = setup /\ cur' = cur  BY DEF SameSizes
<1>9. ptr2 = IF m.list = << >> THEN ptr
             ELSE [ptr EXCEPT ![slave] = PointAt(ptr[slave], m.list)]
  BY <1>3
<1>10. PointsAt(ptr2, dir)'
  <2>1. \A p \in Programmed(dir, m.list) : p.dir = dir  BY <1>4
  <2>2. m.list # << >> => Laid(m, LogAddr, BitPos)  OBVIOUS
  <2>3. PICK bit \in 0 .. 7 : bit = BitPos  BY <1>3
  <2>4. m.list # << >> => Laid(m, LogAddr, bit)  BY <2>2, <2>3
  <2> QED BY <1>1, <1>5, <1>6, <1>7, <1>9, <2>1, <2>3, <2>4, PointsMore
<1> QED BY <1>2, <1>4, <1>10

LEMMA MapOutputPoints ==
  ASSUME OneMapping, MapInv, PointInv, MapOutput
  PROVE  PointInv'
<1>1. MapTypes /\ phase = "out" /\ Running /\ cur \in Groups
  BY DEF MapInv, PassRight, Running, MapOutput
<1>2. slave \in Slaves  BY <1>1, SlaveOfPass DEF MapOutput
<1>3. PICK m : m = Fmmus(out[slave], LogAddr, BitPos)  OBVIOUS
<1>4. PICK o2 : o2 = [outputs EXCEPT ![slave] = PointAt(outputs[slave], m.list)]  OBVIOUS
<1>5. /\ Program("out", m.list) /\ outputs' = o2
      /\ group' = [group EXCEPT ![cur] = Counted(group[cur], Len(m.list), 0, 0)]
      /\ slave' = slave + 1 /\ setup' = setup /\ inputs' = inputs
      /\ phase' = phase /\ cur' = cur
  BY <1>3, <1>4 DEF MapOutput
<1>6. InGroup(slave, cur) /\ IsLayout(out[slave]) /\ out[slave].bits > 0
  <2>1. HasOut(slave)  BY DEF MapOutput
  <2> QED BY <1>1, <1>2, <2>1, SetupFacts DEF HasOut
<1>7. Laid(m, LogAddr, BitPos)
  <2>1. LogAddr \in Nat /\ BitPos \in 0 .. 7  BY <1>1 DEF MapTypes
  <2> QED BY <1>3, <1>6, <2>1, FmmusLaid
<1>8. SameSizes
  <2>1. Len(m.list) \in Nat /\ 0 \in Nat  BY <1>7 DEF Laid
  <2>2. /\ DOMAIN group' = DOMAIN group
        /\ \A g \in Groups : /\ group'[g].mapped = group[g].mapped
                             /\ group'[g].Obytes = group[g].Obytes
                             /\ group'[g].Ibytes = group[g].Ibytes
    BY <1>1, <1>5, <2>1, CountersOnly
  <2> QED BY <1>5, <2>2 DEF SameSizes
<1>9. PICK po : po = Programmed("out", m.list)  OBVIOUS
<1>10. /\ PointsAt(o2, "out")'
       /\ \A p \in po : p.group = cur /\ p.slave = slave
       /\ fmmu' = fmmu \cup po
       /\ \A f : f \in fmmu' /\ f.dir = "in" <=> f \in fmmu /\ f.dir = "in"
  <2>1. outputs \in [Slaves -> Pointers] /\ PointsAt(outputs, "out")
    BY <1>1 DEF MapTypes, PointInv
  <2>2. PICK ptr : ptr = outputs  OBVIOUS
  <2>3. ptr \in [Slaves -> Pointers] /\ PointsAt(ptr, "out")
        /\ o2 = [ptr EXCEPT ![slave] = PointAt(ptr[slave], m.list)]
    BY <1>4, <2>1, <2>2
  <2>4. "out" \in {"out", "in"} /\ "in" # "out"  OBVIOUS
  <2>5. /\ PointsAt(o2, "out")'
        /\ \A p \in Programmed("out", m.list) : p.group = cur /\ p.slave = slave /\ p.dir = "out"
        /\ fmmu' = fmmu \cup Programmed("out", m.list)
        /\ \A d : d # "out" => \A f : f \in fmmu' /\ f.dir = d <=> f \in fmmu /\ f.dir = d
    BY <1>1, <1>2, <1>5, <1>6, <1>7, <1>8, <2>3, <2>4, OneMorePoints
  <2> QED BY <1>9, <2>4, <2>5
<1>11. PointsAt(outputs, "out")'  BY <1>5, <1>10 DEF PointsAt
<1>12. (~Overlap \/ NoneMapped) => PointsAt(inputs, "in")'
  <2> HAVE ~Overlap \/ NoneMapped
  <2>1. PointsAt(inputs, "in")  BY DEF PointInv
  <2>2. PICK ptr : ptr = inputs  OBVIOUS
  <2>3. PointsAt(ptr, "in")'  BY <1>5, <1>10, <2>1, <2>2, PointsSame
  <2> QED BY <1>5, <2>2, <2>3 DEF PointsAt
<1> QED BY <1>1, <1>2, <1>5, <1>6, <1>8, <1>10, <1>11, <1>12, PointInvGrows

LEMMA MapInputPoints ==
  ASSUME OneMapping, MapInv, PointInv, MapInput
  PROVE  PointInv'
<1>1. MapTypes /\ phase = "in" /\ Running /\ cur \in Groups /\ ~Overlap
  BY DEF MapInv, PassRight, Running, MapInput
<1>2. slave \in Slaves  BY <1>1, SlaveOfPass DEF MapInput
<1>3. PICK m : m = Fmmus(in[slave], LogAddr, BitPos)  OBVIOUS
<1>4. PICK i2 : i2 = [inputs EXCEPT ![slave] = PointAt(inputs[slave], m.list)]  OBVIOUS
<1>5. /\ Program("in", m.list) /\ inputs' = i2
      /\ group' = [group EXCEPT ![cur] = Counted(group[cur], 0, Len(m.list), Blocked(slave))]
      /\ slave' = slave + 1 /\ setup' = setup /\ outputs' = outputs
      /\ phase' = phase /\ cur' = cur
  BY <1>3, <1>4 DEF MapInput
<1>6. InGroup(slave, cur) /\ IsLayout(in[slave]) /\ in[slave].bits > 0
  <2>1. HasIn(slave)  BY DEF MapInput
  <2> QED BY <1>1, <1>2, <2>1, SetupFacts DEF HasIn
<1>7. Laid(m, LogAddr, BitPos)
  <2>1. LogAddr \in Nat /\ BitPos \in 0 .. 7  BY <1>1 DEF MapTypes
  <2> QED BY <1>3, <1>6, <2>1, FmmusLaid
<1>8. SameSizes
  <2>1. Len(m.list) \in Nat /\ 0 \in Nat /\ Blocked(slave) \in Nat  BY <1>7 DEF Laid, Blocked
  <2>2. PICK a, c : a = Len(m.list) /\ c = Blocked(slave)  OBVIOUS
  <2>3. group' = [group EXCEPT ![cur] = Counted(group[cur], 0, a, c)]  BY <1>5, <2>2
  <2>4. /\ DOMAIN group' = DOMAIN group
        /\ \A g \in Groups : /\ group'[g].mapped = group[g].mapped
                             /\ group'[g].Obytes = group[g].Obytes
                             /\ group'[g].Ibytes = group[g].Ibytes
    BY <1>1, <2>1, <2>2, <2>3, CountersOnly
  <2> QED BY <1>5, <2>4 DEF SameSizes
<1>9. PICK pi : pi = Programmed("in", m.list)  OBVIOUS
<1>10. /\ PointsAt(i2, "in")'
       /\ \A p \in pi : p.group = cur /\ p.slave = slave
       /\ fmmu' = fmmu \cup pi
       /\ \A f : f \in fmmu' /\ f.dir = "out" <=> f \in fmmu /\ f.dir = "out"
  <2>1. inputs \in [Slaves -> Pointers] /\ PointsAt(inputs, "in")
    BY <1>1 DEF MapTypes, PointInv
  <2>2. PICK ptr : ptr = inputs  OBVIOUS
  <2>3. ptr \in [Slaves -> Pointers] /\ PointsAt(ptr, "in")
        /\ i2 = [ptr EXCEPT ![slave] = PointAt(ptr[slave], m.list)]
    BY <1>4, <2>1, <2>2
  <2>4. "in" \in {"out", "in"} /\ "in" # "out"  OBVIOUS
  <2>5. /\ PointsAt(i2, "in")'
        /\ \A p \in Programmed("in", m.list) : p.group = cur /\ p.slave = slave /\ p.dir = "in"
        /\ fmmu' = fmmu \cup Programmed("in", m.list)
        /\ \A d : d # "in" => \A f : f \in fmmu' /\ f.dir = d <=> f \in fmmu /\ f.dir = d
    BY <1>1, <1>2, <1>5, <1>6, <1>7, <1>8, <2>3, <2>4, OneMorePoints
  <2> QED BY <1>9, <2>4, <2>5
<1>11. PointsAt(inputs, "in")'  BY <1>5, <1>10 DEF PointsAt
<1>12. PointsAt(outputs, "out")'
  <2>1. PointsAt(outputs, "out")  BY DEF PointInv
  <2>2. PICK ptr : ptr = outputs  OBVIOUS
  <2>3. PointsAt(ptr, "out")'  BY <1>5, <1>10, <2>1, <2>2, PointsSame
  <2> QED BY <1>5, <2>2, <2>3 DEF PointsAt
<1>13. InGroup(slave, cur) /\ \E x : inputs' = [inputs EXCEPT ![slave] = x]  BY <1>4, <1>5, <1>6
<1> QED BY <1>1, <1>2, <1>5, <1>6, <1>8, <1>10, <1>11, <1>12, <1>13, PointInvGrows

\* A slave that maps nothing.
LEMMA SkipPoints ==
  ASSUME OneMapping, MapInv, PointInv, SkipOutput \/ SkipInput \/ SkipBoth
  PROVE  PointInv'
<1>1. MapTypes /\ Running /\ cur \in Groups /\ slave <= slavecount
  BY DEF MapInv, PassRight, Running, SkipOutput, SkipInput, SkipBoth
<1>2. slave \in Slaves  BY <1>1, SlaveOfPass
<1>3. /\ slave' = slave + 1 /\ setup' = setup /\ fmmu' = fmmu
      /\ outputs' = outputs /\ inputs' = inputs /\ phase' = phase /\ cur' = cur
  BY DEF SkipOutput, SkipInput, SkipBoth
<1>4. SameSizes
  <2>1. CASE group' = group  BY <1>3, <2>1 DEF SameSizes
  <2>2. CASE SkipInput
    <3>1. PICK c : c = IF InGroup(slave, cur) THEN Blocked(slave) ELSE 0  OBVIOUS
    <3>2. c \in Nat /\ 0 \in Nat  BY <3>1 DEF Blocked
    <3>3. group' = [group EXCEPT ![cur] = Counted(group[cur], 0, 0, c)]
      BY <2>2, <3>1 DEF SkipInput
    <3>4. /\ DOMAIN group' = DOMAIN group
          /\ \A g \in Groups : /\ group'[g].mapped = group[g].mapped
                               /\ group'[g].Obytes = group[g].Obytes
                               /\ group'[g].Ibytes = group[g].Ibytes
      BY <1>1, <3>2, <3>3, CountersOnly
    <3> QED BY <1>3, <3>4 DEF SameSizes
  <2> QED BY <2>1, <2>2 DEF SkipOutput, SkipBoth
<1>5. PointsAt(outputs, "out")'
  <2>1. PICK ptr : ptr = outputs  OBVIOUS
  <2>2. PointsAt(ptr, "out")'  BY <1>3, <2>1, PointsSame DEF PointInv
  <2> QED BY <1>3, <2>1, <2>2 DEF PointsAt
<1>6. (~Overlap \/ NoneMapped) => PointsAt(inputs, "in")'
  <2> HAVE ~Overlap \/ NoneMapped
  <2>1. PICK ptr : ptr = inputs  OBVIOUS
  <2>2. PointsAt(ptr, "in")'  BY <1>3, <2>1, PointsSame DEF PointInv
  <2> QED BY <1>3, <2>1, <2>2 DEF PointsAt
<1>7. PICK new : new = {}  OBVIOUS
<1>8. /\ fmmu' = fmmu \cup new
      /\ \A p \in new : p.group = cur /\ p.slave = slave /\ InGroup(slave, cur)
  BY <1>3, <1>7
<1> QED BY <1>1, <1>2, <1>3, <1>4, <1>5, <1>6, <1>8, PointInvGrows

\* The pass goes to the inputs, or ends, or begins.
LEMMA TurnPoints ==
  ASSUME MapInv, PointInv, EndOutputs \/ EndInputs \/ \E g \in Groups : StartMap(g)
  PROVE  PointInv'
<1>1. /\ setup' = setup /\ fmmu' = fmmu /\ outputs' = outputs /\ inputs' = inputs
  BY DEF EndOutputs, EndInputs, StartMap
<1>2. /\ Groups' = Groups /\ SlaveGroup' = SlaveGroup /\ Slaves' = Slaves /\ Overlap' = Overlap
  BY <1>1, SameSetup
<1>3. MapTypes  BY DEF MapInv
<1>4. PointsAt(outputs, "out")'
  <2>1. PICK ptr : ptr = outputs  OBVIOUS
  <2>2. PointsAt(ptr, "out")'  BY <1>1, <2>1, PointsSame DEF PointInv
  <2> QED BY <1>1, <2>1, <2>2 DEF PointsAt
<1>5. PointsAt(inputs, "in") => PointsAt(inputs, "in")'
  <2> HAVE PointsAt(inputs, "in")
  <2>1. PICK ptr : ptr = inputs  OBVIOUS
  <2>2. PointsAt(ptr, "in")'  BY <1>1, <2>1, PointsSame
  <2> QED BY <1>1, <2>1, <2>2 DEF PointsAt
<1>6. \A f \in fmmu : InGroup(f.slave, f.group)'  BY <1>2 DEF PointInv, InGroup
<1>7. CASE EndOutputs
  <2>1. ~Overlap /\ phase = "out" /\ Running  BY <1>7 DEF MapInv, PassRight, EndOutputs, Running
  <2>2. phase' = "in" /\ cur' = cur  BY <1>7 DEF EndOutputs
  <2>3. ASSUME NEW f \in fmmu  PROVE Passed(f)'
    <3>1. SUFFICES ASSUME f.group = cur, f.dir = "in"  PROVE FALSE
      BY <2>2 DEF Passed
    <3>2. FmmuRight(f) /\ ~group[cur].mapped  BY <2>1 DEF MapInv, PassRight
    <3>3. f.dir = "out"  BY <2>1, <3>1, <3>2 DEF FmmuRight, BegunRight
    <3> QED BY <3>1, <3>3
  <2> QED BY <1>1, <1>2, <1>4, <1>5, <1>6, <2>1, <2>3 DEF PointInv
<1>8. CASE EndInputs
  <2>1. ~Overlap /\ phase' = "idle"  BY <1>8 DEF MapInv, PassRight, EndInputs
  <2>2. \A f \in fmmu : Passed(f)'  BY <2>1 DEF Passed, Running
  <2> QED BY <1>1, <1>2, <1>4, <1>5, <1>6, <2>1, <2>2 DEF PointInv
<1>9. ASSUME NEW g \in Groups, StartMap(g)  PROVE PointInv'
  <2>1. ~Running /\ group' = group /\ ~group[g].mapped /\ cur' = g
    BY <1>9 DEF Running, StartMap
  <2>2. ASSUME NEW f \in fmmu  PROVE Passed(f)'
    <3>1. f.group # g  BY <2>1 DEF MapInv, FmmuRight
    <3> QED BY <2>1, <3>1 DEF Passed
  <2>3. NoneMapped' = NoneMapped  BY <1>2, <2>1 DEF NoneMapped
  <2>4. ASSUME NEW f \in fmmu, Shifted(f)  PROVE Shifted(f)'
    <3>1. Leads(f)' = Leads(f)  BY <1>1 DEF Leads
    <3>2. ShiftedAt(f)' = ShiftedAt(f)  BY <2>1 DEF ShiftedAt, Base
    <3>3. Undisturbed(f.group)' = Undisturbed(f.group)  BY <1>2, <2>1 DEF Undisturbed
    <3> QED BY <1>1, <2>1, <2>4, <3>1, <3>2, <3>3 DEF Shifted
  <2> QED BY <1>1, <1>2, <1>4, <1>5, <1>6, <2>2, <2>3, <2>4 DEF PointInv
<1> QED BY <1>7, <1>8, <1>9

LEMMA MapBothPoints ==
  ASSUME OneMapping, MapInv, PointInv, MapBoth
  PROVE  PointInv'
<1>1. MapTypes /\ phase = "both" /\ Running /\ cur \in Groups /\ Overlap /\ BitPos = 0
      /\ Base(cur) <= LogAddr
  BY DEF MapInv, PassRight, Running, MapBoth
<1>2. slave \in Slaves /\ InGroup(slave, cur)  BY <1>1, SlaveOfPass DEF MapBoth
<1>3. PICK mo, mi : mo = Side(HasOut(slave), out[slave]) /\ mi = Side(HasIn(slave), in[slave])
  OBVIOUS
<1>4. PICK po, pi : po = Programmed("out", mo.list) /\ pi = Programmed("in", mi.list)  OBVIOUS
<1>5. PICK no, ni, bl : no = Len(mo.list) /\ ni = Len(mi.list) /\ bl = Blocked(slave)  OBVIOUS
<1>6. PICK o2, i2 :
        /\ o2 = IF mo.list = << >> THEN outputs
                ELSE [outputs EXCEPT ![slave] = PointAt(outputs[slave], mo.list)]
        /\ i2 = IF mi.list = << >> THEN inputs
                ELSE [inputs EXCEPT ![slave] = PointAt(inputs[slave], mi.list)]
  OBVIOUS
<1>7. /\ fmmu' = fmmu \cup po \cup pi /\ outputs' = o2 /\ inputs' = i2
      /\ group' = [group EXCEPT ![cur] = Counted(group[cur], no, ni, bl)]
      /\ slave' = slave + 1 /\ setup' = setup /\ phase' = phase /\ cur' = cur
  BY <1>3, <1>4, <1>5, <1>6, Zenon DEF MapBoth, Side
<1>8. /\ HasOut(slave) => IsLayout(out[slave]) /\ out[slave].bits > 0
      /\ HasIn(slave) => IsLayout(in[slave]) /\ in[slave].bits > 0
      /\ HasOut(slave) \in BOOLEAN /\ HasIn(slave) \in BOOLEAN
  BY <1>1, <1>2, SetupFacts DEF HasOut, HasIn
<1>9. PICK ho, lo : ho = HasOut(slave) /\ lo = out[slave]  OBVIOUS
<1>10. PICK hi, li : hi = HasIn(slave) /\ li = in[slave]  OBVIOUS
<1>11. /\ no \in Nat /\ Fresh(po, 8 * WholeByte(mo)) /\ \A p \in po : p.dir = "out"
       /\ mo.list # << >> => Laid(mo, LogAddr, 0)
  <2>1. (ho => IsLayout(lo) /\ lo.bits > 0) /\ ho \in BOOLEAN /\ mo = Side(ho, lo)
    BY <1>3, <1>8, <1>9
  <2>2. "out" \in {"out", "in"}  OBVIOUS
  <2> QED BY <1>1, <1>2, <1>4, <1>5, <2>1, <2>2, OneSide
<1>12. /\ ni \in Nat /\ Fresh(pi, 8 * WholeByte(mi)) /\ \A p \in pi : p.dir = "in"
       /\ mi.list # << >> => Laid(mi, LogAddr, 0)
  <2>1. (hi => IsLayout(li) /\ li.bits > 0) /\ hi \in BOOLEAN /\ mi = Side(hi, li)
    BY <1>3, <1>8, <1>10
  <2>2. "in" \in {"out", "in"}  OBVIOUS
  <2> QED BY <1>1, <1>2, <1>4, <1>5, <2>1, <2>2, OneSide
<1>13. SameSizes
  <2>1. bl \in Nat  BY <1>5 DEF Blocked
  <2>2. /\ DOMAIN group' = DOMAIN group
        /\ \A g \in Groups : /\ group'[g].mapped = group[g].mapped
                             /\ group'[g].Obytes = group[g].Obytes
                             /\ group'[g].Ibytes = group[g].Ibytes
    BY <1>1, <1>7, <1>11, <1>12, <2>1, CountersOnly
  <2> QED BY <1>7, <2>2 DEF SameSizes
<1>14. outputs \in [Slaves -> Pointers] /\ inputs \in [Slaves -> Pointers] /\ 0 \in 0 .. 7
  BY <1>1 DEF MapTypes
<1>15. \A f \in fmmu : ~ (f.slave = slave /\ f.dir = "out") /\ ~ (f.slave = slave /\ f.dir = "in")
  <2>1. phase # "in" /\ "out" \in {"out", "in"} /\ "in" \in {"out", "in"}  BY <1>1
  <2> QED BY <1>1, <1>2, <2>1, NotYet
<1>16. PointsAt(outputs, "out")'
  <2>1. PICK ptr : ptr = outputs  OBVIOUS
  <2>2. /\ ptr \in [Slaves -> Pointers] /\ PointsAt(ptr, "out")
        /\ o2 = IF mo.list = << >> THEN ptr
                ELSE [ptr EXCEPT ![slave] = PointAt(ptr[slave], mo.list)]
    BY <1>6, <1>14, <2>1 DEF PointInv
  <2>3. /\ \A p \in Programmed("out", mo.list) : p.dir = "out"
        /\ \A f : f \in fmmu' /\ f.dir = "out" <=>
                    (f \in fmmu /\ f.dir = "out") \/ f \in Programmed("out", mo.list)
    BY <1>4, <1>7, <1>11, <1>12
  <2>4. PointsAt(o2, "out")'
    BY <1>1, <1>2, <1>7, <1>11, <1>14, <1>15, <2>2, <2>3, PointsMore
  <2> QED BY <1>7, <2>4 DEF PointsAt
<1>17. (~Overlap \/ NoneMapped) => PointsAt(inputs, "in")'
  <2> HAVE ~Overlap \/ NoneMapped
  <2>1. PICK ptr : ptr = inputs  OBVIOUS
  <2>2. /\ ptr \in [Slaves -> Pointers] /\ PointsAt(ptr, "in")
        /\ i2 = IF mi.list = << >> THEN ptr
                ELSE [ptr EXCEPT ![slave] = PointAt(ptr[slave], mi.list)]
    BY <1>6, <1>14, <2>1 DEF PointInv
  <2>3. /\ \A p \in Programmed("in", mi.list) : p.dir = "in"
        /\ \A f : f \in fmmu' /\ f.dir = "in" <=>
                    (f \in fmmu /\ f.dir = "in") \/ f \in Programmed("in", mi.list)
    BY <1>4, <1>7, <1>11, <1>12
  <2>4. PointsAt(i2, "in")'
    BY <1>1, <1>2, <1>7, <1>12, <1>14, <1>15, <2>2, <2>3, PointsMore
  <2> QED BY <1>7, <2>4 DEF PointsAt
<1>18. PICK new : new = po \cup pi  OBVIOUS
<1>19. /\ fmmu' = fmmu \cup new
       /\ \A p \in new : p.group = cur /\ p.slave = slave /\ InGroup(slave, cur)
  BY <1>2, <1>7, <1>11, <1>12, <1>18 DEF Fresh
<1>20. \/ inputs' = inputs
       \/ InGroup(slave, cur) /\ \E x : inputs' = [inputs EXCEPT ![slave] = x]
  BY <1>2, <1>6, <1>7
<1> QED BY <1>1, <1>2, <1>7, <1>13, <1>16, <1>17, <1>19, <1>20, PointInvGrows

\* The inputs of all slaves move behind the outputs.
LEMMA EndBothPoints ==
  ASSUME MapInv, PointInv, EndBoth
  PROVE  PointInv'
<1>1. MapTypes /\ phase = "both" /\ Running /\ cur \in Groups /\ ~group[cur].mapped /\ Overlap
      /\ Base(cur) <= soLogAddr
  BY DEF MapInv, PassRight, Running, EndBoth
<1>2. PICK o : o = soLogAddr - Base(cur)  OBVIOUS
<1>3. /\ inputs' = ShiftInputs(o) /\ phase' = "idle"
      /\ setup' = setup /\ fmmu' = fmmu /\ outputs' = outputs /\ cur' = cur
      /\ DOMAIN group' = DOMAIN group
      /\ \A g \in Groups : g # cur => group'[g] = group[g]
      /\ group'[cur].mapped = TRUE /\ group'[cur].Obytes = o
  <2>1. PICK q : q = [group[cur] EXCEPT
                        !.mapped = TRUE, !.IOsegment = Close(seg), !.nsegments = seg.n + 1,
                        !.Isegment = 0, !.Ioffset = 0, !.Obytes = o,
                        !.Ibytes = siLogAddr - Base(cur), !.inputs = o]
    OBVIOUS
  <2>2. group[cur] \in Records /\ group \in [Groups -> Records]  BY <1>1 DEF MapTypes
  <2>3. q.mapped = TRUE /\ q.Obytes = o
    <3>1. PICK r, x, y, z : r = group[cur] /\ x = Close(seg) /\ y = seg.n + 1
                            /\ z = siLogAddr - Base(cur)
      OBVIOUS
    <3>2. q = [[[[[[[[r EXCEPT !.mapped = TRUE] EXCEPT !.IOsegment = x] EXCEPT !.nsegments = y]
               EXCEPT !.Isegment = 0] EXCEPT !.Ioffset = 0] EXCEPT !.Obytes = o]
               EXCEPT !.Ibytes = z] EXCEPT !.inputs = o]
      BY <2>1, <3>1
    <3>3. r \in Records  BY <2>2, <3>1
    <3> QED BY <3>2, <3>3 DEF Records
  <2>4. group' = [group EXCEPT ![cur] = q]  BY <1>2, <2>1 DEF EndBoth
  <2>5. /\ inputs' = ShiftInputs(o) /\ phase' = "idle"
        /\ setup' = setup /\ fmmu' = fmmu /\ outputs' = outputs /\ cur' = cur
    BY <1>2 DEF EndBoth
  <2> QED BY <1>1, <2>2, <2>3, <2>4, <2>5
<1>4. /\ Groups' = Groups /\ SlaveGroup' = SlaveGroup /\ Slaves' = Slaves /\ Overlap' = Overlap
  BY <1>3, SameSetup
<1>5. o \in Nat
  <2>1. soLogAddr \in Nat /\ Base(cur) \in Nat  BY <1>1, SetupFacts DEF MapTypes
  <2> QED BY <1>1, <1>2, <2>1
<1>6. PointsAt(outputs, "out")'
  <2>1. PICK ptr : ptr = outputs  OBVIOUS
  <2>2. PointsAt(ptr, "out")'  BY <1>3, <2>1, PointsSame DEF PointInv
  <2> QED BY <1>3, <2>1, <2>2 DEF PointsAt
<1>7. \A f \in fmmu : InGroup(f.slave, f.group)' /\ Passed(f)'
  BY <1>3, <1>4 DEF PointInv, InGroup, Passed, Running
<1>8. ~ NoneMapped'  BY <1>1, <1>3, <1>4 DEF NoneMapped
<1>9. ASSUME NEW f \in fmmu  PROVE Shifted(f)'
  <2> SUFFICES ASSUME f.dir = "in", group'[f.group].mapped, Undisturbed(f.group)', Leads(f)'
               PROVE  inputs'[f.slave] = ShiftedAt(f)'
    BY DEF Shifted
  <2>1. /\ f.group \in Groups /\ f.slave \in Slaves /\ f.start \in Nat /\ Base(f.group) \in Nat
    BY <1>1, FmmuFields, SetupFacts
  <2>2. f.group = cur /\ NoneMapped
    <3>1. \A h \in Groups : group'[h].mapped => h = f.group
      BY <1>1, <1>4 DEF Undisturbed
    <3>2. f.group = cur  BY <1>1, <1>3, <3>1
    <3> QED BY <1>1, <1>3, <3>1, <3>2 DEF NoneMapped
  <2>3. PointsAt(inputs, "in") /\ Leads(f)  BY <1>3, <2>2 DEF PointInv, Leads
  <2>4. inputs[f.slave] = At(f)  BY <2>1, <2>3 DEF PointsAt
  <2>5. inputs'[f.slave] = [inputs[f.slave] EXCEPT !.off = inputs[f.slave].off + o]
    BY <1>3, <2>1 DEF ShiftInputs
  <2>6. PICK p, x : p = At(f) /\ x = f.start - Base(f.group)  OBVIOUS
  <2>7. p = [map |-> f.group, off |-> x]  BY <2>6 DEF At
  <2>8. [p EXCEPT !.off = p.off + o] = [map |-> f.group, off |-> x + o]
    <3>1. p.off = x  BY <2>7
    <3>2. PICK y : y = x + o  OBVIOUS
    <3>3. [p EXCEPT !.off = y] = [map |-> f.group, off |-> y]  BY <2>7
    <3> QED BY <3>1, <3>2, <3>3
  <2>9. ShiftedAt(f)' = [map |-> f.group, off |-> x + o]
    BY <1>3, <2>2, <2>6 DEF ShiftedAt, Base
  <2> QED BY <2>4, <2>5, <2>6, <2>8, <2>9
<1> QED BY <1>1, <1>3, <1>4, <1>6, <1>7, <1>8, <1>9 DEF PointInv

LEMMA PointStutters ==
  ASSUME PointInv, UNCHANGED mapVars
  PROVE  PointInv'
<1>1. /\ setup' = setup /\ fmmu' = fmmu /\ outputs' = outputs /\ inputs' = inputs
      /\ group' = group /\ phase' = phase /\ cur' = cur /\ slave' = slave
  BY DEF mapVars
<1>2. /\ Groups' = Groups /\ SlaveGroup' = SlaveGroup /\ Slaves' = Slaves /\ Overlap' = Overlap
  BY <1>1, SameSetup
<1>3. \A f \in fmmu : InGroup(f.slave, f.group)' /\ Passed(f)'
  BY <1>1, <1>2 DEF PointInv, InGroup, Passed, Running
<1>4. PointsAt(outputs, "out")'
  <2>1. PICK ptr : ptr = outputs  OBVIOUS
  <2>2. PointsAt(ptr, "out")'  BY <1>1, <2>1, PointsSame DEF PointInv
  <2> QED BY <1>1, <2>1, <2>2 DEF PointsAt
<1>5. (~Overlap \/ NoneMapped) => PointsAt(inputs, "in")'
  <2> HAVE ~Overlap \/ NoneMapped
  <2>1. PICK ptr : ptr = inputs  OBVIOUS
  <2>2. PointsAt(ptr, "in")'  BY <1>1, <2>1, PointsSame DEF PointInv
  <2> QED BY <1>1, <2>1, <2>2 DEF PointsAt
<1>6. NoneMapped' = NoneMapped  BY <1>1, <1>2 DEF NoneMapped
<1>7. ASSUME NEW f \in fmmu, Shifted(f)  PROVE Shifted(f)'
  <2>1. Leads(f)' = Leads(f)  BY <1>1 DEF Leads
  <2>2. ShiftedAt(f)' = ShiftedAt(f)  BY <1>1 DEF ShiftedAt, Base
  <2>3. Undisturbed(f.group)' = Undisturbed(f.group)  BY <1>1, <1>2 DEF Undisturbed
  <2> QED BY <1>1, <1>7, <2>1, <2>2, <2>3 DEF Shifted
<1> QED BY <1>1, <1>2, <1>3, <1>4, <1>5, <1>6, <1>7 DEF PointInv

LEMMA PointStepKeeps ==
  ASSUME OneMapping, MapInv, PointInv, MapStep
  PROVE  PointInv'
<1>1. CASE \E g \in Groups : StartMap(g)  BY <1>1, TurnPoints
<1>2. CASE MapOutput  BY <1>2, MapOutputPoints
<1>3. CASE SkipOutput  BY <1>3, SkipPoints
<1>4. CASE EndOutputs  BY <1>4, TurnPoints
<1>5. CASE MapInput  BY <1>5, MapInputPoints
<1>6. CASE SkipInput  BY <1>6, SkipPoints
<1>7. CASE EndInputs  BY <1>7, TurnPoints
<1>8. CASE MapBoth  BY <1>8, MapBothPoints
<1>9. CASE SkipBoth  BY <1>9, SkipPoints
<1>10. CASE EndBoth  BY <1>10, EndBothPoints
<1> QED BY <1>1, <1>2, <1>3, <1>4, <1>5, <1>6, <1>7, <1>8, <1>9, <1>10 DEF MapStep

\* Each slave's pointers name the bytes of the IOmap that its first FMMUs stand for,
\* when every slave is mapped once: in one group, or all of them in group 0.
THEOREM PointersRightAlways ==
  ASSUME OneMapping  PROVE ProcessSpec /\ []ImageFits => []PointersRight
<1>1. InitProcess => PointInv
  <2> SUFFICES ASSUME InitProcess  PROVE PointInv  OBVIOUS
  <2>1. fmmu = {} /\ outputs = [s \in Slaves |-> Null] /\ inputs = [s \in Slaves |-> Null]
    BY DEF InitProcess, MapInit
  <2> QED BY <2>1 DEF PointInv, PointsAt
<1>2. MapInv /\ PointInv /\ [NextProcess]_<<mapVars, pvars>> => PointInv'
  <2> SUFFICES ASSUME MapInv, PointInv, [NextProcess]_<<mapVars, pvars>>  PROVE PointInv'
    OBVIOUS
  <2>1. CASE MapStep  BY <2>1, PointStepKeeps
  <2>2. CASE UNCHANGED mapVars  BY <2>2, PointStutters
  <2> QED BY <2>1, <2>2 DEF NextProcess
<1>3. MapInv /\ PointInv => PointersRight
  <2> SUFFICES ASSUME MapInv, PointInv, NEW f \in fmmu, group[f.group].mapped,
                      Undisturbed(f.group)
               PROVE  /\ f \in FirstOf(f.slave, "out") => outputs[f.slave] = At(f)
                      /\ f \in FirstOf(f.slave, "in") =>
                           inputs[f.slave] =
                             [map |-> f.group, off |-> f.start - Base(f.group) +
                                (IF Overlap THEN group[f.group].Obytes ELSE 0)]
    BY DEF PointersRight, At
  <2>1. f.slave \in Slaves /\ f.group \in Groups /\ f.start \in Nat /\ Base(f.group) \in Nat
    BY FmmuFields, SetupFacts DEF MapInv
  <2>2. ASSUME NEW dir, f \in FirstOf(f.slave, dir)  PROVE f.dir = dir /\ Leads(f)
    BY <2>2 DEF FirstOf, Leads
  <2>3. f \in FirstOf(f.slave, "out") => outputs[f.slave] = At(f)
    BY <2>1, <2>2 DEF PointInv, PointsAt
  <2>4. CASE Overlap
    <3>1. f \in FirstOf(f.slave, "in") => inputs[f.slave] = ShiftedAt(f)
      BY <2>2, <2>4 DEF PointInv, Shifted
    <3> QED BY <2>3, <2>4, <3>1 DEF ShiftedAt
  <2>5. CASE ~Overlap
    <3>1. f \in FirstOf(f.slave, "in") => inputs[f.slave] = At(f)
      BY <2>1, <2>2, <2>5 DEF PointInv, PointsAt
    <3>2. f.start - Base(f.group) + 0 = f.start - Base(f.group)  BY <2>1
    <3> QED BY <2>3, <2>5, <3>1, <3>2 DEF At
  <2> QED BY <2>4, <2>5
<1> QED BY <1>1, <1>2, <1>3, MapInvAlways, PTL DEF ProcessSpec
-----------------------------------------------------------------------------
(* The segments.                                                           *)

\* The first n segments of a list.
Sum(list, n) == Total([i \in 1 .. n |-> list[i - 1]], n)

LEMMA SumNext ==
  ASSUME NEW list, NEW n \in Nat, \A i \in 0 .. n : list[i] \in Nat
  PROVE  Sum(list, n) \in Nat /\ Sum(list, n + 1) = Sum(list, n) + list[n]
<1>1. PICK f : f = [i \in 1 .. n + 1 |-> list[i - 1]]  OBVIOUS
<1>2. PICK g : g = [i \in 1 .. n |-> list[i - 1]]  OBVIOUS
<1>3. \A i \in 1 .. n + 1 : i - 1 \in 0 .. n /\ f[i] = list[i - 1]  BY <1>1
<1>4. \A i \in 1 .. n + 1 : f[i] \in Nat  BY <1>3
<1>5. \A i \in 1 .. n : g[i] = f[i]
  <2>1. \A i \in 1 .. n : i \in 1 .. n + 1 /\ g[i] = list[i - 1]  BY <1>2
  <2> QED BY <1>3, <2>1
<1>6. Total(g, n) \in Nat /\ Total(f, n + 1) = Total(g, n) + f[n + 1]
  BY <1>4, <1>5, TotalNext
<1>7. f[n + 1] = list[n]
  <2>1. n + 1 \in 1 .. n + 1 /\ (n + 1) - 1 = n  OBVIOUS
  <2> QED BY <1>1, <2>1
<1>8. Sum(list, n) = Total(g, n) /\ Sum(list, n + 1) = Total(f, n + 1)
  BY <1>1, <1>2 DEF Sum
<1> QED BY <1>6, <1>7, <1>8

LEMMA SumSame ==
  ASSUME NEW n \in Nat, NEW list, NEW list2,
         \A i \in 0 .. n - 1 : list[i] = list2[i]
  PROVE  Sum(list, n) = Sum(list2, n)
<1>1. \A i \in 1 .. n : i - 1 \in 0 .. n - 1  OBVIOUS
<1>2. [i \in 1 .. n |-> list[i - 1]] = [i \in 1 .. n |-> list2[i - 1]]  BY <1>1
<1> QED BY <1>2 DEF Sum

LEMMA SumIsNat ==
  ASSUME NEW n \in Nat, NEW list, \A i \in 0 .. n - 1 : list[i] \in Nat
  PROVE  Sum(list, n) \in Nat
<1>1. PICK f : f = [i \in 1 .. n |-> list[i - 1]]  OBVIOUS
<1>2. \A i \in 1 .. n : i - 1 \in 0 .. n - 1 /\ f[i] = list[i - 1]  BY <1>1
<1>3. \A i \in 1 .. n : f[i] \in Nat  BY <1>2
<1> QED BY <1>1, <1>3, TotalIsNat DEF Sum

\* The bytes that the segments hold so far; none is more than a frame.
Held(sg) == Sum(sg.list, sg.n) + sg.size
SegFits(sg) == sg.size <= Limit /\ \A i \in 0 .. MaxIOSegments - 1 : sg.list[i] <= Limit

LEMMA HeldIsNat ==
  ASSUME NEW sg \in SegType, MaxIOSegments \in Nat \ {0}
  PROVE  Held(sg) \in Nat /\ Sum(sg.list, sg.n) \in Nat
<1>1. PICK n \in 0 .. MaxIOSegments - 1, size \in Nat, list \in [0 .. MaxIOSegments - 1 -> Nat] :
        sg = [n |-> n, size |-> size, list |-> list]
  BY DEF SegType
<1>2. n \in Nat /\ \A i \in 0 .. n - 1 : i \in 0 .. MaxIOSegments - 1  OBVIOUS
<1>3. \A i \in 0 .. n - 1 : list[i] \in Nat  BY <1>2
<1>4. Sum(list, n) \in Nat  BY <1>2, <1>3, SumIsNat
<1> QED BY <1>1, <1>4 DEF Held

\* A segment that is not the last takes more bytes, or is closed before them.
LEMMA GrowHolds ==
  ASSUME NEW sg \in SegType, NEW diff \in Nat, diff <= Limit, Limit \in Nat,
         MaxIOSegments \in Nat \ {0}, sg.n < MaxIOSegments - 1, SegFits(sg),
         NEW h, h = Grow(sg, diff)
  PROVE  /\ SegFits(h) /\ Held(h) = Held(sg) + diff /\ h \in SegType
         /\ \A i \in 0 .. sg.n - 1 : h.list[i] = sg.list[i]
         /\ \/ h.n = sg.n /\ sg.size <= h.size
            \/ h.n > sg.n /\ h.list[sg.n] = sg.size
<1>1. PICK n \in 0 .. MaxIOSegments - 1, size \in Nat, list \in [0 .. MaxIOSegments - 1 -> Nat] :
        sg = [n |-> n, size |-> size, list |-> list]
  BY DEF SegType
<1>2. sg.n = n /\ sg.size = size /\ sg.list = list  BY <1>1
<1>3. h \in SegType  BY GrowType
<1>4. \A i \in 0 .. MaxIOSegments - 1 : list[i] <= Limit  BY <1>2 DEF SegFits
<1>5. CASE size + diff <= Limit
  <2>1. h = [n |-> n, size |-> size + diff, list |-> list]
    BY <1>1, <1>2, <1>5 DEF Grow
  <2>2. h.n = n /\ h.size = size + diff /\ h.list = list  BY <2>1
  <2>3. SegFits(h)  BY <1>4, <1>5, <2>2 DEF SegFits
  <2>4. Sum(list, n) \in Nat  BY <1>2, HeldIsNat
  <2>5. Held(h) = Held(sg) + diff  BY <1>2, <2>2, <2>4 DEF Held
  <2> QED BY <1>2, <1>3, <2>2, <2>3, <2>5
<1>6. CASE ~ (size + diff <= Limit)
  <2>1. PICK closed : closed = [list EXCEPT ![n] = size]  OBVIOUS
  <2>2. /\ closed \in [0 .. MaxIOSegments - 1 -> Nat] /\ closed[n] = size
        /\ \A i \in 0 .. MaxIOSegments - 1 : i # n => closed[i] = list[i]
    BY <2>1
  <2>3. h = [n |-> n + 1, size |-> diff, list |-> closed]
    BY <1>1, <1>2, <1>6, <2>1 DEF Grow, Close
  <2>4. h.n = n + 1 /\ h.size = diff /\ h.list = closed  BY <2>3
  <2>5. SegFits(h)
    <3>1. size <= Limit  BY <1>2 DEF SegFits
    <3>2. \A i \in 0 .. MaxIOSegments - 1 : closed[i] <= Limit  BY <1>4, <2>2, <3>1
    <3> QED BY <2>4, <3>2 DEF SegFits
  <2>6. n \in Nat /\ \A i \in 0 .. n : i \in 0 .. MaxIOSegments - 1  OBVIOUS
  <2>7. \A i \in 0 .. n - 1 : i \in 0 .. MaxIOSegments - 1 /\ i # n  OBVIOUS
  <2>8. \A i \in 0 .. n - 1 : closed[i] = list[i]  BY <2>2, <2>7
  <2>9. Sum(closed, n) = Sum(list, n)  BY <2>6, <2>8, SumSame
  <2>10. Sum(closed, n + 1) = Sum(closed, n) + size /\ Sum(closed, n) \in Nat
    <3>1. \A i \in 0 .. n : closed[i] \in Nat  BY <2>2, <2>6
    <3> QED BY <2>2, <2>6, <3>1, SumNext
  <2>11. Held(h) = Held(sg) + diff  BY <1>2, <2>4, <2>9, <2>10 DEF Held
  <2>12. h.n > sg.n /\ h.list[sg.n] = sg.size  BY <1>2, <2>2, <2>4
  <2> QED BY <1>2, <1>3, <2>4, <2>5, <2>8, <2>11, <2>12
<1> QED BY <1>5, <1>6

\* The list when the last segment is closed.
LEMMA CloseHolds ==
  ASSUME NEW sg \in SegType, Limit \in Nat, MaxIOSegments \in Nat \ {0}, SegFits(sg)
  PROVE  /\ Close(sg) \in [0 .. MaxIOSegments - 1 -> Nat]
         /\ \A i \in 0 .. MaxIOSegments - 1 : Close(sg)[i] <= Limit
         /\ Sum(Close(sg), sg.n + 1) = Held(sg)
         /\ Close(sg)[sg.n] = sg.size
         /\ \A i \in 0 .. sg.n - 1 : Close(sg)[i] = sg.list[i]
<1>1. PICK n \in 0 .. MaxIOSegments - 1, size \in Nat, list \in [0 .. MaxIOSegments - 1 -> Nat] :
        sg = [n |-> n, size |-> size, list |-> list]
  BY DEF SegType
<1>2. sg.n = n /\ sg.size = size /\ sg.list = list  BY <1>1
<1>3. PICK closed : closed = [list EXCEPT ![n] = size]  OBVIOUS
<1>4. Close(sg) = closed  BY <1>2, <1>3 DEF Close
<1>5. /\ closed \in [0 .. MaxIOSegments - 1 -> Nat] /\ closed[n] = size
      /\ \A i \in 0 .. MaxIOSegments - 1 : i # n => closed[i] = list[i]
  BY <1>3
<1>6. \A i \in 0 .. MaxIOSegments - 1 : closed[i] <= Limit
  <2>1. size <= Limit /\ \A i \in 0 .. MaxIOSegments - 1 : list[i] <= Limit
    BY <1>2 DEF SegFits
  <2> QED BY <1>5, <2>1
<1>7. n \in Nat /\ \A i \in 0 .. n : i \in 0 .. MaxIOSegments - 1  OBVIOUS
<1>8. \A i \in 0 .. n - 1 : i \in 0 .. MaxIOSegments - 1 /\ i # n  OBVIOUS
<1>9. \A i \in 0 .. n - 1 : closed[i] = list[i]  BY <1>5, <1>8
<1>10. Sum(closed, n) = Sum(list, n)  BY <1>7, <1>9, SumSame
<1>11. Sum(closed, n + 1) = Sum(closed, n) + size
  <2>1. \A i \in 0 .. n : closed[i] \in Nat  BY <1>5, <1>7
  <2> QED BY <1>5, <1>7, <2>1, SumNext
<1> QED BY <1>2, <1>4, <1>5, <1>6, <1>9, <1>10, <1>11 DEF Held

\* A frame takes the data of a slave and a byte that was begun before it; and
\* there is another segment while slaves are mapped.
FrameHolds == Limit > 0 /\ \A u \in Setups : \A l \in u.outs \cup u.ins : Bytes(l.bits) < Limit
SegmentsLeft == Running => seg.n < MaxIOSegments - 1

\* Isegment and Ioffset are where the outputs end.
Cut(gr, sg) ==
  /\ gr.Isegment \in 0 .. sg.n /\ Sum(sg.list, gr.Isegment) + gr.Ioffset = gr.Obytes
  /\ gr.Ioffset <= IF gr.Isegment = sg.n THEN sg.size ELSE sg.list[gr.Isegment]

Sized(g) ==
  /\ Sum(group[g].IOsegment, group[g].nsegments) = Size(g)
  /\ \A i \in 0 .. MaxIOSegments - 1 : group[g].IOsegment[i] <= Limit
  /\ ~Overlap => /\ Sum(group[g].IOsegment, group[g].Isegment) + group[g].Ioffset
                      = group[g].Obytes
                 /\ group[g].Ioffset <= group[g].IOsegment[group[g].Isegment]

SegInv ==
  /\ SegFits(seg)
  /\ Running => Base(cur) + Held(seg) = LogAddr
  /\ phase = "in" => Cut(group[cur], seg)
  /\ \A g \in Groups : group[g].mapped => Sized(g)

SameLists ==
  \A g \in Groups : /\ group'[g].Isegment = group[g].Isegment
                    /\ group'[g].Ioffset = group[g].Ioffset
                    /\ group'[g].IOsegment = group[g].IOsegment
                    /\ group'[g].nsegments = group[g].nsegments

LEMMA SizedStays ==
  ASSUME setup' = setup, NEW g \in Groups, Sized(g),
         group'[g].Obytes = group[g].Obytes, group'[g].Ibytes = group[g].Ibytes,
         group'[g].Isegment = group[g].Isegment, group'[g].Ioffset = group[g].Ioffset,
         group'[g].IOsegment = group[g].IOsegment, group'[g].nsegments = group[g].nsegments
  PROVE  Sized(g)'
<1>1. Overlap' = Overlap  BY SameSetup
<1>2. Size(g)' = Size(g)  BY <1>1 DEF Size
<1> QED BY <1>1, <1>2 DEF Sized

LEMMA CutGrows ==
  ASSUME NEW sg \in SegType, NEW h \in SegType, NEW gr \in Records, Cut(gr, sg),
         MaxIOSegments \in Nat \ {0},
         \A i \in 0 .. sg.n - 1 : h.list[i] = sg.list[i],
         \/ h.n = sg.n /\ sg.size <= h.size
         \/ h.n > sg.n /\ h.list[sg.n] = sg.size
  PROVE  Cut(gr, h)
<1>1. PICK k, o : k = gr.Isegment /\ o = gr.Ioffset  OBVIOUS
<1>2. PICK n, hn : n = sg.n /\ hn = h.n  OBVIOUS
<1>3. n \in Nat /\ hn \in Nat /\ sg.size \in Nat /\ h.size \in Nat /\ k \in 0 .. n /\ o \in Nat
  BY <1>1, <1>2 DEF SegType, Records, Cut
<1>4. n <= hn  BY <1>2, <1>3
<1>5. k \in 0 .. hn  BY <1>3, <1>4
<1>6. Sum(h.list, k) = Sum(sg.list, k)
  <2>1. k \in Nat /\ \A i \in 0 .. k - 1 : i \in 0 .. n - 1  BY <1>3
  <2>2. \A i \in 0 .. k - 1 : h.list[i] = sg.list[i]  BY <1>2, <2>1
  <2> QED BY <2>1, <2>2, SumSame
<1>7. o <= IF k = hn THEN h.size ELSE h.list[k]
  <2>1. CASE k = n
    <3>1. o <= sg.size  BY <1>1, <1>2, <2>1 DEF Cut
    <3>2. CASE hn = n  BY <1>2, <1>3, <2>1, <3>1, <3>2
    <3>3. CASE hn # n
      <4>1. h.list[n] = sg.size  BY <1>2, <1>3, <3>3
      <4> QED BY <2>1, <3>1, <3>3, <4>1
    <3> QED BY <3>2, <3>3
  <2>2. CASE k # n
    <3>1. o <= sg.list[k]  BY <1>1, <1>2, <2>2 DEF Cut
    <3>2. k \in 0 .. n - 1 /\ k # hn  BY <1>3, <1>4, <2>2
    <3>3. h.list[k] = sg.list[k]  BY <1>2, <3>2
    <3> QED BY <3>1, <3>2, <3>3
  <2> QED BY <2>1, <2>2
<1> QED BY <1>1, <1>2, <1>5, <1>6, <1>7 DEF Cut

LEMMA SegGrows ==
  ASSUME MapInv, SegInv, Running, SegmentsLeft, SameSizes, SameLists,
         NEW diff \in Nat, diff <= Limit, LogAddr' = LogAddr + diff, seg' = Grow(seg, diff)
  PROVE  SegInv'
<1>1. MapTypes /\ cur \in Groups  BY DEF MapInv, PassRight
<1>2. /\ Limit \in Nat /\ MaxIOSegments \in Nat \ {0} /\ Base(cur) \in Nat /\ LogAddr \in Nat
      /\ seg \in SegType /\ seg.n < MaxIOSegments - 1 /\ group \in [Groups -> Records]
  BY <1>1, SetupFacts DEF MapTypes, SegmentsLeft
<1>3. setup' = setup /\ cur' = cur /\ phase' = phase /\ Groups' = Groups
  BY SameSetup DEF SameSizes
<1>4. PICK h : h = Grow(seg, diff)  OBVIOUS
<1>5. /\ SegFits(h) /\ Held(h) = Held(seg) + diff /\ h \in SegType
      /\ \A i \in 0 .. seg.n - 1 : h.list[i] = seg.list[i]
      /\ \/ h.n = seg.n /\ seg.size <= h.size
         \/ h.n > seg.n /\ h.list[seg.n] = seg.size
  <2>1. PICK sg : sg = seg  OBVIOUS
  <2>2. sg \in SegType /\ SegFits(sg) /\ sg.n < MaxIOSegments - 1 /\ h = Grow(sg, diff)
    BY <1>2, <1>4, <2>1 DEF SegInv
  <2> QED BY <1>2, <2>1, <2>2, GrowHolds
<1>6. seg' = h  BY <1>4
<1>7. SegFits(seg)'  BY <1>5, <1>6 DEF SegFits
<1>8. Base(cur)' + Held(seg)' = LogAddr'
  <2>1. Base(cur) + Held(seg) = LogAddr /\ Held(seg) \in Nat
    BY <1>2, HeldIsNat DEF SegInv
  <2>2. Base(cur)' = Base(cur)  BY <1>3 DEF Base
  <2>3. Held(seg)' = Held(h)  BY <1>6 DEF Held
  <2> QED BY <1>2, <1>5, <2>1, <2>2, <2>3
<1>9. phase = "in" => Cut(group[cur], seg)'
  <2> HAVE phase = "in"
  <2>1. PICK gr : gr = group[cur]  OBVIOUS
  <2>2. PICK sg : sg = seg  OBVIOUS
  <2>3. gr \in Records /\ Cut(gr, sg) /\ sg \in SegType
    BY <1>1, <1>2, <2>1, <2>2 DEF SegInv
  <2>4. Cut(gr, h)  BY <1>2, <1>5, <2>2, <2>3, CutGrows
  <2>5. /\ group'[cur].Isegment = gr.Isegment /\ group'[cur].Ioffset = gr.Ioffset
        /\ group'[cur].Obytes = gr.Obytes
    BY <1>1, <2>1 DEF SameSizes, SameLists
  <2> QED BY <1>3, <1>6, <2>4, <2>5 DEF Cut
<1>10. ASSUME NEW g \in Groups, group'[g].mapped  PROVE Sized(g)'
  <2>1. Sized(g)  BY <1>10 DEF SegInv, SameSizes
  <2> QED BY <1>3, <2>1, SizedStays DEF SameSizes, SameLists
<1> QED BY <1>3, <1>7, <1>8, <1>9, <1>10 DEF SegInv

LEMMA SegSame ==
  ASSUME MapInv, SegInv, setup' = setup, cur' = cur, phase' = phase, seg' = seg,
         LogAddr' = LogAddr, SameLists,
         \A g \in Groups : /\ group'[g].mapped = group[g].mapped
                           /\ group'[g].Obytes = group[g].Obytes
                           /\ group'[g].Ibytes = group[g].Ibytes
  PROVE  SegInv'
<1>1. Groups' = Groups  BY SameSetup
<1>2. SegFits(seg)'  BY DEF SegInv, SegFits
<1>3. Running' => Base(cur)' + Held(seg)' = LogAddr'  BY DEF SegInv, Running, Base, Held
<1>4. phase' = "in" => Cut(group[cur], seg)'
  <2> HAVE phase' = "in"
  <2>1. cur \in Groups  BY DEF MapInv, PassRight, Running
  <2> QED BY <2>1 DEF SegInv, Cut, SameLists
<1>5. ASSUME NEW g \in Groups, group'[g].mapped  PROVE Sized(g)'
  <2>1. Sized(g)  BY <1>5 DEF SegInv
  <2> QED BY <2>1, SizedStays DEF SameLists
<1> QED BY <1>1, <1>2, <1>3, <1>4, <1>5 DEF SegInv

LEMMA SegStartMap ==
  ASSUME MapInv, SegInv, NEW g \in Groups, StartMap(g)
  PROVE  SegInv'
<1>1. /\ phase' # "in" /\ cur' = g /\ LogAddr' = Base(g)
      /\ seg' = [n |-> 0, size |-> 0, list |-> NoSegments]
      /\ setup' = setup /\ group' = group
  BY DEF StartMap
<1>2. MapTypes /\ Limit \in Nat /\ Base(g) \in Nat /\ Groups' = Groups
  BY <1>1, SetupFacts, SameSetup DEF MapInv
<1>3. SegFits(seg)'
  <2>1. seg'.size = 0 /\ seg'.list = NoSegments  BY <1>1
  <2>2. \A i \in 0 .. MaxIOSegments - 1 : NoSegments[i] = 0  BY DEF NoSegments
  <2> QED BY <1>2, <2>1, <2>2 DEF SegFits
<1>4. Held(seg)' = 0
  <2>1. seg'.size = 0 /\ seg'.n = 0  BY <1>1
  <2>2. \A list : Sum(list, 0) = 0  BY TotalOfNone DEF Sum
  <2> QED BY <2>1, <2>2 DEF Held
<1>5. Base(cur)' + Held(seg)' = LogAddr'  BY <1>1, <1>2, <1>4 DEF Base
<1>6. ASSUME NEW h \in Groups, group'[h].mapped  PROVE Sized(h)'
  <2>1. Sized(h)  BY <1>1, <1>6 DEF SegInv
  <2> QED BY <1>1, <2>1, SizedStays
<1> QED BY <1>1, <1>2, <1>3, <1>5, <1>6 DEF SegInv

\* How much a slave adds.
LEMMA Growth ==
  ASSUME FrameHolds, MapTypes, NEW l, IsLayout(l), l.bits > 0, Bytes(l.bits) < Limit,
         NEW bit \in 0 .. 7, NEW m, m = Fmmus(l, LogAddr, bit)
  PROVE  /\ \E diff \in Nat : diff <= Limit /\ m.addr = LogAddr + diff
         /\ \E diff \in Nat : diff <= Limit /\ WholeByte(m) = LogAddr + diff
         /\ m.list # << >>
<1>1. LogAddr \in Nat /\ Limit \in Nat /\ Bytes(l.bits) \in Nat
  BY LayoutFacts, SetupFacts DEF MapTypes
<1>2. Laid(m, LogAddr, bit)  BY <1>1, FmmusLaid
<1>3. /\ m.addr \in Nat /\ m.bit \in 0 .. 7 /\ 8 * LogAddr + bit <= 8 * m.addr + m.bit
      /\ m.list # << >>
  BY <1>2 DEF Laid
<1>4. 8 * m.addr + m.bit <= 8 * (LogAddr + Bytes(l.bits) + 1)  BY <1>1, FmmusShort
<1>5. PICK a, b, c, la : a = m.addr /\ b = m.bit /\ c = Bytes(l.bits) /\ la = LogAddr  OBVIOUS
<1>6. a \in Nat /\ b \in 0 .. 7 /\ c \in Nat /\ la \in Nat /\ c < Limit  BY <1>1, <1>3, <1>5
<1>7. 8 * la + bit <= 8 * a + b  BY <1>3, <1>5
<1>8. 8 * a + b <= 8 * (la + c + 1)  BY <1>4, <1>5
<1>9. la <= a /\ a <= la + c + 1  BY <1>6, <1>7, <1>8
<1>10. b # 0 => a + 1 <= la + c + 1  BY <1>6, <1>8
<1>11. PICK d : d = a - la  OBVIOUS
<1>12. d \in Nat /\ d <= c + 1 /\ a = la + d  BY <1>6, <1>9, <1>11
<1>13. c + 1 <= Limit  BY <1>1, <1>6
<1>14. d <= Limit  BY <1>1, <1>6, <1>12, <1>13
<1>15. WholeByte(m) = IF b = 0 THEN a ELSE a + 1  BY <1>5 DEF WholeByte
<1>16. \E diff \in Nat : diff <= Limit /\ WholeByte(m) = LogAddr + diff
  <2>1. CASE b = 0  BY <1>5, <1>12, <1>14, <1>15, <2>1
  <2>2. CASE b # 0
    <3>1. d + 1 \in Nat /\ d + 1 <= Limit  BY <1>1, <1>6, <1>10, <1>12, <1>13, <2>2
    <3>2. WholeByte(m) = la + (d + 1)  BY <1>6, <1>12, <1>15, <2>2
    <3> QED BY <1>5, <3>1, <3>2
  <2> QED BY <2>1, <2>2
<1> QED BY <1>3, <1>5, <1>12, <1>14, <1>16

LEMMA LayoutShort ==
  ASSUME FrameHolds, MapTypes, NEW s \in Slaves
  PROVE  /\ IsLayout(out[s]) /\ Bytes(out[s].bits) < Limit
         /\ IsLayout(in[s]) /\ Bytes(in[s].bits) < Limit
<1>1. PICK u \in Setups : u = setup  BY DEF MapTypes
<1>2. out[s] \in u.outs /\ in[s] \in u.ins  BY <1>1 DEF MapTypes
<1> QED BY <1>1, <1>2, SetupFacts DEF FrameHolds

LEMMA MapOutputSegs ==
  ASSUME MapInv, SegInv, FrameHolds, SegmentsLeft, MapOutput
  PROVE  SegInv'
<1>1. MapTypes /\ phase = "out" /\ Running /\ cur \in Groups
  BY DEF MapInv, PassRight, Running, MapOutput
<1>2. slave \in Slaves  BY <1>1, SlaveOfPass DEF MapOutput
<1>3. PICK m, l : m = Fmmus(out[slave], LogAddr, BitPos) /\ l = out[slave]  OBVIOUS
<1>4. /\ LogAddr' = m.addr /\ seg' = Grow(seg, m.addr - LogAddr)
      /\ group' = [group EXCEPT ![cur] = Counted(group[cur], Len(m.list), 0, 0)]
      /\ setup' = setup /\ phase' = phase /\ cur' = cur
  BY <1>3 DEF MapOutput
<1>5. IsLayout(l) /\ l.bits > 0 /\ Bytes(l.bits) < Limit
  <2>1. HasOut(slave)  BY DEF MapOutput
  <2> QED BY <1>1, <1>2, <1>3, <2>1, LayoutShort DEF HasOut
<1>6. LogAddr \in Nat /\ BitPos \in 0 .. 7  BY <1>1 DEF MapTypes
<1>7. PICK diff \in Nat : diff <= Limit /\ m.addr = LogAddr + diff
  <2>1. PICK bit : bit = BitPos  OBVIOUS
  <2>2. bit \in 0 .. 7 /\ m = Fmmus(l, LogAddr, bit)  BY <1>3, <1>6, <2>1
  <2> QED BY <1>1, <1>5, <2>2, Growth
<1>8. Laid(m, LogAddr, BitPos)  BY <1>3, <1>5, <1>6, FmmusLaid
<1>9. SameSizes /\ SameLists
  <2>1. Len(m.list) \in Nat /\ 0 \in Nat  BY <1>8 DEF Laid
  <2>2. PICK k : k = Len(m.list)  OBVIOUS
  <2>3. group' = [group EXCEPT ![cur] = Counted(group[cur], k, 0, 0)] /\ k \in Nat
    BY <1>4, <2>1, <2>2
  <2>4. /\ DOMAIN group' = DOMAIN group
        /\ \A g \in Groups : /\ group'[g].mapped = group[g].mapped
                             /\ group'[g].Obytes = group[g].Obytes
                             /\ group'[g].Ibytes = group[g].Ibytes
                             /\ group'[g].Isegment = group[g].Isegment
                             /\ group'[g].Ioffset = group[g].Ioffset
                             /\ group'[g].IOsegment = group[g].IOsegment
                             /\ group'[g].nsegments = group[g].nsegments
    BY <1>1, <2>1, <2>3, CountersOnly
  <2> QED BY <1>4, <2>4 DEF SameSizes, SameLists
<1>10. LogAddr' = LogAddr + diff /\ seg' = Grow(seg, diff)
  <2>1. m.addr - LogAddr = diff  BY <1>6, <1>7
  <2> QED BY <1>4, <1>7, <2>1
<1> QED BY <1>1, <1>7, <1>9, <1>10, SegGrows

LEMMA MapInputSegs ==
  ASSUME MapInv, SegInv, FrameHolds, SegmentsLeft, MapInput
  PROVE  SegInv'
<1>1. MapTypes /\ phase = "in" /\ Running /\ cur \in Groups
  BY DEF MapInv, PassRight, Running, MapInput
<1>2. slave \in Slaves  BY <1>1, SlaveOfPass DEF MapInput
<1>3. PICK m, l : m = Fmmus(in[slave], LogAddr, BitPos) /\ l = in[slave]  OBVIOUS
<1>4. /\ LogAddr' = m.addr /\ seg' = Grow(seg, m.addr - LogAddr)
      /\ group' = [group EXCEPT ![cur] = Counted(group[cur], 0, Len(m.list), Blocked(slave))]
      /\ setup' = setup /\ phase' = phase /\ cur' = cur
  BY <1>3 DEF MapInput
<1>5. IsLayout(l) /\ l.bits > 0 /\ Bytes(l.bits) < Limit
  <2>1. HasIn(slave)  BY DEF MapInput
  <2> QED BY <1>1, <1>2, <1>3, <2>1, LayoutShort DEF HasIn
<1>6. LogAddr \in Nat /\ BitPos \in 0 .. 7  BY <1>1 DEF MapTypes
<1>7. PICK diff \in Nat : diff <= Limit /\ m.addr = LogAddr + diff
  <2>1. PICK bit : bit = BitPos  OBVIOUS
  <2>2. bit \in 0 .. 7 /\ m = Fmmus(l, LogAddr, bit)  BY <1>3, <1>6, <2>1
  <2> QED BY <1>1, <1>5, <2>2, Growth
<1>8. Laid(m, LogAddr, BitPos)  BY <1>3, <1>5, <1>6, FmmusLaid
<1>9. SameSizes /\ SameLists
  <2>1. Len(m.list) \in Nat /\ 0 \in Nat  BY <1>8 DEF Laid
  <2>2. PICK k, bl : k = Len(m.list) /\ bl = Blocked(slave)  OBVIOUS
  <2>3. group' = [group EXCEPT ![cur] = Counted(group[cur], 0, k, bl)] /\ k \in Nat /\ bl \in Nat
    BY <1>4, <2>1, <2>2 DEF Blocked
  <2>4. /\ DOMAIN group' = DOMAIN group
        /\ \A g \in Groups : /\ group'[g].mapped = group[g].mapped
                             /\ group'[g].Obytes = group[g].Obytes
                             /\ group'[g].Ibytes = group[g].Ibytes
                             /\ group'[g].Isegment = group[g].Isegment
                             /\ group'[g].Ioffset = group[g].Ioffset
                             /\ group'[g].IOsegment = group[g].IOsegment
                             /\ group'[g].nsegments = group[g].nsegments
    BY <1>1, <2>1, <2>3, CountersOnly
  <2> QED BY <1>4, <2>4 DEF SameSizes, SameLists
<1>10. LogAddr' = LogAddr + diff /\ seg' = Grow(seg, diff)
  <2>1. m.addr - LogAddr = diff  BY <1>6, <1>7
  <2> QED BY <1>4, <1>7, <2>1
<1> QED BY <1>1, <1>7, <1>9, <1>10, SegGrows

\* How much one direction of a slave adds in the overlapped mapping.
LEMMA SideGrowth ==
  ASSUME FrameHolds, MapTypes, NEW l, NEW has, has \in BOOLEAN,
         has => IsLayout(l) /\ l.bits > 0 /\ Bytes(l.bits) < Limit,
         NEW m, m = Side(has, l)
  PROVE  /\ \E diff \in Nat : diff <= Limit /\ WholeByte(m) = LogAddr + diff
         /\ Len(m.list) \in Nat
<1>1. LogAddr \in Nat /\ 0 \in 0 .. 7 /\ Limit \in Nat  BY SetupFacts DEF MapTypes
<1>2. CASE has
  <2>1. m = Fmmus(l, LogAddr, 0)  BY <1>2 DEF Side
  <2>2. Laid(m, LogAddr, 0)  BY <1>1, <1>2, <2>1, FmmusLaid
  <2>3. \E diff \in Nat : diff <= Limit /\ WholeByte(m) = LogAddr + diff
    BY <1>1, <1>2, <2>1, Growth
  <2> QED BY <2>2, <2>3 DEF Laid
<1>3. CASE ~has
  <2>1. m = [addr |-> LogAddr, bit |-> 0, list |-> << >>]  BY <1>3 DEF Side
  <2>2. Len(m.list) = 0 /\ WholeByte(m) = LogAddr  BY <2>1 DEF WholeByte
  <2>3. 0 \in Nat /\ 0 <= Limit /\ LogAddr = LogAddr + 0  BY <1>1
  <2> QED BY <2>2, <2>3
<1> QED BY <1>2, <1>3

LEMMA MapBothSegs ==
  ASSUME MapInv, SegInv, FrameHolds, SegmentsLeft, MapBoth
  PROVE  SegInv'
<1>1. MapTypes /\ phase = "both" /\ Running /\ cur \in Groups
  BY DEF MapInv, PassRight, Running, MapBoth
<1>2. slave \in Slaves  BY <1>1, SlaveOfPass DEF MapBoth
<1>3. PICK ho, hi, lo, li : /\ ho = HasOut(slave) /\ hi = HasIn(slave)
                            /\ lo = out[slave] /\ li = in[slave]
  OBVIOUS
<1>4. PICK mo, mi : mo = Side(ho, lo) /\ mi = Side(hi, li)  OBVIOUS
<1>5. PICK wo, wi : wo = WholeByte(mo) /\ wi = WholeByte(mi)  OBVIOUS
<1>6. PICK next : next = Max({wo, wi})  OBVIOUS
<1>7. PICK no, ni, bl : no = Len(mo.list) /\ ni = Len(mi.list) /\ bl = Blocked(slave)  OBVIOUS
<1>8. /\ LogAddr' = next /\ seg' = Grow(seg, next - LogAddr)
      /\ group' = [group EXCEPT ![cur] = Counted(group[cur], no, ni, bl)]
      /\ setup' = setup /\ phase' = phase /\ cur' = cur
  BY <1>3, <1>4, <1>5, <1>6, <1>7, Zenon DEF MapBoth, Side
<1>9. LogAddr \in Nat /\ Limit \in Nat  BY <1>1, SetupFacts DEF MapTypes
<1>10. PICK do \in Nat : do <= Limit /\ wo = LogAddr + do
  <2>1. ho \in BOOLEAN /\ (ho => IsLayout(lo) /\ lo.bits > 0 /\ Bytes(lo.bits) < Limit)
    BY <1>1, <1>2, <1>3, LayoutShort DEF HasOut
  <2> QED BY <1>1, <1>4, <1>5, <2>1, SideGrowth
<1>11. PICK di \in Nat : di <= Limit /\ wi = LogAddr + di
  <2>1. hi \in BOOLEAN /\ (hi => IsLayout(li) /\ li.bits > 0 /\ Bytes(li.bits) < Limit)
    BY <1>1, <1>2, <1>3, LayoutShort DEF HasIn
  <2> QED BY <1>1, <1>4, <1>5, <2>1, SideGrowth
<1>12. no \in Nat /\ ni \in Nat /\ bl \in Nat
  <2>1. ho \in BOOLEAN /\ (ho => IsLayout(lo) /\ lo.bits > 0 /\ Bytes(lo.bits) < Limit)
    BY <1>1, <1>2, <1>3, LayoutShort DEF HasOut
  <2>2. hi \in BOOLEAN /\ (hi => IsLayout(li) /\ li.bits > 0 /\ Bytes(li.bits) < Limit)
    BY <1>1, <1>2, <1>3, LayoutShort DEF HasIn
  <2>3. no \in Nat  BY <1>1, <1>4, <1>7, <2>1, SideGrowth
  <2>4. ni \in Nat  BY <1>1, <1>4, <1>7, <2>2, SideGrowth
  <2> QED BY <1>7, <2>3, <2>4 DEF Blocked
<1>13. PICK diff \in Nat : diff <= Limit /\ next = LogAddr + diff
  <2>1. wo \in Int /\ wi \in Int  BY <1>9, <1>10, <1>11
  <2>2. next = IF wo <= wi THEN wi ELSE wo  BY <1>6, <2>1, MaxOfTwo
  <2>3. CASE wo <= wi  BY <1>11, <2>2, <2>3
  <2>4. CASE ~ (wo <= wi)  BY <1>10, <2>2, <2>4
  <2> QED BY <2>3, <2>4
<1>14. SameSizes /\ SameLists
  <2>1. /\ DOMAIN group' = DOMAIN group
        /\ \A g \in Groups : /\ group'[g].mapped = group[g].mapped
                             /\ group'[g].Obytes = group[g].Obytes
                             /\ group'[g].Ibytes = group[g].Ibytes
                             /\ group'[g].Isegment = group[g].Isegment
                             /\ group'[g].Ioffset = group[g].Ioffset
                             /\ group'[g].IOsegment = group[g].IOsegment
                             /\ group'[g].nsegments = group[g].nsegments
    BY <1>1, <1>8, <1>12, CountersOnly
  <2> QED BY <1>8, <2>1 DEF SameSizes, SameLists
<1>15. LogAddr' = LogAddr + diff /\ seg' = Grow(seg, diff)
  <2>1. next - LogAddr = diff  BY <1>9, <1>13
  <2> QED BY <1>8, <1>13, <2>1
<1> QED BY <1>1, <1>13, <1>14, <1>15, SegGrows

LEMMA SkipSegs ==
  ASSUME MapInv, SegInv, SkipOutput \/ SkipInput \/ SkipBoth
  PROVE  SegInv'
<1>1. MapTypes  BY DEF MapInv
<1>2. /\ setup' = setup /\ cur' = cur /\ phase' = phase /\ seg' = seg /\ LogAddr' = LogAddr
  BY DEF SkipOutput, SkipInput, SkipBoth, place
<1>3. SameLists /\ \A g \in Groups : /\ group'[g].mapped = group[g].mapped
                                     /\ group'[g].Obytes = group[g].Obytes
                                     /\ group'[g].Ibytes = group[g].Ibytes
  <2>1. CASE group' = group  BY <2>1 DEF SameLists
  <2>2. CASE SkipInput
    <3>1. cur \in Groups  BY <2>2 DEF MapInv, PassRight, Running, SkipInput
    <3>2. PICK c : c = IF InGroup(slave, cur) THEN Blocked(slave) ELSE 0  OBVIOUS
    <3>3. c \in Nat /\ 0 \in Nat  BY <3>2 DEF Blocked
    <3>4. group' = [group EXCEPT ![cur] = Counted(group[cur], 0, 0, c)]
      BY <2>2, <3>2 DEF SkipInput
    <3>5. \A g \in Groups : /\ group'[g].mapped = group[g].mapped
                            /\ group'[g].Obytes = group[g].Obytes
                            /\ group'[g].Ibytes = group[g].Ibytes
                            /\ group'[g].Isegment = group[g].Isegment
                            /\ group'[g].Ioffset = group[g].Ioffset
                            /\ group'[g].IOsegment = group[g].IOsegment
                            /\ group'[g].nsegments = group[g].nsegments
      BY <1>1, <3>1, <3>3, <3>4, CountersOnly
    <3> QED BY <3>5 DEF SameLists
  <2> QED BY <2>1, <2>2 DEF SkipOutput, SkipBoth
<1> QED BY <1>2, <1>3, SegSame

\* The segments with the byte that was begun.
LEMMA PadSegs ==
  ASSUME MapInv, SegInv, FrameHolds, SegmentsLeft, Running, NEW sg, sg = Pad(seg)
  PROVE  /\ SegFits(sg) /\ sg \in SegType /\ Base(cur) + Held(sg) = PadAddr
         /\ Held(sg) \in Nat
         /\ phase = "in" => Cut(group[cur], sg)
<1>1. MapTypes /\ cur \in Groups  BY DEF MapInv, PassRight
<1>2. /\ Limit \in Nat /\ MaxIOSegments \in Nat \ {0} /\ Base(cur) \in Nat /\ LogAddr \in Nat
      /\ seg \in SegType /\ seg.n < MaxIOSegments - 1 /\ group \in [Groups -> Records]
  BY <1>1, SetupFacts DEF MapTypes, SegmentsLeft
<1>3. SegFits(seg) /\ Base(cur) + Held(seg) = LogAddr /\ Held(seg) \in Nat
  BY <1>2, HeldIsNat DEF SegInv
<1>4. CASE BitPos = 0
  <2>1. sg = seg /\ PadAddr = LogAddr  BY <1>4 DEF Pad, PadAddr
  <2> QED BY <1>2, <1>3, <2>1 DEF SegInv
<1>5. CASE BitPos # 0
  <2>1. sg = Grow(seg, 1) /\ PadAddr = LogAddr + 1  BY <1>5 DEF Pad, PadAddr
  <2>2. 1 \in Nat /\ 1 <= Limit  BY <1>2 DEF FrameHolds
  <2>3. PICK old : old = seg  OBVIOUS
  <2>4. /\ old \in SegType /\ SegFits(old) /\ old.n < MaxIOSegments - 1 /\ sg = Grow(old, 1)
    BY <1>2, <1>3, <2>1, <2>3
  <2>5. /\ SegFits(sg) /\ Held(sg) = Held(old) + 1 /\ sg \in SegType
        /\ \A i \in 0 .. old.n - 1 : sg.list[i] = old.list[i]
        /\ \/ sg.n = old.n /\ old.size <= sg.size
           \/ sg.n > old.n /\ sg.list[old.n] = old.size
    BY <1>2, <2>2, <2>4, GrowHolds
  <2>6. Base(cur) + Held(sg) = PadAddr /\ Held(sg) \in Nat
    BY <1>2, <1>3, <2>1, <2>3, <2>5
  <2>7. phase = "in" => Cut(group[cur], sg)
    <3> HAVE phase = "in"
    <3>1. PICK gr : gr = group[cur]  OBVIOUS
    <3>2. gr \in Records /\ Cut(gr, old)  BY <1>1, <1>2, <2>3, <3>1 DEF SegInv
    <3>3. Cut(gr, sg)  BY <1>2, <2>4, <2>5, <3>2, CutGrows
    <3> QED BY <3>1, <3>3
  <2> QED BY <2>5, <2>6, <2>7
<1> QED BY <1>4, <1>5

LEMMA EndOutputsSegs ==
  ASSUME MapInv, SegInv, FrameHolds, SegmentsLeft, EndOutputs
  PROVE  SegInv'
<1>1. MapTypes /\ phase = "out" /\ Running /\ cur \in Groups /\ ~group[cur].mapped
  BY DEF MapInv, PassRight, Running, EndOutputs
<1>2. PICK sg, o, r : sg = Pad(seg) /\ o = PadAddr - Base(cur) /\ r = group[cur]  OBVIOUS
<1>3. PICK n, z : n = sg.n /\ z = sg.size  OBVIOUS
<1>4. PICK q : q = [[[r EXCEPT !.Obytes = o] EXCEPT !.Isegment = n] EXCEPT !.Ioffset = z]
  OBVIOUS
<1>5. /\ seg' = sg /\ LogAddr' = PadAddr /\ phase' = "in"
      /\ group' = [group EXCEPT ![cur] = q] /\ setup' = setup /\ cur' = cur
  BY <1>2, <1>3, <1>4 DEF EndOutputs
<1>6. /\ SegFits(sg) /\ sg \in SegType /\ Base(cur) + Held(sg) = PadAddr /\ Held(sg) \in Nat
  BY <1>1, <1>2, PadSegs
<1>7. Base(cur) \in Nat /\ group \in [Groups -> Records] /\ MaxIOSegments \in Nat \ {0}
  BY <1>1, SetupFacts DEF MapTypes
<1>8. o = Held(sg)  BY <1>2, <1>6, <1>7
<1>9. q.Obytes = o /\ q.Isegment = n /\ q.Ioffset = z /\ q.mapped = r.mapped
  <2>1. r \in Records  BY <1>1, <1>2, <1>7
  <2> QED BY <1>4, <2>1 DEF Records
<1>10. group'[cur] = q /\ \A g \in Groups : g # cur => group'[g] = group[g]
  BY <1>1, <1>5, <1>7
<1>11. Cut(q, sg)
  <2>1. n \in Nat /\ z \in Nat  BY <1>3, <1>6, <1>7 DEF SegType
  <2>2. n \in 0 .. n /\ z <= z  BY <2>1
  <2>3. Sum(sg.list, n) + z = o  BY <1>3, <1>8 DEF Held
  <2> QED BY <1>3, <1>9, <2>2, <2>3 DEF Cut
<1>12. SegFits(seg)'  BY <1>5, <1>6 DEF SegFits
<1>13. Base(cur)' + Held(seg)' = LogAddr'
  <2>1. Base(cur)' = Base(cur) /\ Held(seg)' = Held(sg)  BY <1>5 DEF Base, Held
  <2> QED BY <1>5, <1>6, <2>1
<1>14. Cut(group[cur], seg)'  BY <1>5, <1>10, <1>11 DEF Cut
<1>15. ASSUME NEW g \in Groups, group'[g].mapped  PROVE Sized(g)'
  <2>1. g # cur  BY <1>1, <1>2, <1>9, <1>10, <1>15
  <2>2. group'[g] = group[g]  BY <1>10, <2>1
  <2>3. Sized(g)  BY <1>15, <2>2 DEF SegInv
  <2> QED BY <1>5, <2>2, <2>3, SizedStays
<1>16. Groups' = Groups  BY <1>5, SameSetup
<1> QED BY <1>12, <1>13, <1>14, <1>15, <1>16 DEF SegInv

\* The last segment is closed: the group is sized.
LEMMA EndInputsSegs ==
  ASSUME MapInv, SegInv, FrameHolds, SegmentsLeft, EndInputs
  PROVE  SegInv'
<1>1. MapTypes /\ phase = "in" /\ Running /\ cur \in Groups /\ ~Overlap
  BY DEF MapInv, PassRight, Running, EndInputs
<1>2. PICK sg, r : sg = Pad(seg) /\ r = group[cur]  OBVIOUS
<1>3. PICK i : i = PadAddr - Base(cur) - r.Obytes  OBVIOUS
<1>4. PICK x, y, z : x = Close(sg) /\ y = sg.n + 1 /\ z = r.Obytes  OBVIOUS
<1>5. PICK q : q = [[[[[r EXCEPT !.mapped = TRUE] EXCEPT !.IOsegment = x] EXCEPT !.nsegments = y]
                      EXCEPT !.inputs = z] EXCEPT !.Ibytes = i]
  OBVIOUS
<1>6. /\ seg' = sg /\ phase' = "idle" /\ group' = [group EXCEPT ![cur] = q]
      /\ setup' = setup /\ cur' = cur
  BY <1>2, <1>3, <1>4, <1>5 DEF EndInputs
<1>7. /\ SegFits(sg) /\ sg \in SegType /\ Base(cur) + Held(sg) = PadAddr /\ Held(sg) \in Nat
      /\ Cut(r, sg)
  BY <1>1, <1>2, PadSegs
<1>8. Base(cur) \in Nat /\ group \in [Groups -> Records] /\ MaxIOSegments \in Nat \ {0}
      /\ Limit \in Nat
  BY <1>1, SetupFacts DEF MapTypes
<1>9. r \in Records /\ r.Obytes \in Nat /\ r.Isegment \in Nat /\ r.Ioffset \in Nat
  <2>1. r \in Records  BY <1>1, <1>2, <1>8
  <2> QED BY <2>1 DEF Records
<1>10. z + i = Held(sg)  BY <1>3, <1>4, <1>7, <1>8, <1>9
<1>11. /\ q.mapped = TRUE /\ q.IOsegment = x /\ q.nsegments = y /\ q.Ibytes = i
       /\ q.Obytes = z /\ q.Isegment = r.Isegment /\ q.Ioffset = r.Ioffset
  BY <1>4, <1>5, <1>9 DEF Records
<1>12. group'[cur] = q /\ \A g \in Groups : g # cur => group'[g] = group[g]
  BY <1>1, <1>6, <1>8
<1>13. /\ \A k \in 0 .. MaxIOSegments - 1 : x[k] <= Limit
       /\ Sum(x, y) = Held(sg) /\ x[sg.n] = sg.size
       /\ \A k \in 0 .. sg.n - 1 : x[k] = sg.list[k]
  BY <1>4, <1>7, <1>8, CloseHolds
<1>14. Sum(x, r.Isegment) + r.Ioffset = z /\ r.Ioffset <= x[r.Isegment]
  <2>1. PICK k, n : k = r.Isegment /\ n = sg.n  OBVIOUS
  <2>2. k \in 0 .. n /\ n \in Nat  BY <1>7, <1>8, <2>1 DEF Cut, SegType
  <2>3. Sum(x, k) = Sum(sg.list, k)
    <3>1. k \in Nat /\ \A j \in 0 .. k - 1 : j \in 0 .. n - 1  BY <2>2
    <3>2. \A j \in 0 .. k - 1 : x[j] = sg.list[j]  BY <1>13, <2>1, <3>1
    <3> QED BY <3>1, <3>2, SumSame
  <2>4. Sum(sg.list, k) + r.Ioffset = z  BY <1>4, <1>7, <2>1 DEF Cut
  <2>5. r.Ioffset <= x[k]
    <3>1. CASE k = n  BY <1>7, <1>13, <2>1, <3>1 DEF Cut
    <3>2. CASE k # n
      <4>1. k \in 0 .. n - 1  BY <2>2, <3>2
      <4>2. x[k] = sg.list[k]  BY <1>13, <2>1, <4>1
      <4> QED BY <1>7, <2>1, <3>2, <4>2 DEF Cut
    <3> QED BY <3>1, <3>2
  <2> QED BY <2>1, <2>3, <2>4, <2>5
<1>15. SegFits(seg)'  BY <1>6, <1>7 DEF SegFits
<1>16. ASSUME NEW g \in Groups, group'[g].mapped  PROVE Sized(g)'
  <2>1. CASE g # cur
    <3>1. group'[g] = group[g]  BY <1>12, <2>1
    <3>2. Sized(g)  BY <1>16, <3>1 DEF SegInv
    <3> QED BY <1>6, <3>1, <3>2, SizedStays
  <2>2. CASE g = cur
    <3>1. group'[g] = q  BY <1>12, <2>2
    <3>2. Overlap' = Overlap  BY <1>6, SameSetup
    <3>3. Size(g)' = z + i  BY <1>1, <1>11, <3>1, <3>2 DEF Size
    <3> QED BY <1>10, <1>11, <1>13, <1>14, <3>1, <3>2, <3>3 DEF Sized
  <2> QED BY <2>1, <2>2
<1>17. Groups' = Groups  BY <1>6, SameSetup
<1> QED BY <1>6, <1>15, <1>16, <1>17 DEF SegInv, Running

LEMMA EndBothSegs ==
  ASSUME MapInv, SegInv, EndBoth
  PROVE  SegInv'
<1>1. /\ MapTypes /\ phase = "both" /\ Running /\ cur \in Groups /\ Overlap
      /\ Base(cur) <= soLogAddr /\ Base(cur) <= siLogAddr
      /\ soLogAddr <= LogAddr /\ siLogAddr <= LogAddr
      /\ soLogAddr = LogAddr \/ siLogAddr = LogAddr
  BY DEF MapInv, PassRight, Running, EndBoth
<1>2. PICK o, i, r : o = soLogAddr - Base(cur) /\ i = siLogAddr - Base(cur) /\ r = group[cur]
  OBVIOUS
<1>3. PICK x, y : x = Close(seg) /\ y = seg.n + 1  OBVIOUS
<1>4. PICK q : q = [[[[[[[[r EXCEPT !.mapped = TRUE] EXCEPT !.IOsegment = x] EXCEPT !.nsegments = y]
               EXCEPT !.Isegment = 0] EXCEPT !.Ioffset = 0] EXCEPT !.Obytes = o]
               EXCEPT !.Ibytes = i] EXCEPT !.inputs = o]
  OBVIOUS
<1>5. /\ group' = [group EXCEPT ![cur] = q] /\ phase' = "idle" /\ setup' = setup
      /\ cur' = cur /\ seg' = seg
  BY <1>2, <1>3, <1>4 DEF EndBoth, place
<1>6. /\ Base(cur) \in Nat /\ LogAddr \in Nat /\ group \in [Groups -> Records]
      /\ soLogAddr \in Nat /\ siLogAddr \in Nat /\ seg \in SegType
      /\ MaxIOSegments \in Nat \ {0} /\ Limit \in Nat
  BY <1>1, SetupFacts DEF MapTypes
<1>7. SegFits(seg) /\ Base(cur) + Held(seg) = LogAddr /\ Held(seg) \in Nat
  BY <1>1, <1>6, HeldIsNat DEF SegInv
<1>8. o \in Int /\ i \in Int /\ Held(seg) = IF o <= i THEN i ELSE o
  <2>1. PICK b, h, la : b = Base(cur) /\ h = Held(seg) /\ la = LogAddr  OBVIOUS
  <2>2. b \in Nat /\ h \in Nat /\ b + h = la  BY <1>6, <1>7, <2>1
  <2>3. o <= h /\ i <= h /\ (o = h \/ i = h)  BY <1>1, <1>2, <1>6, <2>1, <2>2
  <2> QED BY <1>2, <1>6, <2>1, <2>2, <2>3
<1>9. /\ q.mapped = TRUE /\ q.IOsegment = x /\ q.nsegments = y /\ q.Ibytes = i /\ q.Obytes = o
  <2>1. r \in Records  BY <1>1, <1>2, <1>6
  <2> QED BY <1>4, <2>1 DEF Records
<1>10. group'[cur] = q /\ \A g \in Groups : g # cur => group'[g] = group[g]
  BY <1>1, <1>5, <1>6
<1>11. /\ \A k \in 0 .. MaxIOSegments - 1 : x[k] <= Limit
       /\ Sum(x, y) = Held(seg)
  <2>1. PICK sg : sg = seg  OBVIOUS
  <2>2. sg \in SegType /\ SegFits(sg) /\ x = Close(sg) /\ y = sg.n + 1
    BY <1>3, <1>6, <1>7, <2>1
  <2>3. (\A k \in 0 .. MaxIOSegments - 1 : x[k] <= Limit) /\ Sum(x, y) = Held(sg)
    BY <1>6, <2>2, CloseHolds
  <2> QED BY <2>1, <2>3
<1>12. SegFits(seg)'  BY <1>5, <1>7 DEF SegFits
<1>13. ASSUME NEW g \in Groups, group'[g].mapped  PROVE Sized(g)'
  <2>1. CASE g # cur
    <3>1. group'[g] = group[g]  BY <1>10, <2>1
    <3>2. Sized(g)  BY <1>13, <3>1 DEF SegInv
    <3> QED BY <1>5, <3>1, <3>2, SizedStays
  <2>2. CASE g = cur
    <3>1. group'[g] = q  BY <1>10, <2>2
    <3>2. Overlap'  BY <1>1, <1>5, SameSetup
    <3>3. Size(g)' = Max({o, i})  BY <1>9, <3>1, <3>2 DEF Size
    <3>4. Size(g)' = Held(seg)  BY <1>8, <3>3, MaxOfTwo
    <3> QED BY <1>9, <1>11, <3>1, <3>2, <3>4 DEF Sized
  <2> QED BY <2>1, <2>2
<1>14. Groups' = Groups  BY <1>5, SameSetup
<1> QED BY <1>5, <1>12, <1>13, <1>14 DEF SegInv, Running

\* The first sync managers: their bytes add up.
LEMMA SmNext ==
  ASSUME NEW l, IsLayout(l), l.bits > 0, NEW i \in 1 .. Len(l.sm)
  PROVE  /\ SmBytes(l.sm, i - 1) \in Nat
         /\ SmBytes(l.sm, i) = SmBytes(l.sm, i - 1) + l.sm[i].len
         /\ SmBytes(l.sm, i) \in Nat \ {0} /\ l.sm[i].len \in Nat \ {0}
<1>1. PICK n : n = i - 1  OBVIOUS
<1>2. n \in Nat /\ i = n + 1  BY <1>1, LayoutFacts
<1>3. PICK f, g : f = [k \in 1 .. n + 1 |-> l.sm[k].len] /\ g = [k \in 1 .. n |-> l.sm[k].len]
  OBVIOUS
<1>4. \A k \in 1 .. n + 1 : k \in 1 .. Len(l.sm) /\ f[k] = l.sm[k].len
  BY <1>2, <1>3, LayoutFacts
<1>5. \A k \in 1 .. n + 1 : f[k] \in Nat  BY <1>4, LayoutFacts
<1>6. \A k \in 1 .. n : g[k] = f[k]  BY <1>2, <1>3
<1>7. Total(g, n) \in Nat /\ Total(f, n + 1) = Total(g, n) + f[n + 1]
  BY <1>2, <1>5, <1>6, TotalNext
<1>8. f[n + 1] = l.sm[i].len  BY <1>2, <1>4
<1>9. SmBytes(l.sm, n) = Total(g, n) /\ SmBytes(l.sm, n + 1) = Total(f, n + 1)
  BY <1>3 DEF SmBytes
<1> QED BY <1>1, <1>2, <1>7, <1>8, <1>9, SmBytesIsNat, LayoutFacts

LEMMA SmGrows ==
  ASSUME NEW l, IsLayout(l), l.bits > 0, NEW i \in 0 .. Len(l.sm), NEW j \in i .. Len(l.sm)
  PROVE  /\ SmBytes(l.sm, i) \in Nat /\ SmBytes(l.sm, j) \in Nat
         /\ SmBytes(l.sm, i) <= SmBytes(l.sm, j)
<1>1. PICK n : n = Len(l.sm)  OBVIOUS
<1>2. n \in Nat  BY <1>1, LayoutFacts
<1>3. SmBytes(l.sm, 0) \in Nat  BY TotalOfNone DEF SmBytes
<1>4. \A k \in 1 .. n : /\ SmBytes(l.sm, k - 1) \in Nat /\ SmBytes(l.sm, k) \in Nat
                        /\ SmBytes(l.sm, k - 1) <= SmBytes(l.sm, k)
  <2> TAKE k \in 1 .. n
  <2>1. k \in 1 .. Len(l.sm)  BY <1>1
  <2>2. PICK a, b, c : a = SmBytes(l.sm, k - 1) /\ b = SmBytes(l.sm, k) /\ c = l.sm[k].len  OBVIOUS
  <2>3. a \in Nat /\ b = a + c /\ b \in Nat /\ c \in Nat  BY <2>1, <2>2, SmNext
  <2>4. a <= b  BY <2>3
  <2> QED BY <2>2, <2>3, <2>4
<1>5. \A k \in 0 .. n : SmBytes(l.sm, k) \in Nat  BY <1>2, <1>3, <1>4
<1> DEFINE T == {k \in Nat : i <= k => SmBytes(l.sm, i) <= SmBytes(l.sm, k)}
<1>6. 0 \in T
  <2>1. SmBytes(l.sm, 0) <= SmBytes(l.sm, 0)  BY <1>3
  <2>2. i <= 0 => i = 0  BY <1>1, <1>2
  <2> QED BY <2>1, <2>2
<1>7. ASSUME NEW k \in 1 .. n, k - 1 \in T  PROVE k \in T
  <2>1. CASE i <= k - 1
    <3>1. SmBytes(l.sm, i) <= SmBytes(l.sm, k - 1)  BY <1>7, <2>1
    <3>2. SmBytes(l.sm, i) \in Nat  BY <1>1, <1>5
    <3> QED BY <1>4, <3>1, <3>2
  <2>2. CASE ~ (i <= k - 1)
    <3>1. i <= k => i = k  BY <1>1, <1>2, <2>2
    <3>2. SmBytes(l.sm, k) <= SmBytes(l.sm, k)  BY <1>4
    <3> QED BY <3>1, <3>2
  <2> QED BY <2>1, <2>2
<1>8. 0 .. n \subseteq T
  <2> HIDE DEF T
  <2> QED BY <1>2, <1>6, <1>7, UpTo
<1>9. j \in T /\ i <= j /\ i \in 0 .. n /\ j \in 0 .. n  BY <1>1, <1>2, <1>8
<1> QED BY <1>5, <1>9

\* Sync managers in the order of their addresses, none in another.
Ordered(l) ==
  \A i \in 2 .. Len(l.sm) : l.sm[i - 1].start + l.sm[i - 1].len <= l.sm[i].start
\* At most once there is a gap: ByteCount goes on counting behind the first
\* FMMU, so that a second of three would be too long.
OneGap(l) ==
  \A i, j \in 2 .. Len(l.sm) : ~Joined(l.sm, i) /\ ~Joined(l.sm, j) => i = j
SmsInOrder == \A u \in Setups : \A l \in u.outs \cup u.ins : Ordered(l) /\ OneGap(l)

\* Where sync managers join, addresses and lengths go together.
LEMMA RunAddress ==
  ASSUME NEW l, IsLayout(l), l.bits > 0, Ordered(l), NEW i \in 1 .. Len(l.sm),
         NEW e \in i .. Len(l.sm), \A k \in i + 1 .. e : Joined(l.sm, k), NEW j \in i .. e
  PROVE  l.sm[j].start + SmBytes(l.sm, i - 1) = l.sm[i].start + SmBytes(l.sm, j - 1)
<1>1. PICK n, sm : n = Len(l.sm) /\ sm = l.sm  OBVIOUS
<1>2. n \in Nat  BY <1>1, LayoutFacts
<1> DEFINE Good(k) == sm[k].start + SmBytes(sm, i - 1) = sm[i].start + SmBytes(sm, k - 1)
           T == {k \in Nat : i <= k /\ k <= e => Good(k)}
<1>3. 0 \in T  BY <1>1, <1>2
<1>4. ASSUME NEW k \in 1 .. n, k - 1 \in T  PROVE k \in T
  <2> SUFFICES ASSUME i <= k, k <= e  PROVE Good(k)  OBVIOUS
  <2>1. CASE i = k
    BY <2>1
  <2>2. CASE i # k
    <3>1. i <= k - 1 /\ k - 1 \in 1 .. n /\ k \in i + 1 .. e /\ k > 1  BY <1>1, <1>2, <2>2
    <3>2. Good(k - 1)  BY <1>4, <3>1
    <3>3. Joined(sm, k)  BY <1>1, <3>1
    <3>4. k \in 2 .. n  BY <1>2, <3>1
    <3>5. sm[k].start = sm[k - 1].start + sm[k - 1].len
      <4>1. sm[k].start <= sm[k - 1].start + sm[k - 1].len  BY <3>3 DEF Joined
      <4>2. sm[k - 1].start + sm[k - 1].len <= sm[k].start  BY <1>1, <3>4 DEF Ordered
      <4>3. /\ sm[k].start \in Nat /\ sm[k - 1].start \in Nat /\ sm[k - 1].len \in Nat
        BY <1>1, <3>1, LayoutFacts
      <4> QED BY <4>1, <4>2, <4>3
    <3>6. SmBytes(sm, k - 1) = SmBytes(sm, k - 1 - 1) + sm[k - 1].len
      BY <1>1, <3>1, SmNext
    <3>7. /\ sm[k - 1].start \in Nat /\ sm[k - 1].len \in Nat /\ sm[i].start \in Nat
          /\ SmBytes(sm, k - 1 - 1) \in Nat /\ SmBytes(sm, i - 1) \in Nat
      BY <1>1, <3>1, SmNext, LayoutFacts
    <3>8. PICK a, b, c, d, x : /\ a = sm[k - 1].start /\ b = sm[k - 1].len /\ c = sm[i].start
                               /\ d = SmBytes(sm, k - 1 - 1) /\ x = SmBytes(sm, i - 1)
      OBVIOUS
    <3>9. a + x = c + d  BY <3>2, <3>8
    <3>10. a \in Nat /\ b \in Nat /\ c \in Nat /\ d \in Nat /\ x \in Nat  BY <3>7, <3>8
    <3>11. (a + b) + x = c + (d + b)  BY <3>9, <3>10
    <3> QED BY <3>5, <3>6, <3>8, <3>11
  <2> QED BY <2>1, <2>2
<1>5. 0 .. n \subseteq T
  <2> HIDE DEF T
  <2> QED BY <1>2, <1>3, <1>4, UpTo
<1>6. j \in T /\ i <= j /\ j <= e  BY <1>1, <1>2, <1>5
<1> QED BY <1>1, <1>6

LEMMA TwoRuns ==
  ASSUME NEW l, IsLayout(l), l.bits > 0, OneGap(l), NEW n, n = Len(l.sm),
         NEW r, r = RunEnd(l.sm, 1)
  PROVE  /\ n \in Nat /\ r \in 1 .. n
         /\ \A k \in 2 .. r : Joined(l.sm, k)
         /\ \A k \in r + 2 .. n : Joined(l.sm, k)
         /\ r < n => ~Joined(l.sm, r + 1) /\ RunEnd(l.sm, r + 1) = n
<1>1. n \in Nat /\ 1 \in 1 .. n  BY LayoutFacts
<1>2. PICK sm : sm = l.sm  OBVIOUS
<1>3. /\ r \in 1 .. n /\ \A k \in 1 + 1 .. r : Joined(sm, k)
      /\ \A j \in 1 .. n : (\A k \in 1 + 1 .. j : Joined(sm, k)) => j <= r
  BY <1>1, <1>2, RunEndIn
<1>4. \A k \in 2 .. r : Joined(sm, k)  BY <1>3
<1>5. r < n => ~Joined(sm, r + 1)
  <2> SUFFICES ASSUME r < n, Joined(sm, r + 1)  PROVE FALSE  OBVIOUS
  <2>1. r + 1 \in 1 .. n /\ \A k \in 1 + 1 .. r + 1 : k = r + 1 \/ k \in 2 .. r
    BY <1>1, <1>3
  <2>2. \A k \in 1 + 1 .. r + 1 : Joined(sm, k)  BY <1>4, <2>1
  <2>3. r + 1 <= r  BY <1>3, <2>1, <2>2
  <2> QED BY <1>1, <1>3, <2>3
<1>6. ASSUME NEW k \in r + 2 .. n  PROVE Joined(sm, k)
  <2>1. k \in 2 .. n /\ r + 1 \in 2 .. n /\ k # r + 1 /\ r < n  BY <1>1, <1>3
  <2> QED BY <1>2, <1>5, <2>1 DEF OneGap
<1>7. r < n => RunEnd(sm, r + 1) = n
  <2> HAVE r < n
  <2>1. PICK i : i = r + 1  OBVIOUS
  <2>2. i \in 1 .. n /\ n \in i .. n /\ \A k \in i + 1 .. n : k \in r + 2 .. n  BY <1>1, <1>3, <2>1
  <2>3. \A k \in i + 1 .. n : Joined(sm, k)  BY <1>6, <2>2
  <2>4. /\ RunEnd(sm, i) \in i .. n
        /\ \A j \in i .. n : (\A k \in i + 1 .. j : Joined(sm, k)) => j <= RunEnd(sm, i)
    BY <1>1, <1>2, <2>2, RunEndIn
  <2>5. n <= RunEnd(sm, i)  BY <2>2, <2>3, <2>4
  <2> QED BY <1>1, <2>1, <2>2, <2>4, <2>5
<1> QED BY <1>1, <1>2, <1>3, <1>4, <1>5, <1>6, <1>7

LEMMA AppendTwo ==
  ASSUME NEW u, NEW v
  PROVE  Append(<< u >>, v) = << u, v >>
<1>1. PICK S : S = {u, v}  OBVIOUS
<1>2. << u >> \in Seq(S) /\ v \in S  BY <1>1
<1>3. PICK s \in Seq(S) : s = << u >>  BY <1>2
<1>4. Len(s) = 1 /\ s[1] = u  BY <1>3
<1>5. PICK t : t = Append(s, v)  OBVIOUS
<1>6. t \in Seq(S) /\ Len(t) = 2 /\ t[1] = u /\ t[2] = v  BY <1>2, <1>3, <1>4, <1>5
<1>7. t = << t[1], t[2] >>  BY <1>6
<1> QED BY <1>3, <1>5, <1>6, <1>7

\* A sync manager that joins adds nothing.
LEMMA MapSmJoined ==
  ASSUME NEW l, NEW base, NEW m, NEW i, Joined(l.sm, i)
  PROVE  MapSm(l, base, m, i) = m
BY DEF MapSm

\* One FMMU for the sync managers up to r, one for the others.
Shape(l, list, r) ==
  \E f, h :
    /\ f.phys = l.sm[1].start /\ f.len = SmBytes(l.sm, r)
    /\ r < Len(l.sm) => /\ h.phys = l.sm[r + 1].start
                        /\ h.len = SmBytes(l.sm, Len(l.sm)) - SmBytes(l.sm, r)
    /\ list = IF r = Len(l.sm) THEN << f >> ELSE << f, h >>

LEMMA ListShape ==
  ASSUME NEW l, IsLayout(l), l.bits > 0, OneGap(l), NEW addr \in Nat, NEW bit \in 0 .. 7,
         NEW n, n = Len(l.sm), NEW r, r = RunEnd(l.sm, 1)
  PROVE  Shape(l, ByteFmmus(l, addr, bit).list, r)
<1>1. PICK mapped, base :
        /\ base = StartByte(addr, bit) /\ base \in Nat
        /\ mapped[0] = [done |-> 0, list |-> << >>]
        /\ \A i \in 1 .. Len(l.sm) : mapped[i] = MapSm(l, base, mapped[i - 1], i)
        /\ ByteFmmus(l, addr, bit) =
             [addr |-> base + mapped[Len(l.sm)].done, bit |-> 0,
              list |-> mapped[Len(l.sm)].list]
  BY ByteFmmusDefined
<1>2. /\ n \in Nat /\ r \in 1 .. n
      /\ \A k \in 2 .. r : Joined(l.sm, k)
      /\ \A k \in r + 2 .. n : Joined(l.sm, k)
      /\ r < n => ~Joined(l.sm, r + 1) /\ RunEnd(l.sm, r + 1) = n
  BY TwoRuns
<1>3. PICK a, c : a = SmBytes(l.sm, r) /\ c = SmBytes(l.sm, n)  OBVIOUS
<1>4. /\ a \in Nat \ {0} /\ c \in Nat /\ a <= c /\ c = Bytes(l.bits)
      /\ r < n => a < c
  <2>1. r \in 1 .. Len(l.sm) /\ r \in 0 .. Len(l.sm) /\ n \in r .. Len(l.sm)  BY <1>2
  <2>2. a \in Nat \ {0} /\ c \in Nat /\ a <= c  BY <1>3, <2>1, SmBytesIsNat, SmGrows
  <2>3. c = Bytes(l.bits)  BY <1>3 DEF IsLayout
  <2>4. r < n => a < c
    <3> HAVE r < n
    <3>1. PICK k : k = r + 1  OBVIOUS
    <3>2. k \in 1 .. Len(l.sm) /\ k \in 0 .. Len(l.sm) /\ n \in k .. Len(l.sm) /\ k - 1 = r
      BY <1>2, <3>1
    <3>3. PICK s, t : s = SmBytes(l.sm, k) /\ t = l.sm[k].len  OBVIOUS
    <3>4. s = a + t /\ t \in Nat \ {0}  BY <1>3, <3>2, <3>3, SmNext
    <3>5. s <= c  BY <1>3, <3>2, <3>3, SmGrows
    <3> QED BY <2>2, <3>4, <3>5
  <2> QED BY <2>2, <2>3, <2>4
<1>5. PICK f : f = [phys |-> l.sm[1].start, start |-> base + 0, startbit |-> 0, len |-> a,
                    endbit |-> 7]
  OBVIOUS
<1>6. PICK h : h = [phys |-> l.sm[r + 1].start, start |-> base + a, startbit |-> 0,
                    len |-> c - a, endbit |-> 7]
  OBVIOUS
<1>7. PICK x, y : /\ x = [done |-> a, list |-> << f >>]
                  /\ y = [done |-> c, list |-> << f, h >>]
  OBVIOUS
<1>8. mapped[1] = x
  <2>1. 1 \in 1 .. Len(l.sm)  BY <1>2
  <2>2. mapped[1] = MapSm(l, base, mapped[1 - 1], 1)  BY <1>1, <2>1
  <2>3. ~Joined(l.sm, 1)  BY DEF Joined
  <2>4. PICK m : m = [done |-> 0, list |-> << >>]  OBVIOUS
  <2>5. m.done = 0 /\ m.list = << >>  BY <2>4
  <2>6. ~ (Bytes(l.bits) - m.done <= 0)  BY <1>4, <2>5
  <2>7. a = Min({SmBytes(l.sm, RunEnd(l.sm, 1)), Bytes(l.bits) - m.done})
    <3>1. PICK k : k = Bytes(l.bits) - m.done  OBVIOUS
    <3>2. k = c /\ a \in Int /\ k \in Int  BY <1>4, <2>5, <3>1
    <3>3. Min({a, k}) = a  BY <1>4, <3>2, MinOfTwo
    <3>4. a = SmBytes(l.sm, RunEnd(l.sm, 1))  BY <1>3
    <3> QED BY <3>1, <3>3, <3>4
  <2>8. MapSm(l, base, m, 1) =
          [done |-> m.done + a,
           list |-> Append(m.list, [phys |-> l.sm[1].start, start |-> base + m.done,
                                    startbit |-> 0, len |-> a, endbit |-> 7])]
    BY <2>3, <2>6, <2>7 DEF MapSm
  <2>9. MapSm(l, base, m, 1) = [done |-> m.done + a, list |-> Append(m.list, f)]
    BY <1>5, <2>5, <2>8
  <2>10. m.done + a = a /\ Append(m.list, f) = << f >>  BY <1>4, <2>5
  <2> QED BY <1>1, <1>7, <2>2, <2>4, <2>9, <2>10
<1>9. ASSUME r < n  PROVE mapped[r] = x => mapped[r + 1] = y
  <2> HAVE mapped[r] = x
  <2>1. PICK i : i = r + 1  OBVIOUS
  <2>2. i \in 1 .. Len(l.sm) /\ i - 1 = r  BY <1>2, <1>9, <2>1
  <2>3. mapped[i] = MapSm(l, base, x, i)  BY <1>1, <2>2
  <2>4. ~Joined(l.sm, i) /\ c = SmBytes(l.sm, RunEnd(l.sm, i))  BY <1>2, <1>3, <1>9, <2>1
  <2>5. PICK d : d = c - a  OBVIOUS
  <2>6. x.done = a /\ x.list = << f >>  BY <1>7
  <2>7. ~ (Bytes(l.bits) - x.done <= 0)  BY <1>4, <1>9, <2>6
  <2>8. d = Min({SmBytes(l.sm, RunEnd(l.sm, i)), Bytes(l.bits) - x.done})
    <3>1. PICK k : k = Bytes(l.bits) - x.done  OBVIOUS
    <3>2. k = d /\ c \in Int /\ k \in Int /\ ~ (c <= k)  BY <1>4, <2>5, <2>6, <3>1
    <3>3. Min({c, k}) = k  BY <3>2, MinOfTwo
    <3> QED BY <2>4, <3>1, <3>2, <3>3
  <2>9. MapSm(l, base, x, i) =
          [done |-> x.done + d,
           list |-> Append(x.list, [phys |-> l.sm[i].start, start |-> base + x.done,
                                    startbit |-> 0, len |-> d, endbit |-> 7])]
    BY <2>4, <2>7, <2>8 DEF MapSm
  <2>10. MapSm(l, base, x, i) = [done |-> x.done + d, list |-> Append(x.list, h)]
    BY <1>6, <2>1, <2>5, <2>6, <2>9
  <2>11. x.done + d = c
    <3>1. a + d = c  BY <1>4, <2>5
    <3> QED BY <2>6, <3>1
  <2>12. Append(x.list, h) = << f, h >>  BY <2>6, AppendTwo
  <2> QED BY <1>7, <2>1, <2>3, <2>10, <2>11, <2>12
<1> DEFINE T == {k \in Nat : 1 <= k => mapped[k] = IF k <= r THEN x ELSE y}
<1>10. 0 \in T  OBVIOUS
<1>11. ASSUME NEW k \in 1 .. n, k - 1 \in T  PROVE k \in T
  <2>1. CASE k = 1  BY <1>2, <1>8, <2>1
  <2>2. CASE k = r + 1 /\ k # 1
    <3>1. r < n /\ k - 1 = r /\ 1 <= k - 1  BY <1>2, <2>2
    <3>2. mapped[r] = x  BY <1>2, <1>11, <3>1
    <3>3. ~ (k <= r)  BY <1>2, <3>1
    <3> QED BY <1>9, <2>2, <3>1, <3>2, <3>3
  <2>3. CASE k # r + 1 /\ k # 1
    <3>1. 1 <= k - 1 /\ (k <= r <=> k - 1 <= r) /\ (k \in 2 .. r \/ k \in r + 2 .. n)
      BY <1>2, <2>3
    <3>2. Joined(l.sm, k)  BY <1>2, <3>1
    <3>3. mapped[k] = mapped[k - 1]  BY <1>1, <3>2, MapSmJoined
    <3>4. mapped[k - 1] = IF k - 1 <= r THEN x ELSE y  BY <1>11, <3>1
    <3> QED BY <3>1, <3>3, <3>4
  <2> QED BY <2>1, <2>2, <2>3
<1>12. 0 .. n \subseteq T
  <2> HIDE DEF T
  <2> QED BY <1>2, <1>10, <1>11, UpTo
<1>13. mapped[n] = IF r = n THEN x ELSE y
  <2>1. n \in T /\ 1 <= n /\ (n <= r <=> r = n)  BY <1>2, <1>12
  <2> QED BY <2>1
<1>14. ByteFmmus(l, addr, bit).list = IF r = n THEN << f >> ELSE << f, h >>
  BY <1>1, <1>7, <1>13
<1>15. f.phys = l.sm[1].start /\ f.len = a /\ h.phys = l.sm[r + 1].start /\ h.len = c - a
  BY <1>5, <1>6
<1> QED BY <1>3, <1>14, <1>15 DEF Shape

\* An FMMU has a byte of the slave's memory.
Spans(f, l, b) == IF l.bits < 8 THEN f.phys = b ELSE b \in f.phys .. f.phys + f.len - 1

LEMMA BitCovers ==
  ASSUME NEW l, IsLayout(l), l.bits > 0, l.bits < 8, NEW addr, NEW bit, NEW m,
         m = BitFmmu(l, addr, bit), NEW i \in 1 .. Len(l.sm),
         NEW b \in l.sm[i].start .. l.sm[i].start + l.sm[i].len - 1
  PROVE  Len(m.list) = 1 /\ Spans(m.list[1], l, b)
<1>1. PICK n, sm : n = Len(l.sm) /\ sm = l.sm  OBVIOUS
<1>2. n \in Nat \ {0} /\ l.bits \in Nat  BY <1>1, LayoutFacts
<1>3. SmBytes(sm, n) = 1
  <2>1. l.bits \in 1 .. 7  BY <1>2
  <2>2. (l.bits + 7) \div 8 = 1  BY <2>1
  <2> QED BY <1>1, <2>2 DEF IsLayout, Bytes
<1>4. 1 \in 1 .. n /\ n \in 1 .. n /\ 1 \in 0 .. n  BY <1>2
<1>5. SmBytes(sm, 1) = sm[1].len /\ sm[1].len \in Nat \ {0}
  <2>1. SmBytes(sm, 1) = SmBytes(sm, 1 - 1) + sm[1].len /\ sm[1].len \in Nat \ {0}
    BY <1>1, <1>4, SmNext
  <2>2. SmBytes(sm, 1 - 1) = 0  BY TotalOfNone DEF SmBytes
  <2> QED BY <2>1, <2>2
<1>6. n = 1
  <2> SUFFICES ASSUME n # 1  PROVE FALSE  OBVIOUS
  <2>1. 2 \in 1 .. n /\ 2 \in 0 .. n /\ n \in 2 .. n  BY <1>2
  <2>2. SmBytes(sm, 2) = SmBytes(sm, 2 - 1) + sm[2].len /\ sm[2].len \in Nat \ {0}
    BY <1>1, <2>1, SmNext
  <2>3. SmBytes(sm, 2) <= SmBytes(sm, n)  BY <1>1, <2>1, SmGrows
  <2>4. SmBytes(sm, 2 - 1) = sm[1].len  BY <1>5
  <2> QED BY <1>3, <1>5, <2>2, <2>3, <2>4
<1>7. i = 1  BY <1>1, <1>6
<1>8. sm[1].len = 1  BY <1>3, <1>5, <1>6
<1>9. sm[1].start \in Nat  BY <1>1, <1>4, LayoutFacts
<1>10. b = sm[1].start  BY <1>1, <1>7, <1>8, <1>9
<1>11. Len(m.list) = 1 /\ m.list[1].phys = sm[1].start
  <2>1. PICK f : m.list = << f >> /\ f.phys = sm[1].start  BY <1>1 DEF BitFmmu
  <2> QED BY <2>1
<1> QED BY <1>10, <1>11 DEF Spans

\* The byte is in one FMMU of the list.
InOneOf(list, l, b) ==
  \E j \in 1 .. Len(list) :
    Spans(list[j], l, b) /\ \A k \in 1 .. Len(list) : Spans(list[k], l, b) => k = j

LEMMA ByteCovers ==
  ASSUME NEW l, IsLayout(l), l.bits >= 8, Ordered(l), OneGap(l), NEW addr \in Nat,
         NEW bit \in 0 .. 7, NEW m, m = ByteFmmus(l, addr, bit), NEW i \in 1 .. Len(l.sm),
         NEW b \in l.sm[i].start .. l.sm[i].start + l.sm[i].len - 1
  PROVE  InOneOf(m.list, l, b)
<1>1. PICK n, r, sm : n = Len(l.sm) /\ r = RunEnd(l.sm, 1) /\ sm = l.sm  OBVIOUS
<1>2. l.bits \in Nat /\ l.bits > 0 /\ ~ (l.bits < 8)
  <2>1. l.bits \in Nat  BY DEF IsLayout
  <2> QED BY <2>1
<1>3. /\ n \in Nat /\ r \in 1 .. n
      /\ \A k \in 2 .. r : Joined(sm, k)
      /\ \A k \in r + 2 .. n : Joined(sm, k)
      /\ r < n => ~Joined(sm, r + 1)
  BY <1>1, <1>2, TwoRuns
<1>4. PICK f, h :
        /\ f.phys = sm[1].start /\ f.len = SmBytes(sm, r)
        /\ r < n => h.phys = sm[r + 1].start /\ h.len = SmBytes(sm, n) - SmBytes(sm, r)
        /\ m.list = IF r = n THEN << f >> ELSE << f, h >>
  <2>1. Shape(l, ByteFmmus(l, addr, bit).list, r)  BY <1>1, <1>2, ListShape
  <2> QED BY <1>1, <2>1 DEF Shape
<1>5. PICK a, s, t : a = sm[1].start /\ s = SmBytes(sm, r) /\ t = sm[r + 1].start  OBVIOUS
<1>6. PICK p, q, x, y : /\ p = sm[i].start /\ q = sm[i].len
                        /\ x = SmBytes(sm, i - 1) /\ y = SmBytes(sm, i)
  OBVIOUS
<1>7. /\ a \in Nat /\ s \in Nat /\ p \in Nat /\ q \in Nat \ {0} /\ x \in Nat /\ y \in Nat
      /\ y = x + q /\ b \in p .. p + q - 1
  <2>1. 1 \in 1 .. n /\ r \in 0 .. n /\ n \in r .. n  BY <1>3
  <2>2. a \in Nat /\ s \in Nat /\ p \in Nat /\ q \in Nat \ {0}
    BY <1>1, <1>2, <1>5, <1>6, <2>1, LayoutFacts, SmGrows
  <2>3. x \in Nat /\ y = x + q  BY <1>1, <1>2, <1>6, SmNext
  <2> QED BY <1>1, <1>6, <2>2, <2>3
<1>8. r < n => t \in Nat /\ a + s < t
  <2> HAVE r < n
  <2>1. r \in 1 .. n /\ r + 1 \in 1 .. n /\ r + 1 > 1 /\ (r + 1) - 1 = r  BY <1>3
  <2>2. PICK c, d, z : c = sm[r].start /\ d = sm[r].len /\ z = SmBytes(sm, r - 1)  OBVIOUS
  <2>3. t \in Nat /\ c \in Nat /\ d \in Nat  BY <1>1, <1>2, <1>5, <2>1, <2>2, LayoutFacts
  <2>4. s = z + d /\ z \in Nat  BY <1>1, <1>2, <1>5, <2>1, <2>2, SmNext
  <2>5. c + SmBytes(sm, 1 - 1) = a + z
    <3>1. 1 \in 1 .. n /\ r \in 1 .. n /\ \A k \in 1 + 1 .. r : Joined(sm, k)  BY <1>3
    <3>2. r \in 1 .. r  BY <1>3
    <3> QED BY <1>1, <1>2, <1>5, <2>2, <3>1, <3>2, RunAddress
  <2>6. SmBytes(sm, 1 - 1) = 0  BY TotalOfNone DEF SmBytes
  <2>7. c = a + z  BY <1>7, <2>3, <2>4, <2>5, <2>6
  <2>8. ~ (t <= c + d)
    <3>1. PICK k : k = r + 1  OBVIOUS
    <3>2. ~ (sm[k].start <= sm[k - 1].start + sm[k - 1].len)  BY <1>3, <2>1, <3>1 DEF Joined
    <3> QED BY <1>5, <2>1, <2>2, <3>1, <3>2
  <2> QED BY <1>7, <2>3, <2>4, <2>7, <2>8
<1>9. CASE i <= r
  <2>1. i \in 1 .. r /\ 1 \in 1 .. n /\ r \in i .. n /\ i \in 0 .. n  BY <1>1, <1>3, <1>9
  <2>2. p + SmBytes(sm, 1 - 1) = a + x
    <3>1. PICK one : one = 1  OBVIOUS
    <3>2. one \in 1 .. n /\ r \in one .. n /\ i \in one .. r  BY <1>3, <2>1, <3>1
    <3>3. \A k \in one + 1 .. r : Joined(sm, k)  BY <1>3, <3>1
    <3>4. sm[i].start + SmBytes(sm, one - 1) = sm[one].start + SmBytes(sm, i - 1)
      BY <1>1, <1>2, <3>2, <3>3, RunAddress
    <3> QED BY <1>5, <1>6, <3>1, <3>4
  <2>3. SmBytes(sm, 1 - 1) = 0  BY TotalOfNone DEF SmBytes
  <2>4. p = a + x  BY <1>7, <2>2, <2>3
  <2>5. y <= s  BY <1>1, <1>2, <1>5, <1>6, <2>1, SmGrows
  <2>6. b \in a .. a + s - 1  BY <1>7, <2>4, <2>5
  <2>7. Spans(f, l, b)  BY <1>2, <1>4, <1>5, <2>6 DEF Spans
  <2>8. CASE r = n
    <3>1. m.list = << f >>  BY <1>4, <2>8
    <3>2. Len(m.list) = 1 /\ m.list[1] = f  BY <3>1
    <3>3. \A k \in 1 .. 1 : k = 1  OBVIOUS
    <3> QED BY <2>7, <3>2, <3>3 DEF InOneOf
  <2>9. CASE r # n
    <3>1. r < n  BY <1>3, <2>9
    <3>2. m.list = << f, h >>  BY <1>4, <2>9
    <3>3. Len(m.list) = 2 /\ m.list[1] = f /\ m.list[2] = h  BY <3>2
    <3>4. h.phys = t  BY <1>4, <1>5, <3>1
    <3>5. b < t  BY <1>7, <1>8, <2>6, <3>1
    <3>6. b \notin t .. t + h.len - 1  BY <1>7, <1>8, <3>1, <3>5
    <3>7. ~Spans(h, l, b)  BY <1>2, <3>4, <3>6 DEF Spans
    <3>8. \A k \in 1 .. 2 : k = 1 \/ k = 2  OBVIOUS
    <3> QED BY <2>7, <3>3, <3>7, <3>8 DEF InOneOf
  <2> QED BY <2>8, <2>9
<1>10. CASE ~ (i <= r)
  <2>1. r < n /\ r + 1 \in 1 .. n /\ n \in r + 1 .. n /\ i \in r + 1 .. n /\ (r + 1) - 1 = r
    BY <1>1, <1>3, <1>10
  <2>2. PICK e : e = r + 1  OBVIOUS
  <2>3. p + SmBytes(sm, e - 1) = sm[e].start + x
    <3>1. \A k \in e + 1 .. n : Joined(sm, k)  BY <1>3, <2>2
    <3>2. e \in 1 .. n /\ n \in e .. n /\ i \in e .. n  BY <2>1, <2>2
    <3> QED BY <1>1, <1>2, <1>6, <3>1, <3>2, RunAddress
  <2>4. p + s = t + x  BY <1>5, <2>1, <2>2, <2>3
  <2>5. PICK c : c = SmBytes(sm, n)  OBVIOUS
  <2>6. c \in Nat /\ y <= c /\ s <= x
    <3>1. i \in 0 .. n /\ n \in i .. n /\ r \in 0 .. n /\ i - 1 \in r .. n  BY <1>1, <1>3, <2>1
    <3> QED BY <1>1, <1>2, <1>5, <1>6, <2>5, <3>1, SmGrows
  <2>7. t \in Nat /\ a + s < t  BY <1>8, <2>1
  <2>8. b \in t .. t + (c - s) - 1  BY <1>7, <2>4, <2>6, <2>7
  <2>9. h.phys = t /\ h.len = c - s  BY <1>4, <1>5, <2>1, <2>5
  <2>10. Spans(h, l, b)  BY <1>2, <2>8, <2>9 DEF Spans
  <2>11. ~Spans(f, l, b)
    <3>1. b \notin a .. a + s - 1  BY <1>7, <2>6, <2>7, <2>8
    <3> QED BY <1>2, <1>4, <1>5, <3>1 DEF Spans
  <2>12. r # n  BY <1>3, <2>1
  <2>13. m.list = << f, h >>  BY <1>4, <2>12
  <2>14. Len(m.list) = 2 /\ m.list[1] = f /\ m.list[2] = h  BY <2>13
  <2>15. 2 \in 1 .. 2 /\ \A k \in 1 .. 2 : k = 1 \/ k = 2  OBVIOUS
  <2> QED BY <2>10, <2>11, <2>14, <2>15 DEF InOneOf
<1> QED BY <1>9, <1>10

LEMMA FmmusCover ==
  ASSUME NEW l, IsLayout(l), l.bits > 0, Ordered(l), OneGap(l), NEW addr \in Nat,
         NEW bit \in 0 .. 7, NEW m, m = Fmmus(l, addr, bit), NEW i \in 1 .. Len(l.sm),
         NEW b \in l.sm[i].start .. l.sm[i].start + l.sm[i].len - 1
  PROVE  InOneOf(m.list, l, b)
<1>1. l.bits \in Nat  BY DEF IsLayout
<1>2. CASE l.bits < 8
  <2>1. m = BitFmmu(l, addr, bit)  BY <1>2 DEF Fmmus
  <2>2. Len(m.list) = 1 /\ Spans(m.list[1], l, b)  BY <1>2, <2>1, BitCovers
  <2>3. 1 \in 1 .. 1 /\ \A k \in 1 .. 1 : k = 1  OBVIOUS
  <2> QED BY <2>2, <2>3 DEF InOneOf
<1>3. CASE l.bits >= 8
  <2>1. m = ByteFmmus(l, addr, bit)  BY <1>1, <1>3 DEF Fmmus
  <2> QED BY <1>3, <2>1, ByteCovers
<1> QED BY <1>1, <1>2, <1>3

\* Each byte of the sync managers is in one FMMU of the set.
Covers(S, l) ==
  \A i \in DOMAIN l.sm : \A b \in l.sm[i].start .. l.sm[i].start + l.sm[i].len - 1 :
    Cardinality({f \in S : Spans(f, l, b)}) = 1
Mine(s, dir) == {f \in fmmu : f.slave = s /\ f.dir = dir}

LEMMA ProgrammedCovers ==
  ASSUME NEW l, IsLayout(l), l.bits > 0, Ordered(l), OneGap(l), NEW addr \in Nat,
         NEW bit \in 0 .. 7, NEW m, m = Fmmus(l, addr, bit), NEW dir
  PROVE  Covers(Programmed(dir, m.list), l)
<1>1. PICK list : list = m.list  OBVIOUS
<1> DEFINE P(i) == [slave |-> slave, group |-> cur, dir |-> dir, phys |-> list[i].phys,
                    start |-> list[i].start, startbit |-> list[i].startbit,
                    len |-> list[i].len, endbit |-> list[i].endbit]
<1>2. Programmed(dir, list) = {P(i) : i \in DOMAIN list}  BY DEF Programmed
<1>3. DOMAIN list = 1 .. Len(list)
  <2>1. Laid(m, addr, bit)  BY FmmusLaid
  <2> QED BY <1>1, <2>1 DEF Laid
<1>4. DOMAIN l.sm = 1 .. Len(l.sm)  BY LayoutFacts
<1>5. ASSUME NEW i \in 1 .. Len(l.sm),
             NEW b \in l.sm[i].start .. l.sm[i].start + l.sm[i].len - 1
      PROVE  Cardinality({f \in Programmed(dir, list) : Spans(f, l, b)}) = 1
  <2>1. PICK j \in 1 .. Len(m.list) :
          Spans(m.list[j], l, b) /\ \A k \in 1 .. Len(m.list) : Spans(m.list[k], l, b) => k = j
    <3>1. InOneOf(m.list, l, b)  BY FmmusCover
    <3> QED BY <3>1 DEF InOneOf
  <2>2. \A k \in 1 .. Len(list) : Spans(P(k), l, b) <=> Spans(list[k], l, b)
    BY DEF Spans
  <2>3. PICK x : x = P(j)  OBVIOUS
  <2>4. x \in Programmed(dir, list) /\ Spans(x, l, b)  BY <1>1, <1>2, <1>3, <2>1, <2>2, <2>3
  <2>5. ASSUME NEW f \in Programmed(dir, list), Spans(f, l, b)  PROVE f = x
    <3>1. PICK k \in 1 .. Len(list) : f = P(k)  BY <1>2, <1>3
    <3>2. Spans(list[k], l, b)  BY <2>2, <2>5, <3>1
    <3>3. k = j  BY <1>1, <2>1, <3>2
    <3> QED BY <2>3, <3>1, <3>3
  <2> HIDE DEF P
  <2>6. {f \in Programmed(dir, list) : Spans(f, l, b)} = {x}  BY <2>4, <2>5
  <2>7. Cardinality({x}) = 1  BY FS_Singleton
  <2> QED BY <2>6, <2>7
<1> QED BY <1>1, <1>4, <1>5 DEF Covers

\* The slave of this step gets its FMMUs, the others keep theirs.
LEMMA SmsGrow ==
  ASSUME OneMapping, MapInv, PointInv, Running, SmsMapped, slave \in Slaves,
         setup' = setup, out' = out, in' = in,
         NEW new, fmmu' = fmmu \cup new, new # {} => InGroup(slave, cur),
         \A p \in new : /\ p.slave = slave /\ p.dir \in {"out", "in"}
                        /\ phase = "in" => p.dir = "in",
         NEW no, no = {p \in new : p.dir = "out"}, NEW ni, ni = {p \in new : p.dir = "in"},
         no # {} => Covers(no, out[slave]), ni # {} => Covers(ni, in[slave])
  PROVE  SmsMapped'
<1>1. Slaves' = Slaves  BY SameSetup
<1>2. ASSUME NEW s \in Slaves, NEW dir \in {"out", "in"}, NEW l, NEW nd,
             nd = {p \in new : p.dir = dir}, s = slave /\ nd # {} => Covers(nd, l),
             SmMapped(s, dir, l)
      PROVE  SmMapped(s, dir, l)'
  <2>1. Mine(s, dir)' = Mine(s, dir) \cup {p \in new : p.slave = s /\ p.dir = dir}  BY DEF Mine
  <2>2. CASE s = slave /\ nd # {}
    <3>1. PICK p \in new : p.dir = dir  BY <1>2, <2>2
    <3>2. InGroup(slave, cur) /\ (phase = "in" => dir = "in")  BY <3>1
    <3>3. \A f \in fmmu : ~ (f.slave = slave /\ f.dir = dir)  BY <3>2, NotYet
    <3>4. Mine(s, dir)' = nd  BY <1>2, <2>1, <2>2, <3>3 DEF Mine
    <3>5. Covers(Mine(s, dir)', l)  BY <1>2, <2>2, <3>4
    <3> QED BY <3>5 DEF SmMapped, Mine, Covers, Spans
  <2>3. CASE ~ (s = slave /\ nd # {})
    <3>1. Mine(s, dir)' = Mine(s, dir)  BY <1>2, <2>1, <2>3
    <3> QED BY <1>2, <3>1 DEF SmMapped, Mine
  <2> QED BY <2>2, <2>3
<1>3. ASSUME NEW s \in Slaves  PROVE SmMapped(s, "out", out[s])'
  <2>1. PICK l, dir : l = out[s] /\ dir = "out"  OBVIOUS
  <2>2. SmMapped(s, dir, l)  BY <2>1 DEF SmsMapped
  <2>3. s = slave /\ no # {} => Covers(no, l)  BY <2>1
  <2>4. SmMapped(s, dir, l)'  BY <1>2, <2>1, <2>2, <2>3
  <2> QED BY <2>1, <2>4 DEF SmMapped
<1>4. ASSUME NEW s \in Slaves  PROVE SmMapped(s, "in", in[s])'
  <2>1. PICK l, dir : l = in[s] /\ dir = "in"  OBVIOUS
  <2>2. SmMapped(s, dir, l)  BY <2>1 DEF SmsMapped
  <2>3. s = slave /\ ni # {} => Covers(ni, l)  BY <2>1
  <2>4. SmMapped(s, dir, l)'  BY <1>2, <2>1, <2>2, <2>3
  <2> QED BY <2>1, <2>4 DEF SmMapped
<1> QED BY <1>1, <1>3, <1>4 DEF SmsMapped

LEMMA LayoutOrdered ==
  ASSUME SmsInOrder, MapTypes, NEW s \in Slaves
  PROVE  /\ IsLayout(out[s]) /\ Ordered(out[s]) /\ OneGap(out[s])
         /\ IsLayout(in[s]) /\ Ordered(in[s]) /\ OneGap(in[s])
<1>1. PICK u \in Setups : u = setup  BY DEF MapTypes
<1>2. out[s] \in u.outs /\ in[s] \in u.ins  BY <1>1 DEF MapTypes
<1> QED BY <1>1, <1>2, SetupFacts DEF SmsInOrder

LEMMA ProgrammedOwn ==
  ASSUME NEW dir, NEW list, NEW p \in Programmed(dir, list)
  PROVE  p.slave = slave /\ p.dir = dir
BY DEF Programmed

LEMMA MapOutputSms ==
  ASSUME OneMapping, SmsInOrder, MapInv, PointInv, SmsMapped, MapOutput
  PROVE  SmsMapped'
<1>1. MapTypes /\ phase = "out" /\ Running  BY DEF MapInv, Running, MapOutput
<1>2. slave \in Slaves /\ InGroup(slave, cur) /\ out[slave].bits > 0
  BY <1>1, SlaveOfPass DEF MapOutput, HasOut
<1>3. PICK m, l : m = Fmmus(out[slave], LogAddr, BitPos) /\ l = out[slave]  OBVIOUS
<1>4. PICK new : new = Programmed("out", m.list)  OBVIOUS
<1>5. fmmu' = fmmu \cup new /\ setup' = setup /\ out' = out /\ in' = in
  BY <1>3, <1>4 DEF MapOutput, Program
<1>6. \A p \in new : p.slave = slave /\ p.dir = "out"  BY <1>4, ProgrammedOwn
<1>7. Covers(new, l)
  <2>1. IsLayout(l) /\ Ordered(l) /\ OneGap(l) /\ l.bits > 0
    BY <1>1, <1>2, <1>3, LayoutOrdered
  <2>2. LogAddr \in Nat /\ BitPos \in 0 .. 7  BY <1>1 DEF MapTypes
  <2>3. PICK addr \in Nat, bit \in 0 .. 7 : addr = LogAddr /\ bit = BitPos  BY <2>2
  <2>4. m = Fmmus(l, addr, bit)  BY <1>3, <2>3
  <2> QED BY <1>4, <2>1, <2>4, ProgrammedCovers
<1>8. PICK no, ni : no = {p \in new : p.dir = "out"} /\ ni = {p \in new : p.dir = "in"}
  OBVIOUS
<1>9. no = new /\ ni = {}  BY <1>6, <1>8
<1>10. no # {} => Covers(no, out[slave])  BY <1>3, <1>7, <1>9
<1>11. ni # {} => Covers(ni, in[slave])  BY <1>9
<1>12. \A p \in new : /\ p.slave = slave /\ p.dir \in {"out", "in"}
                      /\ phase = "in" => p.dir = "in"
  BY <1>1, <1>6
<1> QED BY <1>1, <1>2, <1>5, <1>8, <1>10, <1>11, <1>12, SmsGrow

LEMMA MapInputSms ==
  ASSUME OneMapping, SmsInOrder, MapInv, PointInv, SmsMapped, MapInput
  PROVE  SmsMapped'
<1>1. MapTypes /\ phase = "in" /\ Running  BY DEF MapInv, Running, MapInput
<1>2. slave \in Slaves /\ InGroup(slave, cur) /\ in[slave].bits > 0
  BY <1>1, SlaveOfPass DEF MapInput, HasIn
<1>3. PICK m, l : m = Fmmus(in[slave], LogAddr, BitPos) /\ l = in[slave]  OBVIOUS
<1>4. PICK new : new = Programmed("in", m.list)  OBVIOUS
<1>5. fmmu' = fmmu \cup new /\ setup' = setup /\ out' = out /\ in' = in
  BY <1>3, <1>4 DEF MapInput, Program
<1>6. \A p \in new : p.slave = slave /\ p.dir = "in"  BY <1>4, ProgrammedOwn
<1>7. Covers(new, l)
  <2>1. IsLayout(l) /\ Ordered(l) /\ OneGap(l) /\ l.bits > 0
    BY <1>1, <1>2, <1>3, LayoutOrdered
  <2>2. LogAddr \in Nat /\ BitPos \in 0 .. 7  BY <1>1 DEF MapTypes
  <2>3. PICK addr \in Nat, bit \in 0 .. 7 : addr = LogAddr /\ bit = BitPos  BY <2>2
  <2>4. m = Fmmus(l, addr, bit)  BY <1>3, <2>3
  <2> QED BY <1>4, <2>1, <2>4, ProgrammedCovers
<1>8. PICK no, ni : no = {p \in new : p.dir = "out"} /\ ni = {p \in new : p.dir = "in"}
  OBVIOUS
<1>9. ni = new /\ no = {}  BY <1>6, <1>8
<1>10. no # {} => Covers(no, out[slave])  BY <1>9
<1>11. ni # {} => Covers(ni, in[slave])  BY <1>3, <1>7, <1>9
<1>12. \A p \in new : /\ p.slave = slave /\ p.dir \in {"out", "in"}
                      /\ phase = "in" => p.dir = "in"
  BY <1>6
<1> QED BY <1>1, <1>2, <1>5, <1>8, <1>10, <1>11, <1>12, SmsGrow

\* In the overlapped mapping a direction without data gets no FMMU.
LEMMA SideCovers ==
  ASSUME MapTypes, NEW l, NEW has, has \in BOOLEAN,
         has => IsLayout(l) /\ l.bits > 0 /\ Ordered(l) /\ OneGap(l),
         NEW m, m = Side(has, l), NEW dir, NEW new, new = Programmed(dir, m.list)
  PROVE  new # {} => Covers(new, l)
<1>1. CASE has
  <2>1. LogAddr \in Nat /\ 0 \in 0 .. 7  BY DEF MapTypes
  <2>2. PICK addr \in Nat, bit \in 0 .. 7 : addr = LogAddr /\ bit = 0  BY <2>1
  <2>3. m = Fmmus(l, addr, bit)  BY <1>1, <2>2 DEF Side
  <2>4. IsLayout(l) /\ l.bits > 0 /\ Ordered(l) /\ OneGap(l)  BY <1>1
  <2>5. Covers(Programmed(dir, m.list), l)  BY <2>3, <2>4, ProgrammedCovers
  <2> QED BY <2>5
<1>2. CASE ~has
  <2>1. m.list = << >>  BY <1>2 DEF Side
  <2>2. DOMAIN m.list = {}  BY <2>1
  <2>3. new = {}  BY <2>2 DEF Programmed
  <2> QED BY <2>3
<1> QED BY <1>1, <1>2

LEMMA MapBothSms ==
  ASSUME OneMapping, SmsInOrder, MapInv, PointInv, SmsMapped, MapBoth
  PROVE  SmsMapped'
<1>1. MapTypes /\ phase = "both" /\ Running  BY DEF MapInv, Running, MapBoth
<1>2. slave \in Slaves /\ InGroup(slave, cur)  BY <1>1, SlaveOfPass DEF MapBoth
<1>3. PICK ho, hi, lo, li : /\ ho = HasOut(slave) /\ hi = HasIn(slave)
                            /\ lo = out[slave] /\ li = in[slave]
  OBVIOUS
<1>4. PICK mo, mi : mo = Side(ho, lo) /\ mi = Side(hi, li)  OBVIOUS
<1>5. PICK po, pi : po = Programmed("out", mo.list) /\ pi = Programmed("in", mi.list)  OBVIOUS
<1>6. fmmu' = fmmu \cup po \cup pi /\ setup' = setup /\ out' = out /\ in' = in
  BY <1>3, <1>4, <1>5, Zenon DEF MapBoth, Side
<1>7. /\ \A p \in po : p.slave = slave /\ p.dir = "out"
      /\ \A p \in pi : p.slave = slave /\ p.dir = "in"
  BY <1>5, ProgrammedOwn
<1>8. po # {} => Covers(po, lo)
  <2>1. ho \in BOOLEAN /\ (ho => IsLayout(lo) /\ lo.bits > 0 /\ Ordered(lo) /\ OneGap(lo))
    BY <1>1, <1>2, <1>3, LayoutOrdered DEF HasOut
  <2> QED BY <1>1, <1>4, <1>5, <2>1, SideCovers
<1>9. pi # {} => Covers(pi, li)
  <2>1. hi \in BOOLEAN /\ (hi => IsLayout(li) /\ li.bits > 0 /\ Ordered(li) /\ OneGap(li))
    BY <1>1, <1>2, <1>3, LayoutOrdered DEF HasIn
  <2> QED BY <1>1, <1>4, <1>5, <2>1, SideCovers
<1>10. PICK new : new = po \cup pi  OBVIOUS
<1>11. PICK no, ni : no = {p \in new : p.dir = "out"} /\ ni = {p \in new : p.dir = "in"}
  OBVIOUS
<1>12. no = po /\ ni = pi  BY <1>7, <1>10, <1>11
<1>13. no # {} => Covers(no, out[slave])  BY <1>3, <1>8, <1>12
<1>14. ni # {} => Covers(ni, in[slave])  BY <1>3, <1>9, <1>12
<1>15. \A p \in new : /\ p.slave = slave /\ p.dir \in {"out", "in"}
                      /\ phase = "in" => p.dir = "in"
  BY <1>1, <1>7, <1>10
<1>16. fmmu' = fmmu \cup new  BY <1>6, <1>10
<1> QED BY <1>1, <1>2, <1>6, <1>11, <1>13, <1>14, <1>15, <1>16, SmsGrow

LEMMA SmsStay ==
  ASSUME SmsMapped, setup' = setup, out' = out, in' = in, fmmu' = fmmu
  PROVE  SmsMapped'
<1>1. Slaves' = Slaves  BY SameSetup
<1> QED BY <1>1 DEF SmsMapped, SmMapped

LEMMA SmsStepKeeps ==
  ASSUME OneMapping, SmsInOrder, MapInv, PointInv, SmsMapped, MapStep
  PROVE  SmsMapped'
<1>1. CASE MapOutput  BY <1>1, MapOutputSms
<1>2. CASE MapInput  BY <1>2, MapInputSms
<1>3. CASE MapBoth  BY <1>3, MapBothSms
<1>4. CASE /\ setup' = setup /\ out' = out /\ in' = in /\ fmmu' = fmmu
  BY <1>4, SmsStay
<1> QED BY <1>1, <1>2, <1>3, <1>4
  DEF MapStep, StartMap, SkipOutput, EndOutputs, SkipInput, EndInputs, SkipBoth, EndBoth

\* The segments, in every step.
LEMMA SegStepKeeps ==
  ASSUME MapInv, SegInv, FrameHolds, SegmentsLeft, MapStep
  PROVE  SegInv'
<1>1. CASE \E g \in Groups : StartMap(g)  BY <1>1, SegStartMap
<1>2. CASE MapOutput  BY <1>2, MapOutputSegs
<1>3. CASE SkipOutput  BY <1>3, SkipSegs
<1>4. CASE EndOutputs  BY <1>4, EndOutputsSegs
<1>5. CASE MapInput  BY <1>5, MapInputSegs
<1>6. CASE SkipInput  BY <1>6, SkipSegs
<1>7. CASE EndInputs  BY <1>7, EndInputsSegs
<1>8. CASE MapBoth  BY <1>8, MapBothSegs
<1>9. CASE SkipBoth  BY <1>9, SkipSegs
<1>10. CASE EndBoth  BY <1>10, EndBothSegs
<1> QED BY <1>1, <1>2, <1>3, <1>4, <1>5, <1>6, <1>7, <1>8, <1>9, <1>10 DEF MapStep

LEMMA SegStutters ==
  ASSUME SegInv, UNCHANGED mapVars
  PROVE  SegInv'
<1>1. /\ setup' = setup /\ group' = group /\ phase' = phase /\ cur' = cur
      /\ LogAddr' = LogAddr /\ seg' = seg
  BY DEF mapVars, place
<1>2. Groups' = Groups  BY <1>1, SameSetup
<1>3. SegFits(seg)'  BY <1>1 DEF SegInv, SegFits
<1>4. Running' => (Base(cur) + Held(seg) = LogAddr)'  BY <1>1 DEF SegInv, Running, Held, Base
<1>5. (phase = "in" => Cut(group[cur], seg))'  BY <1>1 DEF SegInv, Cut
<1>6. ASSUME NEW g \in Groups, group[g].mapped  PROVE Sized(g)'
  <2>1. Sized(g)  BY <1>6 DEF SegInv
  <2> QED BY <1>1, <2>1, SizedStays
<1> QED BY <1>1, <1>2, <1>3, <1>4, <1>5, <1>6 DEF SegInv, Running

LEMMA SegStart ==
  ASSUME MapInit
  PROVE  SegInv
<1>1. /\ phase = "idle" /\ seg = [n |-> 0, size |-> 0, list |-> NoSegments]
      /\ group = [g \in Groups |-> Unmapped]
  BY DEF MapInit
<1>2. \A g \in Groups : ~group[g].mapped  BY <1>1 DEF Unmapped
<1>3. Limit \in Nat  BY LayoutAssumption
<1>4. seg.size = 0 /\ \A i \in 0 .. MaxIOSegments - 1 : seg.list[i] = 0  BY <1>1 DEF NoSegments
<1>5. SegFits(seg)  BY <1>3, <1>4 DEF SegFits
<1> QED BY <1>1, <1>2, <1>5 DEF SegInv, Running

LEMMA Complete ==
  ASSUME MapInv, SegInv, NEW g \in Groups, group[g].mapped
  PROVE  ImageComplete(g)
<1>1. MapTypes /\ group[g] \in Records  BY DEF MapInv, MapTypes
<1>2. PICK gr : gr = group[g]  OBVIOUS
<1>3. PICK first : first = IF Overlap THEN Base(g) ELSE Base(g) + gr.Obytes  OBVIOUS
<1>4. Base(g) \in Nat /\ gr.Obytes \in Nat /\ gr.Ibytes \in Nat /\ first \in Nat
      /\ first = FirstInput(g)
  <2>1. Base(g) \in Nat  BY <1>1, SetupFacts
  <2>2. gr.Obytes \in Nat /\ gr.Ibytes \in Nat  BY <1>1, <1>2 DEF Records
  <2>3. first = FirstInput(g)  BY <1>2, <1>3 DEF FirstInput
  <2>4. first \in Nat  BY <1>3, <2>1, <2>2
  <2> QED BY <2>1, <2>2, <2>3, <2>4
<1>5. ASSUME NEW f \in fmmu, f.group = g
      PROVE  IF f.dir = "out"
             THEN f.start >= Base(g) /\ f.start + f.len <= Base(g) + gr.Obytes
             ELSE f.start >= first /\ f.start + f.len <= first + gr.Ibytes
  <2>1. FmmuRight(f)  BY DEF MapInv
  <2>2. ~ (Running /\ f.group = cur)  BY <1>5 DEF MapInv, PassRight
  <2>3. Inside(f)  BY <2>1, <2>2 DEF FmmuRight
  <2>4. f.start \in Nat /\ f.len \in Nat  BY <1>1, FmmuFields
  <2>5. CASE f.dir = "out"
    <3>1. Base(g) <= f.start /\ f.start + f.len <= Base(g) + gr.Obytes
      BY <1>2, <1>5, <2>3, <2>5 DEF Inside
    <3> QED BY <1>4, <2>4, <2>5, <3>1
  <2>6. CASE f.dir # "out"
    <3>1. first <= f.start /\ f.start + f.len <= first + gr.Ibytes
      BY <1>2, <1>4, <1>5, <2>3, <2>6 DEF Inside
    <3> QED BY <1>4, <2>4, <2>6, <3>1
  <2> QED BY <2>5, <2>6
<1>6. Sized(g)  BY DEF SegInv
<1>7. \A n : SegBytes(g, n) = Sum(gr.IOsegment, n)  BY <1>2 DEF SegBytes, Sum
<1>8. SegBytes(g, gr.nsegments) = Size(g)  BY <1>2, <1>6, <1>7 DEF Sized
<1>9. \A i \in DOMAIN gr.IOsegment : gr.IOsegment[i] <= Limit
  <2>1. DOMAIN gr.IOsegment = 0 .. MaxIOSegments - 1  BY <1>1, <1>2 DEF Records
  <2> QED BY <1>2, <1>6, <2>1 DEF Sized
<1>10. ~Overlap => /\ SegBytes(g, gr.Isegment) + gr.Ioffset = gr.Obytes
                   /\ gr.Ioffset <= gr.IOsegment[gr.Isegment]
  BY <1>2, <1>6, <1>7 DEF Sized
<1> QED BY <1>2, <1>3, <1>5, <1>8, <1>9, <1>10 DEF ImageComplete

\* Each byte of the sync managers is in one FMMU; a mapped group's FMMUs are inside
\* its outputs or inputs, and its segments cover all of its bytes, each in one
\* frame: where the slaves' data fits in a frame, the segments suffice and a
\* slave's sync managers have at most one gap.
THEOREM ImagesCompleteAlways ==
  ASSUME OneMapping, FrameHolds, SmsInOrder
  PROVE  ProcessSpec /\ []ImageFits /\ []SegmentsLeft => []ImagesComplete
<1>1. InitProcess => PointInv /\ SegInv /\ SmsMapped
  <2> SUFFICES ASSUME InitProcess  PROVE PointInv /\ SegInv /\ SmsMapped  OBVIOUS
  <2>1. fmmu = {} /\ outputs = [s \in Slaves |-> Null] /\ inputs = [s \in Slaves |-> Null]
    BY DEF InitProcess, MapInit
  <2>2. PointInv  BY <2>1 DEF PointInv, PointsAt
  <2>3. SegInv  BY SegStart DEF InitProcess
  <2>4. SmsMapped  BY <2>1 DEF SmsMapped, SmMapped
  <2> QED BY <2>2, <2>3, <2>4
<1>2. /\ MapInv /\ PointInv /\ SegInv /\ SmsMapped /\ SegmentsLeft
      /\ [NextProcess]_<<mapVars, pvars>>
      => PointInv' /\ SegInv' /\ SmsMapped'
  <2> SUFFICES ASSUME MapInv, PointInv, SegInv, SmsMapped, SegmentsLeft,
                      [NextProcess]_<<mapVars, pvars>>
               PROVE  PointInv' /\ SegInv' /\ SmsMapped'
    OBVIOUS
  <2>1. CASE MapStep  BY <2>1, PointStepKeeps, SegStepKeeps, SmsStepKeeps
  <2>2. CASE UNCHANGED mapVars
    <3>1. /\ setup' = setup /\ out' = out /\ in' = in /\ fmmu' = fmmu  BY <2>2 DEF mapVars
    <3> QED BY <2>2, <3>1, PointStutters, SegStutters, SmsStay
  <2> QED BY <2>1, <2>2 DEF NextProcess
<1>3. MapInv /\ SegInv /\ SmsMapped => ImagesComplete
  BY Complete DEF ImagesComplete
<1> QED BY <1>1, <1>2, <1>3, MapInvAlways, PTL DEF ProcessSpec

-----------------------------------------------------------------------------
(* The outputs in the IOmap while data is exchanged.                       *)

\* Where the parts of a group's image begin, in the IOmap and in the segments.
HeadRight(r) ==
  /\ r.outputs = 0
  /\ r.mapped => /\ r.inputs = r.Obytes /\ r.nsegments \in 1 .. MaxIOSegments
                 /\ r.Isegment \in 0 .. r.nsegments - 1
                 /\ Overlap => r.Isegment = 0 /\ r.Ioffset = 0
HeadInv == \A g \in Groups : HeadRight(group[g])

LEMMA HeadSet ==
  ASSUME MapTypes, HeadInv, cur \in Groups, setup' = setup, NEW q, HeadRight(q),
         group' = [group EXCEPT ![cur] = q]
  PROVE  HeadInv'
<1>1. Groups' = Groups /\ Overlap' = Overlap  BY SameSetup
<1>2. ASSUME NEW g \in Groups  PROVE HeadRight(group[g])'
  <2>1. PICK r : r = group'[g]  OBVIOUS
  <2>2. HeadRight(r)
    <3>1. group \in [Groups -> Records]  BY DEF MapTypes
    <3>2. r = q \/ r = group[g]  BY <2>1, <3>1
    <3> QED BY <3>2 DEF HeadInv
  <2> QED BY <1>1, <2>1, <2>2 DEF HeadRight
<1> QED BY <1>1, <1>2 DEF HeadInv

LEMMA HeadCounted ==
  ASSUME MapTypes, HeadInv, cur \in Groups, setup' = setup,
         NEW a \in Nat, NEW b \in Nat, NEW c \in Nat,
         group' = [group EXCEPT ![cur] = Counted(group[cur], a, b, c)]
  PROVE  HeadInv'
<1>1. Groups' = Groups /\ Overlap' = Overlap  BY SameSetup
<1>2. ASSUME NEW g \in Groups  PROVE HeadRight(group[g])'
  <2>1. /\ group'[g].mapped = group[g].mapped /\ group'[g].Obytes = group[g].Obytes
        /\ group'[g].Isegment = group[g].Isegment /\ group'[g].Ioffset = group[g].Ioffset
        /\ group'[g].nsegments = group[g].nsegments
        /\ group'[g].outputs = group[g].outputs /\ group'[g].inputs = group[g].inputs
    BY CountersOnly
  <2>2. HeadRight(group[g])  BY DEF HeadInv
  <2> QED BY <1>1, <2>1, <2>2 DEF HeadRight
<1> QED BY <1>1, <1>2 DEF HeadInv

LEMMA HeadStays ==
  ASSUME HeadInv, setup' = setup, group' = group
  PROVE  HeadInv'
<1>1. Groups' = Groups /\ Overlap' = Overlap  BY SameSetup
<1>2. ASSUME NEW g \in Groups  PROVE HeadRight(group[g])'
  <2>1. HeadRight(group[g])  BY DEF HeadInv
  <2> QED BY <1>1, <2>1 DEF HeadRight
<1> QED BY <1>1, <1>2 DEF HeadInv

\* A slave that is mapped, or is not, only changes counters.
LEMMA SlaveHeads ==
  ASSUME MapInv, HeadInv, MapOutput \/ MapInput \/ SkipInput \/ MapBoth
  PROVE  HeadInv'
<1>1. MapTypes /\ cur \in Groups /\ slave <= slavecount
  BY DEF MapInv, PassRight, Running, MapOutput, MapInput, SkipInput, MapBoth
<1>2. slave \in Slaves  BY <1>1, SlaveOfPass
<1>3. LogAddr \in Nat /\ BitPos \in 0 .. 7 /\ 0 \in 0 .. 7  BY <1>1 DEF MapTypes
<1>4. Blocked(slave) \in Nat /\ 0 \in Nat  BY DEF Blocked
<1>5. setup' = setup  BY DEF MapOutput, MapInput, SkipInput, MapBoth
<1>6. CASE MapOutput
  <2>1. PICK m : m = Fmmus(out[slave], LogAddr, BitPos)  OBVIOUS
  <2>2. Laid(m, LogAddr, BitPos)
    <3>1. HasOut(slave)  BY <1>6 DEF MapOutput
    <3>2. IsLayout(out[slave]) /\ out[slave].bits > 0
      BY <1>1, <1>2, <3>1, SetupFacts DEF HasOut
    <3> QED BY <1>3, <2>1, <3>2, FmmusLaid
  <2>3. PICK a : a = Len(m.list)  OBVIOUS
  <2>4. a \in Nat  BY <2>2, <2>3 DEF Laid
  <2>5. group' = [group EXCEPT ![cur] = Counted(group[cur], a, 0, 0)]
    BY <1>6, <2>1, <2>3 DEF MapOutput
  <2> QED BY <1>1, <1>4, <1>5, <2>4, <2>5, HeadCounted
<1>7. CASE MapInput
  <2>1. PICK m : m = Fmmus(in[slave], LogAddr, BitPos)  OBVIOUS
  <2>2. Laid(m, LogAddr, BitPos)
    <3>1. HasIn(slave)  BY <1>7 DEF MapInput
    <3>2. IsLayout(in[slave]) /\ in[slave].bits > 0
      BY <1>1, <1>2, <3>1, SetupFacts DEF HasIn
    <3> QED BY <1>3, <2>1, <3>2, FmmusLaid
  <2>3. PICK a, c : a = Len(m.list) /\ c = Blocked(slave)  OBVIOUS
  <2>4. a \in Nat /\ c \in Nat  BY <1>4, <2>2, <2>3 DEF Laid
  <2>5. group' = [group EXCEPT ![cur] = Counted(group[cur], 0, a, c)]
    BY <1>7, <2>1, <2>3 DEF MapInput
  <2> QED BY <1>1, <1>4, <1>5, <2>4, <2>5, HeadCounted
<1>8. CASE SkipInput
  <2>1. PICK c : c = IF InGroup(slave, cur) THEN Blocked(slave) ELSE 0  OBVIOUS
  <2>2. c \in Nat  BY <1>4, <2>1
  <2>3. group' = [group EXCEPT ![cur] = Counted(group[cur], 0, 0, c)]
    BY <1>8, <2>1 DEF SkipInput
  <2> QED BY <1>1, <1>4, <1>5, <2>2, <2>3, HeadCounted
<1>9. CASE MapBoth
  <2>1. PICK ho, hi, lo, li : /\ ho = HasOut(slave) /\ hi = HasIn(slave)
                              /\ lo = out[slave] /\ li = in[slave]
    OBVIOUS
  <2>2. PICK mo, mi : mo = Side(ho, lo) /\ mi = Side(hi, li)  OBVIOUS
  <2>3. PICK a, b, c : a = Len(mo.list) /\ b = Len(mi.list) /\ c = Blocked(slave)  OBVIOUS
  <2>4. group' = [group EXCEPT ![cur] = Counted(group[cur], a, b, c)]
    BY <1>9, <2>1, <2>2, <2>3, Zenon DEF MapBoth, Side
  <2>5. /\ ho \in BOOLEAN /\ (ho => IsLayout(lo) /\ lo.bits > 0)
        /\ hi \in BOOLEAN /\ (hi => IsLayout(li) /\ li.bits > 0)
    BY <1>1, <1>2, <2>1, SetupFacts DEF HasOut, HasIn
  <2>6. ASSUME NEW has \in BOOLEAN, NEW l, has => IsLayout(l) /\ l.bits > 0, NEW m,
               m = Side(has, l)
        PROVE  Len(m.list) \in Nat
    <3>1. CASE has
      <4>1. m = Fmmus(l, LogAddr, 0)  BY <2>6, <3>1 DEF Side
      <4>2. Laid(m, LogAddr, 0)  BY <1>3, <2>6, <3>1, <4>1, FmmusLaid
      <4> QED BY <4>2 DEF Laid
    <3>2. CASE ~has
      <4>1. m.list = << >>  BY <2>6, <3>2 DEF Side
      <4> QED BY <4>1
    <3> QED BY <3>1, <3>2
  <2>7. a \in Nat /\ b \in Nat /\ c \in Nat  BY <1>4, <2>2, <2>3, <2>5, <2>6
  <2> QED BY <1>1, <1>5, <2>4, <2>7, HeadCounted
<1> QED BY <1>6, <1>7, <1>8, <1>9

LEMMA EndHeads ==
  ASSUME MapInv, SegInv, HeadInv, FrameHolds, SegmentsLeft,
         EndOutputs \/ EndInputs \/ EndBoth
  PROVE  HeadInv'
<1>1. MapTypes /\ Running /\ cur \in Groups /\ ~group[cur].mapped
  BY DEF MapInv, PassRight, Running, EndOutputs, EndInputs, EndBoth
<1>2. PICK r : r = group[cur]  OBVIOUS
<1>3. r \in Records /\ r.mapped = FALSE /\ r.outputs = 0 /\ seg \in SegType
      /\ MaxIOSegments \in Nat \ {0}
  BY <1>1, <1>2, SetupFacts DEF MapTypes, HeadInv, HeadRight, Records
<1>4. setup' = setup  BY DEF EndOutputs, EndInputs, EndBoth
<1>5. CASE EndOutputs
  <2>1. PICK sg, o : sg = Pad(seg) /\ o = PadAddr - Base(cur)  OBVIOUS
  <2>2. PICK n, z : n = sg.n /\ z = sg.size  OBVIOUS
  <2>3. PICK q : q = [[[r EXCEPT !.Obytes = o] EXCEPT !.Isegment = n] EXCEPT !.Ioffset = z]
    OBVIOUS
  <2>4. group' = [group EXCEPT ![cur] = q]  BY <1>2, <1>5, <2>1, <2>2, <2>3 DEF EndOutputs
  <2>5. q.mapped = FALSE /\ q.outputs = 0  BY <1>3, <2>3 DEF Records
  <2>6. HeadRight(q)  BY <2>5 DEF HeadRight
  <2> QED BY <1>1, <1>4, <2>4, <2>6, HeadSet
<1>6. CASE EndInputs
  <2>1. phase = "in" /\ ~Overlap  BY <1>6 DEF MapInv, PassRight, EndInputs
  <2>2. PICK sg, i : sg = Pad(seg) /\ i = PadAddr - Base(cur) - r.Obytes  OBVIOUS
  <2>3. PICK x, y, z : x = Close(sg) /\ y = sg.n + 1 /\ z = r.Obytes  OBVIOUS
  <2>4. PICK q : q = [[[[[r EXCEPT !.mapped = TRUE] EXCEPT !.IOsegment = x]
                        EXCEPT !.nsegments = y] EXCEPT !.inputs = z] EXCEPT !.Ibytes = i]
    OBVIOUS
  <2>5. group' = [group EXCEPT ![cur] = q]
    BY <1>2, <1>6, <2>2, <2>3, <2>4 DEF EndInputs
  <2>6. /\ q.mapped = TRUE /\ q.nsegments = y /\ q.inputs = z /\ q.Obytes = z
        /\ q.outputs = 0 /\ q.Isegment = r.Isegment
    BY <1>3, <2>3, <2>4 DEF Records
  <2>7. sg \in SegType /\ Cut(r, sg)  BY <1>1, <1>2, <2>1, <2>2, PadSegs
  <2>8. PICK n, k : n = sg.n /\ k = r.Isegment  OBVIOUS
  <2>9. n \in 0 .. MaxIOSegments - 1 /\ k \in 0 .. n /\ y = n + 1
    BY <2>3, <2>7, <2>8 DEF SegType, Cut
  <2>10. y \in 1 .. MaxIOSegments /\ k \in 0 .. y - 1  BY <1>3, <2>9
  <2>11. HeadRight(q)  BY <2>1, <2>6, <2>8, <2>10 DEF HeadRight
  <2> QED BY <1>1, <1>4, <2>5, <2>11, HeadSet
<1>7. CASE EndBoth
  <2>1. PICK o, i : o = soLogAddr - Base(cur) /\ i = siLogAddr - Base(cur)  OBVIOUS
  <2>2. PICK x, y : x = Close(seg) /\ y = seg.n + 1  OBVIOUS
  <2>3. PICK q : q = [[[[[[[[r EXCEPT !.mapped = TRUE] EXCEPT !.IOsegment = x]
                 EXCEPT !.nsegments = y] EXCEPT !.Isegment = 0] EXCEPT !.Ioffset = 0]
                 EXCEPT !.Obytes = o] EXCEPT !.Ibytes = i] EXCEPT !.inputs = o]
    OBVIOUS
  <2>4. group' = [group EXCEPT ![cur] = q]  BY <1>2, <1>7, <2>1, <2>2, <2>3 DEF EndBoth
  <2>5. /\ q.mapped = TRUE /\ q.nsegments = y /\ q.inputs = o /\ q.Obytes = o
        /\ q.outputs = 0 /\ q.Isegment = 0 /\ q.Ioffset = 0
    BY <1>3, <2>3 DEF Records
  <2>6. y \in 1 .. MaxIOSegments /\ 0 \in 0 .. y - 1
    <3>1. PICK n : n = seg.n  OBVIOUS
    <3>2. n \in 0 .. MaxIOSegments - 1 /\ y = n + 1  BY <1>3, <2>2, <3>1 DEF SegType
    <3> QED BY <1>3, <3>2
  <2>7. HeadRight(q)  BY <2>5, <2>6 DEF HeadRight
  <2> QED BY <1>1, <1>4, <2>4, <2>7, HeadSet
<1> QED BY <1>5, <1>6, <1>7

LEMMA HeadStepKeeps ==
  ASSUME MapInv, SegInv, HeadInv, FrameHolds, SegmentsLeft, MapStep
  PROVE  HeadInv'
<1>1. CASE MapOutput \/ MapInput \/ SkipInput \/ MapBoth  BY <1>1, SlaveHeads
<1>2. CASE EndOutputs \/ EndInputs \/ EndBoth  BY <1>2, EndHeads
<1>3. CASE setup' = setup /\ group' = group  BY <1>3, HeadStays
<1> QED BY <1>1, <1>2, <1>3 DEF MapStep, StartMap, SkipOutput, SkipBoth

\* Before the exchange nothing is stored.  In it, what is left to send and each
\* frame are behind the outputs, or hold the outputs as they are; the data of a
\* write command is not copied back.
Pristine ==
  /\ mem = [g \in Groups |-> [b \in 0 .. MemBits - 1 |-> 0]]
  /\ version = 0 /\ tx = Idle /\ frames = << >> /\ idxstack = << >> /\ pulled = 0
MemRight == DOMAIN mem = Groups /\ \A g \in Groups : DOMAIN mem[g] = 0 .. MemBits - 1
Kept == \A g \in Groups : \A b \in OutBits(g) : b \in DOMAIN mem[g] => mem[g][b] = version
BehindOutputs(t) == t.data >= group[t.g].Obytes
InPlace(t) == ~Overlap /\ t.addr = Base(t.g) + t.data
ToSend(t) ==
  /\ t = [cmd |-> t.cmd, g |-> t.g, seg |-> t.seg, left |-> t.left, addr |-> t.addr,
          data |-> t.data]
  /\ t.g \in Groups /\ t.cmd \in {"LRD", "LWR", "LRW"} /\ t.seg \in 0 .. MaxIOSegments - 1
  /\ t.cmd # "LWR" => t.data \in Nat
  /\ t.cmd = "LRD" => BehindOutputs(t)
  /\ t.cmd = "LRW" => Overlap \/ InPlace(t)
Unspoilt(fr) ==
  \A b \in DOMAIN fr.bits :
    8 * fr.data + b \in OutBits(fr.g) /\ 8 * fr.data + b \in DOMAIN mem[fr.g]
      => fr.bits[b] = version
FrameRight(fr) ==
  /\ {"g", "cmd", "addr", "data", "bits"} \subseteq DOMAIN fr /\ fr.g \in Groups
  /\ fr.cmd # "LWR" => /\ fr.data \in Nat /\ \A b \in DOMAIN fr.bits : b \in Nat
                       /\ BehindOutputs(fr) \/ (InPlace(fr) /\ Unspoilt(fr))
IsSeq(s) == \E S : s \in Seq(S)
FramesRight == IsSeq(frames) /\ \A i \in 1 .. Len(frames) : FrameRight(frames[i])
StackRight ==
  /\ pulled \in Nat /\ IsSeq(idxstack)
  /\ \A i \in 1 .. Len(idxstack) : idxstack[i] \in 1 .. Len(frames)
Exchanging == MemRight /\ Kept /\ FramesRight /\ StackRight /\ (tx = Idle \/ ToSend(tx))
KeptInv == Pristine \/ (AllMapped /\ Exchanging)

LEMMA SeqAppend ==
  ASSUME NEW s, IsSeq(s), NEW x
  PROVE  /\ IsSeq(Append(s, x)) /\ Len(s) \in Nat /\ Len(Append(s, x)) = Len(s) + 1
         /\ \A i \in 1 .. Len(s) : Append(s, x)[i] = s[i]
         /\ Append(s, x)[Len(s) + 1] = x
<1>1. PICK S : s \in Seq(S)  BY DEF IsSeq
<1>2. PICK T : T = S \cup {x}  OBVIOUS
<1>3. s \in Seq(T) /\ x \in T  BY <1>1, <1>2
<1>4. Append(s, x) \in Seq(T)  BY <1>3
<1>5. IsSeq(Append(s, x))  BY <1>4 DEF IsSeq
<1> QED BY <1>3, <1>5

Replaced(r, s, i, x) ==
  /\ IsSeq(r) /\ Len(r) = Len(s) /\ r[i] = x
  /\ \A j \in 1 .. Len(s) : j # i => r[j] = s[j]

LEMMA SeqExcept ==
  ASSUME NEW s, IsSeq(s), NEW i, i \in 1 .. Len(s), NEW x
  PROVE  Replaced([s EXCEPT ![i] = x], s, i, x)
<1>1. PICK r : r = [s EXCEPT ![i] = x]  OBVIOUS
<1>2. PICK S : s \in Seq(S)  BY DEF IsSeq
<1>3. PICK T : T = S \cup {x}  OBVIOUS
<1>4. s \in Seq(T) /\ x \in T  BY <1>2, <1>3
<1>5. r \in Seq(T) /\ Len(r) = Len(s)  BY <1>4, <1>1
<1>6. IsSeq(r)  BY <1>5 DEF IsSeq
<1>7. r[i] = x /\ \A j \in 1 .. Len(s) : j # i => r[j] = s[j]  BY <1>4, <1>1
<1>8. Replaced(r, s, i, x)  BY <1>5, <1>6, <1>7 DEF Replaced
<1> QED BY <1>1, <1>8

LEMMA PristineExchanges ==
  ASSUME Pristine
  PROVE  Exchanging
<1>1. /\ mem = [g \in Groups |-> [b \in 0 .. MemBits - 1 |-> 0]]
      /\ version = 0 /\ tx = Idle /\ frames = << >> /\ idxstack = << >> /\ pulled = 0
  BY DEF Pristine
<1>2. MemRight  BY <1>1 DEF MemRight
<1>3. Kept  BY <1>1 DEF Kept
<1>4. FramesRight
  <2>1. << >> \in Seq({}) /\ Len(<< >>) = 0  OBVIOUS
  <2>2. IsSeq(<< >>)  BY <2>1 DEF IsSeq
  <2> QED BY <1>1, <2>1, <2>2 DEF FramesRight
<1>5. StackRight
  <2>1. << >> \in Seq({}) /\ Len(<< >>) = 0  OBVIOUS
  <2>2. IsSeq(<< >>)  BY <2>1 DEF IsSeq
  <2> QED BY <1>1, <2>1, <2>2 DEF StackRight
<1> QED BY <1>1, <1>2, <1>3, <1>4, <1>5 DEF Exchanging

LEMMA PristineStays ==
  ASSUME Pristine, setup' = setup, UNCHANGED pvars
  PROVE  Pristine'
<1>1. /\ mem' = mem /\ version' = version /\ tx' = tx /\ frames' = frames
      /\ idxstack' = idxstack /\ pulled' = pulled
  BY DEF pvars
<1>2. Groups' = Groups /\ MemBits' = MemBits  BY DEF Groups, MemBits
<1> QED BY <1>1, <1>2 DEF Pristine, Idle

\* What a mapped group has.
LEMMA MappedGroup ==
  ASSUME MapInv, SegInv, HeadInv, AllMapped, NEW g \in Groups, NEW r, r = group[g]
  PROVE  /\ r \in Records /\ r.outputs = 0 /\ r.inputs = r.Obytes
         /\ r.nsegments \in 1 .. MaxIOSegments /\ r.Isegment \in 0 .. r.nsegments - 1
         /\ Base(g) \in Nat /\ MaxIOSegments \in Nat \ {0} /\ Overlap \in BOOLEAN
         /\ r.Ioffset <= r.IOsegment[r.Isegment]
<1>1. MapTypes /\ r.mapped  BY DEF MapInv, AllMapped
<1>2. r \in Records  BY <1>1 DEF MapTypes
<1>3. /\ r.outputs = 0 /\ r.inputs = r.Obytes /\ r.nsegments \in 1 .. MaxIOSegments
      /\ r.Isegment \in 0 .. r.nsegments - 1 /\ (Overlap => r.Ioffset = 0)
  BY <1>1 DEF HeadInv, HeadRight
<1>4. Base(g) \in Nat /\ MaxIOSegments \in Nat \ {0} /\ Overlap \in BOOLEAN
  BY <1>1, SetupFacts
<1>5. r.Ioffset <= r.IOsegment[r.Isegment]
  <2>1. CASE Overlap
    <3>1. r.Isegment \in 0 .. MaxIOSegments - 1 /\ r.Ioffset = 0  BY <1>3, <1>4, <2>1
    <3>2. r.IOsegment[r.Isegment] \in Nat  BY <1>2, <3>1 DEF Records
    <3> QED BY <3>1, <3>2
  <2>2. CASE ~Overlap
    <3>1. Sized(g)  BY <1>1 DEF SegInv
    <3> QED BY <2>2, <3>1 DEF Sized
  <2> QED BY <2>1, <2>2
<1> QED BY <1>2, <1>3, <1>4, <1>5

LEMMA StartsRight ==
  ASSUME MapInv, SegInv, HeadInv, AllMapped, NEW g \in Groups
  PROVE  ToSend(SendLRD(g)) /\ ToSend(SendLWR(g)) /\ ToSend(SendLRW(g))
<1>1. PICK r : r = group[g]  OBVIOUS
<1>2. /\ r \in Records /\ r.outputs = 0 /\ r.inputs = r.Obytes
      /\ r.nsegments \in 1 .. MaxIOSegments /\ r.Isegment \in 0 .. r.nsegments - 1
      /\ Base(g) \in Nat /\ MaxIOSegments \in Nat \ {0} /\ Overlap \in BOOLEAN
  BY <1>1, MappedGroup
<1>3. r.Obytes \in Nat  BY <1>2 DEF Records
<1>4. r.Isegment \in 0 .. MaxIOSegments - 1 /\ 0 \in 0 .. MaxIOSegments - 1  BY <1>2
<1>5. ToSend(SendLRD(g))
  <2>1. PICK t : t = SendLRD(g)  OBVIOUS
  <2>2. t = [cmd |-> "LRD", g |-> g, seg |-> r.Isegment, left |-> r.Ibytes,
             addr |-> Base(g) + r.Obytes, data |-> r.inputs]
    BY <1>1, <2>1 DEF SendLRD
  <2>3. BehindOutputs(t)  BY <1>1, <1>2, <1>3, <2>2 DEF BehindOutputs
  <2> QED BY <1>2, <1>3, <1>4, <2>1, <2>2, <2>3 DEF ToSend
<1>6. ToSend(SendLWR(g))
  <2>1. PICK t : t = SendLWR(g)  OBVIOUS
  <2>2. t = [cmd |-> "LWR", g |-> g, seg |-> 0, left |-> r.Obytes, addr |-> Base(g),
             data |-> r.outputs]
    BY <1>1, <2>1 DEF SendLWR
  <2> QED BY <1>4, <2>1, <2>2 DEF ToSend
<1>7. ToSend(SendLRW(g))
  <2>1. PICK t : t = SendLRW(g)  OBVIOUS
  <2>2. PICK d, z : d = (IF r.Obytes > 0 THEN r.outputs ELSE r.inputs) /\ z = Size(g)
    OBVIOUS
  <2>3. t = [cmd |-> "LRW", g |-> g, seg |-> 0, left |-> z, addr |-> Base(g), data |-> d]
    BY <1>1, <2>1, <2>2 DEF SendLRW
  <2>4. d = 0  BY <1>2, <1>3, <2>2
  <2>5. Base(g) = Base(g) + 0  BY <1>2
  <2>6. Overlap \/ InPlace(t)  BY <2>3, <2>4, <2>5 DEF InPlace
  <2> QED BY <1>4, <2>1, <2>3, <2>4, <2>6 DEF ToSend
<1> QED BY <1>5, <1>6, <1>7

\* What stays when neither the image nor the outputs change.
SameImage == setup' = setup /\ group' = group /\ version' = version

LEMMA ToSendStays ==
  ASSUME SameImage, NEW CONSTANT t, ToSend(t)
  PROVE  ToSend(t)'
BY DEF SameImage, ToSend, BehindOutputs, InPlace, Groups, Overlap, Base

LEMMA FrameStays ==
  ASSUME SameImage, MemRight, MemRight', NEW CONSTANT fr, FrameRight(fr)
  PROVE  FrameRight(fr)'
<1>1. Groups' = Groups /\ Overlap' = Overlap /\ MemBits' = MemBits
  BY DEF SameImage, Groups, Overlap, MemBits
<1>2. fr.g \in Groups /\ DOMAIN (mem'[fr.g]) = DOMAIN (mem[fr.g])
  BY <1>1 DEF FrameRight, MemRight
<1>3. OutBits(fr.g)' = OutBits(fr.g)  BY DEF SameImage, OutBits
<1>4. BehindOutputs(fr)' = BehindOutputs(fr) /\ InPlace(fr)' = InPlace(fr)
  BY <1>1 DEF SameImage, BehindOutputs, InPlace, Base
<1>5. Unspoilt(fr) => Unspoilt(fr)'
  BY <1>2, <1>3 DEF SameImage, Unspoilt
<1> QED BY <1>1, <1>4, <1>5 DEF FrameRight

LEMMA FramesStay ==
  ASSUME SameImage, MemRight, MemRight', FramesRight, frames' = frames
  PROVE  FramesRight'
<1>1. ASSUME NEW i \in 1 .. Len(frames)  PROVE FrameRight(frames[i])'
  <2>1. PICK fr : fr = frames[i]  OBVIOUS
  <2>2. FrameRight(fr)  BY <2>1 DEF FramesRight
  <2>3. FrameRight(fr)'  BY <2>2, FrameStays
  <2>4. frames'[i] = fr  BY <2>1
  <2> QED BY <2>3, <2>4 DEF FrameRight, BehindOutputs, InPlace, Unspoilt
<1> QED BY <1>1 DEF FramesRight

LEMMA MemStays ==
  ASSUME setup' = setup, group' = group, version' = version, mem' = mem, MemRight, Kept
  PROVE  MemRight' /\ Kept'
<1>1. Groups' = Groups /\ MemBits' = MemBits  BY DEF Groups, MemBits
<1>2. \A g \in Groups : OutBits(g)' = OutBits(g)  BY DEF OutBits
<1> QED BY <1>1, <1>2 DEF MemRight, Kept

\* What is left to send, after a step that does not send.
LEMMA TxStays ==
  ASSUME SameImage, tx = Idle \/ ToSend(tx), tx' = tx
  PROVE  (tx = Idle \/ ToSend(tx))'
<1>1. CASE tx = Idle  BY <1>1 DEF Idle
<1>2. CASE ToSend(tx)
  <2>1. PICK t : t = tx  OBVIOUS
  <2>2. ToSend(t)'  BY <1>2, <2>1, ToSendStays
  <2>3. tx' = t  BY <2>1
  <2>4. ToSend(tx)'  BY <2>2, <2>3 DEF ToSend, BehindOutputs, InPlace
  <2> QED BY <2>4
<1> QED BY <1>1, <1>2

LEMMA SameExchange ==
  ASSUME Exchanging, setup' = setup, group' = group, UNCHANGED pvars
  PROVE  Exchanging'
<1>1. /\ mem' = mem /\ version' = version /\ tx' = tx /\ frames' = frames
      /\ idxstack' = idxstack /\ pulled' = pulled
  BY DEF pvars
<1>2. SameImage /\ MemRight /\ Kept /\ FramesRight /\ StackRight /\ (tx = Idle \/ ToSend(tx))
  BY <1>1 DEF SameImage, Exchanging
<1>3. MemRight' /\ Kept'  BY <1>1, <1>2, MemStays
<1>4. FramesRight'  BY <1>1, <1>2, <1>3, FramesStay
<1>5. StackRight'  BY <1>1, <1>2 DEF StackRight
<1>6. (tx = Idle \/ ToSend(tx))'  BY <1>1, <1>2, TxStays
<1> QED BY <1>3, <1>4, <1>5, <1>6 DEF Exchanging

LEMMA WriteKeeps ==
  ASSUME MapInv, Exchanging, WriteInFlight = FALSE, WriteOutputs, UNCHANGED mapVars
  PROVE  Exchanging'
<1>1. /\ setup' = setup /\ group' = group  BY DEF mapVars
<1>2. /\ tx = Idle /\ frames = << >> /\ version' = version + 1 /\ tx' = tx
      /\ frames' = frames /\ idxstack' = idxstack /\ pulled' = pulled
      /\ mem' = [g \in Groups |-> [b \in DOMAIN mem[g] |->
               IF b \in OutBits(g) THEN version + 1 ELSE mem[g][b]]]
  BY DEF WriteOutputs
<1>3. Groups' = Groups /\ MemBits' = MemBits /\ \A g \in Groups : OutBits(g)' = OutBits(g)
  BY <1>1 DEF Groups, MemBits, OutBits
<1>4. MemRight /\ FramesRight /\ StackRight  BY DEF Exchanging
<1>5. MemRight'  BY <1>2, <1>3, <1>4 DEF MemRight
<1>6. Kept'  BY <1>2, <1>3 DEF Kept
<1>7. FramesRight'
  <2>1. Len(frames) = 0 /\ IsSeq(frames')  BY <1>2, <1>4 DEF FramesRight
  <2> QED BY <1>2, <2>1 DEF FramesRight
<1>8. StackRight'  BY <1>2, <1>4 DEF StackRight
<1>9. tx' = Idle  BY <1>2
<1> QED BY <1>5, <1>6, <1>7, <1>8, <1>9 DEF Exchanging, Idle

LEMMA StartKeeps ==
  ASSUME MapInv, SegInv, HeadInv, AllMapped, Exchanging, NEW g \in Groups, StartSend(g),
         UNCHANGED mapVars
  PROVE  Exchanging'
<1>1. setup' = setup /\ group' = group  BY DEF mapVars
<1>2. /\ mem' = mem /\ version' = version /\ frames' = frames /\ idxstack' = idxstack
      /\ pulled' = pulled
  BY DEF StartSend
<1>3. SameImage /\ MemRight /\ Kept /\ FramesRight /\ StackRight
  BY <1>1, <1>2 DEF SameImage, Exchanging
<1>4. MemRight' /\ Kept'  BY <1>1, <1>2, <1>3, MemStays
<1>5. FramesRight'  BY <1>2, <1>3, <1>4, FramesStay
<1>6. StackRight'  BY <1>2, <1>3 DEF StackRight
<1>7. ToSend(tx)'
  <2>1. PICK r : r = group[g]  OBVIOUS
  <2>2. r \in Records  BY <2>1, MappedGroup
  <2>3. r.blockLRW \in Nat /\ r.Ibytes \in Nat  BY <2>2 DEF Records
  <2>4. tx' = CASE r.blockLRW = 0   -> SendLRW(g)
                [] r.blockLRW > 0 /\ r.Ibytes > 0 -> SendLRD(g)
                [] OTHER                   -> SendLWR(g)
    BY <2>1 DEF StartSend
  <2>5. tx' = SendLRW(g) \/ tx' = SendLRD(g) \/ tx' = SendLWR(g)  BY <2>3, <2>4
  <2>6. PICK t : t = tx'  OBVIOUS
  <2>7. ToSend(t)  BY <2>5, <2>6, StartsRight
  <2>8. ToSend(t)'  BY <1>3, <2>7, ToSendStays
  <2> QED BY <2>6, <2>8 DEF ToSend, BehindOutputs, InPlace
<1> QED BY <1>4, <1>5, <1>6, <1>7 DEF Exchanging

LEMMA ReceiveKeeps ==
  ASSUME Exchanging, NEW g \in Groups, StartReceive(g), UNCHANGED mapVars
  PROVE  Exchanging'
<1>1. setup' = setup /\ group' = group  BY DEF mapVars
<1>2. /\ mem' = mem /\ version' = version /\ tx' = tx /\ frames' = frames
      /\ idxstack' = idxstack /\ pulled' = pulled
  BY DEF StartReceive
<1>3. SameImage /\ MemRight /\ Kept /\ FramesRight /\ StackRight /\ (tx = Idle \/ ToSend(tx))
  BY <1>1, <1>2 DEF SameImage, Exchanging
<1>4. MemRight' /\ Kept'  BY <1>1, <1>2, <1>3, MemStays
<1>5. FramesRight'  BY <1>2, <1>3, <1>4, FramesStay
<1>6. StackRight'  BY <1>2, <1>3 DEF StackRight
<1>7. (tx = Idle \/ ToSend(tx))'  BY <1>2, <1>3, TxStays
<1> QED BY <1>4, <1>5, <1>6, <1>7 DEF Exchanging

LEMMA NothingKeeps ==
  ASSUME Exchanging, PullNothing \/ EndReceive, UNCHANGED mapVars
  PROVE  Exchanging'
<1>1. setup' = setup /\ group' = group  BY DEF mapVars
<1>2. /\ mem' = mem /\ version' = version /\ tx' = tx
  BY DEF PullNothing, EndReceive
<1>3. SameImage /\ MemRight /\ Kept /\ FramesRight /\ StackRight /\ (tx = Idle \/ ToSend(tx))
  BY <1>1, <1>2 DEF SameImage, Exchanging
<1>4. MemRight' /\ Kept'  BY <1>1, <1>2, <1>3, MemStays
<1>5. FramesRight' /\ StackRight'
  <2>1. CASE PullNothing
    <3>1. frames' = frames /\ idxstack' = idxstack /\ pulled' = pulled + 1
      BY <2>1 DEF PullNothing
    <3>2. FramesRight'  BY <1>3, <1>4, <3>1, FramesStay
    <3>3. StackRight'  BY <1>3, <3>1 DEF StackRight
    <3> QED BY <3>2, <3>3
  <2>2. CASE EndReceive
    <3>1. frames' = << >> /\ idxstack' = << >> /\ pulled' = 0  BY <2>2 DEF EndReceive
    <3>2. << >> \in Seq({}) /\ Len(<< >>) = 0  OBVIOUS
    <3>3. IsSeq(<< >>)  BY <3>2 DEF IsSeq
    <3>4. FramesRight'  BY <3>1, <3>2, <3>3 DEF FramesRight
    <3>5. StackRight'  BY <3>1, <3>2, <3>3 DEF StackRight
    <3> QED BY <3>4, <3>5
  <2> QED BY <2>1, <2>2
<1>6. (tx = Idle \/ ToSend(tx))'  BY <1>2, <1>3, TxStays
<1> QED BY <1>4, <1>5, <1>6 DEF Exchanging

\* The part that a frame takes.
LEMMA PartRight ==
  ASSUME MapInv, SegInv, HeadInv, AllMapped, ToSend(tx), tx.cmd # "LWR"
  PROVE  SubLength \in Nat
<1>1. PICK t, r : t = tx /\ r = group[t.g]  OBVIOUS
<1>2. ToSend(t)  BY <1>1
<1>3. t.g \in Groups /\ t.seg \in 0 .. MaxIOSegments - 1 /\ t.cmd \in {"LRD", "LRW"}
  BY <1>1, <1>2 DEF ToSend
<1>4. r \in Records /\ r.Ioffset <= r.IOsegment[r.Isegment]  BY <1>1, <1>3, MappedGroup
<1>5. PICK z : z = r.IOsegment[t.seg]  OBVIOUS
<1>6. z \in Nat /\ r.Ioffset \in Nat  BY <1>3, <1>4, <1>5 DEF Records
<1>7. SubLength = IF t.cmd = "LRD" /\ t.seg = r.Isegment THEN z - r.Ioffset ELSE z
  BY <1>1, <1>3, <1>5 DEF SubLength
<1>8. t.seg = r.Isegment => z - r.Ioffset \in Nat  BY <1>4, <1>5, <1>6
<1> QED BY <1>6, <1>7, <1>8

LEMMA NewFrameRight ==
  ASSUME MapInv, SegInv, HeadInv, AllMapped, Exchanging, ToSend(tx), NEW sub, sub = SubLength,
         NEW dc, NEW fr,
         fr = [g |-> tx.g, cmd |-> tx.cmd, addr |-> tx.addr, len |-> sub,
               data |-> tx.data + InputOffset, dc |-> dc,
               bits |-> [b \in 0 .. 8 * sub - 1 |-> mem[tx.g][8 * tx.data + b]],
               wkc |-> 0, at |-> "line"]
  PROVE  FrameRight(fr)
<1>1. PICK t, r, off : t = tx /\ r = group[t.g] /\ off = InputOffset  OBVIOUS
<1>2. PICK bits : bits = [b \in 0 .. 8 * sub - 1 |-> mem[t.g][8 * t.data + b]]  OBVIOUS
<1>3. PICK d : d = t.data + off  OBVIOUS
<1>4. /\ fr.g = t.g /\ fr.cmd = t.cmd /\ fr.addr = t.addr /\ fr.data = d /\ fr.bits = bits
  BY <1>1, <1>2, <1>3
<1>5. ToSend(t)  BY <1>1
<1>6. t.g \in Groups /\ t.cmd \in {"LRD", "LWR", "LRW"} /\ (t.cmd # "LWR" => t.data \in Nat)
  BY <1>5 DEF ToSend
<1>7. r \in Records /\ Overlap \in BOOLEAN  BY <1>1, <1>6, MappedGroup
<1>8. r.Obytes \in Nat  BY <1>7 DEF Records
<1>9. off = IF t.cmd = "LRW" /\ Overlap /\ r.Obytes > 0 THEN r.Obytes ELSE 0
  BY <1>1 DEF InputOffset
<1>10. ASSUME t.cmd # "LWR"
       PROVE  /\ fr.data \in Nat /\ \A b \in DOMAIN fr.bits : b \in Nat
              /\ BehindOutputs(fr) \/ (InPlace(fr) /\ Unspoilt(fr))
  <2>1. sub \in Nat  BY <1>1, <1>10, PartRight
  <2>2. DOMAIN bits = 0 .. 8 * sub - 1  BY <1>2
  <2>3. \A b \in DOMAIN fr.bits : b \in Nat  BY <1>4, <2>1, <2>2
  <2>4. off \in Nat /\ t.data \in Nat /\ d \in Nat  BY <1>3, <1>6, <1>8, <1>9, <1>10
  <2>5. CASE t.cmd = "LRD"
    <3>1. t.data >= r.Obytes  BY <1>1, <1>5, <2>5 DEF ToSend, BehindOutputs
    <3>2. d >= r.Obytes  BY <1>3, <1>8, <2>4, <3>1
    <3>3. BehindOutputs(fr)  BY <1>1, <1>4, <3>2 DEF BehindOutputs
    <3> QED BY <1>4, <2>3, <2>4, <3>3
  <2>6. CASE t.cmd = "LRW" /\ Overlap
    <3>1. off = r.Obytes  BY <1>8, <1>9, <2>6
    <3>2. d >= r.Obytes  BY <1>3, <1>8, <2>4, <3>1
    <3>3. BehindOutputs(fr)  BY <1>1, <1>4, <3>2 DEF BehindOutputs
    <3> QED BY <1>4, <2>3, <2>4, <3>3
  <2>7. CASE t.cmd = "LRW" /\ ~Overlap
    <3>1. InPlace(t)  BY <1>5, <2>7 DEF ToSend
    <3>2. d = t.data  BY <1>3, <1>9, <2>4, <2>7
    <3>3. InPlace(fr)  BY <1>4, <3>1, <3>2 DEF InPlace
    <3>4. ASSUME NEW b \in DOMAIN fr.bits, 8 * fr.data + b \in OutBits(fr.g),
                 8 * fr.data + b \in DOMAIN mem[fr.g]
          PROVE  fr.bits[b] = version
      <4>1. PICK k : k = 8 * t.data + b  OBVIOUS
      <4>2. fr.bits[b] = mem[t.g][k]  BY <1>2, <1>4, <3>4, <4>1
      <4>3. k \in OutBits(t.g) /\ k \in DOMAIN mem[t.g]  BY <1>4, <3>2, <3>4, <4>1
      <4> QED BY <1>6, <4>2, <4>3 DEF Exchanging, Kept
    <3> QED BY <1>4, <2>3, <2>4, <3>3, <3>4 DEF Unspoilt
  <2> QED BY <1>6, <1>10, <2>5, <2>6, <2>7
<1>11. {"g", "cmd", "addr", "data", "bits"} \subseteq DOMAIN fr  OBVIOUS
<1> QED BY <1>4, <1>6, <1>10, <1>11 DEF FrameRight

LEMMA NextPart ==
  ASSUME NEW x, NEW sub,
         x = [cmd |-> x.cmd, g |-> x.g, seg |-> x.seg, left |-> x.left, addr |-> x.addr,
              data |-> x.data]
  PROVE  [x EXCEPT !.seg = @ + 1, !.left = @ - sub, !.addr = @ + sub, !.data = @ + sub]
           = [cmd |-> x.cmd, g |-> x.g, seg |-> x.seg + 1, left |-> x.left - sub,
              addr |-> x.addr + sub, data |-> x.data + sub]
<1>1. PICK c, g, s, l, a, d :
        c = x.cmd /\ g = x.g /\ s = x.seg /\ l = x.left /\ a = x.addr /\ d = x.data
  OBVIOUS
<1>2. x = [cmd |-> c, g |-> g, seg |-> s, left |-> l, addr |-> a, data |-> d]  BY <1>1
<1>3. PICK s1, l1, a1, d1 : s1 = s + 1 /\ l1 = l - sub /\ a1 = a + sub /\ d1 = d + sub
  OBVIOUS
<1>4. PICK x1 : x1 = [x EXCEPT !.seg = s1]  OBVIOUS
<1>5. x1 = [cmd |-> c, g |-> g, seg |-> s1, left |-> l, addr |-> a, data |-> d]
  BY <1>2, <1>4, Zenon
<1>6. PICK x2 : x2 = [x1 EXCEPT !.left = l1]  OBVIOUS
<1>7. x2 = [cmd |-> c, g |-> g, seg |-> s1, left |-> l1, addr |-> a, data |-> d]
  BY <1>5, <1>6, Zenon
<1>8. PICK x3 : x3 = [x2 EXCEPT !.addr = a1]  OBVIOUS
<1>9. x3 = [cmd |-> c, g |-> g, seg |-> s1, left |-> l1, addr |-> a1, data |-> d]
  BY <1>7, <1>8, Zenon
<1>10. PICK x4 : x4 = [x3 EXCEPT !.data = d1]  OBVIOUS
<1>11. x4 = [cmd |-> c, g |-> g, seg |-> s1, left |-> l1, addr |-> a1, data |-> d1]
  BY <1>9, <1>10, Zenon
<1> QED BY <1>1, <1>3, <1>4, <1>6, <1>8, <1>10, <1>11

LEMMA LoopRight ==
  ASSUME MapInv, SegInv, HeadInv, AllMapped, ToSend(tx), NEW sub, sub = SubLength, NEW t,
         t = [cmd |-> tx.cmd, g |-> tx.g, seg |-> tx.seg + 1, left |-> tx.left - sub,
              addr |-> tx.addr + sub, data |-> tx.data + sub]
  PROVE  AfterLoop(t) = Idle \/ ToSend(AfterLoop(t))
<1>1. PICK x, r : x = tx /\ r = group[x.g]  OBVIOUS
<1>2. /\ x.g \in Groups /\ x.cmd \in {"LRD", "LWR", "LRW"} /\ x.seg \in 0 .. MaxIOSegments - 1
      /\ x.cmd # "LWR" => x.data \in Nat
      /\ x.cmd = "LRD" => x.data >= r.Obytes
      /\ x.cmd = "LRW" => Overlap \/ InPlace(x)
  BY <1>1 DEF ToSend, BehindOutputs
<1>3. PICK s, l, a, d : s = x.seg + 1 /\ l = x.left - sub /\ a = x.addr + sub /\ d = x.data + sub
  OBVIOUS
<1>4. /\ t = [cmd |-> t.cmd, g |-> t.g, seg |-> t.seg, left |-> t.left, addr |-> t.addr,
              data |-> t.data]
      /\ t.cmd = x.cmd /\ t.g = x.g /\ t.seg = s /\ t.left = l /\ t.addr = a /\ t.data = d
  BY <1>1, <1>3
<1>5. /\ r \in Records /\ r.nsegments \in 1 .. MaxIOSegments /\ Base(x.g) \in Nat
      /\ MaxIOSegments \in Nat \ {0} /\ Overlap \in BOOLEAN
  BY <1>1, <1>2, MappedGroup
<1>6. r.Obytes \in Nat  BY <1>5 DEF Records
<1>7. CASE t.left # 0 /\ t.seg < group[t.g].nsegments
  <2>1. AfterLoop(t) = t  BY <1>7 DEF AfterLoop
  <2>2. s < r.nsegments  BY <1>1, <1>4, <1>7
  <2>3. s \in 0 .. MaxIOSegments - 1  BY <1>2, <1>3, <1>5, <2>2
  <2>4. x.cmd # "LWR" => sub \in Nat  BY <1>1, PartRight
  <2>5. x.cmd # "LWR" => d \in Nat  BY <1>2, <1>3, <2>4
  <2>6. x.cmd = "LRD" => d >= r.Obytes  BY <1>2, <1>3, <1>6, <2>4
  <2>7. x.cmd = "LRW" => Overlap \/ InPlace(t)
    <3>1. ASSUME x.cmd = "LRW", ~Overlap  PROVE InPlace(t)
      <4>1. PICK b : b = Base(x.g)  OBVIOUS
      <4>2. x.addr = b + x.data  BY <1>2, <3>1, <4>1 DEF InPlace
      <4>3. PICK e \in Nat : e = x.data  BY <1>2, <3>1
      <4>4. sub \in Nat /\ b \in Nat  BY <1>5, <2>4, <3>1, <4>1
      <4>5. a = b + d  BY <1>3, <4>2, <4>3, <4>4
      <4> QED BY <1>4, <3>1, <4>1, <4>5 DEF InPlace
    <3> QED BY <1>5, <3>1
  <2>8. x.cmd = "LRD" => BehindOutputs(t)  BY <1>1, <1>4, <2>6 DEF BehindOutputs
  <2>9. ToSend(t)  BY <1>2, <1>4, <2>3, <2>5, <2>7, <2>8 DEF ToSend
  <2> QED BY <2>1, <2>9
<1>8. CASE ~ (t.left # 0 /\ t.seg < group[t.g].nsegments)
  <2>1. AfterLoop(t) = SendLWR(t.g) \/ AfterLoop(t) = Idle  BY <1>8 DEF AfterLoop
  <2>2. t.g \in Groups  BY <1>2, <1>4
  <2>3. ToSend(SendLWR(t.g))  BY <2>2, StartsRight
  <2> QED BY <2>1, <2>3
<1> QED BY <1>7, <1>8

LEMMA SendKeeps ==
  ASSUME MapInv, SegInv, HeadInv, AllMapped, Exchanging, SendFrame, UNCHANGED mapVars
  PROVE  Exchanging'
<1>1. setup' = setup /\ group' = group  BY DEF mapVars
<1>2. mem' = mem /\ version' = version /\ pulled' = pulled /\ tx # Idle  BY DEF SendFrame
<1>3. /\ SameImage /\ MemRight /\ Kept /\ FramesRight /\ StackRight /\ ToSend(tx) /\ IsSeq(frames)
  BY <1>1, <1>2 DEF SameImage, Exchanging, FramesRight
<1>4. MemRight' /\ Kept'  BY <1>1, <1>2, <1>3, MemStays
<1>5. PICK sub, dc : /\ sub = SubLength
                     /\ dc = (setup.dc /\ \A i \in DOMAIN frames : frames[i].g # tx.g)
  OBVIOUS
<1>6. PICK fr :
        fr = [g |-> tx.g, cmd |-> tx.cmd, addr |-> tx.addr, len |-> sub,
               data |-> tx.data + InputOffset, dc |-> dc,
               bits |-> [b \in 0 .. 8 * sub - 1 |-> mem[tx.g][8 * tx.data + b]],
               wkc |-> 0, at |-> "line"]
  OBVIOUS
<1>7. PICK t : t = [tx EXCEPT !.seg = @ + 1, !.left = @ - sub, !.addr = @ + sub, !.data = @ + sub]
  OBVIOUS
<1>15. t = [cmd |-> tx.cmd, g |-> tx.g, seg |-> tx.seg + 1, left |-> tx.left - sub,
            addr |-> tx.addr + sub, data |-> tx.data + sub]
  <2>1. PICK x : x = tx  OBVIOUS
  <2>2. x = [cmd |-> x.cmd, g |-> x.g, seg |-> x.seg, left |-> x.left, addr |-> x.addr,
             data |-> x.data]
    BY <1>3, <2>1 DEF ToSend
  <2> QED BY <1>7, <2>1, <2>2, NextPart
<1>8. /\ frames' = Append(frames, fr) /\ tx' = AfterLoop(t)
      /\ idxstack' = IF Len(idxstack) < MaxBuf
                     THEN Append(idxstack, Len(frames) + 1) ELSE idxstack
  BY <1>5, <1>6, <1>7 DEF SendFrame
<1>9. FrameRight(fr)  BY <1>3, <1>5, <1>6, NewFrameRight
<1>10. PICK s, n : s = frames /\ n = Len(frames)  OBVIOUS
<1>11. /\ IsSeq(frames') /\ n \in Nat /\ Len(frames') = n + 1
       /\ \A i \in 1 .. n : frames'[i] = s[i]
       /\ frames'[n + 1] = fr
  <2>1. IsSeq(s) /\ n = Len(s)  BY <1>3, <1>10
  <2> QED BY <1>8, <1>10, <2>1, SeqAppend
<1>12. FramesRight'
  <2>1. ASSUME NEW i \in 1 .. n + 1  PROVE FrameRight(frames[i])'
    <3>1. PICK x : x = frames'[i]  OBVIOUS
    <3>2. FrameRight(x)
      <4>1. CASE i = n + 1  BY <1>9, <1>11, <3>1, <4>1
      <4>2. CASE i # n + 1
        <5>1. i \in 1 .. n  BY <1>11, <2>1, <4>2
        <5>2. x = frames[i]  BY <1>10, <1>11, <3>1, <5>1
        <5> QED BY <1>3, <1>10, <5>1, <5>2 DEF FramesRight
      <4> QED BY <4>1, <4>2
    <3>3. FrameRight(x)'  BY <1>3, <1>4, <3>2, FrameStays
    <3> QED BY <3>1, <3>3 DEF FrameRight, BehindOutputs, InPlace, Unspoilt
  <2> QED BY <1>11, <2>1 DEF FramesRight
<1>13. StackRight'
  <2>1. PICK q, m : q = idxstack /\ m = Len(idxstack)  OBVIOUS
  <2>2. IsSeq(q) /\ \A i \in 1 .. m : q[i] \in 1 .. n  BY <1>3, <1>10, <2>1 DEF StackRight
  <2>3. CASE idxstack' = q
    <3>1. \A i \in 1 .. m : q[i] \in 1 .. n + 1  BY <1>11, <2>2
    <3> QED BY <1>2, <1>3, <1>11, <2>1, <2>2, <2>3, <3>1 DEF StackRight
  <2>4. CASE idxstack' = Append(q, n + 1)
    <3>1. /\ IsSeq(idxstack') /\ m \in Nat /\ Len(idxstack') = m + 1
          /\ \A i \in 1 .. m : idxstack'[i] = q[i]
          /\ idxstack'[m + 1] = n + 1
      BY <2>1, <2>2, <2>4, SeqAppend
    <3>2. ASSUME NEW i \in 1 .. m + 1  PROVE idxstack'[i] \in 1 .. n + 1
      <4>1. CASE i = m + 1  BY <1>11, <3>1, <4>1
      <4>2. CASE i # m + 1
        <5>1. i \in 1 .. m  BY <3>1, <3>2, <4>2
        <5> QED BY <1>11, <2>2, <3>1, <5>1
      <4> QED BY <4>1, <4>2
    <3> QED BY <1>2, <1>3, <1>11, <3>1, <3>2 DEF StackRight
  <2> QED BY <1>8, <1>10, <2>1, <2>3, <2>4
<1>14. (tx = Idle \/ ToSend(tx))'
  <2>1. PICK x : x = tx'  OBVIOUS
  <2>2. x = Idle \/ ToSend(x)  BY <1>3, <1>5, <1>8, <1>15, <2>1, LoopRight
  <2>3. x = Idle \/ ToSend(x)'  BY <1>3, <2>2, ToSendStays
  <2> QED BY <2>1, <2>3 DEF Idle, ToSend, BehindOutputs, InPlace
<1> QED BY <1>4, <1>12, <1>13, <1>14 DEF Exchanging

\* The slaves put no input where the outputs are.
LEMMA FilledRight ==
  ASSUME MapInv, AllMapped, NEW fr, FrameRight(fr), fr.cmd # "LWR", InPlace(fr),
         NEW f \in ReadBy(fr), NEW b \in FrameBits(fr, f)
  PROVE  8 * fr.data + b \notin OutBits(fr.g)
<1>1. f \in fmmu /\ f.group = fr.g /\ f.dir = "in"  BY DEF ReadBy, Hits
<1>2. MapTypes /\ ~Running /\ fr.g \in Groups  BY DEF MapInv, AllMapped, Running, FrameRight
<1>3. f.start \in Nat /\ f.startbit \in 0 .. 7 /\ f.len \in Nat /\ f.endbit \in 0 .. 7
  BY <1>1, <1>2, FmmuFields
<1>4. PICK r, base : r = group[fr.g] /\ base = Base(fr.g)  OBVIOUS
<1>5. r \in Records /\ base \in Nat  BY <1>2, <1>4, SetupFacts DEF MapTypes
<1>6. r.Obytes \in Nat /\ fr.data \in Nat  BY <1>5 DEF Records, FrameRight
<1>7. FmmuRight(f)  BY <1>1 DEF MapInv
<1>8. Inside(f)  BY <1>2, <1>7 DEF FmmuRight
<1>9. base + r.Obytes <= f.start
  BY <1>1, <1>4, <1>8 DEF Inside, FirstInput, InPlace
<1>10. fr.addr = base + fr.data  BY <1>4 DEF InPlace
<1>11. PICK c \in BitsOf(f) : b = c - 8 * fr.addr  BY DEF FrameBits
<1>12. PICK st, sb, d, a : st = f.start /\ sb = f.startbit /\ d = fr.data /\ a = fr.addr
  OBVIOUS
<1>13. c \in Nat /\ 8 * st + sb <= c
  <2>1. PICK lo, hi : lo = 8 * f.start + f.startbit /\ hi = 8 * (f.start + f.len - 1) + f.endbit
    OBVIOUS
  <2>2. lo \in Nat /\ hi \in Int  BY <1>3, <2>1
  <2>3. c \in lo .. hi  BY <2>1 DEF BitsOf
  <2> QED BY <1>12, <2>1, <2>2, <2>3
<1>14. st \in Nat /\ sb \in Nat /\ d \in Nat /\ a \in Nat /\ a = base + d
  BY <1>3, <1>5, <1>6, <1>10, <1>12
<1>15. 8 * (base + r.Obytes) <= c  BY <1>5, <1>6, <1>9, <1>12, <1>13, <1>14
<1>16. 8 * d + b = c - 8 * base  BY <1>5, <1>11, <1>12, <1>13, <1>14
<1>17. 8 * d + b >= 8 * r.Obytes  BY <1>5, <1>6, <1>13, <1>15, <1>16
<1> QED BY <1>4, <1>6, <1>12, <1>13, <1>16, <1>17 DEF OutBits

LEMMA CrossKeeps ==
  ASSUME MapInv, AllMapped, Exchanging, NEW R, NEW back, Cross(R, back), UNCHANGED mapVars
  PROVE  Exchanging'
<1>1. setup' = setup /\ group' = group  BY DEF mapVars
<1>2. /\ mem' = mem /\ version' = version /\ tx' = tx /\ idxstack' = idxstack
      /\ pulled' = pulled
  BY DEF Cross
<1>3. /\ SameImage /\ MemRight /\ Kept /\ FramesRight /\ StackRight /\ (tx = Idle \/ ToSend(tx))
      /\ IsSeq(frames)
  BY <1>1, <1>2 DEF SameImage, Exchanging, FramesRight
<1>4. MemRight' /\ Kept'  BY <1>1, <1>2, <1>3, MemStays
<1>5. PICK i \in DOMAIN frames :
        LET fr == frames[i]
            filled == UNION {FrameBits(fr, f) : f \in {h \in ReadBy(fr) : h.slave \in R}}
        IN  frames' = [frames EXCEPT ![i] = [@ EXCEPT
             !.at = IF back THEN "back" ELSE "lost",
             !.wkc = WkcOf(fr, R),
             !.bits = [b \in DOMAIN fr.bits |->
                         IF b \in filled THEN cycle ELSE fr.bits[b]]]]
  BY DEF Cross
<1>6. PICK fr, filled : fr = frames[i] /\
        filled = UNION {FrameBits(fr, f) : f \in {h \in ReadBy(fr) : h.slave \in R}}
  OBVIOUS
<1>7. PICK at, wkc, bits : /\ at = (IF back THEN "back" ELSE "lost") /\ wkc = WkcOf(fr, R)
                           /\ bits = [b \in DOMAIN fr.bits |->
                                        IF b \in filled THEN cycle ELSE fr.bits[b]]
  OBVIOUS
<1>8. PICK new : new = [[[fr EXCEPT !.at = at] EXCEPT !.wkc = wkc] EXCEPT !.bits = bits]
  OBVIOUS
<1>9. frames' = [frames EXCEPT ![i] = new]  BY <1>5, <1>6, <1>7, <1>8
<1>10. PICK s, n : s = frames /\ n = Len(frames)  OBVIOUS
<1>11. i \in 1 .. n
  <2>1. PICK S : frames \in Seq(S)  BY <1>3 DEF IsSeq
  <2> QED BY <1>10, <2>1
<1>12. FrameRight(fr)  BY <1>3, <1>6, <1>10, <1>11 DEF FramesRight
<1>13. FrameRight(new)
  <2>1. {"g", "cmd", "addr", "data", "bits"} \subseteq DOMAIN fr  BY <1>12 DEF FrameRight
  <2>2. /\ new.g = fr.g /\ new.cmd = fr.cmd /\ new.addr = fr.addr /\ new.data = fr.data
        /\ new.bits = bits /\ DOMAIN new = DOMAIN fr /\ DOMAIN bits = DOMAIN fr.bits
    BY <1>7, <1>8, <2>1
  <2>3. BehindOutputs(fr) => BehindOutputs(new)  BY <2>2 DEF BehindOutputs
  <2>4. ASSUME fr.cmd # "LWR", InPlace(fr), Unspoilt(fr)
        PROVE  InPlace(new) /\ Unspoilt(new)
    <3>1. InPlace(new)  BY <2>2, <2>4 DEF InPlace
    <3>2. ASSUME NEW b \in DOMAIN new.bits, 8 * new.data + b \in OutBits(new.g),
                 8 * new.data + b \in DOMAIN mem[new.g]
          PROVE  new.bits[b] = version
      <4>1. b \in DOMAIN fr.bits /\ 8 * fr.data + b \in OutBits(fr.g)
            /\ 8 * fr.data + b \in DOMAIN mem[fr.g]
        BY <2>2, <3>2
      <4>2. b \notin filled  BY <1>6, <1>12, <2>4, <4>1, FilledRight
      <4>3. bits[b] = fr.bits[b]  BY <1>7, <4>1, <4>2
      <4> QED BY <2>2, <2>4, <4>1, <4>3 DEF Unspoilt
    <3> QED BY <3>1, <3>2 DEF Unspoilt
  <2> QED BY <1>12, <2>2, <2>3, <2>4 DEF FrameRight
<1>14. /\ IsSeq(frames') /\ Len(frames') = n /\ frames'[i] = new
       /\ \A j \in 1 .. n : j # i => frames'[j] = s[j]
  <2>1. PICK z : z = frames'  OBVIOUS
  <2>2. z = [s EXCEPT ![i] = new]  BY <1>9, <1>10, <2>1
  <2>3. IsSeq(s)  BY <1>3, <1>10
  <2>4. i \in 1 .. Len(s)  BY <1>10, <1>11
  <2>5. Replaced([s EXCEPT ![i] = new], s, i, new)  BY <2>3, <2>4, SeqExcept
  <2>6. Replaced(z, s, i, new)  BY <2>2, <2>5
  <2> QED BY <1>10, <2>1, <2>6 DEF Replaced
<1>15. FramesRight'
  <2>1. ASSUME NEW j \in 1 .. n  PROVE FrameRight(frames[j])'
    <3>1. PICK x : x = frames'[j]  OBVIOUS
    <3>2. FrameRight(x)
      <4>1. CASE j = i  BY <1>13, <1>14, <3>1, <4>1
      <4>2. CASE j # i
        <5>1. x = frames[j]  BY <1>10, <1>14, <2>1, <3>1, <4>2
        <5> QED BY <1>3, <1>10, <2>1, <5>1 DEF FramesRight
      <4> QED BY <4>1, <4>2
    <3>3. FrameRight(x)'  BY <1>3, <1>4, <3>2, FrameStays
    <3> QED BY <3>1, <3>3 DEF FrameRight, BehindOutputs, InPlace, Unspoilt
  <2> QED BY <1>14, <2>1 DEF FramesRight
<1>16. StackRight'  BY <1>2, <1>3, <1>10, <1>14 DEF StackRight
<1>17. (tx = Idle \/ ToSend(tx))'  BY <1>2, <1>3, TxStays
<1> QED BY <1>4, <1>15, <1>16, <1>17 DEF Exchanging

LEMMA AnswerKeeps ==
  ASSUME MapInv, AllMapped, Exchanging, PullAnswer, UNCHANGED mapVars
  PROVE  Exchanging'
<1>1. setup' = setup /\ group' = group  BY DEF mapVars
<1>2. /\ version' = version /\ tx' = tx /\ idxstack' = idxstack /\ frames' = frames
      /\ pulled' = pulled + 1 /\ pulled < Len(idxstack)
  BY DEF PullAnswer
<1>3. /\ SameImage /\ MemRight /\ Kept /\ FramesRight /\ StackRight /\ (tx = Idle \/ ToSend(tx))
  BY <1>1, <1>2 DEF SameImage, Exchanging
<1>4. PICK fr : fr = Pulled  OBVIOUS
<1>5. FrameRight(fr)
  <2>1. PICK j : j = idxstack[pulled + 1]  OBVIOUS
  <2>2. Len(idxstack) \in Nat
    <3>1. PICK S : idxstack \in Seq(S)  BY <1>3 DEF StackRight, IsSeq
    <3> QED BY <3>1
  <2>3. pulled + 1 \in 1 .. Len(idxstack)  BY <1>2, <1>3, <2>2 DEF StackRight
  <2>4. j \in 1 .. Len(frames)  BY <1>3, <2>1, <2>3 DEF StackRight
  <2>5. fr = frames[j]  BY <1>4, <2>1 DEF Pulled
  <2> QED BY <1>3, <2>4, <2>5 DEF FramesRight
<1>6. fr.g \in Groups  BY <1>5 DEF FrameRight
<1>7. MemRight' /\ Kept'
  <2>1. CASE fr.cmd = "LWR"
    <3>1. mem' = mem  BY <1>4, <2>1 DEF PullAnswer, CopyBack
    <3> QED BY <1>1, <1>2, <1>3, <3>1, MemStays
  <2>2. CASE fr.cmd # "LWR"
    <3>1. mem' = [mem EXCEPT ![fr.g] = [b \in DOMAIN mem[fr.g] |->
                    IF b - 8 * fr.data \in DOMAIN fr.bits
                    THEN fr.bits[b - 8 * fr.data] ELSE mem[fr.g][b]]]
      BY <1>4, <2>2 DEF PullAnswer, CopyBack
    <3>2. PICK m : m = [b \in DOMAIN mem[fr.g] |->
                    IF b - 8 * fr.data \in DOMAIN fr.bits
                    THEN fr.bits[b - 8 * fr.data] ELSE mem[fr.g][b]]
      OBVIOUS
    <3>3. Groups' = Groups /\ MemBits' = MemBits /\ \A g \in Groups : OutBits(g)' = OutBits(g)
      BY <1>1 DEF Groups, MemBits, OutBits
    <3>4. DOMAIN mem = Groups /\ \A g \in Groups : DOMAIN mem[g] = 0 .. MemBits - 1
      BY <1>3 DEF MemRight
    <3>5. /\ DOMAIN mem' = Groups /\ mem'[fr.g] = m
          /\ \A g \in Groups : g # fr.g => mem'[g] = mem[g]
      BY <1>6, <3>1, <3>2, <3>4
    <3>6. DOMAIN m = DOMAIN mem[fr.g]  BY <3>2
    <3>7. MemRight'  BY <3>3, <3>4, <3>5, <3>6 DEF MemRight
    <3>8. ASSUME NEW g \in Groups, NEW b \in OutBits(g), b \in DOMAIN mem'[g]
          PROVE  mem'[g][b] = version
      <4>1. CASE g # fr.g  BY <1>3, <3>5, <3>8, <4>1 DEF Kept
      <4>2. CASE g = fr.g
        <5>1. b \in DOMAIN mem[g] /\ mem'[g][b] = m[b]  BY <3>5, <3>6, <3>8, <4>2
        <5>2. mem[g][b] = version  BY <1>3, <5>1 DEF Kept
        <5>3. PICK k : k = b - 8 * fr.data  OBVIOUS
        <5>4. CASE k \notin DOMAIN fr.bits  BY <3>2, <4>2, <5>1, <5>2, <5>3, <5>4
        <5>5. CASE k \in DOMAIN fr.bits
          <6>1. m[b] = fr.bits[k]  BY <3>2, <4>2, <5>1, <5>3, <5>5
          <6>2. fr.data \in Nat /\ k \in Nat  BY <1>5, <2>2, <5>5 DEF FrameRight
          <6>3. PICK r : r = group[g]  OBVIOUS
          <6>4. MapTypes /\ r \in Records  BY <6>3 DEF MapInv, MapTypes
          <6>5. r.Obytes \in Nat  BY <6>4 DEF Records
          <6>6. b \in 0 .. 8 * r.Obytes - 1  BY <6>3 DEF OutBits
          <6>7. b = 8 * fr.data + k  BY <5>3, <6>2, <6>5, <6>6
          <6>8. ~BehindOutputs(fr)
            <7>1. fr.data < r.Obytes  BY <6>2, <6>5, <6>6, <6>7
            <7> QED BY <4>2, <6>2, <6>3, <6>5, <7>1 DEF BehindOutputs
          <6>9. Unspoilt(fr)  BY <1>5, <2>2, <6>8 DEF FrameRight
          <6>10. fr.bits[k] = version  BY <4>2, <5>1, <5>5, <6>7, <6>9 DEF Unspoilt
          <6> QED BY <5>1, <6>1, <6>10
        <5> QED BY <5>4, <5>5
      <4> QED BY <4>1, <4>2
    <3>9. Kept'  BY <1>2, <3>3, <3>8 DEF Kept
    <3> QED BY <3>7, <3>9
  <2> QED BY <2>1, <2>2
<1>8. FramesRight'  BY <1>2, <1>3, <1>7, FramesStay
<1>9. StackRight'  BY <1>2, <1>3 DEF StackRight
<1>10. (tx = Idle \/ ToSend(tx))'  BY <1>2, <1>3, TxStays
<1> QED BY <1>7, <1>8, <1>9, <1>10 DEF Exchanging

\* The application's IOmap has at least the outputs of each group.
IOmapHolds == cycle > 0 => \A g \in Groups : group[g].Obytes <= setup.iomap

LEMMA KeptStart ==
  ASSUME InitProcess
  PROVE  SegInv /\ HeadInv /\ KeptInv
<1>1. MapInit /\ Pristine
  BY DEF InitProcess, Pristine
<1>2. SegInv  BY <1>1, SegStart
<1>3. HeadInv
  <2>1. group = [g \in Groups |-> Unmapped]  BY <1>1 DEF MapInit
  <2>2. Unmapped.mapped = FALSE /\ Unmapped.outputs = 0  BY DEF Unmapped
  <2>3. HeadRight(Unmapped)  BY <2>2 DEF HeadRight
  <2> QED BY <2>1, <2>3 DEF HeadInv
<1> QED BY <1>1, <1>2, <1>3 DEF KeptInv

LEMMA KeptStepKeeps ==
  ASSUME MapInv, SegInv, HeadInv, KeptInv, WriteInFlight = FALSE,
         [NextProcess]_<<mapVars, pvars>>
  PROVE  KeptInv'
<1>1. CASE MapStep /\ UNCHANGED pvars
  <2>1. setup' = setup
    BY <1>1 DEF MapStep, StartMap, MapOutput, SkipOutput, EndOutputs, MapInput, SkipInput,
                EndInputs, MapBoth, SkipBoth, EndBoth
  <2>2. ~AllMapped
    <3>1. CASE \E g \in Groups : StartMap(g)  BY <3>1 DEF AllMapped, StartMap
    <3>2. CASE ~ \E g \in Groups : StartMap(g)
      BY <1>1, <3>2 DEF AllMapped, MapStep, MapOutput, SkipOutput, EndOutputs, MapInput,
                        SkipInput, EndInputs, MapBoth, SkipBoth, EndBoth
    <3> QED BY <3>1, <3>2
  <2>3. Pristine'  BY <1>1, <2>1, <2>2, PristineStays DEF KeptInv
  <2> QED BY <2>3 DEF KeptInv
<1>2. CASE AllMapped /\ Exchange /\ UNCHANGED mapVars
  <2>1. AllMapped' = AllMapped  BY <1>2 DEF AllMapped, mapVars, Groups
  <2>2. Exchanging  BY PristineExchanges DEF KeptInv
  <2>3. Exchanging'
    <3>1. CASE WriteOutputs  BY <1>2, <2>2, <3>1, WriteKeeps
    <3>2. CASE \E g \in Groups : StartSend(g)  BY <1>2, <2>2, <3>2, StartKeeps
    <3>3. CASE \E g \in Groups : StartReceive(g)  BY <1>2, <2>2, <3>3, ReceiveKeeps
    <3>4. CASE SendFrame  BY <1>2, <2>2, <3>4, SendKeeps
    <3>5. CASE \E R \in SUBSET Slaves, back \in BOOLEAN : Cross(R, back)
      BY <1>2, <2>2, <3>5, CrossKeeps
    <3>6. CASE PullAnswer  BY <1>2, <2>2, <3>6, AnswerKeeps
    <3>7. CASE PullNothing \/ EndReceive  BY <1>2, <2>2, <3>7, NothingKeeps
    <3> QED BY <1>2, <3>1, <3>2, <3>3, <3>4, <3>5, <3>6, <3>7 DEF Exchange
  <2> QED BY <1>2, <2>1, <2>3 DEF KeptInv
<1>3. CASE UNCHANGED <<mapVars, pvars>>
  <2>1. setup' = setup /\ group' = group /\ phase' = phase /\ UNCHANGED pvars
    BY <1>3 DEF mapVars
  <2>2. AllMapped' = AllMapped  BY <2>1 DEF AllMapped, Groups
  <2>3. Pristine => Pristine'  BY <2>1, PristineStays
  <2>4. Exchanging => Exchanging'  BY <2>1, SameExchange
  <2> QED BY <2>2, <2>3, <2>4 DEF KeptInv
<1> QED BY <1>1, <1>2, <1>3 DEF NextProcess

\* The output part of the IOmap holds what the application wrote last, in every step
\* of a cycle, whatever frames are lost and whichever slaves answer: where the
\* slaves' data fits in a frame, the segments suffice, the IOmap is as large as
\* the outputs and the application does not write while frames are in flight.
THEOREM OutputsKeptAlways ==
  ASSUME FrameHolds, WriteInFlight = FALSE, \A u \in Setups : u.iomap \in Nat
  PROVE  ProcessSpec /\ []ImageFits /\ []SegmentsLeft /\ []IOmapHolds => []OutputsKept
<1>1. InitProcess => SegInv /\ HeadInv /\ KeptInv  BY KeptStart
<1>2. MapInv /\ SegInv /\ HeadInv /\ KeptInv /\ SegmentsLeft
      /\ [NextProcess]_<<mapVars, pvars>>
      => SegInv' /\ HeadInv' /\ KeptInv'
  <2> SUFFICES ASSUME MapInv, SegInv, HeadInv, KeptInv, SegmentsLeft,
                      [NextProcess]_<<mapVars, pvars>>
               PROVE  SegInv' /\ HeadInv' /\ KeptInv'
    OBVIOUS
  <2>1. KeptInv'  BY KeptStepKeeps
  <2>2. CASE MapStep  BY <2>1, <2>2, SegStepKeeps, HeadStepKeeps
  <2>3. CASE UNCHANGED mapVars
    <3>1. setup' = setup /\ group' = group  BY <2>3 DEF mapVars
    <3> QED BY <2>1, <2>3, <3>1, SegStutters, HeadStays
  <2> QED BY <2>2, <2>3 DEF NextProcess
<1>3. MapInv /\ KeptInv /\ IOmapHolds => OutputsKept
  <2> SUFFICES ASSUME MapInv, KeptInv, IOmapHolds, cycle > 0,
                      NEW g \in Groups, NEW b \in OutBits(g)
               PROVE  mem[g][b] = version
    BY DEF OutputsKept
  <2>1. MemRight /\ Kept  BY PristineExchanges DEF KeptInv, Exchanging
  <2>2. PICK r, n : r = group[g] /\ n = setup.iomap  OBVIOUS
  <2>3. r \in Records /\ n \in Nat /\ r.Obytes <= n
    BY <2>2 DEF MapInv, MapTypes, IOmapHolds
  <2>4. r.Obytes \in Nat  BY <2>3 DEF Records
  <2>5. b \in 0 .. 8 * r.Obytes - 1  BY <2>2 DEF OutBits
  <2>6. b \in 0 .. 8 * n - 1  BY <2>3, <2>4, <2>5
  <2>7. b \in DOMAIN mem[g]  BY <2>1, <2>2, <2>6 DEF MemRight, MemBits
  <2> QED BY <2>1, <2>7 DEF Kept
<1> QED BY <1>1, <1>2, <1>3, MapInvAlways, PTL DEF ProcessSpec

-----------------------------------------------------------------------------
(* The work counter.                                                        *)

\* The FMMUs of a group; the mapping counts them.
Ins(g) == {f \in fmmu : f.group = g /\ f.dir = "in"}
Outs(g) == {f \in fmmu : f.group = g /\ f.dir = "out"}
Few(S, n) == IsFiniteSet(S) /\ Cardinality(S) <= n
CountInv ==
  \A g \in Groups : Few(Ins(g), group[g].inputsWKC) /\ Few(Outs(g), group[g].outputsWKC)

LEMMA FewOrNone ==
  ASSUME NEW n \in Nat  PROVE Few({}, n)
BY FS_EmptySet DEF Few

LEMMA FewMore ==
  ASSUME NEW S, NEW T, NEW n \in Nat, NEW k \in Nat, Few(S, n), Few(T, k)
  PROVE  Few(S \cup T, n + k)
<1>1. /\ IsFiniteSet(S) /\ IsFiniteSet(T) /\ Cardinality(S) \in Nat /\ Cardinality(T) \in Nat
      /\ Cardinality(S) <= n /\ Cardinality(T) <= k
  BY FS_CardinalityType DEF Few
<1>2. IsFiniteSet(S \cap T)
  <2>1. S \cap T \in SUBSET S  OBVIOUS
  <2> QED BY <1>1, <2>1, FS_Subset
<1>3. Cardinality(S \cap T) \in Nat  BY <1>2, FS_CardinalityType
<1>4. IsFiniteSet(S \cup T)
      /\ Cardinality(S \cup T) = Cardinality(S) + Cardinality(T) - Cardinality(S \cap T)
  BY <1>1, FS_Union
<1>5. PICK a, b, c, d : /\ a = Cardinality(S) /\ b = Cardinality(T)
                        /\ c = Cardinality(S \cap T) /\ d = Cardinality(S \cup T)
  OBVIOUS
<1>6. d <= n + k  BY <1>1, <1>3, <1>4, <1>5
<1> QED BY <1>4, <1>5, <1>6 DEF Few

\* No more elements than a function onto the set has arguments.
LEMMA FewImages ==
  ASSUME NEW S, IsFiniteSet(S), NEW T, NEW f, f \in [S -> T], \A y \in T : \E x \in S : f[x] = y
  PROVE  IsFiniteSet(T) /\ Cardinality(T) <= Cardinality(S)
<1>1. f \in Surjection(S, T)  BY DEF Surjection
<1> QED BY <1>1, FS_Surjection

\* As many FMMUs as the list has entries.
LEMMA FewProgrammed ==
  ASSUME NEW dir, NEW list, list \in Seq(Placed), NEW n, n = Len(list)
  PROVE  n \in Nat /\ Few(Programmed(dir, list), n)
<1> DEFINE P(i) == [slave |-> slave, group |-> cur, dir |-> dir, phys |-> list[i].phys,
                    start |-> list[i].start, startbit |-> list[i].startbit,
                    len |-> list[i].len, endbit |-> list[i].endbit]
<1>1. n \in Nat /\ DOMAIN list = 1 .. n  OBVIOUS
<1>2. PICK T : T = Programmed(dir, list)  OBVIOUS
<1>3. T = {P(i) : i \in 1 .. n}  BY <1>1, <1>2 DEF Programmed
<1>4. PICK p : p = [i \in 1 .. n |-> P(i)]  OBVIOUS
<1> HIDE DEF P
<1>5. p \in [1 .. n -> T] /\ \A y \in T : \E i \in 1 .. n : p[i] = y  BY <1>3, <1>4
<1>6. PICK S : S = 1 .. n  OBVIOUS
<1>7. IsFiniteSet(S) /\ Cardinality(S) = n
  <2>1. PICK a, b : a = 1 /\ b = n  OBVIOUS
  <2>2. a \in Int /\ b \in Int  BY <1>1, <2>1
  <2>3. IsFiniteSet(a .. b) /\ Cardinality(a .. b) = IF a > b THEN 0 ELSE b - a + 1
    BY <2>2, FS_Interval
  <2>4. (IF a > b THEN 0 ELSE b - a + 1) = n  BY <1>1, <2>1
  <2> QED BY <1>6, <2>1, <2>3, <2>4
<1>8. p \in [S -> T] /\ \A y \in T : \E i \in S : p[i] = y  BY <1>5, <1>6
<1>9. IsFiniteSet(T) /\ Cardinality(T) <= Cardinality(S)  BY <1>7, <1>8, FewImages
<1> QED BY <1>1, <1>2, <1>7, <1>9 DEF Few

\* What the lists of a slave add to its group.
Adds(mo, mi) ==
  /\ fmmu' = fmmu \cup Programmed("out", mo) \cup Programmed("in", mi)
  /\ \E blocked \in Nat :
       group' = [group EXCEPT ![cur] = Counted(group[cur], Len(mo), Len(mi), blocked)]

LEMMA CountedWkc ==
  ASSUME NEW r \in Records, NEW a \in Nat, NEW b \in Nat, NEW c \in Nat, NEW q,
         q = Counted(r, a, b, c)
  PROVE  q.outputsWKC = r.outputsWKC + a /\ q.inputsWKC = r.inputsWKC + b
<1>1. PICK x, y, z : x = r.outputsWKC + a /\ y = r.inputsWKC + b /\ z = r.blockLRW + c
  OBVIOUS
<1>2. {"outputsWKC", "inputsWKC", "blockLRW"} \subseteq DOMAIN r  BY DEF Records
<1>3. q = [[[r EXCEPT !.outputsWKC = x] EXCEPT !.inputsWKC = y] EXCEPT !.blockLRW = z]
  BY <1>1 DEF Counted
<1> QED BY <1>1, <1>2, <1>3

LEMMA CountAdds ==
  ASSUME MapInv, CountInv, Running, setup' = setup,
         NEW mo, NEW mi, mo \in Seq(Placed), mi \in Seq(Placed), Adds(mo, mi)
  PROVE  CountInv'
<1>1. MapTypes /\ cur \in Groups  BY DEF MapInv, PassRight
<1>2. PICK blocked \in Nat :
        group' = [group EXCEPT ![cur] = Counted(group[cur], Len(mo), Len(mi), blocked)]
  BY DEF Adds
<1>3. PICK a, b : a = Len(mo) /\ b = Len(mi)  OBVIOUS
<1>4. PICK po, pi : po = Programmed("out", mo) /\ pi = Programmed("in", mi)  OBVIOUS
<1>5. a \in Nat /\ Few(po, a)  BY <1>3, <1>4, FewProgrammed
<1>6. b \in Nat /\ Few(pi, b)  BY <1>3, <1>4, FewProgrammed
<1>7. fmmu' = fmmu \cup po \cup pi  BY <1>4 DEF Adds
<1>8. \A p \in po : p.group = cur /\ p.dir = "out"  BY <1>4 DEF Programmed
<1>9. \A p \in pi : p.group = cur /\ p.dir = "in"  BY <1>4 DEF Programmed
<1>10. PICK r, q : r = group[cur] /\ q = Counted(r, a, b, blocked)  OBVIOUS
<1>11. r \in Records /\ group \in [Groups -> Records]  BY <1>1, <1>10 DEF MapTypes
<1>12. group' = [group EXCEPT ![cur] = q]  BY <1>2, <1>3, <1>10
<1>13. q.outputsWKC = r.outputsWKC + a /\ q.inputsWKC = r.inputsWKC + b
  BY <1>5, <1>6, <1>10, <1>11, CountedWkc
<1>14. ASSUME NEW g \in Groups
       PROVE  Few(Ins(g)', group'[g].inputsWKC) /\ Few(Outs(g)', group'[g].outputsWKC)
  <2>1. Few(Ins(g), group[g].inputsWKC) /\ Few(Outs(g), group[g].outputsWKC)  BY DEF CountInv
  <2>2. CASE g = cur
    <3>1. group'[g] = q /\ group[g] = r  BY <1>10, <1>11, <1>12, <2>2
    <3>2. PICK no, ni : no = r.outputsWKC /\ ni = r.inputsWKC  OBVIOUS
    <3>3. no \in Nat /\ ni \in Nat  BY <1>11, <3>2 DEF Records
    <3>4. Few(Ins(g) \cup pi, ni + b) /\ Few(Outs(g) \cup po, no + a)
      BY <1>5, <1>6, <2>1, <3>1, <3>2, <3>3, FewMore
    <3>5. Ins(g)' = Ins(g) \cup pi /\ Outs(g)' = Outs(g) \cup po
      BY <1>7, <1>8, <1>9, <2>2 DEF Ins, Outs
    <3> QED BY <1>13, <3>1, <3>2, <3>4, <3>5
  <2>3. CASE g # cur
    <3>1. group'[g] = group[g]  BY <1>11, <1>12, <2>3
    <3>2. Ins(g)' = Ins(g) /\ Outs(g)' = Outs(g)
      BY <1>7, <1>8, <1>9, <2>3 DEF Ins, Outs
    <3> QED BY <2>1, <3>1, <3>2
  <2> QED BY <2>2, <2>3
<1>15. Groups' = Groups  BY DEF Groups
<1> QED BY <1>14, <1>15 DEF CountInv, Few

LEMMA CountStays ==
  ASSUME CountInv, fmmu' = fmmu, setup' = setup,
         \A g \in Groups : /\ group'[g].outputsWKC = group[g].outputsWKC
                            /\ group'[g].inputsWKC = group[g].inputsWKC
  PROVE  CountInv'
<1>1. Groups' = Groups  BY DEF Groups
<1>2. \A g : Ins(g)' = Ins(g) /\ Outs(g)' = Outs(g)  BY DEF Ins, Outs
<1> QED BY <1>1, <1>2 DEF CountInv, Few

\* The counters are the numbers of FMMUs, for a slave's bits are in one each.
LEMMA NoneProgrammed ==
  << >> \in Seq(Placed) /\ Len(<< >>) = 0 /\ \A dir : Programmed(dir, << >>) = {}
<1>1. << >> \in Seq(Placed) /\ Len(<< >>) = 0 /\ DOMAIN << >> = {}  OBVIOUS
<1> QED BY <1>1 DEF Programmed

LEMMA SideList ==
  ASSUME LogAddr \in Nat, NEW has \in BOOLEAN, NEW l, has => IsLayout(l) /\ l.bits > 0,
         NEW m, m = Side(has, l)
  PROVE  m.list \in Seq(Placed)
<1>1. CASE has
  <2>1. PICK bit \in 0 .. 7 : bit = 0  OBVIOUS
  <2>2. m = Fmmus(l, LogAddr, bit)  BY <1>1, <2>1 DEF Side
  <2>3. Laid(m, LogAddr, bit)  BY <1>1, <2>2, FmmusLaid
  <2> QED BY <2>3 DEF Laid
<1>2. CASE ~has
  <2>1. m.list = << >>  BY <1>2 DEF Side
  <2> QED BY <2>1
<1> QED BY <1>1, <1>2

LEMMA SlaveCounts ==
  ASSUME MapInv, CountInv, MapOutput \/ MapInput \/ SkipInput \/ MapBoth
  PROVE  CountInv'
<1>1. MapTypes /\ cur \in Groups /\ slave <= slavecount /\ Running
  BY DEF MapInv, PassRight, Running, MapOutput, MapInput, SkipInput, MapBoth
<1>2. slave \in Slaves  BY <1>1, SlaveOfPass
<1>3. LogAddr \in Nat /\ BitPos \in 0 .. 7  BY <1>1 DEF MapTypes
<1>4. Blocked(slave) \in Nat /\ 0 \in Nat  BY DEF Blocked
<1>5. setup' = setup  BY DEF MapOutput, MapInput, SkipInput, MapBoth
<1>6. PICK none : none = << >>  OBVIOUS
<1>7. none \in Seq(Placed) /\ Len(none) = 0 /\ \A dir : Programmed(dir, none) = {}
  BY <1>6, NoneProgrammed
<1>8. CASE MapOutput
  <2>1. PICK m : m = Fmmus(out[slave], LogAddr, BitPos)  OBVIOUS
  <2>2. Laid(m, LogAddr, BitPos)
    <3>1. HasOut(slave)  BY <1>8 DEF MapOutput
    <3>2. IsLayout(out[slave]) /\ out[slave].bits > 0
      BY <1>1, <1>2, <3>1, SetupFacts DEF HasOut
    <3> QED BY <1>3, <2>1, <3>2, FmmusLaid
  <2>3. PICK list : list = m.list  OBVIOUS
  <2>4. list \in Seq(Placed)  BY <2>2, <2>3 DEF Laid
  <2>5. group' = [group EXCEPT ![cur] = Counted(group[cur], Len(list), Len(none), 0)]
    BY <1>7, <1>8, <2>1, <2>3 DEF MapOutput
  <2>6. fmmu' = fmmu \cup Programmed("out", list) \cup Programmed("in", none)
    BY <1>7, <1>8, <2>1, <2>3 DEF MapOutput, Program
  <2>7. Adds(list, none)  BY <1>4, <2>5, <2>6 DEF Adds
  <2> QED BY <1>1, <1>5, <1>7, <2>4, <2>7, CountAdds
<1>9. CASE MapInput
  <2>1. PICK m : m = Fmmus(in[slave], LogAddr, BitPos)  OBVIOUS
  <2>2. Laid(m, LogAddr, BitPos)
    <3>1. HasIn(slave)  BY <1>9 DEF MapInput
    <3>2. IsLayout(in[slave]) /\ in[slave].bits > 0
      BY <1>1, <1>2, <3>1, SetupFacts DEF HasIn
    <3> QED BY <1>3, <2>1, <3>2, FmmusLaid
  <2>3. PICK list, c : list = m.list /\ c = Blocked(slave)  OBVIOUS
  <2>4. list \in Seq(Placed) /\ c \in Nat  BY <1>4, <2>2, <2>3 DEF Laid
  <2>5. group' = [group EXCEPT ![cur] = Counted(group[cur], Len(none), Len(list), c)]
    BY <1>7, <1>9, <2>1, <2>3 DEF MapInput
  <2>6. fmmu' = fmmu \cup Programmed("out", none) \cup Programmed("in", list)
    BY <1>7, <1>9, <2>1, <2>3 DEF MapInput, Program
  <2>7. Adds(none, list)  BY <2>4, <2>5, <2>6 DEF Adds
  <2> QED BY <1>1, <1>5, <1>7, <2>4, <2>7, CountAdds
<1>10. CASE SkipInput
  <2>1. PICK c : c = IF InGroup(slave, cur) THEN Blocked(slave) ELSE 0  OBVIOUS
  <2>2. c \in Nat  BY <1>4, <2>1
  <2>3. group' = [group EXCEPT ![cur] = Counted(group[cur], Len(none), Len(none), c)]
    BY <1>7, <1>10, <2>1 DEF SkipInput
  <2>4. fmmu' = fmmu \cup Programmed("out", none) \cup Programmed("in", none)
    BY <1>7, <1>10 DEF SkipInput
  <2>5. Adds(none, none)  BY <2>2, <2>3, <2>4 DEF Adds
  <2> QED BY <1>1, <1>5, <1>7, <2>5, CountAdds
<1>11. CASE MapBoth
  <2>1. PICK ho, hi, lo, li : /\ ho = HasOut(slave) /\ hi = HasIn(slave)
                              /\ lo = out[slave] /\ li = in[slave]
    OBVIOUS
  <2>2. PICK mo, mi : mo = Side(ho, lo) /\ mi = Side(hi, li)  OBVIOUS
  <2>3. PICK ol, il, c : ol = mo.list /\ il = mi.list /\ c = Blocked(slave)  OBVIOUS
  <2>4. group' = [group EXCEPT ![cur] = Counted(group[cur], Len(ol), Len(il), c)]
    BY <1>11, <2>1, <2>2, <2>3, Zenon DEF MapBoth, Side
  <2>5. fmmu' = fmmu \cup Programmed("out", ol) \cup Programmed("in", il)
    BY <1>11, <2>1, <2>2, <2>3, Zenon DEF MapBoth, Side
  <2>6. /\ ho \in BOOLEAN /\ (ho => IsLayout(lo) /\ lo.bits > 0)
        /\ hi \in BOOLEAN /\ (hi => IsLayout(li) /\ li.bits > 0)
    BY <1>1, <1>2, <2>1, SetupFacts DEF HasOut, HasIn
  <2>7. ol \in Seq(Placed)  BY <1>3, <2>2, <2>3, <2>6, SideList
  <2>8. il \in Seq(Placed)  BY <1>3, <2>2, <2>3, <2>6, SideList
  <2>9. Adds(ol, il)  BY <1>4, <2>3, <2>4, <2>5 DEF Adds
  <2> QED BY <1>1, <1>5, <2>7, <2>8, <2>9, CountAdds
<1> QED BY <1>8, <1>9, <1>10, <1>11

LEMMA EndCounts ==
  ASSUME MapInv, CountInv, EndOutputs \/ EndInputs \/ EndBoth
  PROVE  CountInv'
<1>1. MapTypes /\ cur \in Groups
  BY DEF MapInv, PassRight, Running, EndOutputs, EndInputs, EndBoth
<1>2. setup' = setup /\ fmmu' = fmmu  BY DEF EndOutputs, EndInputs, EndBoth
<1>3. PICK r, q : r = group[cur] /\ q = group'[cur]  OBVIOUS
<1>4. r \in Records /\ group \in [Groups -> Records]  BY <1>1, <1>3 DEF MapTypes
<1>5. q.outputsWKC = r.outputsWKC /\ q.inputsWKC = r.inputsWKC
      /\ \A g \in Groups : g # cur => group'[g] = group[g]
  <2>1. CASE EndOutputs
    <3>1. PICK a, b, c : a = PadAddr - Base(cur) /\ b = Pad(seg).n /\ c = Pad(seg).size
      OBVIOUS
    <3>2. group' = [group EXCEPT ![cur] =
                      [[[r EXCEPT !.Obytes = a] EXCEPT !.Isegment = b] EXCEPT !.Ioffset = c]]
      BY <1>3, <2>1, <3>1 DEF EndOutputs
    <3>3. PICK x : x = [[[r EXCEPT !.Obytes = a] EXCEPT !.Isegment = b] EXCEPT !.Ioffset = c]
      OBVIOUS
    <3>4. x.outputsWKC = r.outputsWKC /\ x.inputsWKC = r.inputsWKC
      BY <1>4, <3>3 DEF Records
    <3>5. group' = [group EXCEPT ![cur] = x]  BY <3>2, <3>3
    <3>6. q = x  BY <1>1, <1>3, <1>4, <3>5
    <3> QED BY <1>4, <3>4, <3>5, <3>6
  <2>2. CASE EndInputs
    <3>1. PICK a, b, c, d : /\ a = Close(Pad(seg)) /\ b = Pad(seg).n + 1 /\ c = r.Obytes
                            /\ d = PadAddr - Base(cur) - r.Obytes
      OBVIOUS
    <3>2. PICK x : x = [[[[[r EXCEPT !.mapped = TRUE] EXCEPT !.IOsegment = a]
                            EXCEPT !.nsegments = b] EXCEPT !.inputs = c] EXCEPT !.Ibytes = d]
      OBVIOUS
    <3>3. group' = [group EXCEPT ![cur] = x]
      BY <1>3, <2>2, <3>1, <3>2 DEF EndInputs
    <3>4. x.outputsWKC = r.outputsWKC /\ x.inputsWKC = r.inputsWKC
      BY <1>4, <3>2 DEF Records
    <3>5. q = x  BY <1>1, <1>3, <1>4, <3>3
    <3> QED BY <1>4, <3>3, <3>4, <3>5
  <2>3. CASE EndBoth
    <3>1. PICK a, b, o, d : /\ a = Close(seg) /\ b = seg.n + 1 /\ o = soLogAddr - Base(cur)
                            /\ d = siLogAddr - Base(cur)
      OBVIOUS
    <3>2. PICK y : y = [[[[r EXCEPT !.mapped = TRUE] EXCEPT !.IOsegment = a]
                            EXCEPT !.nsegments = b] EXCEPT !.Isegment = 0]
      OBVIOUS
    <3>3. PICK x : x = [[[[y EXCEPT !.Ioffset = 0] EXCEPT !.Obytes = o] EXCEPT !.Ibytes = d]
                            EXCEPT !.inputs = o]
      OBVIOUS
    <3>4. group' = [group EXCEPT ![cur] = x]
      BY <1>3, <2>3, <3>1, <3>2, <3>3, Zenon DEF EndBoth
    <3>5. y.outputsWKC = r.outputsWKC /\ y.inputsWKC = r.inputsWKC
          /\ {"outputsWKC", "inputsWKC", "Ioffset", "Obytes", "Ibytes", "inputs"} \subseteq DOMAIN y
      BY <1>4, <3>2 DEF Records
    <3>6. x.outputsWKC = y.outputsWKC /\ x.inputsWKC = y.inputsWKC  BY <3>3, <3>5
    <3>7. q = x  BY <1>1, <1>3, <1>4, <3>4
    <3> QED BY <1>4, <3>4, <3>5, <3>6, <3>7
  <2> QED BY <2>1, <2>2, <2>3
<1>6. \A g \in Groups : /\ group'[g].outputsWKC = group[g].outputsWKC
                         /\ group'[g].inputsWKC = group[g].inputsWKC
  BY <1>3, <1>5
<1> QED BY <1>2, <1>6, CountStays

LEMMA CountStepKeeps ==
  ASSUME MapInv, CountInv, MapStep
  PROVE  CountInv'
<1>1. CASE MapOutput \/ MapInput \/ SkipInput \/ MapBoth  BY <1>1, SlaveCounts
<1>2. CASE EndOutputs \/ EndInputs \/ EndBoth  BY <1>2, EndCounts
<1>3. CASE setup' = setup /\ group' = group /\ fmmu' = fmmu  BY <1>3, CountStays
<1> QED BY <1>1, <1>2, <1>3 DEF MapStep, StartMap, SkipOutput, SkipBoth

LEMMA CountStart ==
  ASSUME MapInit  PROVE CountInv
<1>1. fmmu = {} /\ group = [g \in Groups |-> Unmapped]  BY DEF MapInit
<1>2. Unmapped.outputsWKC = 0 /\ Unmapped.inputsWKC = 0  BY DEF Unmapped
<1>3. \A g : Ins(g) = {} /\ Outs(g) = {}  BY <1>1 DEF Ins, Outs
<1>4. PICK n \in Nat : n = 0  OBVIOUS
<1>5. Few({}, n)  BY FewOrNone
<1> QED BY <1>1, <1>2, <1>3, <1>4, <1>5 DEF CountInv

\* Where a bit of an FMMU is in the IOmap of its group; what it holds after the cycle.
Shift(g) == IF Overlap THEN group[g].Obytes ELSE 0
Place(f, b) == b - 8 * Base(f.group) + 8 * Shift(f.group)
Back(f) == \A b \in BitsOf(f) : mem[f.group][Place(f, b)] = cycle
Taken(f) == f \in DOMAIN got /\ \A b \in BitsOf(f) : got[f][b] = version

\* A frame has a part of the image, and is copied back to where that belongs.
Shaped(fr) ==
  /\ {"g", "cmd", "addr", "len", "data", "bits", "wkc", "at"} \subseteq DOMAIN fr
  /\ fr.g \in Groups /\ fr.cmd \in {"LRD", "LWR", "LRW"} /\ fr.addr \in Nat /\ fr.len \in Nat
  /\ DOMAIN fr.bits = 0 .. 8 * fr.len - 1
  /\ fr.cmd # "LWR" => fr.data = fr.addr - Base(fr.g) + Shift(fr.g)
  /\ fr.wkc \in Nat
\* On its way out it has the outputs.
Loaded(fr) ==
  fr.cmd # "LRD" =>
    \A b \in DOMAIN fr.bits :
      8 * (fr.addr - Base(fr.g)) + b \in OutBits(fr.g) => fr.bits[b] = version
\* When it is back its counter tells of some FMMUs that have all been served.
Worth(fr) == IF fr.cmd = "LWR" THEN 2 * fr.wkc ELSE fr.wkc
AtMost(n, S, T) ==
  IsFiniteSet(S) /\ IsFiniteSet(T) /\ n <= Cardinality(S) + 2 * Cardinality(T)
Filled(fr, f) == \A b \in BitsOf(f) : fr.bits[b - 8 * fr.addr] = cycle
Served(fr, S, T) ==
  /\ S \subseteq ReadBy(fr) /\ \A f \in S : Filled(fr, f)
  /\ T \subseteq Written(fr) /\ \A f \in T : Taken(f)
Tells(fr) == \E S, T \in SUBSET fmmu : Served(fr, S, T) /\ AtMost(Worth(fr), S, T)
Travels(fr) == Shaped(fr) /\ IF fr.at = "line" THEN Loaded(fr) ELSE Tells(fr)

\* The frames of a cycle are sent in the order of their addresses, by LRD before LWR.
Before(x, y) ==
  /\ x.g = y.g
  /\ \/ x.cmd = y.cmd /\ x.addr + x.len <= y.addr
     \/ x.cmd = "LRD" /\ y.cmd = "LWR"
TxReady(t) ==
  /\ t.addr \in Nat /\ t.data \in Nat /\ t.addr = Base(t.g) + t.data
  /\ t.cmd = "LWR" => t.left \in Nat
  /\ t.cmd = "LRD" => ~Overlap
TxOk == tx # Idle => TxReady(tx) /\ \A i \in 1 .. Len(frames) : Before(frames[i], tx)
FramesOk ==
  /\ IsSeq(frames)
  /\ \A i \in 1 .. Len(frames) :
       /\ Travels(frames[i]) /\ (i <= pulled => frames[i].at # "line")
       /\ \A j \in 1 .. Len(frames) : i < j => Before(frames[i], frames[j])
StackOk ==
  /\ IsSeq(idxstack) /\ Len(idxstack) <= Len(frames) /\ pulled \in 0 .. Len(idxstack)
  /\ \A i \in 1 .. Len(idxstack) : idxstack[i] = i
  /\ Len(idxstack) = Len(frames) \/ ~ (Len(idxstack) < MaxBuf)

\* What has been received so far tells of FMMUs that no frame still to be received
\* serves.
Received(S, T) ==
  /\ S \subseteq Ins(rx.g) /\ \A f \in S : Back(f)
  /\ T \subseteq Outs(rx.g) /\ \A f \in T : Taken(f)
  /\ \A j \in pulled + 1 .. Len(frames) :
       S \cap ReadBy(frames[j]) = {} /\ T \cap Written(frames[j]) = {}
RxOk ==
  IF rx = Idle THEN pulled = 0
  ELSE /\ tx = Idle /\ rx.g \in Groups /\ rx.wkc \in Nat
       /\ rx = [cmd |-> rx.cmd, g |-> rx.g, wkc |-> rx.wkc, valid |-> rx.valid]
       /\ \E S, T \in SUBSET fmmu : Received(S, T) /\ AtMost(rx.wkc, S, T)

\* Between two cycles the result stands.
AtRest == tx = Idle /\ rx = Idle /\ frames = << >> /\ idxstack = << >> /\ pulled = 0
Proven(g) ==
  result.wkc >= ExpectedWkc(g) =>
    (\A f \in Outs(g) : Taken(f)) /\ \A f \in Ins(g) : Back(f)
ResultOk == result.g \in Groups => AtRest /\ Proven(result.g)
InCycle == cycle \in Nat /\ (~ AtRest \/ result.g \in Groups => cycle > 0)

Conducted == InCycle /\ TxOk /\ FramesOk /\ StackOk /\ RxOk /\ ResultOk
Resting == AtRest /\ result.g \notin Groups /\ cycle \in Nat
WkcInv == Resting \/ (AllMapped /\ Conducted)

\* The group that is received is the one that was sent; an FMMU's bits are all in
\* one frame ("Datagrams must not break SM in two.", ethercatmain.h:271); the
\* IOmap holds the image, and an overlapped one is exchanged by LRW and alone.
ReceivesSent == rx # Idle => \A i \in DOMAIN frames : frames[i].g = rx.g
Whole(fr) ==
  \A f \in Written(fr) \cup ReadBy(fr) : \A b \in BitsOf(f) : b - 8 * fr.addr \in DOMAIN fr.bits
Unbroken == \A i \in DOMAIN frames : Whole(frames[i])
Exchangeable ==
  cycle > 0 => \A g \in Groups :
    /\ Undisturbed(g) /\ (Overlap => group[g].blockLRW = 0)
    /\ group[g].Obytes + group[g].Ibytes <= setup.iomap

-----------------------------------------------------------------------------
\* No FMMU is in two frames.
LEMMA FramesApart ==
  ASSUME MapTypes, NEW x, NEW y, Shaped(x), Shaped(y), Whole(x), Whole(y), Before(x, y)
  PROVE  ReadBy(x) \cap ReadBy(y) = {} /\ Written(x) \cap Written(y) = {}
<1>1. ASSUME NEW f \in fmmu, NEW b \in BitsOf(f), x.cmd = y.cmd,
             b - 8 * x.addr \in DOMAIN x.bits, b - 8 * y.addr \in DOMAIN y.bits
      PROVE  FALSE
  <2>1. PICK a, n, c, m : a = x.addr /\ n = x.len /\ c = y.addr /\ m = y.len  OBVIOUS
  <2>2. a \in Nat /\ n \in Nat /\ c \in Nat /\ m \in Nat  BY <2>1 DEF Shaped
  <2>3. a + n <= c  BY <1>1, <2>1 DEF Before, Shaped
  <2>4. b \in Int
    <3>1. FirstBit(f) \in Nat /\ LastBit(f) \in Nat  BY FmmuFields
    <3>2. b \in FirstBit(f) .. LastBit(f)  BY DEF BitsOf, FirstBit, LastBit
    <3> QED BY <3>1, <3>2
  <2>5. b - 8 * a \in 0 .. 8 * n - 1 /\ b - 8 * c \in 0 .. 8 * m - 1
    BY <1>1, <2>1 DEF Shaped
  <2> QED BY <2>2, <2>3, <2>4, <2>5
<1>2. ASSUME NEW f \in ReadBy(x), f \in ReadBy(y)  PROVE FALSE
  <2>1. f \in fmmu /\ x.cmd # "LWR" /\ y.cmd # "LWR" /\ FrameBits(x, f) # {}
    BY <1>2 DEF ReadBy, Hits
  <2>2. PICK b \in BitsOf(f) : TRUE  BY <2>1 DEF FrameBits
  <2>3. b - 8 * x.addr \in DOMAIN x.bits /\ b - 8 * y.addr \in DOMAIN y.bits
    BY <1>2, <2>2 DEF Whole
  <2>4. x.cmd = y.cmd  BY <2>1 DEF Before
  <2> QED BY <1>1, <2>1, <2>2, <2>3, <2>4
<1>3. ASSUME NEW f \in Written(x), f \in Written(y)  PROVE FALSE
  <2>1. f \in fmmu /\ x.cmd # "LRD" /\ y.cmd # "LRD" /\ FrameBits(x, f) # {}
    BY <1>3 DEF Written, Hits
  <2>2. PICK b \in BitsOf(f) : TRUE  BY <2>1 DEF FrameBits
  <2>3. b - 8 * x.addr \in DOMAIN x.bits /\ b - 8 * y.addr \in DOMAIN y.bits
    BY <1>3, <2>2 DEF Whole
  <2>4. x.cmd = y.cmd  BY <2>1 DEF Before
  <2> QED BY <1>1, <2>1, <2>2, <2>3, <2>4
<1> QED BY <1>2, <1>3

\* Slaves that answer are not more than their FMMUs.
SlavesOf(S) == {f.slave : f \in S}
LEMMA FewSlaves ==
  ASSUME NEW S, IsFiniteSet(S)
  PROVE  IsFiniteSet(SlavesOf(S)) /\ Cardinality(SlavesOf(S)) <= Cardinality(S)
<1>1. PICK T : T = SlavesOf(S)  OBVIOUS
<1>2. PICK h : h = [f \in S |-> f.slave]  OBVIOUS
<1>3. h \in [S -> T] /\ \A y \in T : \E f \in S : h[f] = y  BY <1>1, <1>2 DEF SlavesOf
<1> QED BY <1>1, <1>3, FewImages

Asking(S, R) == {f \in S : f.slave \in R}
LEMMA WkcFits ==
  ASSUME NEW fr, fr.cmd \in {"LRD", "LWR", "LRW"}, NEW R, IsFiniteSet(ReadBy(fr)),
         IsFiniteSet(Written(fr)), NEW n, n = WkcOf(fr, R)
  PROVE  /\ n \in Nat
         /\ AtMost(IF fr.cmd = "LWR" THEN 2 * n ELSE n,
                   Asking(ReadBy(fr), R), Asking(Written(fr), R))
<1>1. PICK S, T : S = Asking(ReadBy(fr), R) /\ T = Asking(Written(fr), R)  OBVIOUS
<1>2. IsFiniteSet(S) /\ IsFiniteSet(T)
  <2>1. S \in SUBSET ReadBy(fr) /\ T \in SUBSET Written(fr)  BY <1>1 DEF Asking
  <2>2. IsFiniteSet(S)  BY <2>1, FS_Subset
  <2>3. IsFiniteSet(T)  BY <2>1, FS_Subset
  <2> QED BY <2>2, <2>3
<1>3. PICK readers, writers : readers = SlavesOf(S) /\ writers = SlavesOf(T)  OBVIOUS
<1>4. /\ readers = {f.slave : f \in ReadBy(fr)} \cap R
      /\ writers = {f.slave : f \in Written(fr)} \cap R
  BY <1>1, <1>3 DEF SlavesOf, Asking
<1>5. IsFiniteSet(readers) /\ Cardinality(readers) <= Cardinality(S)  BY <1>2, <1>3, FewSlaves
<1>6. IsFiniteSet(writers) /\ Cardinality(writers) <= Cardinality(T)  BY <1>2, <1>3, FewSlaves
<1>7. PICK a, b, s, t : /\ a = Cardinality(readers) /\ b = Cardinality(writers)
                        /\ s = Cardinality(S) /\ t = Cardinality(T)
  OBVIOUS
<1>8. a \in Nat /\ b \in Nat /\ s \in Nat /\ t \in Nat /\ a <= s /\ b <= t
  BY <1>2, <1>5, <1>6, <1>7, FS_CardinalityType
<1>9. n = a + b * (IF fr.cmd = "LRW" THEN 2 ELSE 1)  BY <1>4, <1>7 DEF WkcOf
<1>10. CASE fr.cmd = "LRW"
  <2>1. n = a + b * 2  BY <1>9, <1>10
  <2>2. n \in Nat /\ n <= s + 2 * t  BY <1>8, <2>1
  <2> QED BY <1>1, <1>2, <1>7, <1>10, <2>2 DEF AtMost
<1>11. CASE fr.cmd = "LRD"
  <2>1. Written(fr) = {}  BY <1>11 DEF Written
  <2>2. T = {}  BY <1>1, <2>1 DEF Asking
  <2>3. t = 0  BY <1>7, <2>2, FS_EmptySet
  <2>4. b = 0  BY <1>8, <2>3
  <2>5. n = a + b * 1  BY <1>9, <1>11
  <2>6. n \in Nat /\ n <= s + 2 * t  BY <1>8, <2>4, <2>5
  <2> QED BY <1>1, <1>2, <1>7, <1>11, <2>6 DEF AtMost
<1>12. CASE fr.cmd = "LWR"
  <2>1. ReadBy(fr) = {}  BY <1>12 DEF ReadBy
  <2>2. S = {}  BY <1>1, <2>1 DEF Asking
  <2>3. s = 0  BY <1>7, <2>2, FS_EmptySet
  <2>4. a = 0  BY <1>8, <2>3
  <2>5. n = a + b * 1  BY <1>9, <1>12
  <2>6. n \in Nat /\ 2 * n <= s + 2 * t  BY <1>8, <2>4, <2>5
  <2> QED BY <1>1, <1>2, <1>7, <1>12, <2>6 DEF AtMost
<1> QED BY <1>10, <1>11, <1>12

LEMMA CardApart ==
  ASSUME NEW S, NEW T, IsFiniteSet(S), IsFiniteSet(T), S \cap T = {}
  PROVE  IsFiniteSet(S \cup T) /\ Cardinality(S \cup T) = Cardinality(S) + Cardinality(T)
<1>1. IsFiniteSet(S \cup T)
      /\ Cardinality(S \cup T) = Cardinality(S) + Cardinality(T) - Cardinality(S \cap T)
  BY FS_Union
<1>2. Cardinality(S \cap T) = 0  BY FS_EmptySet
<1>3. PICK a, b, c, d : /\ a = Cardinality(S) /\ b = Cardinality(T)
                        /\ c = Cardinality(S \cap T) /\ d = Cardinality(S \cup T)
  OBVIOUS
<1>4. a \in Nat /\ b \in Nat  BY <1>3, FS_CardinalityType
<1>5. d = a + b  BY <1>1, <1>2, <1>3, <1>4
<1> QED BY <1>1, <1>3, <1>5

LEMMA MoreCounted ==
  ASSUME NEW n \in Nat, NEW k \in Nat, NEW S, NEW T, NEW U, NEW V,
         AtMost(n, S, T), AtMost(k, U, V), S \cap U = {}, T \cap V = {}
  PROVE  AtMost(n + k, S \cup U, T \cup V) /\ AtMost(k, S \cup U, T \cup V)
<1>1. IsFiniteSet(S) /\ IsFiniteSet(T) /\ IsFiniteSet(U) /\ IsFiniteSet(V)  BY DEF AtMost
<1>2. PICK s, t, u, v : /\ s = Cardinality(S) /\ t = Cardinality(T)
                        /\ u = Cardinality(U) /\ v = Cardinality(V)
  OBVIOUS
<1>3. s \in Nat /\ t \in Nat /\ u \in Nat /\ v \in Nat  BY <1>1, <1>2, FS_CardinalityType
<1>4. IsFiniteSet(S \cup U) /\ Cardinality(S \cup U) = s + u
  <2>1. IsFiniteSet(S \cup U) /\ Cardinality(S \cup U) = Cardinality(S) + Cardinality(U)
    BY <1>1, CardApart
  <2> QED BY <1>2, <2>1
<1>5. IsFiniteSet(T \cup V) /\ Cardinality(T \cup V) = t + v
  <2>1. IsFiniteSet(T \cup V) /\ Cardinality(T \cup V) = Cardinality(T) + Cardinality(V)
    BY <1>1, CardApart
  <2> QED BY <1>2, <2>1
<1>6. n <= s + 2 * t /\ k <= u + 2 * v  BY <1>2 DEF AtMost
<1>7. n + k <= (s + u) + 2 * (t + v) /\ k <= (s + u) + 2 * (t + v)  BY <1>3, <1>6
<1> QED BY <1>4, <1>5, <1>7 DEF AtMost

-----------------------------------------------------------------------------
\* What stays while neither the image nor the cycle changes and no FMMU is forgotten.
SameView ==
  /\ setup' = setup /\ group' = group /\ fmmu' = fmmu /\ version' = version /\ cycle' = cycle
  /\ \A f : Taken(f) => Taken(f)'

LEMMA ViewFacts ==
  ASSUME setup' = setup, group' = group, fmmu' = fmmu
  PROVE  /\ Groups' = Groups /\ Overlap' = Overlap
         /\ \A g : Base(g)' = Base(g) /\ Shift(g)' = Shift(g) /\ OutBits(g)' = OutBits(g)
         /\ \A g : Ins(g)' = Ins(g) /\ Outs(g)' = Outs(g) /\ ExpectedWkc(g)' = ExpectedWkc(g)
         /\ \A fr : ReadBy(fr)' = ReadBy(fr) /\ Written(fr)' = Written(fr)
<1>1. Groups' = Groups /\ Overlap' = Overlap  BY DEF Groups, Overlap
<1>2. \A g : Base(g)' = Base(g) /\ Shift(g)' = Shift(g) /\ OutBits(g)' = OutBits(g)
  BY <1>1 DEF Base, Shift, OutBits
<1>3. \A g : Ins(g)' = Ins(g) /\ Outs(g)' = Outs(g) /\ ExpectedWkc(g)' = ExpectedWkc(g)
  BY DEF Ins, Outs, ExpectedWkc
<1>4. \A fr : ReadBy(fr)' = ReadBy(fr) /\ Written(fr)' = Written(fr)
  BY DEF ReadBy, Written, Hits
<1> QED BY <1>1, <1>2, <1>3, <1>4

LEMMA TravelStays ==
  ASSUME SameView, NEW CONSTANT fr, Travels(fr)
  PROVE  Travels(fr)'
<1>1. /\ Groups' = Groups /\ Base(fr.g)' = Base(fr.g) /\ Shift(fr.g)' = Shift(fr.g)
      /\ OutBits(fr.g)' = OutBits(fr.g)
      /\ ReadBy(fr)' = ReadBy(fr) /\ Written(fr)' = Written(fr)
  BY ViewFacts DEF SameView
<1>2. Shaped(fr)'  BY <1>1 DEF Travels, Shaped
<1>3. Loaded(fr) => Loaded(fr)'  BY <1>1 DEF SameView, Loaded
<1>4. ASSUME Tells(fr)  PROVE Tells(fr)'
  <2>1. PICK S, T \in SUBSET fmmu : Served(fr, S, T) /\ AtMost(Worth(fr), S, T)
    BY <1>4 DEF Tells
  <2>2. Served(fr, S, T)'  BY <1>1, <2>1 DEF SameView, Served, Filled
  <2> QED BY <2>1, <2>2 DEF Tells, SameView, Worth
<1> QED BY <1>2, <1>3, <1>4 DEF Travels

\* A frame is what the sequence has there.
LEMMA TravelAt ==
  ASSUME NEW CONSTANT x, NEW CONSTANT i, frames'[i] = x, Travels(x)'
  PROVE  Travels(frames[i])'
<1>2. Shaped(x)' => Shaped(frames[i])'  BY DEF Shaped, Base, Shift
<1>3. Loaded(x)' => Loaded(frames[i])'  BY DEF Loaded, Base, OutBits
<1>4. ReadBy(x)' = ReadBy(frames[i])' /\ Written(x)' = Written(frames[i])'
  BY DEF ReadBy, Written, Hits, FrameBits
<1>5. ASSUME NEW CONSTANT S, NEW CONSTANT T, Served(x, S, T)'  PROVE Served(frames[i], S, T)'
  BY <1>4, <1>5 DEF Served, Filled, Taken
<1>6. Worth(x)' = Worth(frames[i])'  BY DEF Worth
<1>7. ASSUME Tells(x)'  PROVE Tells(frames[i])'
  <2>1. PICK S, T \in SUBSET fmmu' : Served(x, S, T)' /\ AtMost(Worth(x)', S, T)
    BY <1>7 DEF Tells
  <2>2. Served(frames[i], S, T)' /\ AtMost(Worth(frames[i])', S, T)  BY <1>5, <1>6, <2>1
  <2> QED BY <2>2 DEF Tells
<1> QED BY <1>2, <1>3, <1>7 DEF Travels

LEMMA FramesKept ==
  ASSUME SameView, FramesOk, frames' = frames,
         \A i \in 1 .. Len(frames) : i <= pulled' => frames[i].at # "line"
  PROVE  FramesOk'
<1>1. ASSUME NEW i \in 1 .. Len(frames)  PROVE Travels(frames[i])'
  <2>1. PICK x : x = frames[i]  OBVIOUS
  <2>2. Travels(x)  BY <2>1 DEF FramesOk
  <2>3. Travels(x)'  BY <2>2, TravelStays
  <2>4. frames'[i] = x  BY <2>1
  <2> QED BY <2>3, <2>4, TravelAt
<1>2. \A i, j \in 1 .. Len(frames) : i < j => Before(frames[i], frames[j])'
  BY DEF FramesOk, Before
<1> QED BY <1>1, <1>2 DEF FramesOk

LEMMA RestIsConducted ==
  ASSUME Resting  PROVE Conducted
<1>1. /\ tx = Idle /\ rx = Idle /\ frames = << >> /\ idxstack = << >> /\ pulled = 0
      /\ result.g \notin Groups /\ cycle \in Nat /\ AtRest
  BY DEF Resting, AtRest
<1>2. << >> \in Seq({}) /\ Len(<< >>) = 0  OBVIOUS
<1>3. IsSeq(<< >>)  BY <1>2 DEF IsSeq
<1>4. FramesOk  BY <1>1, <1>2, <1>3 DEF FramesOk
<1>5. StackOk  BY <1>1, <1>2, <1>3 DEF StackOk
<1> QED BY <1>1, <1>4, <1>5 DEF Conducted, InCycle, TxOk, RxOk, ResultOk

LEMMA EmptyStack ==
  ASSUME StackOk, frames = << >>
  PROVE  idxstack = << >> /\ pulled = 0
<1>1. PICK S : idxstack \in Seq(S)  BY DEF StackOk, IsSeq
<1>2. Len(idxstack) <= 0  BY DEF StackOk
<1>3. Len(idxstack) = 0  BY <1>1, <1>2
<1> QED BY <1>1, <1>3 DEF StackOk

LEMMA NoGroup ==
  ASSUME MapTypes  PROVE NoMap \notin Groups
<1>1. Groups \subseteq Nat  BY SetupFacts
<1> QED BY <1>1 DEF NoMap

LEMMA RestStays ==
  ASSUME Resting, setup' = setup, UNCHANGED pvars
  PROVE  Resting'
<1>1. /\ tx' = tx /\ rx' = rx /\ frames' = frames /\ idxstack' = idxstack /\ pulled' = pulled
      /\ result' = result /\ cycle' = cycle
  BY DEF pvars
<1> QED BY <1>1 DEF Resting, AtRest, Groups, Idle

LEMMA WriteRests ==
  ASSUME MapInv, Conducted, WriteInFlight = FALSE, WriteOutputs, UNCHANGED mapVars
  PROVE  Resting'
<1>1. setup' = setup /\ MapTypes  BY DEF mapVars, MapInv
<1>2. /\ tx = Idle /\ rx = Idle /\ frames = << >> /\ result' = [g |-> NoMap, wkc |-> NoFrame]
      /\ tx' = tx /\ rx' = rx /\ frames' = frames /\ idxstack' = idxstack /\ pulled' = pulled
      /\ cycle' = cycle
  BY DEF WriteOutputs
<1>3. idxstack = << >> /\ pulled = 0  BY <1>2, EmptyStack DEF Conducted
<1>4. result'.g \notin Groups'  BY <1>1, <1>2, NoGroup DEF Groups
<1>5. cycle' \in Nat  BY <1>2 DEF Conducted, InCycle
<1> QED BY <1>2, <1>3, <1>4, <1>5 DEF Resting, AtRest, Idle

\* What a group sends first, and after its inputs.
LEMMA StartsReady ==
  ASSUME MapInv, SegInv, HeadInv, AllMapped, NEW g \in Groups
  PROVE  TxReady(SendLWR(g)) /\ TxReady(SendLRW(g)) /\ (~Overlap => TxReady(SendLRD(g)))
<1>1. PICK r : r = group[g]  OBVIOUS
<1>2. /\ r \in Records /\ r.outputs = 0 /\ r.inputs = r.Obytes /\ Base(g) \in Nat
      /\ Overlap \in BOOLEAN
  BY <1>1, MappedGroup
<1>3. PICK o, i, base : o = r.Obytes /\ i = r.Ibytes /\ base = Base(g)  OBVIOUS
<1>4. o \in Nat /\ i \in Nat /\ base \in Nat  BY <1>2, <1>3 DEF Records
<1>5. TxReady(SendLWR(g))
  <2>1. PICK t : t = SendLWR(g)  OBVIOUS
  <2>2. t = [cmd |-> "LWR", g |-> g, seg |-> 0, left |-> o, addr |-> base, data |-> 0]
    BY <1>1, <1>2, <1>3, <2>1 DEF SendLWR
  <2>3. base = base + 0  BY <1>4
  <2> QED BY <1>3, <1>4, <2>1, <2>2, <2>3 DEF TxReady
<1>6. TxReady(SendLRW(g))
  <2>1. PICK t, z : t = SendLRW(g) /\ z = Size(g)  OBVIOUS
  <2>3. (IF o > 0 THEN 0 ELSE o) = 0  BY <1>4
  <2>4. t = [cmd |-> "LRW", g |-> g, seg |-> 0, left |-> z, addr |-> base,
             data |-> IF o > 0 THEN 0 ELSE o]
    BY <1>1, <1>2, <1>3, <2>1 DEF SendLRW
  <2>5. t = [cmd |-> "LRW", g |-> g, seg |-> 0, left |-> z, addr |-> base, data |-> 0]
    BY <2>3, <2>4
  <2>6. base = base + 0  BY <1>4
  <2> QED BY <1>3, <1>4, <2>1, <2>5, <2>6 DEF TxReady
<1>7. ASSUME ~Overlap  PROVE TxReady(SendLRD(g))
  <2>1. PICK t, a : t = SendLRD(g) /\ a = base + o  OBVIOUS
  <2>2. t = [cmd |-> "LRD", g |-> g, seg |-> r.Isegment, left |-> i, addr |-> a, data |-> o]
    BY <1>1, <1>2, <1>3, <2>1 DEF SendLRD
  <2>3. a \in Nat  BY <1>4, <2>1
  <2> QED BY <1>3, <1>4, <1>7, <2>1, <2>2, <2>3 DEF TxReady
<1> QED BY <1>5, <1>6, <1>7

LEMMA ReadyStays ==
  ASSUME setup' = setup, NEW CONSTANT t, TxReady(t), tx' = t
  PROVE  TxReady(tx)'
BY DEF TxReady, Overlap, Base

LEMMA StartConducts ==
  ASSUME MapInv, SegInv, HeadInv, AllMapped, Conducted, OneGroup = TRUE, Exchangeable',
         NEW g \in Groups, StartSend(g), UNCHANGED mapVars
  PROVE  Conducted'
<1>1. setup' = setup /\ group' = group /\ fmmu' = fmmu /\ MapTypes  BY DEF mapVars, MapInv
<1>2. /\ tx = Idle /\ rx = Idle /\ result' = [g |-> NoMap, wkc |-> NoFrame]
      /\ \A i \in DOMAIN frames : FALSE
      /\ rx' = rx /\ frames' = frames /\ idxstack' = idxstack /\ pulled' = pulled
  BY DEF StartSend
<1>3. frames = << >>
  <2>1. PICK S : frames \in Seq(S)  BY DEF Conducted, FramesOk, IsSeq
  <2> QED BY <1>2, <2>1
<1>4. idxstack = << >> /\ pulled = 0  BY <1>3, EmptyStack DEF Conducted
<1>5. result'.g \notin Groups'  BY <1>1, <1>2, NoGroup DEF Groups
<1>6. cycle' \in Nat /\ cycle' > 0
  <2>1. cycle \in Nat /\ cycle' = cycle + 1  BY <1>3 DEF StartSend, Conducted, InCycle
  <2> QED BY <2>1
<1>7. /\ tx' \in {SendLRW(g), SendLRD(g), SendLWR(g)}
      /\ tx' = SendLRD(g) => group[g].blockLRW # 0
  <2>1. PICK r : r = group[g]  OBVIOUS
  <2>2. r \in Records  BY <2>1, MappedGroup
  <2>3. r.blockLRW \in Nat /\ r.Ibytes \in Nat  BY <2>2 DEF Records
  <2>4. tx' = CASE r.blockLRW = 0   -> SendLRW(g)
                [] r.blockLRW > 0 /\ r.Ibytes > 0 -> SendLRD(g)
                [] OTHER                   -> SendLWR(g)
    BY <2>1 DEF StartSend
  <2>5. SendLRW(g).cmd = "LRW" /\ SendLRD(g).cmd = "LRD"  BY DEF SendLRW, SendLRD
  <2>6. CASE r.blockLRW = 0
    <3>1. tx' = SendLRW(g)  BY <2>3, <2>4, <2>6
    <3> QED BY <2>5, <3>1
  <2>7. CASE r.blockLRW # 0
    <3>1. tx' = SendLRD(g) \/ tx' = SendLWR(g)  BY <2>3, <2>4, <2>7
    <3> QED BY <2>1, <2>7, <3>1
  <2> QED BY <2>6, <2>7
<1>8. tx' = SendLRD(g) => ~Overlap
  <2>1. Overlap' = Overlap /\ Groups' = Groups  BY <1>1 DEF Overlap, Groups
  <2>2. Overlap => group[g].blockLRW = 0  BY <1>1, <1>6, <2>1 DEF Exchangeable
  <2> QED BY <1>7, <2>2
<1>9. TxReady(tx)'
  <2>1. PICK t : t = tx'  OBVIOUS
  <2>2. TxReady(t)  BY <1>7, <1>8, <2>1, StartsReady
  <2> QED BY <1>1, <2>1, <2>2, ReadyStays
<1>10. Len(frames) = 0  BY <1>3
<1>11. TxOk'  BY <1>2, <1>9, <1>10 DEF TxOk
<1>12. FramesOk' /\ StackOk'
  <2>1. << >> \in Seq({}) /\ Len(<< >>) = 0  OBVIOUS
  <2>2. IsSeq(<< >>)  BY <2>1 DEF IsSeq
  <2> QED BY <1>2, <1>3, <1>4, <2>1, <2>2 DEF FramesOk, StackOk
<1>13. RxOk'  BY <1>2, <1>4 DEF RxOk, Idle
<1> QED BY <1>5, <1>6, <1>11, <1>12, <1>13 DEF Conducted, InCycle, ResultOk

LEMMA ReceiveConducts ==
  ASSUME Conducted, NEW g \in Groups, StartReceive(g), UNCHANGED mapVars
  PROVE  Conducted'
<1>1. setup' = setup /\ group' = group /\ fmmu' = fmmu  BY DEF mapVars
<1>2. /\ tx = Idle /\ rx = Idle /\ frames # << >>
      /\ rx' = [cmd |-> "receive", g |-> g, wkc |-> 0, valid |-> FALSE]
      /\ mem' = mem /\ got' = got /\ version' = version /\ cycle' = cycle /\ tx' = tx
      /\ frames' = frames /\ idxstack' = idxstack /\ pulled' = pulled /\ result' = result
  BY DEF StartReceive
<1>3. SameView  BY <1>1, <1>2 DEF SameView, Taken
<1>4. FramesOk'  BY <1>2, <1>3, FramesKept DEF Conducted, FramesOk
<1>5. StackOk'  BY <1>2 DEF Conducted, StackOk
<1>6. TxOk'  BY <1>2 DEF TxOk, Idle
<1>7. result.g \notin Groups  BY <1>2 DEF Conducted, ResultOk, AtRest
<1>8. Groups' = Groups  BY <1>1 DEF Groups
<1>9. InCycle'  BY <1>2, <1>7, <1>8 DEF Conducted, InCycle, AtRest
<1>10. RxOk'
  <2>1. PICK none : none = {}  OBVIOUS
  <2>2. IsFiniteSet(none) /\ Cardinality(none) = 0  BY <2>1, FS_EmptySet
  <2>3. AtMost(0, none, none)  BY <2>2 DEF AtMost
  <2>4. Received(none, none)'  BY <2>1 DEF Received
  <2>5. none \in SUBSET fmmu'  BY <2>1
  <2>6. \E S, T \in SUBSET fmmu' : Received(S, T)' /\ AtMost(0, S, T)  BY <2>3, <2>4, <2>5
  <2>7. /\ rx'.cmd = "receive" /\ rx'.g = g /\ rx'.wkc = 0 /\ rx'.valid = FALSE  BY <1>2
  <2>8. rx'.g \in Groups' /\ rx'.wkc \in Nat /\ tx' = Idle
        /\ rx' = [cmd |-> rx'.cmd, g |-> rx'.g, wkc |-> rx'.wkc, valid |-> rx'.valid]
    BY <1>2, <1>8, <2>7
  <2>9. pulled = 0  BY <1>2 DEF Conducted, RxOk
  <2>10. (IF rx = Idle THEN pulled = 0
          ELSE \E S, T \in SUBSET fmmu : Received(S, T) /\ AtMost(rx.wkc, S, T))'
    BY <1>2, <2>6, <2>7, <2>9
  <2> QED BY <2>8, <2>10 DEF RxOk, Idle
<1>11. ResultOk'  BY <1>2, <1>7, <1>8 DEF ResultOk
<1> QED BY <1>4, <1>5, <1>6, <1>9, <1>10, <1>11 DEF Conducted

-----------------------------------------------------------------------------
\* Sending.
LEMMA PartFits ==
  ASSUME MapInv, SegInv, HeadInv, AllMapped, ToSend(tx), TxReady(tx), NEW sub, sub = SubLength
  PROVE  sub \in Nat /\ (tx.cmd = "LWR" => tx.left - sub \in Nat)
<1>1. CASE tx.cmd # "LWR"  BY <1>1, PartRight
<1>2. CASE tx.cmd = "LWR"
  <2>1. PICK t, r : t = tx /\ r = group[t.g]  OBVIOUS
  <2>2. t.g \in Groups /\ t.seg \in 0 .. MaxIOSegments - 1  BY <2>1 DEF ToSend
  <2>3. r \in Records  BY <2>1, <2>2, MappedGroup
  <2>4. PICK z, n : z = r.IOsegment[t.seg] /\ n = t.left  OBVIOUS
  <2>5. z \in Nat  BY <2>2, <2>3, <2>4 DEF Records
  <2>6. n \in Nat  BY <1>2, <2>1, <2>4 DEF TxReady
  <2>7. sub = IF n < z THEN n ELSE z  BY <1>2, <2>1, <2>4 DEF SubLength
  <2>8. sub \in Nat /\ n - sub \in Nat  BY <2>5, <2>6, <2>7
  <2> QED BY <2>1, <2>4, <2>8
<1> QED BY <1>1, <1>2

LEMMA OutputsInMem ==
  ASSUME MapInv, Exchanging, Exchangeable, cycle > 0, \A u \in Setups : u.iomap \in Nat,
         NEW g \in Groups, NEW b \in OutBits(g)
  PROVE  mem[g][b] = version
<1>1. MemRight /\ Kept  BY DEF Exchanging
<1>2. PICK r, n : r = group[g] /\ n = setup.iomap  OBVIOUS
<1>3. r \in Records /\ n \in Nat /\ r.Obytes + r.Ibytes <= n
  BY <1>2 DEF MapInv, MapTypes, Exchangeable
<1>4. PICK o, i : o = r.Obytes /\ i = r.Ibytes  OBVIOUS
<1>5. o \in Nat /\ i \in Nat  BY <1>3, <1>4 DEF Records
<1>6. b \in 0 .. 8 * o - 1  BY <1>2, <1>4 DEF OutBits
<1>7. b \in 0 .. 8 * n - 1  BY <1>3, <1>4, <1>5, <1>6
<1>8. b \in DOMAIN mem[g]  BY <1>1, <1>2, <1>7 DEF MemRight, MemBits
<1> QED BY <1>1, <1>8 DEF Kept

LEMMA NewFrameTravels ==
  ASSUME MapInv, SegInv, HeadInv, AllMapped, Exchanging, Exchangeable, cycle > 0,
         \A u \in Setups : u.iomap \in Nat,
         ToSend(tx), TxReady(tx), NEW sub, sub = SubLength, NEW dc, NEW fr,
         fr = [g |-> tx.g, cmd |-> tx.cmd, addr |-> tx.addr, len |-> sub,
               data |-> tx.data + InputOffset, dc |-> dc,
               bits |-> [b \in 0 .. 8 * sub - 1 |-> mem[tx.g][8 * tx.data + b]],
               wkc |-> 0, at |-> "line"]
  PROVE  Travels(fr)
<1>1. PICK t, r, off : t = tx /\ r = group[t.g] /\ off = InputOffset  OBVIOUS
<1>2. PICK bits : bits = [b \in 0 .. 8 * sub - 1 |-> mem[t.g][8 * t.data + b]]  OBVIOUS
<1>3. PICK d : d = t.data + off  OBVIOUS
<1>4. /\ fr.g = t.g /\ fr.cmd = t.cmd /\ fr.addr = t.addr /\ fr.data = d /\ fr.bits = bits
      /\ fr.len = sub /\ fr.wkc = 0 /\ fr.at = "line"
      /\ {"g", "cmd", "addr", "len", "data", "bits", "wkc", "at"} \subseteq DOMAIN fr
  BY <1>1, <1>2, <1>3
<1>5. ToSend(t) /\ TxReady(t) /\ sub \in Nat  BY <1>1, PartFits
<1>6. t.g \in Groups /\ t.cmd \in {"LRD", "LWR", "LRW"} /\ (t.cmd # "LWR" => t.data \in Nat)
  BY <1>5 DEF ToSend
<1>7. r \in Records /\ Overlap \in BOOLEAN /\ Base(t.g) \in Nat  BY <1>1, <1>6, MappedGroup
<1>8. PICK o, base, a, e : o = r.Obytes /\ base = Base(t.g) /\ a = t.addr /\ e = t.data
  OBVIOUS
<1>9. o \in Nat /\ base \in Nat /\ a \in Nat /\ a = base + e
  BY <1>5, <1>7, <1>8 DEF Records, TxReady
<1>10. ASSUME fr.cmd # "LWR"  PROVE fr.data = fr.addr - Base(fr.g) + Shift(fr.g)
  <2>1. e \in Nat  BY <1>4, <1>6, <1>8, <1>10
  <2>2. off = IF t.cmd = "LRW" /\ Overlap /\ o > 0 THEN o ELSE 0
    BY <1>1, <1>8 DEF InputOffset
  <2>3. Shift(t.g) = IF Overlap THEN o ELSE 0  BY <1>1, <1>8 DEF Shift
  <2>4. t.cmd = "LRD" => ~Overlap  BY <1>5 DEF TxReady
  <2>5. off = Shift(t.g) /\ off \in Nat  BY <1>4, <1>6, <1>7, <1>9, <1>10, <2>2, <2>3, <2>4
  <2>6. PICK k \in Nat : k = off  BY <2>5
  <2>7. e + k = (base + e) - base + k  BY <1>9, <2>1
  <2> QED BY <1>3, <1>4, <1>8, <1>9, <2>5, <2>6, <2>7
<1>11. DOMAIN bits = 0 .. 8 * sub - 1  BY <1>2
<1>12. Shaped(fr)
  <2>1. fr.g \in Groups /\ fr.cmd \in {"LRD", "LWR", "LRW"} /\ fr.addr \in Nat /\ fr.len \in Nat
        /\ fr.wkc \in Nat
    BY <1>4, <1>5, <1>6, <1>8, <1>9
  <2>2. DOMAIN fr.bits = 0 .. 8 * fr.len - 1  BY <1>4, <1>11
  <2> QED BY <1>4, <1>10, <2>1, <2>2 DEF Shaped
<1>13. ASSUME NEW b \in DOMAIN fr.bits, 8 * (fr.addr - Base(fr.g)) + b \in OutBits(fr.g)
       PROVE  fr.bits[b] = version
  <2>1. b \in 0 .. 8 * sub - 1  BY <1>4, <1>11, <1>13
  <2>2. fr.bits[b] = mem[t.g][8 * e + b]  BY <1>2, <1>4, <1>8, <2>1
  <2>3. PICK c : c = 8 * (a - base) + b  OBVIOUS
  <2>4. c \in OutBits(t.g)  BY <1>4, <1>8, <1>13, <2>3
  <2>5. mem[t.g][c] = version  BY <1>6, <2>4, OutputsInMem
  <2>6. c = 8 * e + b
    <3>1. t.data = e /\ t.cmd \in {"LRD", "LWR", "LRW"}  BY <1>6, <1>8
    <3>2. e \in Int
      <4>1. TxReady(t) /\ t.data = e  BY <1>5, <1>8
      <4> QED BY <4>1 DEF TxReady
    <3> QED BY <1>5, <1>9, <2>1, <2>3, <3>2
  <2> QED BY <2>2, <2>5, <2>6
<1>14. Loaded(fr)  BY <1>13 DEF Loaded
<1> QED BY <1>4, <1>12, <1>14 DEF Travels

LEMMA LoopReady ==
  ASSUME MapInv, SegInv, HeadInv, AllMapped, ToSend(tx), TxReady(tx), NEW sub, sub = SubLength,
         NEW t, t = [cmd |-> tx.cmd, g |-> tx.g, seg |-> tx.seg + 1, left |-> tx.left - sub,
                     addr |-> tx.addr + sub, data |-> tx.data + sub],
         NEW u, u = AfterLoop(t)
  PROVE  u = Idle \/ (TxReady(u) /\ (u = t \/ (tx.cmd = "LRD" /\ u = SendLWR(tx.g))))
<1>1. PICK x : x = tx  OBVIOUS
<1>2. /\ x.g \in Groups /\ x.cmd \in {"LRD", "LWR", "LRW"}  BY <1>1 DEF ToSend
<1>3. t.cmd = x.cmd /\ t.g = x.g /\ t.left = x.left - sub /\ t.addr = x.addr + sub
      /\ t.data = x.data + sub
  BY <1>1
<1>4. sub \in Nat /\ (x.cmd = "LWR" => x.left - sub \in Nat)  BY <1>1, PartFits
<1>5. TxReady(t)
  <2>1. PICK a, d, base : a = x.addr /\ d = x.data /\ base = Base(x.g)  OBVIOUS
  <2>2. a \in Nat /\ d \in Nat /\ a = base + d /\ (x.cmd = "LRD" => ~Overlap)
    BY <1>1, <2>1 DEF TxReady
  <2>3. base \in Nat  BY <1>2, <2>1, SetupFacts DEF MapInv
  <2>4. a + sub \in Nat /\ d + sub \in Nat /\ a + sub = base + (d + sub)
    BY <1>4, <2>2, <2>3
  <2> QED BY <1>3, <1>4, <2>1, <2>2, <2>4 DEF TxReady
<1>6. u = t \/ (t.cmd = "LRD" /\ u = SendLWR(t.g)) \/ u = Idle  BY DEF AfterLoop
<1>7. TxReady(SendLWR(x.g))  BY <1>2, StartsReady
<1> QED BY <1>1, <1>3, <1>5, <1>6, <1>7

LEMMA SendConducts ==
  ASSUME MapInv, SegInv, HeadInv, AllMapped, Exchanging, Exchangeable, Conducted,
         \A u \in Setups : u.iomap \in Nat, SendFrame, UNCHANGED mapVars
  PROVE  Conducted'
<1>1. setup' = setup /\ group' = group /\ fmmu' = fmmu  BY DEF mapVars
<1>2. /\ mem' = mem /\ got' = got /\ version' = version /\ cycle' = cycle /\ pulled' = pulled
      /\ rx' = rx /\ result' = result /\ tx # Idle
  BY DEF SendFrame
<1>3. /\ TxReady(tx) /\ ToSend(tx) /\ FramesOk /\ StackOk /\ IsSeq(frames) /\ IsSeq(idxstack)
      /\ rx = Idle /\ pulled = 0 /\ cycle \in Nat /\ cycle > 0 /\ result.g \notin Groups
      /\ \A i \in 1 .. Len(frames) : Before(frames[i], tx)
  BY <1>2 DEF Conducted, Exchanging, TxOk, FramesOk, StackOk, RxOk, InCycle, ResultOk, AtRest
<1>4. SameView  BY <1>1, <1>2 DEF SameView, Taken
<1>5. PICK sub, dc : /\ sub = SubLength
                     /\ dc = (setup.dc /\ \A i \in DOMAIN frames : frames[i].g # tx.g)
  OBVIOUS
<1>6. PICK fr :
        fr = [g |-> tx.g, cmd |-> tx.cmd, addr |-> tx.addr, len |-> sub,
               data |-> tx.data + InputOffset, dc |-> dc,
               bits |-> [b \in 0 .. 8 * sub - 1 |-> mem[tx.g][8 * tx.data + b]],
               wkc |-> 0, at |-> "line"]
  OBVIOUS
<1>7. PICK t : t = [tx EXCEPT !.seg = @ + 1, !.left = @ - sub, !.addr = @ + sub, !.data = @ + sub]
  OBVIOUS
<1>8. t = [cmd |-> tx.cmd, g |-> tx.g, seg |-> tx.seg + 1, left |-> tx.left - sub,
           addr |-> tx.addr + sub, data |-> tx.data + sub]
  <2>1. PICK x : x = tx  OBVIOUS
  <2>2. x = [cmd |-> x.cmd, g |-> x.g, seg |-> x.seg, left |-> x.left, addr |-> x.addr,
             data |-> x.data]
    BY <1>3, <2>1 DEF ToSend
  <2> QED BY <1>7, <2>1, <2>2, NextPart
<1>9. /\ frames' = Append(frames, fr) /\ tx' = AfterLoop(t)
      /\ idxstack' = IF Len(idxstack) < MaxBuf
                     THEN Append(idxstack, Len(frames) + 1) ELSE idxstack
  BY <1>5, <1>6, <1>7 DEF SendFrame
<1>10. Travels(fr)  BY <1>3, <1>5, <1>6, NewFrameTravels
<1>11. PICK s, n : s = frames /\ n = Len(frames)  OBVIOUS
<1>12. /\ IsSeq(frames') /\ n \in Nat /\ Len(frames') = n + 1
       /\ \A i \in 1 .. n : frames'[i] = s[i]
       /\ frames'[n + 1] = fr
  <2>1. IsSeq(s) /\ n = Len(s)  BY <1>3, <1>11
  <2> QED BY <1>9, <1>11, <2>1, SeqAppend
<1>13. \A i \in 1 .. n : Before(s[i], fr)
  <2>1. fr.g = tx.g /\ fr.cmd = tx.cmd /\ fr.addr = tx.addr  BY <1>6
  <2>2. \A i \in 1 .. n : Before(s[i], tx)  BY <1>3, <1>11
  <2> QED BY <2>1, <2>2 DEF Before
<1>14. FramesOk'
  <2>1. ASSUME NEW i \in 1 .. n + 1  PROVE Travels(frames[i])'
    <3>1. PICK x : x = frames'[i]  OBVIOUS
    <3>2. Travels(x)
      <4>1. CASE i = n + 1  BY <1>10, <1>12, <3>1, <4>1
      <4>2. CASE i # n + 1
        <5>1. i \in 1 .. n  BY <1>12, <2>1, <4>2
        <5>2. x = frames[i]  BY <1>11, <1>12, <3>1, <5>1
        <5> QED BY <1>3, <1>11, <5>1, <5>2 DEF FramesOk
      <4> QED BY <4>1, <4>2
    <3>3. Travels(x)'  BY <1>4, <3>2, TravelStays
    <3> QED BY <3>1, <3>3, TravelAt
  <2>2. ASSUME NEW i \in 1 .. n + 1, NEW j \in 1 .. n + 1, i < j
        PROVE  Before(frames[i], frames[j])'
    <3>1. i \in 1 .. n  BY <1>12, <2>2
    <3>2. frames'[i] = s[i]  BY <1>12, <3>1
    <3>3. CASE j = n + 1
      <4>1. frames'[j] = fr /\ Before(s[i], fr)  BY <1>12, <1>13, <3>1, <3>3
      <4> QED BY <3>2, <4>1 DEF Before
    <3>4. CASE j # n + 1
      <4>1. j \in 1 .. n  BY <1>12, <2>2, <3>4
      <4>2. frames'[j] = s[j] /\ Before(s[i], s[j])
        BY <1>3, <1>11, <1>12, <2>2, <3>1, <4>1 DEF FramesOk
      <4> QED BY <3>2, <4>2 DEF Before
    <3> QED BY <3>3, <3>4
  <2>3. \A i \in 1 .. n + 1 : ~ (i <= pulled')  BY <1>2, <1>3, <1>12
  <2> QED BY <1>12, <2>1, <2>2, <2>3 DEF FramesOk
<1>15. StackOk'
  <2>1. PICK q, m : q = idxstack /\ m = Len(idxstack)  OBVIOUS
  <2>2. /\ IsSeq(q) /\ m \in Nat /\ m <= n /\ \A i \in 1 .. m : q[i] = i
        /\ m = n \/ ~ (m < MaxBuf)
    <3>1. PICK S : idxstack \in Seq(S)  BY <1>3 DEF IsSeq
    <3>2. m \in Nat  BY <2>1, <3>1
    <3> QED BY <1>3, <1>11, <2>1, <3>2 DEF StackOk
  <2>3. pulled' = 0  BY <1>2, <1>3
  <2>4. CASE ~ (m < MaxBuf)
    <3>1. idxstack' = q /\ m <= n + 1 /\ 0 \in 0 .. m  BY <1>9, <1>12, <2>1, <2>2, <2>4
    <3> QED BY <1>12, <2>1, <2>2, <2>3, <2>4, <3>1 DEF StackOk
  <2>5. CASE m < MaxBuf
    <3>0. PICK k : k = m + 1  OBVIOUS
    <3>1. m = n /\ idxstack' = Append(q, k)
      <4>1. m = n  BY <2>2, <2>5
      <4> QED BY <1>9, <1>11, <2>1, <2>5, <3>0, <4>1
    <3>2. /\ IsSeq(idxstack') /\ Len(idxstack') = m + 1
          /\ \A i \in 1 .. m : idxstack'[i] = q[i]
          /\ idxstack'[m + 1] = m + 1
      <4>1. IsSeq(q) /\ Len(q) = m  BY <2>1, <2>2
      <4>2. /\ IsSeq(Append(q, k)) /\ Len(Append(q, k)) = Len(q) + 1
            /\ \A i \in 1 .. Len(q) : Append(q, k)[i] = q[i]
            /\ Append(q, k)[Len(q) + 1] = k
        BY <4>1, SeqAppend
      <4> QED BY <3>0, <3>1, <4>1, <4>2
    <3>3. ASSUME NEW i \in 1 .. m + 1  PROVE idxstack'[i] = i
      <4>1. CASE i = m + 1  BY <3>2, <4>1
      <4>2. CASE i # m + 1
        <5>1. i \in 1 .. m  BY <2>2, <3>3, <4>2
        <5> QED BY <2>2, <3>2, <5>1
      <4> QED BY <4>1, <4>2
    <3>4. m + 1 <= n + 1 /\ 0 \in 0 .. m + 1 /\ m + 1 = n + 1  BY <2>2, <3>1
    <3> QED BY <1>12, <2>3, <3>2, <3>3, <3>4 DEF StackOk
  <2> QED BY <2>4, <2>5
<1>16. TxOk'
  <2>1. PICK u : u = AfterLoop(t)  OBVIOUS
  <2>2. CASE u = Idle  BY <1>9, <2>1, <2>2 DEF TxOk, Idle
  <2>3. CASE u # Idle
    <3>1. TxReady(u) /\ (u = t \/ (tx.cmd = "LRD" /\ u = SendLWR(tx.g)))
      BY <1>3, <1>5, <1>8, <2>1, <2>3, LoopReady
    <3>2. TxReady(tx)'  BY <1>1, <1>9, <2>1, <3>1, ReadyStays
    <3>3. PICK c, g, a : c = tx.cmd /\ g = tx.g /\ a = tx.addr  OBVIOUS
    <3>4. a \in Nat /\ sub \in Nat  BY <1>3, <1>5, <3>3, PartFits DEF TxReady
    <3>5. fr.g = g /\ fr.cmd = c /\ fr.addr = a /\ fr.len = sub  BY <1>6, <3>3
    <3>6. u.g = g /\ ((u.cmd = c /\ u.addr = a + sub) \/ (c = "LRD" /\ u.cmd = "LWR"))
      <4>1. SendLWR(g).g = g /\ SendLWR(g).cmd = "LWR"  BY DEF SendLWR
      <4>2. t.g = g /\ t.cmd = c /\ t.addr = a + sub  BY <1>8, <3>3
      <4> QED BY <3>1, <3>3, <4>1, <4>2
    <3>7. Before(fr, u)  BY <3>4, <3>5, <3>6 DEF Before
    <3>8. ASSUME NEW i \in 1 .. n  PROVE Before(s[i], u)
      <4>1. Before(s[i], tx) /\ Shaped(s[i])
        BY <1>3, <1>11 DEF FramesOk, Travels
      <4>2. PICK k : k = s[i].addr + s[i].len  OBVIOUS
      <4>3. k \in Nat  BY <4>1, <4>2 DEF Shaped
      <4>4. s[i].g = g /\ ((s[i].cmd = c /\ k <= a) \/ (s[i].cmd = "LRD" /\ c = "LWR"))
        BY <3>3, <4>1, <4>2 DEF Before
      <4>5. k <= a => k <= a + sub  BY <3>4, <4>3
      <4> QED BY <3>6, <4>2, <4>4, <4>5 DEF Before
    <3>9. ASSUME NEW i \in 1 .. n + 1  PROVE Before(frames[i], tx)'
      <4>1. PICK x : x = frames'[i]  OBVIOUS
      <4>2. Before(x, u)
        <5>1. CASE i = n + 1  BY <1>12, <3>7, <4>1, <5>1
        <5>2. CASE i # n + 1
          <6>1. i \in 1 .. n  BY <1>12, <3>9, <5>2
          <6> QED BY <1>12, <3>8, <4>1, <6>1
        <5> QED BY <5>1, <5>2
      <4>3. tx' = u  BY <1>9, <2>1
      <4> QED BY <4>1, <4>2, <4>3 DEF Before
    <3> QED BY <1>12, <3>2, <3>9 DEF TxOk
  <2> QED BY <2>2, <2>3
<1>17. RxOk'  BY <1>2, <1>3 DEF RxOk, Idle
<1>18. InCycle'  BY <1>2, <1>3 DEF InCycle
<1>19. ResultOk'
  <2>1. Groups' = Groups  BY <1>1 DEF Groups
  <2> QED BY <1>2, <1>3, <2>1 DEF ResultOk
<1> QED BY <1>14, <1>15, <1>16, <1>17, <1>18, <1>19 DEF Conducted

-----------------------------------------------------------------------------
\* Crossing the ring.
LEMMA BitInside ==
  ASSUME MapTypes, NEW f \in fmmu, NEW b \in BitsOf(f)
  PROVE  b \in Nat /\ 8 * f.start + f.startbit <= b /\ b < 8 * (f.start + f.len)
<1>1. f.start \in Nat /\ f.startbit \in 0 .. 7 /\ f.len \in Nat /\ f.len > 0 /\ f.endbit \in 0 .. 7
  BY FmmuFields
<1>2. PICK st, sb, n, eb : st = f.start /\ sb = f.startbit /\ n = f.len /\ eb = f.endbit
  OBVIOUS
<1>3. b \in 8 * st + sb .. 8 * (st + n - 1) + eb  BY <1>2 DEF BitsOf
<1>4. b \in Nat /\ 8 * st + sb <= b /\ b < 8 * (st + n)  BY <1>1, <1>2, <1>3
<1> QED BY <1>2, <1>4

LEMMA OutPlace ==
  ASSUME MapInv, AllMapped, NEW f \in fmmu, f.dir = "out", NEW b \in BitsOf(f)
  PROVE  b \in Nat /\ f.group \in Groups /\ b - 8 * Base(f.group) \in OutBits(f.group)
<1>1. MapTypes /\ ~Running  BY DEF MapInv, AllMapped, Running
<1>2. f.group \in Groups /\ f.start \in Nat /\ f.startbit \in 0 .. 7 /\ f.len \in Nat
  BY <1>1, FmmuFields
<1>3. PICK g, r, base : g = f.group /\ r = group[g] /\ base = Base(g)  OBVIOUS
<1>4. r \in Records /\ base \in Nat  BY <1>1, <1>2, <1>3, SetupFacts DEF MapTypes
<1>5. FmmuRight(f)  BY DEF MapInv
<1>6. Inside(f)  BY <1>1, <1>5 DEF FmmuRight
<1>7. PICK st, n, sb, o : st = f.start /\ n = f.len /\ sb = f.startbit /\ o = r.Obytes
  OBVIOUS
<1>8. base <= st /\ st + n <= base + o  BY <1>3, <1>6, <1>7 DEF Inside
<1>9. o \in Nat  BY <1>4, <1>7 DEF Records
<1>10. b \in Nat /\ 8 * st + sb <= b /\ b < 8 * (st + n)  BY <1>1, <1>7, BitInside
<1>11. b - 8 * base \in 0 .. 8 * o - 1  BY <1>2, <1>4, <1>7, <1>8, <1>9, <1>10
<1> QED BY <1>2, <1>3, <1>7, <1>10, <1>11 DEF OutBits

LEMMA LoadedGives ==
  ASSUME MapInv, AllMapped, NEW fr, Shaped(fr), Loaded(fr), Whole(fr), NEW f \in Written(fr),
         NEW b \in BitsOf(f), NEW k, k = b - 8 * fr.addr
  PROVE  k \in DOMAIN fr.bits /\ fr.bits[k] = version
<1>1. f \in fmmu /\ f.dir = "out" /\ f.group = fr.g /\ fr.cmd # "LRD"
  BY DEF Written, Hits
<1>2. k \in DOMAIN fr.bits  BY DEF Whole
<1>3. b \in Nat /\ b - 8 * Base(fr.g) \in OutBits(fr.g) /\ fr.g \in Groups  BY <1>1, OutPlace
<1>4. PICK a, base : a = fr.addr /\ base = Base(fr.g)  OBVIOUS
<1>5. a \in Nat /\ base \in Nat
  BY <1>3, <1>4, SetupFacts DEF Shaped, MapInv
<1>6. 8 * (a - base) + k = b - 8 * base  BY <1>3, <1>4, <1>5
<1>7. 8 * (fr.addr - Base(fr.g)) + k \in OutBits(fr.g)  BY <1>3, <1>4, <1>6
<1> QED BY <1>1, <1>2, <1>7 DEF Loaded

\* What a frame is after it has crossed, and what the slaves have then.
Answers(fr, R, new) ==
  /\ new.at # "line" /\ new.wkc = WkcOf(fr, R) /\ DOMAIN new = DOMAIN fr
  /\ new.g = fr.g /\ new.cmd = fr.cmd /\ new.addr = fr.addr /\ new.len = fr.len
  /\ new.data = fr.data /\ DOMAIN new.bits = DOMAIN fr.bits
  /\ \A f \in Asking(ReadBy(fr), R) : \A k \in FrameBits(fr, f) : new.bits[k] = cycle

LEMMA AnswersSame ==
  ASSUME NEW fr, NEW R, NEW new, Answers(fr, R, new)
  PROVE  ReadBy(new) = ReadBy(fr) /\ Written(new) = Written(fr)
<1>1. \A f : FrameBits(new, f) = FrameBits(fr, f)  BY DEF Answers, FrameBits
<1> QED BY <1>1 DEF Answers, ReadBy, Written, Hits

LEMMA AnswerTravels ==
  ASSUME MapInv, CountInv, SameView, NEW CONSTANT fr, Shaped(fr), Whole(fr), NEW CONSTANT R,
         NEW CONSTANT new, Answers(fr, R, new), \A f \in Asking(Written(fr), R) : Taken(f)'
  PROVE  Travels(new)'
<1>1. PICK S, T : S = Asking(ReadBy(fr), R) /\ T = Asking(Written(fr), R)  OBVIOUS
<1>2. ReadBy(new) = ReadBy(fr) /\ Written(new) = Written(fr)  BY AnswersSame
<1>3. fr.g \in Groups /\ fr.cmd \in {"LRD", "LWR", "LRW"}  BY DEF Shaped
<1>4. IsFiniteSet(ReadBy(fr)) /\ IsFiniteSet(Written(fr))
  <2>1. IsFiniteSet(Ins(fr.g)) /\ IsFiniteSet(Outs(fr.g))  BY <1>3 DEF CountInv, Few
  <2>2. ReadBy(fr) \in SUBSET Ins(fr.g) /\ Written(fr) \in SUBSET Outs(fr.g)
    BY DEF ReadBy, Written, Hits, Ins, Outs
  <2>3. IsFiniteSet(ReadBy(fr))  BY <2>1, <2>2, FS_Subset
  <2>4. IsFiniteSet(Written(fr))  BY <2>1, <2>2, FS_Subset
  <2> QED BY <2>3, <2>4
<1>5. PICK n : n = WkcOf(fr, R)  OBVIOUS
<1>6. n \in Nat /\ AtMost(IF fr.cmd = "LWR" THEN 2 * n ELSE n, S, T)
  BY <1>1, <1>3, <1>4, <1>5, WkcFits
<1>7. Worth(new) = IF fr.cmd = "LWR" THEN 2 * n ELSE n  BY <1>5 DEF Answers, Worth
<1>8. Shaped(new)'
  <2>1. Shaped(new)  BY <1>5, <1>6 DEF Answers, Shaped
  <2>2. Groups' = Groups /\ Base(new.g)' = Base(new.g) /\ Shift(new.g)' = Shift(new.g)
    BY ViewFacts DEF SameView
  <2> QED BY <2>1, <2>2 DEF Shaped
<1>9. Served(new, S, T)'
  <2>1. S \subseteq ReadBy(new) /\ T \subseteq Written(new)  BY <1>1, <1>2 DEF Asking
  <2>2. ASSUME NEW f \in S  PROVE Filled(new, f)
    <3>1. \A b \in BitsOf(f) : b - 8 * fr.addr \in DOMAIN fr.bits
      BY <1>1, <2>2 DEF Asking, Whole
    <3>2. \A b \in BitsOf(f) : b - 8 * fr.addr \in FrameBits(fr, f)  BY <3>1 DEF FrameBits
    <3>3. \A k \in FrameBits(fr, f) : new.bits[k] = cycle  BY <1>1, <2>2 DEF Answers
    <3>4. new.addr = fr.addr  BY DEF Answers
    <3> QED BY <3>2, <3>3, <3>4 DEF Filled
  <2>3. ReadBy(new)' = ReadBy(new) /\ Written(new)' = Written(new)
    BY ViewFacts DEF SameView
  <2>4. \A f \in S : Filled(new, f)'  BY <2>2 DEF Filled, SameView
  <2> QED BY <1>1, <2>1, <2>3, <2>4 DEF Served
<1>10. S \in SUBSET fmmu /\ T \in SUBSET fmmu
  BY <1>1 DEF Asking, ReadBy, Written, Hits
<1>11. Tells(new)'
  <2>1. Worth(new)' = Worth(new)  BY DEF Worth
  <2>2. fmmu' = fmmu  BY DEF SameView
  <2>3. S \in SUBSET fmmu' /\ T \in SUBSET fmmu'  BY <1>10, <2>2
  <2> QED BY <1>6, <1>7, <1>9, <2>1, <2>3 DEF Tells
<1>12. new.at # "line"  BY DEF Answers
<1> QED BY <1>8, <1>11, <1>12 DEF Travels

LEMMA CrossConducts ==
  ASSUME MapInv, AllMapped, CountInv, Conducted, Unbroken, NEW R, NEW back, Cross(R, back),
         UNCHANGED mapVars
  PROVE  Conducted'
<1>1. setup' = setup /\ group' = group /\ fmmu' = fmmu  BY DEF mapVars
<1>2. /\ mem' = mem /\ version' = version /\ cycle' = cycle /\ tx' = tx /\ pulled' = pulled
      /\ rx' = rx /\ idxstack' = idxstack /\ result' = result
  BY DEF Cross
<1>4. PICK i \in DOMAIN frames :
        LET fr == frames[i]
            filled == UNION {FrameBits(fr, f) : f \in {h \in ReadBy(fr) : h.slave \in R}}
            taken == {f \in Written(fr) : f.slave \in R}
        IN  /\ fr.at = "line"
            /\ frames' = [frames EXCEPT ![i] = [@ EXCEPT
                 !.at = IF back THEN "back" ELSE "lost",
                 !.wkc = WkcOf(fr, R),
                 !.bits = [b \in DOMAIN fr.bits |->
                             IF b \in filled THEN cycle ELSE fr.bits[b]]]]
            /\ got' = [f \in taken \cup DOMAIN got |->
                         IF f \notin taken THEN got[f]
                         ELSE [b \in BitsOf(f) |->
                                 IF b - 8 * fr.addr \in DOMAIN fr.bits
                                 THEN fr.bits[b - 8 * fr.addr]
                                 ELSE IF f \in DOMAIN got THEN got[f][b] ELSE 0]]
  BY DEF Cross
<1>5. PICK fr, filled, taken : /\ fr = frames[i]
        /\ filled = UNION {FrameBits(fr, f) : f \in {h \in ReadBy(fr) : h.slave \in R}}
        /\ taken = {f \in Written(fr) : f.slave \in R}
  OBVIOUS
<1>6. PICK at, wkc, bits : /\ at = (IF back THEN "back" ELSE "lost") /\ wkc = WkcOf(fr, R)
                           /\ bits = [b \in DOMAIN fr.bits |->
                                        IF b \in filled THEN cycle ELSE fr.bits[b]]
  OBVIOUS
<1>7. PICK new : new = [[[fr EXCEPT !.at = at] EXCEPT !.wkc = wkc] EXCEPT !.bits = bits]
  OBVIOUS
<1>8. frames' = [frames EXCEPT ![i] = new] /\ fr.at = "line"  BY <1>4, <1>5, <1>6, <1>7
<1>9. PICK s, n : s = frames /\ n = Len(frames)  OBVIOUS
<1>10. i \in 1 .. n /\ DOMAIN frames = 1 .. n /\ n \in Nat /\ IsSeq(s)
  <2>1. PICK S : frames \in Seq(S)  BY DEF Conducted, FramesOk, IsSeq
  <2> QED BY <1>9, <2>1 DEF IsSeq
<1>11. Shaped(fr) /\ Loaded(fr) /\ Whole(fr)
  BY <1>5, <1>8, <1>9, <1>10 DEF Conducted, FramesOk, Travels, Unbroken
<1>12. Answers(fr, R, new)
  <2>1. {"g", "cmd", "addr", "len", "data", "bits", "wkc", "at"} \subseteq DOMAIN fr
    BY <1>11 DEF Shaped
  <2>2. /\ new.g = fr.g /\ new.cmd = fr.cmd /\ new.addr = fr.addr /\ new.len = fr.len
        /\ new.data = fr.data /\ new.wkc = wkc /\ new.at = at
        /\ new.bits = bits /\ DOMAIN new = DOMAIN fr
    BY <1>7, <2>1
  <2>3. DOMAIN bits = DOMAIN fr.bits  BY <1>6
  <2>4. at # "line"  BY <1>6
  <2>5. ASSUME NEW f \in Asking(ReadBy(fr), R), NEW k \in FrameBits(fr, f)
        PROVE  bits[k] = cycle
    <3>1. k \in filled  BY <1>5, <2>5 DEF Asking
    <3>2. k \in DOMAIN fr.bits  BY DEF FrameBits
    <3> QED BY <1>6, <3>1, <3>2
  <2> QED BY <1>6, <2>2, <2>3, <2>4, <2>5 DEF Answers
<1>13. taken = Asking(Written(fr), R)  BY <1>5 DEF Asking
<1>14. /\ DOMAIN got' = taken \cup DOMAIN got
       /\ \A f \in DOMAIN got : f \notin taken => got'[f] = got[f]
       /\ \A f \in taken : \A b \in BitsOf(f) : b - 8 * fr.addr \in DOMAIN fr.bits
                => got'[f][b] = fr.bits[b - 8 * fr.addr]
  BY <1>4, <1>5
<1>15. ASSUME NEW f \in taken  PROVE Taken(f)'
  <2>1. f \in Written(fr)  BY <1>13 DEF Asking
  <2>2. ASSUME NEW b \in BitsOf(f)  PROVE got'[f][b] = version
    <3>1. PICK k : k = b - 8 * fr.addr  OBVIOUS
    <3>2. k \in DOMAIN fr.bits /\ fr.bits[k] = version
      BY <1>11, <2>1, <3>1, LoadedGives
    <3> QED BY <1>14, <3>1, <3>2
  <2> QED BY <1>2, <1>14, <2>2 DEF Taken, BitsOf
<1>16. SameView
  <2>1. ASSUME NEW f, Taken(f)  PROVE Taken(f)'
    <3>1. CASE f \in taken  BY <1>15, <3>1
    <3>2. CASE f \notin taken  BY <1>2, <1>14, <2>1, <3>2 DEF Taken
    <3> QED BY <3>1, <3>2
  <2> QED BY <1>1, <1>2, <2>1 DEF SameView
<1>17. Travels(new)'
  <2>1. \A f \in Asking(Written(fr), R) : Taken(f)'  BY <1>13, <1>15
  <2> QED BY <1>11, <1>12, <1>16, <2>1, AnswerTravels
<1>18. /\ IsSeq(frames') /\ Len(frames') = n /\ frames'[i] = new
       /\ \A j \in 1 .. n : j # i => frames'[j] = s[j]
  <2>1. PICK z : z = frames'  OBVIOUS
  <2>2. z = [s EXCEPT ![i] = new]  BY <1>8, <1>9, <2>1
  <2>3. i \in 1 .. Len(s)  BY <1>9, <1>10
  <2>4. Replaced([s EXCEPT ![i] = new], s, i, new)  BY <1>10, <2>3, SeqExcept
  <2>5. Replaced(z, s, i, new)  BY <2>2, <2>4
  <2> QED BY <1>9, <2>1, <2>5 DEF Replaced
<1>19. ASSUME NEW j \in 1 .. n
       PROVE  /\ frames'[j].g = s[j].g /\ frames'[j].cmd = s[j].cmd
              /\ frames'[j].addr = s[j].addr /\ frames'[j].len = s[j].len
              /\ ReadBy(frames'[j]) = ReadBy(s[j]) /\ Written(frames'[j]) = Written(s[j])
              /\ s[j].at # "line" => frames'[j].at # "line"
  <2>1. CASE j # i  BY <1>18, <2>1
  <2>2. CASE j = i
    <3>1. ReadBy(new) = ReadBy(fr) /\ Written(new) = Written(fr)  BY <1>12, AnswersSame
    <3>2. frames'[j] = new /\ s[j] = fr  BY <1>5, <1>9, <1>18, <2>2
    <3> QED BY <1>12, <3>1, <3>2 DEF Answers
  <2> QED BY <2>1, <2>2
<1>20. FramesOk'
  <2>1. ASSUME NEW j \in 1 .. n  PROVE Travels(frames[j])'
    <3>1. CASE j = i  BY <1>17, <1>18, <3>1, TravelAt
    <3>2. CASE j # i
      <4>1. PICK x : x = s[j]  OBVIOUS
      <4>2. Travels(x)  BY <1>9, <2>1, <4>1 DEF Conducted, FramesOk
      <4>3. Travels(x)'  BY <1>16, <4>2, TravelStays
      <4>4. frames'[j] = x  BY <1>18, <2>1, <3>2, <4>1
      <4> QED BY <4>3, <4>4, TravelAt
    <3> QED BY <3>1, <3>2
  <2>2. \A j \in 1 .. n : j <= pulled' => frames'[j].at # "line"
    BY <1>2, <1>9, <1>19 DEF Conducted, FramesOk
  <2>3. \A j, k \in 1 .. n : j < k => Before(frames[j], frames[k])'
    BY <1>9, <1>19 DEF Conducted, FramesOk, Before
  <2> QED BY <1>18, <2>1, <2>2, <2>3 DEF FramesOk
<1>21. StackOk'  BY <1>2, <1>9, <1>18 DEF Conducted, StackOk
<1>22. TxOk'
  <2>1. CASE tx = Idle  BY <1>2, <2>1 DEF TxOk, Idle
  <2>2. CASE tx # Idle
    <3>1. TxReady(tx)'  BY <1>1, <1>2, <2>2, ReadyStays DEF Conducted, TxOk
    <3>2. \A j \in 1 .. n : Before(frames[j], tx)'
      BY <1>2, <1>9, <1>19, <2>2 DEF Conducted, TxOk, Before
    <3> QED BY <1>18, <3>1, <3>2 DEF TxOk
  <2> QED BY <2>1, <2>2
<1>23. RxOk'
  <2>1. CASE rx = Idle  BY <1>2, <2>1 DEF Conducted, RxOk, Idle
  <2>2. CASE rx # Idle
    <3>1. /\ tx = Idle /\ rx.g \in Groups /\ rx.wkc \in Nat
          /\ rx = [cmd |-> rx.cmd, g |-> rx.g, wkc |-> rx.wkc, valid |-> rx.valid]
      BY <2>2 DEF Conducted, RxOk
    <3>2. PICK S, T \in SUBSET fmmu : Received(S, T) /\ AtMost(rx.wkc, S, T)
      BY <2>2 DEF Conducted, RxOk
    <3>3. PICK g : g = rx.g  OBVIOUS
    <3>4. Groups' = Groups /\ Ins(g)' = Ins(g) /\ Outs(g)' = Outs(g)  BY <1>1, ViewFacts
    <3>9. \A f : Back(f) => Back(f)'
      BY <1>1, <1>2, ViewFacts DEF Back, Place
    <3>5. \A x : ReadBy(x)' = ReadBy(x) /\ Written(x)' = Written(x)  BY <1>1, ViewFacts
    <3>6. ASSUME NEW j \in pulled + 1 .. n
          PROVE  S \cap ReadBy(frames[j])' = {} /\ T \cap Written(frames[j])' = {}
      <4>1. j \in 1 .. n
        <5>1. pulled \in Nat  BY DEF Conducted, StackOk
        <5> QED BY <1>10, <3>6, <5>1
      <4>2. S \cap ReadBy(s[j]) = {} /\ T \cap Written(s[j]) = {}
        BY <1>9, <3>2, <3>6 DEF Received
      <4>3. ReadBy(frames'[j]) = ReadBy(s[j]) /\ Written(frames'[j]) = Written(s[j])
        BY <1>19, <4>1
      <4>4. ReadBy(frames[j])' = ReadBy(frames'[j]) /\ Written(frames[j])' = Written(frames'[j])
        BY <3>5
      <4> QED BY <4>2, <4>3, <4>4
    <3>7. Received(S, T)'
      <4>1. S \subseteq Ins(g)' /\ T \subseteq Outs(g)'  BY <3>2, <3>3, <3>4 DEF Received
      <4>2. S \subseteq Ins(rx.g)' /\ T \subseteq Outs(rx.g)'
        BY <1>2, <3>3, <4>1 DEF Ins, Outs
      <4>3. (\A f \in S : Back(f)') /\ \A f \in T : Taken(f)'
        BY <1>16, <3>2, <3>9 DEF Received, SameView
      <4> QED BY <1>2, <1>18, <3>6, <4>2, <4>3 DEF Received
    <3>8. S \in SUBSET fmmu' /\ T \in SUBSET fmmu'  BY <1>1
    <3> QED BY <1>2, <2>2, <3>1, <3>2, <3>4, <3>7, <3>8 DEF RxOk, Idle
  <2> QED BY <2>1, <2>2
<1>24. frames # << >>  BY <1>9, <1>10
<1>25. result.g \notin Groups /\ cycle > 0
  BY <1>24 DEF Conducted, ResultOk, InCycle, AtRest
<1>26. InCycle' /\ ResultOk'
  <2>1. Groups' = Groups  BY <1>1 DEF Groups
  <2> QED BY <1>2, <1>25, <2>1 DEF Conducted, InCycle, ResultOk
<1> QED BY <1>20, <1>21, <1>22, <1>23, <1>26 DEF Conducted

-----------------------------------------------------------------------------
\* Receiving.
LEMMA SamePlace ==
  ASSUME MapTypes, NEW fr, Shaped(fr), fr.cmd # "LWR", NEW f, f.group = fr.g, NEW b \in Nat
  PROVE  Place(f, b) - 8 * fr.data = b - 8 * fr.addr
<1>1. PICK a, d, base, sh : /\ a = fr.addr /\ d = fr.data /\ base = Base(fr.g)
                            /\ sh = Shift(fr.g)
  OBVIOUS
<1>2. a \in Nat /\ fr.g \in Groups /\ d = a - base + sh  BY <1>1 DEF Shaped
<1>3. base \in Nat  BY <1>1, <1>2, SetupFacts
<1>4. sh \in Nat
  <2>1. PICK r : r = group[fr.g]  OBVIOUS
  <2>2. r \in Records  BY <1>2, <2>1 DEF MapTypes
  <2>3. r.Obytes \in Nat  BY <2>2 DEF Records
  <2> QED BY <1>1, <2>1, <2>3 DEF Shift
<1>5. PICK p : p = Place(f, b)  OBVIOUS
<1>6. p = b - 8 * base + 8 * sh  BY <1>1, <1>5 DEF Place
<1>7. p - 8 * d = b - 8 * a  BY <1>2, <1>3, <1>4, <1>6
<1> QED BY <1>1, <1>5, <1>7

LEMMA InPlaceHeld ==
  ASSUME MapInv, AllMapped, MemRight, Exchangeable, cycle > 0, \A u \in Setups : u.iomap \in Nat,
         NEW f \in fmmu, f.dir = "in", NEW b \in BitsOf(f)
  PROVE  b \in Nat /\ f.group \in Groups /\ Place(f, b) \in DOMAIN mem[f.group]
<1>1. MapTypes /\ ~Running  BY DEF MapInv, AllMapped, Running
<1>2. f.group \in Groups /\ f.start \in Nat /\ f.startbit \in 0 .. 7 /\ f.len \in Nat
  BY <1>1, FmmuFields
<1>3. PICK g, r, base, k : g = f.group /\ r = group[g] /\ base = Base(g) /\ k = setup.iomap
  OBVIOUS
<1>4. r \in Records /\ base \in Nat /\ Overlap \in BOOLEAN /\ k \in Nat
  BY <1>1, <1>2, <1>3, SetupFacts DEF MapTypes
<1>5. FmmuRight(f)  BY DEF MapInv
<1>6. Inside(f)  BY <1>1, <1>5 DEF FmmuRight
<1>7. PICK st, n, sb, o, i : /\ st = f.start /\ n = f.len /\ sb = f.startbit
                             /\ o = r.Obytes /\ i = r.Ibytes
  OBVIOUS
<1>8. o \in Nat /\ i \in Nat  BY <1>4, <1>7 DEF Records
<1>9. o + i <= k  BY <1>2, <1>3, <1>7 DEF Exchangeable
<1>10. b \in Nat /\ 8 * st + sb <= b /\ b < 8 * (st + n)  BY <1>1, <1>7, BitInside
<1>11. DOMAIN mem[g] = 0 .. 8 * k - 1  BY <1>2, <1>3 DEF MemRight, MemBits
<1>12. PICK p : p = Place(f, b)  OBVIOUS
<1>13. p \in 0 .. 8 * k - 1
  <2>1. CASE Overlap
    <3>1. base <= st /\ st + n <= base + i  BY <1>3, <1>6, <1>7, <2>1 DEF Inside, FirstInput
    <3>2. p = b - 8 * base + 8 * o  BY <1>3, <1>7, <1>12, <2>1 DEF Place, Shift
    <3> QED BY <1>2, <1>4, <1>7, <1>8, <1>9, <1>10, <3>1, <3>2
  <2>2. CASE ~Overlap
    <3>1. base + o <= st /\ st + n <= base + o + i
      BY <1>3, <1>6, <1>7, <2>2 DEF Inside, FirstInput
    <3>2. p = b - 8 * base + 8 * 0  BY <1>3, <1>12, <2>2 DEF Place, Shift
    <3> QED BY <1>2, <1>4, <1>7, <1>8, <1>9, <1>10, <3>1, <3>2
  <2> QED BY <2>1, <2>2
<1> QED BY <1>2, <1>3, <1>10, <1>11, <1>12, <1>13

\* A frame brings the inputs it was filled with, and disturbs no others.
LEMMA AnswerPuts ==
  ASSUME MapInv, AllMapped, MemRight, Exchangeable, cycle > 0, \A u \in Setups : u.iomap \in Nat,
         NEW fr, Shaped(fr), Whole(fr), CopyBack(fr),
         setup' = setup, group' = group, cycle' = cycle,
         NEW f \in fmmu, f.dir = "in", f.group = fr.g,
         IF f \in ReadBy(fr) THEN Filled(fr, f) ELSE Back(f)
  PROVE  Back(f)'
<1>1. MapTypes /\ fr.g \in Groups  BY DEF MapInv, Shaped
<1>2. ASSUME NEW b \in BitsOf(f)  PROVE mem'[f.group][Place(f, b)] = cycle
  <2>1. PICK g, p : g = f.group /\ p = Place(f, b)  OBVIOUS
  <2>2. b \in Nat /\ p \in DOMAIN mem[g]  BY <2>1, InPlaceHeld
  <2>3. CASE fr.cmd = "LWR"
    <3>1. mem' = mem  BY <2>3 DEF CopyBack
    <3>2. f \notin ReadBy(fr)  BY <2>3 DEF ReadBy
    <3> QED BY <2>1, <3>1, <3>2 DEF Back
  <2>4. CASE fr.cmd # "LWR"
    <3>1. PICK m : m = [c \in DOMAIN mem[g] |->
                    IF c - 8 * fr.data \in DOMAIN fr.bits
                    THEN fr.bits[c - 8 * fr.data] ELSE mem[g][c]]
      OBVIOUS
    <3>2. mem' = [mem EXCEPT ![g] = m]  BY <2>1, <2>4, <3>1 DEF CopyBack
    <3>3. mem'[g] = m  BY <1>1, <2>1, <3>2 DEF MemRight
    <3>4. PICK k : k = p - 8 * fr.data  OBVIOUS
    <3>5. k = b - 8 * fr.addr  BY <1>1, <2>1, <2>2, <2>4, <3>4, SamePlace
    <3>6. m[p] = IF k \in DOMAIN fr.bits THEN fr.bits[k] ELSE mem[g][p]
      BY <2>2, <3>1, <3>4
    <3>7. CASE f \in ReadBy(fr)
      <4>1. k \in DOMAIN fr.bits  BY <3>5, <3>7 DEF Whole
      <4>2. fr.bits[k] = cycle  BY <3>5, <3>7 DEF Filled
      <4> QED BY <2>1, <3>3, <3>6, <4>1, <4>2
    <3>8. CASE f \notin ReadBy(fr)
      <4>1. FrameBits(fr, f) = {}  BY <2>4, <3>8 DEF ReadBy, Hits
      <4>2. k \notin DOMAIN fr.bits  BY <3>5, <4>1 DEF FrameBits
      <4>3. mem[g][p] = cycle  BY <2>1, <3>8 DEF Back
      <4> QED BY <2>1, <3>3, <3>6, <4>2, <4>3
    <3> QED BY <3>7, <3>8
  <2> QED BY <2>3, <2>4
<1>3. \A b : Place(f, b)' = Place(f, b)  BY DEF Place, Base, Shift, Overlap
<1> QED BY <1>2, <1>3 DEF Back, BitsOf

\* The frame that is pulled.
LEMMA PulledFacts ==
  ASSUME Conducted, pulled < Len(idxstack), NEW n, n = Len(frames), NEW p, p = pulled + 1
  PROVE  /\ p \in 1 .. n /\ Pulled = frames[p] /\ n \in Nat /\ DOMAIN frames = 1 .. n
         /\ pulled \in Nat /\ p \in 0 .. Len(idxstack)
<1>1. PICK A : frames \in Seq(A)  BY DEF Conducted, FramesOk, IsSeq
<1>2. PICK B : idxstack \in Seq(B)  BY DEF Conducted, StackOk, IsSeq
<1>3. PICK m : m = Len(idxstack)  OBVIOUS
<1>4. n \in Nat /\ m \in Nat /\ DOMAIN frames = 1 .. n  BY <1>1, <1>2, <1>3
<1>5. m <= n /\ pulled \in 0 .. m /\ \A i \in 1 .. m : idxstack[i] = i
  BY <1>3 DEF Conducted, StackOk
<1>6. p \in 1 .. m /\ p \in 1 .. n /\ p \in 0 .. m  BY <1>3, <1>4, <1>5
<1>7. idxstack[p] = p  BY <1>5, <1>6
<1> QED BY <1>3, <1>4, <1>5, <1>6, <1>7 DEF Pulled

LEMMA PulledKeeps ==
  ASSUME Conducted, SameView, pulled < Len(idxstack), Pulled.at # "line",
         frames' = frames, idxstack' = idxstack, pulled' = pulled + 1
  PROVE  FramesOk' /\ StackOk'
<1>1. PICK n, p : n = Len(frames) /\ p = pulled + 1  OBVIOUS
<1>2. p \in 1 .. n /\ Pulled = frames[p] /\ n \in Nat /\ pulled \in Nat
      /\ p \in 0 .. Len(idxstack)
  BY <1>1, PulledFacts
<1>3. ASSUME NEW i \in 1 .. n, i <= p  PROVE frames[i].at # "line"
  <2>1. CASE i = p  BY <1>2, <2>1
  <2>2. CASE i # p
    <3>1. i <= pulled  BY <1>1, <1>2, <1>3, <2>2
    <3> QED BY <1>1, <1>3, <3>1 DEF Conducted, FramesOk
  <2> QED BY <2>1, <2>2
<1>4. FramesOk'  BY <1>1, <1>3, FramesKept DEF Conducted
<1>5. StackOk'  BY <1>1, <1>2 DEF Conducted, StackOk
<1> QED BY <1>4, <1>5

LEMMA AnswerConducts ==
  ASSUME MapInv, AllMapped, MemRight, Exchangeable, \A u \in Setups : u.iomap \in Nat,
         Unbroken, ReceivesSent, Conducted, PullAnswer, UNCHANGED mapVars
  PROVE  Conducted'
<1>1. setup' = setup /\ group' = group /\ fmmu' = fmmu /\ MapTypes  BY DEF mapVars, MapInv
<1>2. /\ version' = version /\ cycle' = cycle /\ tx' = tx /\ got' = got /\ frames' = frames
      /\ idxstack' = idxstack /\ result' = result
      /\ pulled' = pulled + 1 /\ rx # Idle /\ pulled < Len(idxstack)
      /\ Pulled.at = "back" /\ CopyBack(Pulled)
      /\ rx' = [rx EXCEPT !.wkc = Count(Pulled), !.valid = TRUE]
  BY DEF PullAnswer
<1>3. /\ tx = Idle /\ rx.g \in Groups /\ rx.wkc \in Nat
      /\ rx = [cmd |-> rx.cmd, g |-> rx.g, wkc |-> rx.wkc, valid |-> rx.valid]
  BY <1>2 DEF Conducted, RxOk
<1>4. PICK S, T \in SUBSET fmmu : Received(S, T) /\ AtMost(rx.wkc, S, T)
  BY <1>2 DEF Conducted, RxOk
<1>5. PICK n, p, fr : n = Len(frames) /\ p = pulled + 1 /\ fr = Pulled  OBVIOUS
<1>6. p \in 1 .. n /\ fr = frames[p] /\ n \in Nat /\ DOMAIN frames = 1 .. n /\ pulled \in Nat
  BY <1>2, <1>5, PulledFacts
<1>7. fr.at = "back" /\ Shaped(fr) /\ Tells(fr) /\ Whole(fr)
  <2>1. Travels(fr) /\ fr.at = "back" /\ Whole(fr)
    BY <1>2, <1>5, <1>6 DEF Conducted, FramesOk, Unbroken
  <2> QED BY <2>1 DEF Travels
<1>8. PICK U, V \in SUBSET fmmu : Served(fr, U, V) /\ AtMost(Worth(fr), U, V)
  BY <1>7 DEF Tells
<1>9. fr.g = rx.g  BY <1>2, <1>6 DEF ReceivesSent
<1>10. cycle > 0 /\ result.g \notin Groups
  BY <1>2 DEF Conducted, InCycle, ResultOk, AtRest
<1>11. SameView  BY <1>1, <1>2 DEF SameView, Taken
<1>12. S \cap ReadBy(fr) = {} /\ T \cap Written(fr) = {}
  <2>1. p \in pulled + 1 .. n  BY <1>5, <1>6
  <2> QED BY <1>4, <1>5, <1>6, <2>1 DEF Received
<1>13. U \subseteq ReadBy(fr) /\ V \subseteq Written(fr)  BY <1>8 DEF Served
<1>14. ASSUME NEW f \in S \cup U  PROVE Back(f)' /\ f \in Ins(rx.g)
  <2>1. f \in Ins(rx.g)
    BY <1>4, <1>9, <1>13 DEF Received, ReadBy, Hits, Ins
  <2>2. f \in fmmu /\ f.dir = "in" /\ f.group = fr.g  BY <1>9, <2>1 DEF Ins
  <2>3. IF f \in ReadBy(fr) THEN Filled(fr, f) ELSE Back(f)
    BY <1>4, <1>8, <1>12, <1>13 DEF Received, Served
  <2>4. CopyBack(fr)  BY <1>2, <1>5
  <2> QED BY <1>1, <1>2, <1>7, <1>10, <2>1, <2>2, <2>3, <2>4, AnswerPuts
<1>15. ASSUME NEW f \in T \cup V  PROVE Taken(f)' /\ f \in Outs(rx.g)
  <2>1. Taken(f) /\ f \in Outs(rx.g)
    BY <1>4, <1>8, <1>9, <1>13 DEF Received, Served, Written, Hits, Outs
  <2> QED BY <1>11, <2>1 DEF SameView
<1>16. ASSUME NEW j \in p + 1 .. n
       PROVE  (S \cup U) \cap ReadBy(frames[j]) = {} /\ (T \cup V) \cap Written(frames[j]) = {}
  <2>1. j \in pulled + 1 .. n /\ j \in 1 .. n /\ p < j  BY <1>5, <1>6, <1>16
  <2>2. S \cap ReadBy(frames[j]) = {} /\ T \cap Written(frames[j]) = {}
    BY <1>4, <1>5, <2>1 DEF Received
  <2>3. PICK y : y = frames[j]  OBVIOUS
  <2>4. Shaped(y) /\ Whole(y) /\ Before(fr, y)
    BY <1>5, <1>6, <2>1, <2>3 DEF Conducted, FramesOk, Travels, Unbroken
  <2>5. ReadBy(fr) \cap ReadBy(y) = {} /\ Written(fr) \cap Written(y) = {}
    BY <1>1, <1>7, <2>4, FramesApart
  <2> QED BY <1>13, <2>2, <2>3, <2>5
<1>17. PICK c : c = Count(fr)  OBVIOUS
<1>18. c \in Nat /\ AtMost(c, S \cup U, T \cup V)
  <2>1. PICK a, w : a = rx.wkc /\ w = Worth(fr)  OBVIOUS
  <2>2. a \in Nat  BY <1>3, <2>1
  <2>3. w \in Nat  BY <1>7, <2>1 DEF Worth, Shaped
  <2>4. AtMost(a, S, T)  BY <1>4, <2>1
  <2>5. AtMost(w, U, V)  BY <1>8, <2>1
  <2>6. S \cap U = {} /\ T \cap V = {}  BY <1>12, <1>13
  <2>7. AtMost(a + w, S \cup U, T \cup V) /\ AtMost(w, S \cup U, T \cup V)
    BY <2>2, <2>3, <2>4, <2>5, <2>6, MoreCounted
  <2>8. c = w \/ c = a + w  BY <1>17, <2>1 DEF Count, Worth
  <2> QED BY <2>2, <2>3, <2>7, <2>8
<1>19. rx' = [cmd |-> rx.cmd, g |-> rx.g, wkc |-> c, valid |-> TRUE]
  <2>1. PICK x : x = rx  OBVIOUS
  <2>2. x = [cmd |-> x.cmd, g |-> x.g, wkc |-> x.wkc, valid |-> x.valid]  BY <1>3, <2>1
  <2>3. rx' = [[x EXCEPT !.wkc = c] EXCEPT !.valid = TRUE]  BY <1>2, <1>5, <1>17, <2>1
  <2>4. PICK k, g, w, v : k = x.cmd /\ g = x.g /\ w = x.wkc /\ v = x.valid  OBVIOUS
  <2>5. x = [cmd |-> k, g |-> g, wkc |-> w, valid |-> v]  BY <2>2, <2>4
  <2>6. PICK y : y = [x EXCEPT !.wkc = c]  OBVIOUS
  <2>7. y = [cmd |-> k, g |-> g, wkc |-> c, valid |-> v]  BY <2>5, <2>6
  <2>8. PICK yes : yes = TRUE  OBVIOUS
  <2>9. [y EXCEPT !.valid = yes] = [cmd |-> k, g |-> g, wkc |-> c, valid |-> yes]  BY <2>7
  <2> QED BY <2>1, <2>3, <2>4, <2>6, <2>8, <2>9
<1>20. FramesOk' /\ StackOk'
  <2>1. Pulled.at # "line"  BY <1>2
  <2> QED BY <1>2, <1>11, <2>1, PulledKeeps
<1>22. RxOk'
  <2>1. Received(S \cup U, T \cup V)'
    <3>1. PICK g : g = rx.g  OBVIOUS
    <3>2. Ins(g)' = Ins(g) /\ Outs(g)' = Outs(g)  BY <1>1, ViewFacts
    <3>3. S \cup U \subseteq Ins(g)' /\ T \cup V \subseteq Outs(g)'
      BY <1>14, <1>15, <3>1, <3>2
    <3>4. S \cup U \subseteq Ins(rx.g)' /\ T \cup V \subseteq Outs(rx.g)'
      BY <1>19, <3>1, <3>3 DEF Ins, Outs
    <3>5. ASSUME NEW j \in p + 1 .. n
          PROVE  /\ (S \cup U) \cap ReadBy(frames[j])' = {}
                 /\ (T \cup V) \cap Written(frames[j])' = {}
      <4>1. PICK y : y = frames[j]  OBVIOUS
      <4>2. ReadBy(y)' = ReadBy(y) /\ Written(y)' = Written(y)  BY <1>1, ViewFacts
      <4>3. ReadBy(frames[j])' = ReadBy(y)' /\ Written(frames[j])' = Written(y)'
        BY <1>2, <4>1 DEF ReadBy, Written, Hits, FrameBits
      <4> QED BY <1>16, <4>1, <4>2, <4>3
    <3>6. pulled' + 1 = p + 1 /\ Len(frames') = n  BY <1>2, <1>5
    <3> QED BY <1>14, <1>15, <3>4, <3>5, <3>6 DEF Received
  <2>2. S \cup U \in SUBSET fmmu' /\ T \cup V \in SUBSET fmmu'  BY <1>1
  <2>3. rx'.cmd = rx.cmd /\ rx'.g = rx.g /\ rx'.wkc = c /\ rx'.valid = TRUE  BY <1>19
  <2>4. Groups' = Groups  BY <1>1 DEF Groups
  <2>5. \E X, Y \in SUBSET fmmu' : Received(X, Y)' /\ AtMost(c, X, Y)
    BY <1>18, <2>1, <2>2
  <2>6. rx' = [cmd |-> rx'.cmd, g |-> rx'.g, wkc |-> rx'.wkc, valid |-> rx'.valid]
    BY <1>19, <2>3
  <2>7. rx' # Idle
    <3>1. "wkc" \in DOMAIN rx' /\ "wkc" \notin DOMAIN Idle  BY <1>19 DEF Idle
    <3> QED BY <3>1
  <2> QED BY <1>2, <1>3, <1>18, <2>3, <2>4, <2>5, <2>6, <2>7 DEF RxOk, Idle
<1>23. TxOk'  BY <1>2, <1>3 DEF TxOk, Idle
<1>24. InCycle' /\ ResultOk'
  <2>1. Groups' = Groups  BY <1>1 DEF Groups
  <2> QED BY <1>2, <1>10, <2>1 DEF Conducted, InCycle, ResultOk
<1> QED BY <1>20, <1>22, <1>23, <1>24 DEF Conducted

LEMMA NothingConducts ==
  ASSUME Conducted, PullNothing, UNCHANGED mapVars
  PROVE  Conducted'
<1>1. setup' = setup /\ group' = group /\ fmmu' = fmmu  BY DEF mapVars
<1>2. /\ mem' = mem /\ version' = version /\ cycle' = cycle /\ tx' = tx /\ got' = got
      /\ frames' = frames /\ idxstack' = idxstack /\ result' = result /\ rx' = rx
      /\ pulled' = pulled + 1 /\ rx # Idle /\ pulled < Len(idxstack) /\ Pulled.at = "lost"
  BY DEF PullNothing
<1>3. /\ tx = Idle /\ rx.g \in Groups /\ rx.wkc \in Nat
      /\ rx = [cmd |-> rx.cmd, g |-> rx.g, wkc |-> rx.wkc, valid |-> rx.valid]
  BY <1>2 DEF Conducted, RxOk
<1>4. PICK S, T \in SUBSET fmmu : Received(S, T) /\ AtMost(rx.wkc, S, T)
  BY <1>2 DEF Conducted, RxOk
<1>5. SameView  BY <1>1, <1>2 DEF SameView, Taken
<1>6. FramesOk' /\ StackOk'
  <2>1. Pulled.at # "line"  BY <1>2
  <2> QED BY <1>2, <1>5, <2>1, PulledKeeps
<1>7. RxOk'
  <2>1. PICK g : g = rx.g  OBVIOUS
  <2>2. Ins(g)' = Ins(g) /\ Outs(g)' = Outs(g) /\ Groups' = Groups  BY <1>1, ViewFacts
  <2>3. S \subseteq Ins(rx.g)' /\ T \subseteq Outs(rx.g)'
    BY <1>2, <1>4, <2>1, <2>2 DEF Received, Ins, Outs
  <2>4. (\A f \in S : Back(f)') /\ \A f \in T : Taken(f)'
    BY <1>1, <1>2, <1>4, <1>5 DEF Received, SameView, Back, Place, Base, Shift, Overlap
  <2>6. ASSUME NEW j \in pulled' + 1 .. Len(frames)
        PROVE  S \cap ReadBy(frames[j])' = {} /\ T \cap Written(frames[j])' = {}
    <3>1. j \in pulled + 1 .. Len(frames)
      <4>1. PICK n, p : n = Len(frames) /\ p = pulled + 1  OBVIOUS
      <4>2. n \in Nat /\ pulled \in Nat /\ p \in Nat  BY <1>2, <4>1, PulledFacts
      <4> QED BY <1>2, <2>6, <4>1, <4>2
    <3>2. PICK y : y = frames[j]  OBVIOUS
    <3>3. S \cap ReadBy(y) = {} /\ T \cap Written(y) = {}  BY <1>4, <3>1, <3>2 DEF Received
    <3>4. ReadBy(y)' = ReadBy(y) /\ Written(y)' = Written(y)  BY <1>1, ViewFacts
    <3>5. ReadBy(frames[j])' = ReadBy(y)' /\ Written(frames[j])' = Written(y)'
      BY <1>2, <3>2 DEF ReadBy, Written, Hits, FrameBits
    <3> QED BY <3>3, <3>4, <3>5
  <2>7. Received(S, T)'  BY <1>2, <2>3, <2>4, <2>6 DEF Received
  <2>8. S \in SUBSET fmmu' /\ T \in SUBSET fmmu'  BY <1>1
  <2> QED BY <1>2, <1>3, <1>4, <2>2, <2>7, <2>8 DEF RxOk, Idle
<1>8. TxOk'  BY <1>2, <1>3 DEF TxOk, Idle
<1>9. InCycle' /\ ResultOk'
  <2>1. Groups' = Groups  BY <1>1 DEF Groups
  <2>2. cycle > 0 /\ result.g \notin Groups
    BY <1>2 DEF Conducted, InCycle, ResultOk, AtRest
  <2> QED BY <1>2, <2>1, <2>2 DEF Conducted, InCycle, ResultOk
<1> QED BY <1>6, <1>7, <1>8, <1>9 DEF Conducted

\* As much as all FMMUs are worth is only counted for all of them.
LEMMA AllCounted ==
  ASSUME NEW A, NEW B, NEW a \in Nat, NEW b \in Nat, Few(A, a), Few(B, b),
         NEW S \in SUBSET A, NEW T \in SUBSET B, NEW n \in Nat, AtMost(n, S, T), n >= 2 * b + a
  PROVE  S = A /\ T = B
<1>1. IsFiniteSet(A) /\ IsFiniteSet(B)  BY DEF Few
<1>2. PICK s, t, u, v : /\ s = Cardinality(S) /\ t = Cardinality(T)
                        /\ u = Cardinality(A) /\ v = Cardinality(B)
  OBVIOUS
<1>3. /\ IsFiniteSet(S) /\ Cardinality(S) <= Cardinality(A)
      /\ Cardinality(A) = Cardinality(S) => A = S
  BY <1>1, FS_Subset
<1>4. /\ IsFiniteSet(T) /\ Cardinality(T) <= Cardinality(B)
      /\ Cardinality(B) = Cardinality(T) => B = T
  BY <1>1, FS_Subset
<1>5. s \in Nat /\ t \in Nat /\ u \in Nat /\ v \in Nat
  BY <1>1, <1>2, <1>3, <1>4, FS_CardinalityType
<1>6. s <= u /\ t <= v /\ u <= a /\ v <= b /\ n <= s + 2 * t
  BY <1>2, <1>3, <1>4 DEF Few, AtMost
<1>7. u = s /\ v = t  BY <1>5, <1>6
<1> QED BY <1>2, <1>3, <1>4, <1>7

LEMMA EndConducts ==
  ASSUME MapInv, CountInv, Conducted, EndReceive, UNCHANGED mapVars
  PROVE  Conducted'
<1>1. setup' = setup /\ group' = group /\ fmmu' = fmmu /\ MapTypes  BY DEF mapVars, MapInv
<1>2. /\ mem' = mem /\ version' = version /\ cycle' = cycle /\ tx' = tx /\ got' = got
      /\ frames' = << >> /\ idxstack' = << >> /\ rx' = Idle /\ pulled' = 0
      /\ rx # Idle /\ pulled = Len(idxstack)
      /\ result' = [g |-> rx.g, wkc |-> IF rx.valid THEN rx.wkc ELSE NoFrame]
  BY DEF EndReceive
<1>3. tx = Idle /\ rx.g \in Groups /\ rx.wkc \in Nat  BY <1>2 DEF Conducted, RxOk
<1>4. PICK S, T \in SUBSET fmmu : Received(S, T) /\ AtMost(rx.wkc, S, T)
  BY <1>2 DEF Conducted, RxOk
<1>5. AtRest'  BY <1>2, <1>3 DEF AtRest, Idle
<1>6. PICK g, n : g = rx.g /\ n = rx.wkc  OBVIOUS
<1>7. ASSUME n >= ExpectedWkc(g), rx.valid
      PROVE  S = Ins(g) /\ T = Outs(g)
  <2>1. PICK r, a, b : r = group[g] /\ a = r.inputsWKC /\ b = r.outputsWKC  OBVIOUS
  <2>2. r \in Records  BY <1>1, <1>3, <1>6, <2>1 DEF MapTypes
  <2>3. a \in Nat /\ b \in Nat /\ n \in Nat  BY <1>3, <1>6, <2>1, <2>2 DEF Records
  <2>4. Few(Ins(g), a) /\ Few(Outs(g), b)  BY <1>3, <1>6, <2>1 DEF CountInv
  <2>5. S \in SUBSET Ins(g) /\ T \in SUBSET Outs(g)  BY <1>4, <1>6 DEF Received
  <2>6. n >= 2 * b + a  BY <1>7, <2>1 DEF ExpectedWkc
  <2>7. AtMost(n, S, T)  BY <1>4, <1>6
  <2>8. PICK A, B : A = Ins(g) /\ B = Outs(g)  OBVIOUS
  <2>9. S = A /\ T = B  BY <2>3, <2>4, <2>5, <2>6, <2>7, <2>8, AllCounted
  <2> QED BY <2>8, <2>9
<1>8. ASSUME result'.wkc >= ExpectedWkc(g)  PROVE n >= ExpectedWkc(g) /\ rx.valid
  <2>1. result'.wkc = IF rx.valid THEN n ELSE NoFrame  BY <1>2, <1>6
  <2>2. PICK r, a, b : r = group[g] /\ a = r.inputsWKC /\ b = r.outputsWKC  OBVIOUS
  <2>3. r \in Records  BY <1>1, <1>3, <1>6, <2>2 DEF MapTypes
  <2>4. a \in Nat /\ b \in Nat  BY <2>2, <2>3 DEF Records
  <2>5. ExpectedWkc(g) = 2 * b + a  BY <2>2 DEF ExpectedWkc
  <2>6. ~ (-1 >= 2 * b + a)  BY <2>4
  <2>7. ~ (NoFrame >= ExpectedWkc(g))  BY <2>5, <2>6 DEF NoFrame
  <2> QED BY <1>8, <2>1, <2>7
<1>9. Proven(g)'
  <2>1. Ins(g)' = Ins(g) /\ Outs(g)' = Outs(g) /\ ExpectedWkc(g)' = ExpectedWkc(g)
    BY <1>1, ViewFacts
  <2>2. ASSUME result'.wkc >= ExpectedWkc(g)
        PROVE  (\A f \in Outs(g) : Taken(f)') /\ \A f \in Ins(g) : Back(f)'
    <3>1. S = Ins(g) /\ T = Outs(g)  BY <1>7, <1>8, <2>2
    <3>2. (\A f \in S : Back(f)) /\ \A f \in T : Taken(f)  BY <1>4 DEF Received
    <3>3. (\A f \in S : Back(f)') /\ \A f \in T : Taken(f)'
      BY <1>1, <1>2, <3>2 DEF Taken, Back, Place, Base, Shift, Overlap
    <3> QED BY <3>1, <3>3
  <2> QED BY <2>1, <2>2 DEF Proven
<1>10. ResultOk'
  <2>1. result'.g = g  BY <1>2, <1>6
  <2>2. Proven(result.g)'  BY <1>9, <2>1 DEF Proven, Ins, Outs, ExpectedWkc
  <2> QED BY <1>5, <2>2 DEF ResultOk
<1>11. InCycle'
  <2>1. cycle \in Nat /\ cycle > 0  BY <1>2 DEF Conducted, InCycle, AtRest
  <2> QED BY <1>2, <2>1 DEF InCycle
<1>12. FramesOk' /\ StackOk'
  <2>1. << >> \in Seq({}) /\ Len(<< >>) = 0  OBVIOUS
  <2>2. IsSeq(<< >>)  BY <2>1 DEF IsSeq
  <2>3. StackOk'  BY <1>2, <2>1, <2>2 DEF StackOk
  <2> QED BY <1>2, <2>1, <2>2, <2>3 DEF FramesOk
<1>13. TxOk' /\ RxOk'  BY <1>2, <1>3 DEF TxOk, RxOk, Idle
<1> QED BY <1>10, <1>11, <1>12, <1>13 DEF Conducted

-----------------------------------------------------------------------------
\* All steps together.
LEMMA ConductedStays ==
  ASSUME Conducted, setup' = setup, group' = group, fmmu' = fmmu, UNCHANGED pvars
  PROVE  Conducted'
<1>1. /\ mem' = mem /\ got' = got /\ version' = version /\ cycle' = cycle /\ tx' = tx
      /\ frames' = frames /\ idxstack' = idxstack /\ pulled' = pulled /\ rx' = rx
      /\ result' = result
  BY DEF pvars
<1>2. SameView  BY <1>1 DEF SameView, Taken
<1>3. FramesOk'  BY <1>1, <1>2, FramesKept DEF Conducted, FramesOk
<1>4. StackOk'  BY <1>1 DEF Conducted, StackOk
<1>5. Groups' = Groups  BY DEF Groups
<1>6. InCycle'  BY <1>1, <1>5 DEF Conducted, InCycle, AtRest, Idle
<1>7. TxOk'
  <2>1. CASE tx = Idle  BY <1>1, <2>1 DEF TxOk, Idle
  <2>2. CASE tx # Idle
    <3>1. TxReady(tx)'  BY <1>1, <2>2, ReadyStays DEF Conducted, TxOk
    <3> QED BY <1>1, <2>2, <3>1 DEF Conducted, TxOk, Before
  <2> QED BY <2>1, <2>2
<1>8. \A f : Back(f)' = Back(f)  BY <1>1 DEF Back, Place, Base, Shift, Overlap
<1>9. RxOk'
  <2>1. CASE rx = Idle  BY <1>1, <2>1 DEF Conducted, RxOk, Idle
  <2>2. CASE rx # Idle
    <3>1. /\ tx = Idle /\ rx.g \in Groups /\ rx.wkc \in Nat
          /\ rx = [cmd |-> rx.cmd, g |-> rx.g, wkc |-> rx.wkc, valid |-> rx.valid]
      BY <2>2 DEF Conducted, RxOk
    <3>2. PICK S, T \in SUBSET fmmu : Received(S, T) /\ AtMost(rx.wkc, S, T)
      BY <2>2 DEF Conducted, RxOk
    <3>3. S \subseteq Ins(rx.g)' /\ T \subseteq Outs(rx.g)'
      BY <1>1, <3>2 DEF Received, Ins, Outs
    <3>4. (\A f \in S : Back(f)') /\ \A f \in T : Taken(f)'
      BY <1>2, <1>8, <3>2 DEF Received, SameView
    <3>5. \A j : ReadBy(frames[j])' = ReadBy(frames[j]) /\ Written(frames[j])' = Written(frames[j])
      BY <1>1 DEF ReadBy, Written, Hits, FrameBits
    <3>6. Received(S, T)'  BY <1>1, <3>2, <3>3, <3>4, <3>5 DEF Received
    <3>7. S \in SUBSET fmmu' /\ T \in SUBSET fmmu'  OBVIOUS
    <3> QED BY <1>1, <1>5, <2>2, <3>1, <3>2, <3>6, <3>7 DEF RxOk, Idle
  <2> QED BY <2>1, <2>2
<1>10. ResultOk'
  <2>1. CASE result.g \notin Groups  BY <1>1, <1>5, <2>1 DEF ResultOk
  <2>2. CASE result.g \in Groups
    <3>1. PICK g : g = result.g  OBVIOUS
    <3>2. AtRest /\ Proven(g)  BY <2>2, <3>1 DEF Conducted, ResultOk
    <3>3. Proven(result.g)'
      BY <1>1, <1>2, <1>8, <3>1, <3>2 DEF Proven, Ins, Outs, ExpectedWkc, SameView
    <3>4. AtRest'  BY <1>1, <3>2 DEF AtRest, Idle
    <3> QED BY <3>3, <3>4 DEF ResultOk
  <2> QED BY <2>1, <2>2
<1> QED BY <1>3, <1>4, <1>6, <1>7, <1>9, <1>10 DEF Conducted

LEMMA WkcStepKeeps ==
  ASSUME MapInv, CountInv, SegInv, HeadInv, KeptInv, WkcInv, WriteInFlight = FALSE,
         OneGroup = TRUE, \A u \in Setups : u.iomap \in Nat,
         Unbroken, ReceivesSent, Exchangeable, Exchangeable',
         [NextProcess]_<<mapVars, pvars>>
  PROVE  WkcInv'
<1>1. CASE MapStep /\ UNCHANGED pvars
  <2>1. setup' = setup
    BY <1>1 DEF MapStep, StartMap, MapOutput, SkipOutput, EndOutputs, MapInput, SkipInput,
                EndInputs, MapBoth, SkipBoth, EndBoth
  <2>2. ~AllMapped
    <3>1. CASE \E g \in Groups : StartMap(g)  BY <3>1 DEF AllMapped, StartMap
    <3>2. CASE ~ \E g \in Groups : StartMap(g)
      BY <1>1, <3>2 DEF AllMapped, MapStep, MapOutput, SkipOutput, EndOutputs, MapInput,
                        SkipInput, EndInputs, MapBoth, SkipBoth, EndBoth
    <3> QED BY <3>1, <3>2
  <2>3. Resting'  BY <1>1, <2>1, <2>2, RestStays DEF WkcInv
  <2> QED BY <2>3 DEF WkcInv
<1>2. CASE AllMapped /\ Exchange /\ UNCHANGED mapVars
  <2>1. AllMapped' = AllMapped  BY <1>2 DEF AllMapped, mapVars, Groups
  <2>2. Exchanging /\ MemRight  BY PristineExchanges DEF KeptInv, Exchanging
  <2>3. Conducted  BY RestIsConducted DEF WkcInv
  <2>4. CASE WriteOutputs
    <3>1. Resting'  BY <1>2, <2>3, <2>4, WriteRests
    <3> QED BY <3>1 DEF WkcInv
  <2>5. CASE ~WriteOutputs
    <3>1. CASE \E g \in Groups : StartSend(g)  BY <1>2, <2>1, <2>3, <3>1, StartConducts DEF WkcInv
    <3>2. CASE \E g \in Groups : StartReceive(g)
      BY <1>2, <2>1, <2>3, <3>2, ReceiveConducts DEF WkcInv
    <3>3. CASE SendFrame
      <4>1. cycle > 0
        <5>1. tx # Idle  BY <3>3 DEF SendFrame
        <5> QED BY <2>3, <5>1 DEF Conducted, InCycle, AtRest
      <4> QED BY <1>2, <2>1, <2>2, <2>3, <3>3, <4>1, SendConducts DEF WkcInv
    <3>4. CASE \E R \in SUBSET Slaves, back \in BOOLEAN : Cross(R, back)
      BY <1>2, <2>1, <2>3, <3>4, CrossConducts DEF WkcInv
    <3>5. CASE PullAnswer  BY <1>2, <2>1, <2>2, <2>3, <3>5, AnswerConducts DEF WkcInv
    <3>6. CASE PullNothing  BY <1>2, <2>1, <2>3, <3>6, NothingConducts DEF WkcInv
    <3>7. CASE EndReceive  BY <1>2, <2>1, <2>3, <3>7, EndConducts DEF WkcInv
    <3> QED BY <1>2, <2>5, <3>1, <3>2, <3>3, <3>4, <3>5, <3>6, <3>7 DEF Exchange
  <2> QED BY <2>4, <2>5
<1>3. CASE UNCHANGED <<mapVars, pvars>>
  <2>1. /\ setup' = setup /\ group' = group /\ fmmu' = fmmu /\ phase' = phase
        /\ UNCHANGED pvars
    BY <1>3 DEF mapVars
  <2>2. AllMapped' = AllMapped  BY <2>1 DEF AllMapped, Groups
  <2>3. Resting => Resting'  BY <2>1, RestStays
  <2>4. Conducted => Conducted'  BY <2>1, ConductedStays
  <2> QED BY <2>2, <2>3, <2>4 DEF WkcInv
<1> QED BY <1>1, <1>2, <1>3 DEF NextProcess

LEMMA WkcStart ==
  ASSUME InitProcess  PROVE WkcInv
<1>1. /\ tx = Idle /\ rx = Idle /\ frames = << >> /\ idxstack = << >> /\ pulled = 0
      /\ cycle = 0 /\ result.g = NoMap /\ setup \in Setups
  BY DEF InitProcess, MapInit
<1>2. NoMap \notin Groups
  <2>1. Groups \subseteq Nat  BY <1>1, LayoutAssumption DEF LayoutAssumption, Groups
  <2> QED BY <2>1 DEF NoMap
<1>3. cycle \in Nat  BY <1>1
<1> QED BY <1>1, <1>2, <1>3 DEF WkcInv, Resting, AtRest

\* Where the application reads is where the inputs are.
LEMMA LeastOf ==
  ASSUME NEW S \in SUBSET Nat, S # {}
  PROVE  \E m \in S : \A x \in S : m <= x
<1> SUFFICES ASSUME \A m \in S : \E x \in S : ~ (m <= x)  PROVE FALSE  OBVIOUS
<1>1. PICK T : T = {n \in Nat : \A x \in S : n <= x}  OBVIOUS
<1>2. 0 \in T  BY <1>1
<1>3. ASSUME NEW n \in Nat, n \in T  PROVE n + 1 \in T
  <2>1. n \notin S /\ \A x \in S : n <= x  BY <1>1, <1>3
  <2>2. \A x \in S : n + 1 <= x  BY <2>1
  <2> QED BY <1>1, <2>2
<1>4. Nat \subseteq T  BY <1>2, <1>3, Induction
<1>5. PICK x \in S : TRUE  OBVIOUS
<1>6. x + 1 \in T  BY <1>4, <1>5
<1>7. x + 1 <= x  BY <1>1, <1>5, <1>6
<1> QED BY <1>5, <1>7

LEMMA SomeFirst ==
  ASSUME MapTypes, NEW f \in fmmu, NEW s, s = f.slave, NEW d, d = f.dir,
         NEW h, h = CHOOSE x \in FirstOf(s, d) : TRUE
  PROVE  h \in fmmu /\ h.slave = s /\ h.dir = d /\ Leads(h)
<1>1. PICK M, S : /\ M = {x \in fmmu : x.slave = s /\ x.dir = d}
                  /\ S = {x.start : x \in M}
  OBVIOUS
<1>2. S \in SUBSET Nat /\ f.start \in S
  <2>1. \A x \in M : x.start \in Nat  BY <1>1, FmmuFields
  <2> QED BY <1>1, <2>1
<1>3. PICK m \in S : \A x \in S : m <= x  BY <1>2, LeastOf
<1>4. PICK x \in M : x.start = m  BY <1>1, <1>3
<1>5. x \in FirstOf(s, d)  BY <1>1, <1>3, <1>4 DEF FirstOf
<1>6. h \in FirstOf(s, d)  BY <1>5
<1> QED BY <1>6 DEF FirstOf, Leads

LEMMA BackIsFresh ==
  ASSUME OneMapping, MapInv, PointInv, AllMapped, Exchangeable, cycle > 0,
         NEW g \in Groups, \A f \in Ins(g) : Back(f)
  PROVE  InputsFresh(g)
<1>1. MapTypes  BY DEF MapInv
<1>2. ASSUME NEW f \in fmmu, f.group = g, f.dir = "in",
             NEW off, off = inputs[f.slave].off + f.start
                              - (CHOOSE h \in FirstOf(f.slave, "in") : TRUE).start,
             NEW k \in 0 .. Cardinality(BitsOf(f)) - 1
      PROVE  mem[g][8 * off + f.startbit + k] = cycle
  <2>1. PICK h, s, d : /\ s = f.slave /\ d = f.dir
                       /\ h = CHOOSE x \in FirstOf(s, d) : TRUE
    OBVIOUS
  <2>2. h \in fmmu /\ h.slave = s /\ h.dir = d /\ Leads(h)  BY <1>1, <2>1, SomeFirst
  <2>3. h.group \in Groups /\ s \in Slaves  BY <1>1, <2>1, <2>2, FmmuFields
  <2>4. InGroup(s, h.group) /\ InGroup(s, g)  BY <1>2, <2>1, <2>2 DEF PointInv
  <2>5. h.group = g  BY <1>1, <2>3, <2>4, SameGroup
  <2>6. PICK r, base, sh, z, st, sb, p :
          /\ r = group[g] /\ base = Base(g) /\ sh = Shift(g) /\ z = h.start
          /\ st = f.start /\ sb = f.startbit /\ p = inputs[s].off
    OBVIOUS
  <2>7. r \in Records /\ base \in Nat /\ Overlap \in BOOLEAN /\ r.mapped
    BY <1>1, <2>6, SetupFacts DEF MapTypes, AllMapped
  <2>8. z \in Nat /\ st \in Nat /\ sb \in 0 .. 7  BY <1>1, <1>2, <2>2, <2>6, FmmuFields
  <2>9. sh \in Nat /\ p = z - base + sh
    <3>1. r.Obytes \in Nat  BY <2>7 DEF Records
    <3>2. CASE Overlap
      <4>1. Undisturbed(g)  BY DEF Exchangeable
      <4>2. inputs[s] = ShiftedAt(h)
        BY <1>2, <2>1, <2>2, <2>5, <2>6, <2>7, <3>2, <4>1 DEF PointInv, Shifted
      <4>3. p = z - base + r.Obytes  BY <2>5, <2>6, <4>2 DEF ShiftedAt
      <4> QED BY <2>6, <3>1, <3>2, <4>3 DEF Shift
    <3>3. CASE ~Overlap
      <4>1. inputs[s] = At(h)
        BY <1>2, <2>1, <2>2, <2>3, <3>3 DEF PointInv, PointsAt
      <4>2. p = z - base  BY <2>5, <2>6, <4>1 DEF At
      <4>3. sh = 0  BY <2>6, <3>3 DEF Shift
      <4> QED BY <2>7, <2>8, <4>2, <4>3
    <3> QED BY <3>2, <3>3
  <2>10. off = p + st - z  BY <1>2, <2>1, <2>6
  <2>11. off = st - base + sh  BY <2>7, <2>8, <2>9, <2>10
  <2>12. PICK lo, hi : lo = 8 * st + sb /\ hi = 8 * (st + f.len - 1) + f.endbit  OBVIOUS
  <2>13. lo \in Int /\ hi \in Int
    <3>1. f.len \in Nat /\ f.endbit \in 0 .. 7  BY <1>1, FmmuFields
    <3> QED BY <2>8, <2>12, <3>1
  <2>14. BitsOf(f) = lo .. hi  BY <2>6, <2>12 DEF BitsOf
  <2>15. k \in Nat /\ lo + k \in lo .. hi
    <3>1. Cardinality(lo .. hi) = IF lo > hi THEN 0 ELSE hi - lo + 1  BY <2>13, FS_Interval
    <3>2. k \in 0 .. (IF lo > hi THEN 0 ELSE hi - lo + 1) - 1  BY <1>2, <2>14, <3>1
    <3> QED BY <2>13, <3>2
  <2>16. PICK b : b = lo + k  OBVIOUS
  <2>17. Back(f) /\ b \in BitsOf(f)  BY <1>2, <2>14, <2>15, <2>16 DEF Ins
  <2>18. mem[g][Place(f, b)] = cycle  BY <1>2, <2>17 DEF Back
  <2>19. Place(f, b) = b - 8 * base + 8 * sh  BY <1>2, <2>6 DEF Place
  <2>20. b - 8 * base + 8 * sh = 8 * off + sb + k
    BY <2>7, <2>8, <2>9, <2>11, <2>12, <2>15, <2>16
  <2> QED BY <2>6, <2>18, <2>19, <2>20
<1> QED BY <1>2 DEF InputsFresh

\* The work counter proves the cycle: when a group is received with at least the counter
\* that is expected of it, every slave of the group has taken the outputs and each input
\* that the application reads is of this cycle, whatever frames are lost and whichever
\* slaves are silent.  Where the application sends and receives one group after the
\* other, does not write in between and has an IOmap for the whole image; where no FMMU
\* is cut by a frame, and an overlapped image is exchanged by LRW and is the only one.
THEOREM WkcProvesCycleAlways ==
  ASSUME OneMapping, FrameHolds, OneGroup = TRUE, WriteInFlight = FALSE,
         \A u \in Setups : u.iomap \in Nat
  PROVE  ProcessSpec /\ []ImageFits /\ []SegmentsLeft /\ []Unbroken /\ []Exchangeable
           /\ []ReceivesSent => []WkcProvesCycle
<1>1. InitProcess => PointInv /\ SegInv /\ HeadInv /\ KeptInv /\ CountInv /\ WkcInv
  <2> SUFFICES ASSUME InitProcess
               PROVE  PointInv /\ SegInv /\ HeadInv /\ KeptInv /\ CountInv /\ WkcInv
    OBVIOUS
  <2>1. fmmu = {} /\ outputs = [s \in Slaves |-> Null] /\ inputs = [s \in Slaves |-> Null]
    BY DEF InitProcess, MapInit
  <2>2. PointInv  BY <2>1 DEF PointInv, PointsAt
  <2>3. CountInv  BY CountStart DEF InitProcess
  <2> QED BY <2>2, <2>3, KeptStart, WkcStart
<1>2. /\ MapInv /\ PointInv /\ SegInv /\ HeadInv /\ KeptInv /\ CountInv /\ WkcInv
      /\ SegmentsLeft /\ Unbroken /\ ReceivesSent /\ Exchangeable /\ Exchangeable'
      /\ [NextProcess]_<<mapVars, pvars>>
      => PointInv' /\ SegInv' /\ HeadInv' /\ KeptInv' /\ CountInv' /\ WkcInv'
  <2> SUFFICES ASSUME MapInv, PointInv, SegInv, HeadInv, KeptInv, CountInv, WkcInv,
                      SegmentsLeft, Unbroken, ReceivesSent, Exchangeable, Exchangeable',
                      [NextProcess]_<<mapVars, pvars>>
               PROVE  PointInv' /\ SegInv' /\ HeadInv' /\ KeptInv' /\ CountInv' /\ WkcInv'
    OBVIOUS
  <2>1. KeptInv'  BY KeptStepKeeps
  <2>2. WkcInv'  BY WkcStepKeeps
  <2>3. CASE MapStep
    BY <2>1, <2>2, <2>3, PointStepKeeps, SegStepKeeps, HeadStepKeeps, CountStepKeeps
  <2>4. CASE UNCHANGED mapVars
    <3>1. setup' = setup /\ group' = group /\ fmmu' = fmmu  BY <2>4 DEF mapVars
    <3>2. CountInv'  BY <3>1, CountStays
    <3> QED BY <2>1, <2>2, <2>4, <3>1, <3>2, PointStutters, SegStutters, HeadStays
  <2> QED BY <2>3, <2>4 DEF NextProcess
<1>3. MapInv /\ PointInv /\ WkcInv /\ Exchangeable => WkcProvesCycle
  <2> SUFFICES ASSUME MapInv, PointInv, WkcInv, Exchangeable, result.g \in Groups,
                      result.wkc >= ExpectedWkc(result.g)
               PROVE  OutputsTaken(result.g) /\ InputsFresh(result.g)
    BY DEF WkcProvesCycle
  <2>1. PICK g \in Groups : g = result.g  OBVIOUS
  <2>2. AllMapped /\ Proven(g) /\ cycle > 0
    BY <2>1 DEF WkcInv, Resting, Conducted, ResultOk, InCycle
  <2>3. (\A f \in Outs(g) : Taken(f)) /\ \A f \in Ins(g) : Back(f)
    BY <2>1, <2>2 DEF Proven
  <2>4. OutputsTaken(g)  BY <2>3 DEF OutputsTaken, Outs, Taken
  <2>5. InputsFresh(g)  BY <2>2, <2>3, BackIsFresh
  <2> QED BY <2>1, <2>4, <2>5
<1> QED BY <1>1, <1>2, <1>3, MapInvAlways, PTL DEF ProcessSpec

-----------------------------------------------------------------------------
(* The slave that measures.                                                *)

\* Frames of the current answer that storeFT has not seen.
Outstanding == replies \cup ({rxb0, rxb1} \ {NoCanFrame})

Quiet == txPending = {} /\ replies = {} /\ rxb0 = NoCanFrame /\ rxb1 = NoCanFrame

Asked ==
  /\ txPending = {txbuf} /\ replies = {} /\ rxb0 = NoCanFrame /\ rxb1 = NoCanFrame
  /\ stored = 0

\* No frame is in two places.
Apart ==
  /\ rxb0 \notin replies /\ rxb1 \notin replies
  /\ rxb0 = rxb1 => rxb0 = NoCanFrame

Answered ==
  /\ txPending = {} /\ Apart
  /\ IsFiniteSet(Outstanding) /\ Cardinality(Outstanding) = 4 - stored
  /\ \A a \in Axes : ft[a] = sample \/ [id |-> a, sample |-> sample] \in Outstanding

Answer == [id : Ids, sample : {sample}]

Types ==
  /\ pc \in {"idle", "free", "sent", "poll", "read", "task", "publish"}
  /\ stored \in 0 .. 4 /\ sample \in Samples
  /\ ft \in [Axes -> Samples \cup {Junk}]
  /\ replies \subseteq Answer
  /\ rxb0 \in Answer \cup {NoCanFrame} /\ rxb1 \in Answer \cup {NoCanFrame}

Stages ==
  /\ pc \in {"idle", "free", "task", "publish"} => Quiet
  /\ pc \in {"sent", "poll", "read"} => Asked \/ Answered
  /\ pc \in {"free", "sent"} => stored = 0
  /\ pc \in {"poll", "read"} => stored <= 3
  /\ pc = "read" => Available
  /\ pc \in {"task", "publish"} => ft = [a \in Axes |-> sample]

\* The sample in the input buffer is the sensor's last or the one before it,
\* the master's is that of the input buffer or the one before it.
Chain ==
  \E b, c \in Samples :
    /\ BufferIn = [a \in Axes |-> b] /\ core = [a \in Axes |-> c]
    /\ c = b \/ Next1(c) = b
    /\ IF pc \in {"idle", "free"} \/ txPending # {} THEN b = sample ELSE Next1(b) = sample
    /\ pc = "publish" => c = b

FtInv == Types /\ Stages /\ Chain

-----------------------------------------------------------------------------
(* Facts about samples and frames.                                          *)

\* Numbering wraps inside Samples.
LEMMA NextSample == \A n \in Samples : Next1(n) \in Samples
  BY FtAssumption DEF FtAssumption, Samples, Next1

\* No answer looks like an empty receive buffer.
LEMMA AnswerIsFrame == NoCanFrame \notin Answer
  BY DEF Answer, NoCanFrame, Ids, Axes

\* A sample answers with four different frames.
LEMMA FourFrames ==
  ASSUME NEW s
  PROVE  LET R == {[id |-> d, sample |-> s] : d \in Ids}
         IN  IsFiniteSet(R) /\ Cardinality(R) = 4
<1> DEFINE F(d) == [id |-> d, sample |-> s]
           R1 == {} \cup {F("x")}
           R2 == R1 \cup {F("y")}
           R3 == R2 \cup {F("z")}
           R4 == R3 \cup {F("status")}
<1>1. /\ F("x") # F("y") /\ F("x") # F("z") /\ F("x") # F("status")
      /\ F("y") # F("z") /\ F("y") # F("status") /\ F("z") # F("status")
  OBVIOUS
<1> HIDE DEF F
<1>2. IsFiniteSet(R1) /\ Cardinality(R1) = 1
  BY FS_EmptySet, FS_AddElement
<1>3. IsFiniteSet(R2) /\ Cardinality(R2) = 2
  BY <1>1, <1>2, FS_AddElement
<1>4. IsFiniteSet(R3) /\ Cardinality(R3) = 3
  BY <1>1, <1>3, FS_AddElement
<1>5. IsFiniteSet(R4) /\ Cardinality(R4) = 4
  BY <1>1, <1>4, FS_AddElement
<1>6. R4 = {F(d) : d \in Ids}
  BY DEF Ids, Axes
<1> QED BY <1>5, <1>6 DEF F

-----------------------------------------------------------------------------
(* The invariant.                                                           *)

\* The program starts between two cycles, with nothing sent.
LEMMA InitFtInv == Init => FtInv
<1> SUFFICES ASSUME Init PROVE FtInv
  OBVIOUS
<1>1. 0 \in Samples
  BY FtAssumption DEF FtAssumption, Samples
<1>2. Types
  BY <1>1 DEF Init, Types, Answer
<1>3. Stages
  BY DEF Init, Stages, Quiet
<1>4. Chain
  BY <1>1 DEF Init, Chain
<1> QED BY <1>2, <1>3, <1>4 DEF FtInv

\* The timer interrupt.
LEMMA MainFunctionKeeps == FtInv /\ mainFunction => FtInv'
<1> SUFFICES ASSUME FtInv, mainFunction PROVE FtInv'
  OBVIOUS
<1> USE DEF FtInv, mainFunction, shield, can
<1>1. Types'
  BY DEF Types, Answer
<1>2. Stages'
  BY DEF Stages, Quiet
<1>3. Chain'
  BY DEF Stages, Quiet, Chain
<1> QED BY <1>1, <1>2, <1>3

\* sendMsg puts the request into the transmit buffer that it then watches.
LEMMA LoadTxKeeps == FtInv /\ LoadTx => FtInv'
<1> SUFFICES ASSUME FtInv, LoadTx PROVE FtInv'
  OBVIOUS
<1>q. Quiet /\ stored = 0 /\ pc = "free"
  BY DEF FtInv, LoadTx, Stages
<1>a. Asked'
  BY <1>q DEF LoadTx, Quiet, Asked
<1>1. Types'
  BY DEF FtInv, LoadTx, Types, Answer, shield
<1>2. Stages'
  BY <1>a, <1>q DEF LoadTx, Stages
<1>3. Chain'
  BY <1>q DEF FtInv, LoadTx, Chain, shield
<1> QED BY <1>1, <1>2, <1>3 DEF FtInv

\* Polling the transmit buffer.
LEMMA StillPendingKeeps == FtInv /\ StillPending => FtInv'
<1> SUFFICES ASSUME FtInv, StillPending PROVE FtInv'
  OBVIOUS
<1> USE DEF FtInv, StillPending, shield, can
<1>1. Types'
  BY DEF Types, Answer
<1>2. Stages'
  BY DEF Stages, Quiet, Asked, Answered, Outstanding, Apart
<1>3. Chain'
  BY DEF Chain
<1> QED BY <1>1, <1>2, <1>3

\* sendMsg returns, with the request sent or not.
LEMMA EndSendKeeps == FtInv /\ EndSend => FtInv'
<1> SUFFICES ASSUME FtInv, EndSend PROVE FtInv'
  OBVIOUS
<1> USE DEF FtInv, EndSend, shield, can
<1>1. Types'
  BY DEF Types, Answer
<1>2. Stages'
  BY DEF Stages, Quiet, Asked, Answered, Outstanding, Apart
<1>3. Chain'
  BY DEF Chain
<1> QED BY <1>1, <1>2, <1>3

\* storeFT has seen that there is a frame.
LEMMA CheckReceiveKeeps == FtInv /\ checkReceive => FtInv'
<1> SUFFICES ASSUME FtInv, checkReceive PROVE FtInv'
  OBVIOUS
<1> USE DEF FtInv, checkReceive, local, shield, can
<1>1. Types'
  BY DEF Types, Answer
<1>2. Stages'
  BY DEF Stages, Quiet, Asked, Answered, Outstanding, Apart, Available
<1>3. Chain'
  BY DEF Chain
<1> QED BY <1>1, <1>2, <1>3

\* The shield exchanges its data: the master's image moves one sample on.
LEMMA MainTaskKeeps ==
  ASSUME NEW op \in BOOLEAN
  PROVE  FtInv /\ MainTask(op) => FtInv'
<1> SUFFICES ASSUME FtInv, MainTask(op) PROVE FtInv'
  OBVIOUS
<1> USE DEF FtInv, MainTask, local, can
<1>1. Types'
  BY DEF Types, Answer
<1>2. Stages'
  BY DEF Stages, Quiet
<1>3. Chain'
  BY DEF Chain
<1> QED BY <1>1, <1>2, <1>3

\* The sample of this cycle goes into the input buffer.
LEMMA SendToMasterKeeps == FtInv /\ sendToMaster => FtInv'
<1> SUFFICES ASSUME FtInv, sendToMaster PROVE FtInv'
  OBVIOUS
<1>1. Types'
  BY DEF FtInv, sendToMaster, local, can, Types, Answer
<1>2. Stages'
  BY DEF FtInv, sendToMaster, local, can, Stages, Quiet
<1>q. pc = "publish" /\ txPending = {} /\ ft = [a \in Axes |-> sample]
  BY DEF FtInv, sendToMaster, Stages, Quiet
<1>3. PICK b \in Samples : core = [a \in Axes |-> b] /\ Next1(b) = sample
  BY <1>q DEF FtInv, Chain
<1>4. Chain'
  BY <1>q, <1>3 DEF FtInv, Types, sendToMaster, can, Chain
<1> QED BY <1>1, <1>2, <1>4 DEF FtInv

\* A frame of the answer is read from the receive buffer it is in.
LEMMA StoreFTKeeps == FtInv /\ storeFT => FtInv'
<1> SUFFICES ASSUME FtInv, storeFT PROVE FtInv'
  OBVIOUS
<1>1. PICK f : f = IF rxb0 # NoCanFrame THEN rxb0 ELSE rxb1
  OBVIOUS
<1>2. /\ pc = "read" /\ Answered /\ stored <= 3 /\ f # NoCanFrame
  BY <1>1 DEF FtInv, storeFT, Stages, Asked, Available
<1>3. f \in Outstanding /\ f \in Answer /\ Assign(f)
  BY <1>1, <1>2 DEF Outstanding, FtInv, Types, storeFT
<1>4. Outstanding' = Outstanding \ {f}
  <2>1. CASE rxb0 # NoCanFrame
    BY <1>1, <1>2, <2>1 DEF storeFT, Outstanding, Answered, Apart
  <2>2. CASE rxb0 = NoCanFrame
    BY <1>1, <1>2, <2>2 DEF storeFT, Outstanding, Answered, Apart
  <2> QED BY <2>1, <2>2
<1>5. IsFiniteSet(Outstanding') /\ Cardinality(Outstanding') = 4 - stored'
  <2>1. IsFiniteSet(Outstanding \ {f})
        /\ Cardinality(Outstanding \ {f}) = Cardinality(Outstanding) - 1
    BY <1>2, <1>3, FS_RemoveElement DEF Answered
  <2> QED BY <1>2, <1>4, <2>1 DEF Answered, storeFT, FtInv, Types
<1>6. ft' \in [Axes -> Samples \cup {Junk}]
      /\ \A a \in Axes : ft'[a] = IF f.id = a THEN f.sample ELSE ft[a]
  BY <1>3 DEF FtInv, Types, Assign, Answer
<1>7. \A a \in Axes :
        ft'[a] = sample \/ [id |-> a, sample |-> sample] \in Outstanding'
  BY <1>2, <1>3, <1>4, <1>6 DEF Answered, Answer
<1>8. Answered'
  <2>1. NoCanFrame \notin replies
    BY AnswerIsFrame DEF FtInv, Types
  <2>2. Apart'
    BY <1>2, <2>1 DEF Answered, Apart, storeFT
  <2> QED BY <1>2, <1>5, <1>7, <2>2 DEF Answered, storeFT
<1>9. Types'
  BY <1>2, <1>6 DEF FtInv, Types, storeFT, AfterStore, Answer
<1>10. stored' = 4 => Quiet' /\ ft' = [a \in Axes |-> sample']
  <2> SUFFICES ASSUME stored' = 4 PROVE Quiet' /\ ft' = [a \in Axes |-> sample]
    BY DEF storeFT
  <2>1. Outstanding' = {}
    BY <1>5, FS_EmptySet
  <2> QED BY <1>2, <1>6, <1>7, <2>1 DEF Quiet, Outstanding, Answered, storeFT
<1>11. Stages'
  BY <1>2, <1>8, <1>10 DEF FtInv, Types, Stages, storeFT, AfterStore
<1>12. Chain'
  BY <1>2 DEF FtInv, Chain, storeFT, AfterStore, shield
<1> QED BY <1>9, <1>11, <1>12 DEF FtInv

\* The request goes out and the sensor takes the next sample.
LEMMA TransmitKeeps ==
  ASSUME NEW i
  PROVE  FtInv /\ Transmit(i) => FtInv'
<1> SUFFICES ASSUME FtInv, Transmit(i) PROVE FtInv'
  OBVIOUS
<1>1. Asked /\ pc \in {"sent", "poll"}
  BY DEF FtInv, Types, Stages, Transmit, Quiet, Answered, Asked, Available
<1>2. sample' \in Samples /\ sample' = Next1(sample)
  BY NextSample DEF FtInv, Types, Transmit
<1>3. replies' = {[id |-> d, sample |-> sample'] : d \in Ids}
  BY <1>1 DEF Transmit, Asked
<1>4. Outstanding' = replies'
  BY <1>1 DEF Transmit, Asked, Outstanding
<1>5. IsFiniteSet(replies') /\ Cardinality(replies') = 4
  BY <1>3, FourFrames
<1>6. replies' \subseteq Answer'
  BY <1>3 DEF Answer
<1>7. Types'
  BY <1>1, <1>2, <1>6 DEF FtInv, Types, Transmit, local, Asked
<1>8. Apart'
  BY <1>1, <1>6, AnswerIsFrame DEF Apart, Transmit, Asked, Answer, NoCanFrame, Ids, Axes
<1>9. \A a \in Axes : [id |-> a, sample |-> sample'] \in Outstanding'
  BY <1>3, <1>4 DEF Ids
<1>10. Answered'
  BY <1>1, <1>4, <1>5, <1>8, <1>9 DEF Answered, Asked, Transmit, local
<1>11. Stages'
  BY <1>1, <1>10 DEF FtInv, Stages, Transmit, local
<1>12. Chain'
  <2>1. txPending # {} /\ txPending' = {}
    BY <1>1 DEF Asked, Transmit
  <2> QED BY <1>1, <1>2, <2>1 DEF FtInv, Chain, Transmit, shield
<1> QED BY <1>7, <1>11, <1>12 DEF FtInv

\* A frame of the answer moves from the bus into a receive buffer.
LEMMA ArriveKeeps ==
  ASSUME Paced, NEW f
  PROVE  FtInv /\ Arrive(f) => FtInv'
<1> SUFFICES ASSUME FtInv, Arrive(f) PROVE FtInv'
  OBVIOUS
<1>1. Answered /\ pc \in {"sent", "poll", "read"}
  BY DEF FtInv, Types, Stages, Arrive, Quiet, Asked
<1>2. f \in Answer /\ f # NoCanFrame /\ f \in replies /\ replies' = replies \ {f}
  BY AnswerIsFrame DEF FtInv, Types, Arrive
<1>3. \/ rxb0 = NoCanFrame /\ rxb0' = f /\ rxb1' = rxb1
      \/ rxb1 = NoCanFrame /\ rxb1' = f /\ rxb0' = rxb0
  BY DEF Arrive
<1>4. Outstanding' = Outstanding
  BY <1>2, <1>3 DEF Outstanding
<1>5. Apart'
  BY <1>1, <1>2, <1>3 DEF Apart, Answered
<1>6. Answered'
  BY <1>1, <1>4, <1>5 DEF Answered, Arrive, local
<1>7. Types'
  BY <1>2, <1>3 DEF FtInv, Types, Arrive, local, Answer
<1>8. pc = "read" => Available'
  BY <1>2, <1>3 DEF FtInv, Stages, Available
<1>9. Stages'
  BY <1>1, <1>6, <1>8 DEF FtInv, Stages, Arrive, local
<1>10. Chain'
  BY DEF FtInv, Chain, Arrive, shield
<1> QED BY <1>7, <1>9, <1>10 DEF FtInv

\* No step of the program or of its environment breaks the invariant.
LEMMA StepFtInv ==
  ASSUME Paced
  PROVE  FtInv /\ [Next]_vars => FtInv'
<1> SUFFICES ASSUME FtInv, [Next]_vars PROVE FtInv'
  OBVIOUS
<1>1. CASE mainFunction
  BY <1>1, MainFunctionKeeps
<1>2. CASE LoadTx
  BY <1>2, LoadTxKeeps
<1>3. CASE StillPending
  BY <1>3, StillPendingKeeps
<1>4. CASE EndSend
  BY <1>4, EndSendKeeps
<1>5. CASE checkReceive
  BY <1>5, CheckReceiveKeeps
<1>6. CASE storeFT
  BY <1>6, StoreFTKeeps
<1>7. ASSUME NEW op \in BOOLEAN, MainTask(op) PROVE FtInv'
  BY <1>7, MainTaskKeeps
<1>8. CASE sendToMaster
  BY <1>8, SendToMasterKeeps
<1>9. CASE Bus
  <2>1. PICK i \in TxBuffers : Transmit(i)
    BY <1>9 DEF Bus
  <2> QED BY <2>1, TransmitKeeps
<1>10. CASE Sensor
  <2>1. PICK f \in replies : Arrive(f)
    BY <1>10 DEF Sensor
  <2> QED BY <2>1, ArriveKeeps
<1>11. CASE UNCHANGED vars
  <2> USE <1>11 DEF vars, local, shield, can
  <2>1. Types'
    BY DEF FtInv, Types, Answer
  <2>2. Stages'
    BY DEF FtInv, Stages, Quiet, Asked, Answered, Outstanding, Apart, Available
  <2>3. Chain'
    BY DEF FtInv, Chain
  <2> QED BY <2>1, <2>2, <2>3 DEF FtInv
<1> QED
  BY <1>1, <1>2, <1>3, <1>4, <1>5, <1>6, <1>7, <1>8, <1>9, <1>10, <1>11
     DEF Next, Cycle, PollAgain

\* The invariant holds in every state of a run in which no frame is lost.
THEOREM FtInvAlways ==
  ASSUME Paced
  PROVE  Spec => []FtInv
BY InitFtInv, StepFtInv, PTL DEF Spec

-----------------------------------------------------------------------------
(* What it gives.                                                           *)

\* A cycle leaves nothing behind that the next one would take for its own
\* answer, whenever sendMsg gave up waiting for the transmit buffer.
THEOREM NothingIsLeft ==
  ASSUME Paced
  PROVE  Spec => []NothingLeft
<1>1. FtInv => NothingLeft
  BY DEF FtInv, Stages, Quiet, NothingLeft
<1> QED BY <1>1, FtInvAlways, PTL

\* The shield and the master never hold axes of different samples, nor an
\* uninitialised variable, in whatever order the frames come and are read.
THEOREM SamplesCoherent ==
  ASSUME Paced
  PROVE  Spec => []SampleCoherent
<1>1. FtInv => SampleCoherent
  BY DEF FtInv, Chain, SampleCoherent
<1> QED BY <1>1, FtInvAlways, PTL

\* At the end of a cycle the input buffer holds the sensor's last sample and
\* the master's image that one or the one before it.
THEOREM OneBehind ==
  ASSUME Paced
  PROVE  Spec => []AtMostOneBehind
<1>1. FtInv => AtMostOneBehind
  <2> SUFFICES ASSUME FtInv, pc = "idle" PROVE
        \A a \in Axes : BufferIn[a] = sample
                        /\ (core[a] = sample \/ Next1(core[a]) = sample)
    BY DEF AtMostOneBehind
  <2> QED BY DEF FtInv, Chain
<1> QED BY <1>1, FtInvAlways, PTL

\* The master's image moves from one sample to the next: it skips none and
\* never goes back.
THEOREM SamplesInOrder ==
  ASSUME Paced
  PROVE  Spec => EverySampleInOrder
<1> DEFINE Moves == \A a \in Axes : core'[a] = core[a] \/ core'[a] = Next1(core[a])
<1>1. FtInv /\ [Next]_vars => [Moves]_core
  <2> SUFFICES ASSUME FtInv, [Next]_vars, core' # core PROVE Moves
    OBVIOUS
  <2>1. core' = BufferIn
    BY DEF Next, Cycle, Bus, Sensor, mainFunction, LoadTx, StillPending, EndSend,
           PollAgain, checkReceive, storeFT, MainTask, sendToMaster, Transmit,
           Arrive, vars, shield
  <2> QED BY <2>1 DEF FtInv, Chain
<1> HIDE DEF Moves
<1>2. Spec => [][Moves]_core
  BY <1>1, FtInvAlways, PTL DEF Spec
<1> QED BY <1>2 DEF EverySampleInOrder, Moves
=============================================================================
