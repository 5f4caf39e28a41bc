--------------------------- MODULE JobStreamProofs ---------------------------
(***************************************************************************)
(* What holds of the job streamer for every file, window, ack timeout and  *)
(* clock, first with any controller, then in the loop with grblHAL over a  *)
(* link that loses and repeats frames. Type correctness comes first; the   *)
(* window, the grant and the toggles rest on it, and on these the order in *)
(* which the lines run and what an ack stands for.                         *)
(***************************************************************************)
EXTENDS JobLink, WellFoundedInduction, TLAPS

USE FileAssumption, LimitAssumption

(* A line that is being read is a line of the file.                        *)
ReadInFile == pc1 = "read" => next_line < NumLines

(* What is about to be sent is an item.                                    *)
SendHasItem == pc1 \in {"read", "send"} => act \in Items

TypeInv == TypeOK /\ ReadInFile /\ SendHasItem

LEMMA ModuloType ==
  ASSUME NEW a \in Int, NEW m \in Nat \ {0}
  PROVE  a % m \in 0..m - 1
OBVIOUS

LEMMA HeadTail ==
  ASSUME NEW S, NEW s \in Seq(S), s # <<>>
  PROVE  /\ Head(s) \in S /\ Head(s) = s[1] /\ Tail(s) \in Seq(S)
         /\ Len(s) \in Nat \ {0} /\ Len(Tail(s)) = Len(s) - 1
         /\ \A k \in 1..Len(s) - 1 : Tail(s)[k] = s[k + 1]
OBVIOUS

LEMMA ItemTypes ==
  /\ NoAct.num \in 0..NumLines - 1 /\ NoAct.kind = "none"
  /\ \A i \in 0..NumLines - 1 : Line(i) \in Items
  /\ \A k \in {"toggle", "hold", "cycle", "reset", "mdi"} : Byte(k) \in Items
  /\ \A x \in Items : x.num \in 0..NumLines - 1
BY DEF NoAct, Line, Byte, Items

LEMMA CostType ==
  ASSUME NEW i \in 0..NumLines - 1
  PROVE  Cost(i) \in Nat \ {0}
<1>1. i + 1 \in 0..NumLines /\ i \in 0..NumLines /\ i < i + 1
  OBVIOUS
<1>2. Offset[i + 1] \in Nat /\ Offset[i] \in Nat /\ Offset[i] < Offset[i + 1]
  BY <1>1
<1> QED BY <1>2 DEF Cost

LEMMA SendType ==
  ASSUME TypeOK, NEW item \in Items, Send(item)
  PROVE  tx' \in Seq(Items)
BY DEF TypeOK, Send

-----------------------------------------------------------------------------
(***************************************************************************)
(* Sums.  SumOf is a recursive function, so what it returns is shown with  *)
(* the least n for which a claim about the first n elements would fail:    *)
(* there is one, if there is any, and it has a predecessor.                *)
(***************************************************************************)
LEMMA LeastNat ==
  ASSUME NEW T \in SUBSET Nat, T # {}
  PROVE  \E n \in T : \A m \in T : n <= m
<1> DEFINE R == OpToRel(<, Nat)
<1>1. IsWellFoundedOn(R, Nat)
  BY NatLessThanWellFounded
<1>2. \A x, y \in Nat : <<y, x>> \in R <=> y < x
  BY DEF OpToRel
<1> HIDE DEF R
<1>3. PICK n \in T : \A m \in T : <<m, n>> \notin R
  BY <1>1, WFMin
<1>4. ASSUME NEW m \in T PROVE n <= m
  <2>1. m \in Nat /\ n \in Nat
    OBVIOUS
  <2>2. ~(m < n)
    BY <1>2, <1>3, <2>1
  <2> QED BY <2>1, <2>2
<1> QED BY <1>4

(* c[k] is the sum of the first k elements of w, for k up to n.            *)
Sums(c, w, n) ==
  /\ c \in [0..n -> Int] /\ c[0] = 0
  /\ \A k \in 1..n : c[k] = c[k - 1] + w[k]

LEMMA SumsExist ==
  ASSUME NEW w \in Seq(Int)
  PROVE  \E c : Sums(c, w, Len(w))
<1> DEFINE P == {n \in 0..Len(w) : ~\E c : Sums(c, w, n)}
<1>0. \A n : n \in P <=> n \in 0..Len(w) /\ ~\E c : Sums(c, w, n)
  OBVIOUS
<1> HIDE DEF P
<1>1. ASSUME NEW n \in P, \A m \in P : n <= m PROVE FALSE
  <2>1. n \in Nat /\ n \in 0..Len(w) /\ Len(w) \in Nat /\ ~\E c : Sums(c, w, n)
    BY <1>0, <1>1
  <2>2. CASE n = 0
    <3> DEFINE z == [k \in 0..0 |-> 0]
    <3>1. z \in [0..0 -> Int] /\ z[0] = 0 /\ 1..0 = {}
      OBVIOUS
    <3>2. Sums(z, w, 0)
      BY <3>1 DEF Sums
    <3> QED BY <2>1, <2>2, <3>2
  <2>3. CASE n # 0
    <3>1. n - 1 \in 0..Len(w) /\ n - 1 \notin P /\ n \in 1..Len(w) /\ n - 1 \in Nat
      BY <1>0, <1>1, <2>1, <2>3
    <3>2. PICK c : Sums(c, w, n - 1)
      BY <1>0, <3>1
    <3> DEFINE d == [k \in 0..n |-> IF k = n THEN c[n - 1] + w[n] ELSE c[k]]
    <3>3. w[n] \in Int /\ c[n - 1] \in Int
      BY <3>1, <3>2 DEF Sums
    <3>4. \A k \in 0..n : k = n \/ (k \in 0..n - 1 /\ c[k] \in Int)
      BY <2>1, <3>2 DEF Sums
    <3>5. d \in [0..n -> Int]
      BY <3>3, <3>4
    <3>6. d[0] = 0
      BY <2>1, <2>3, <3>2 DEF Sums
    <3>7. ASSUME NEW k \in 1..n PROVE d[k] = d[k - 1] + w[k]
      <4>1. k - 1 \in 0..n /\ k \in 0..n /\ k - 1 # n
        BY <2>1
      <4>2. d[k - 1] = c[k - 1]
        BY <4>1
      <4>3. CASE k = n
        BY <4>1, <4>2, <4>3
      <4>4. CASE k # n
        <5>1. k \in 1..n - 1
          BY <2>1, <4>4
        <5> QED BY <4>1, <4>2, <5>1, <4>4, <3>2 DEF Sums
      <4> QED BY <4>3, <4>4
    <3>8. Sums(d, w, n)
      <4> HIDE DEF d
      <4> QED BY <3>5, <3>6, <3>7 DEF Sums
    <3> QED BY <2>1, <3>8
  <2> QED BY <2>2, <2>3
<1>2. P = {}
  <2>1. P \in SUBSET Nat
    BY <1>0
  <2> QED BY <1>1, <2>1, LeastNat
<1>3. Len(w) \in 0..Len(w) /\ Len(w) \notin P
  BY <1>2
<1> QED BY <1>0, <1>3

LEMMA SumIs ==
  ASSUME NEW w \in Seq(Int), NEW c, Sums(c, w, Len(w))
  PROVE  SumOf(w) = c[Len(w)]
<1> DEFINE Rec(f) == f = [n \in 0..Len(w) |-> IF n = 0 THEN 0 ELSE f[n - 1] + w[n]]
<1>0. \A n \in 0..Len(w) : n # 0 => n \in 1..Len(w)
  OBVIOUS
<1>1. Rec(c)
  BY <1>0 DEF Sums
<1> DEFINE partial == CHOOSE f : Rec(f)
<1>2. Rec(partial)
  BY <1>1
<1>3. SumOf(w) = partial[Len(w)]
  BY DEF SumOf
<1> HIDE DEF partial
<1>4. \A n \in 0..Len(w) : partial[n] = IF n = 0 THEN 0 ELSE partial[n - 1] + w[n]
  BY <1>2
<1> DEFINE T == {n \in 0..Len(w) : partial[n] # c[n]}
<1>5. T \in SUBSET Nat
  OBVIOUS
<1>6. ASSUME NEW n \in T, \A m \in T : n <= m PROVE FALSE
  <2>1. n \in 0..Len(w) /\ partial[n] # c[n]
    OBVIOUS
  <2>2. n # 0
    BY <1>4, <2>1 DEF Sums
  <2>3. n - 1 \in 0..Len(w) /\ n \in 1..Len(w) /\ n - 1 \notin T
    BY <2>1, <2>2, <1>6
  <2> QED BY <1>4, <2>1, <2>2, <2>3 DEF Sums
<1>7. T = {}
  <2> HIDE DEF T
  <2> QED BY <1>5, <1>6, LeastNat
<1>8. Len(w) \in 0..Len(w)
  OBVIOUS
<1> QED BY <1>3, <1>7, <1>8

LEMMA SumEmpty == SumOf(<<>>) = 0
<1> DEFINE c == [k \in 0..0 |-> 0]
<1>1. Len(<<>>) = 0 /\ 1..0 = {} /\ <<>> \in Seq(Int)
  OBVIOUS
<1>2. c \in [0..0 -> Int] /\ c[0] = 0
  OBVIOUS
<1>3. Sums(c, <<>>, Len(<<>>))
  BY <1>1, <1>2 DEF Sums
<1> HIDE DEF c
<1> QED BY <1>1, <1>2, <1>3, SumIs

(* One element more at the end.                                            *)
LEMMA SumAppend ==
  ASSUME NEW w \in Seq(Int), NEW v \in Seq(Int), Len(v) = Len(w) + 1,
         \A k \in 1..Len(w) : v[k] = w[k]
  PROVE  SumOf(v) = SumOf(w) + v[Len(v)]
<1>1. PICK c : Sums(c, v, Len(v))
  BY SumsExist
<1>2. SumOf(v) = c[Len(v)]
  BY <1>1, SumIs
<1>3. Len(w) \in Nat /\ Len(v) \in 1..Len(v) /\ Len(v) - 1 = Len(w)
  OBVIOUS
<1>4. c[Len(v)] = c[Len(w)] + v[Len(v)]
  BY <1>1, <1>3 DEF Sums
<1> DEFINE d == [k \in 0..Len(w) |-> c[k]]
<1>5. Sums(d, w, Len(w))
  <2>1. d \in [0..Len(w) -> Int] /\ d[0] = 0
    BY <1>1, <1>3 DEF Sums
  <2>2. ASSUME NEW k \in 1..Len(w) PROVE d[k] = d[k - 1] + w[k]
    <3>1. k \in 0..Len(w) /\ k - 1 \in 0..Len(w) /\ k \in 1..Len(v)
      BY <1>3
    <3>2. c[k] = c[k - 1] + v[k]
      BY <1>1, <3>1 DEF Sums
    <3> QED BY <3>1, <3>2
  <2> HIDE DEF d
  <2> QED BY <2>1, <2>2 DEF Sums
<1>6. SumOf(w) = d[Len(w)]
  BY <1>5, SumIs
<1>7. d[Len(w)] = c[Len(w)]
  BY <1>3
<1> QED BY <1>2, <1>4, <1>6, <1>7

LEMMA Shift ==
  ASSUME NEW m \in Nat, NEW k \in 1..m
  PROVE  k \in 0..m /\ k - 1 \in 0..m /\ k + 1 \in 1..m + 1 /\ (k - 1) + 1 = k
OBVIOUS

(* One element less at the front.                                          *)
LEMMA SumTail ==
  ASSUME NEW w \in Seq(Int), NEW v \in Seq(Int), Len(w) = Len(v) + 1,
         \A k \in 1..Len(v) : v[k] = w[k + 1]
  PROVE  SumOf(w) = w[1] + SumOf(v)
<1>1. PICK c : Sums(c, w, Len(w))
  BY SumsExist
<1>2. SumOf(w) = c[Len(w)]
  BY <1>1, SumIs
<1>3. Len(v) \in Nat /\ Len(w) \in Nat /\ 1 \in 1..Len(w)
  OBVIOUS
<1>0. \A k \in 0..Len(w) : c[k] \in Int
  BY <1>1 DEF Sums
<1>4. c[1] = w[1] /\ w[1] \in Int
  <2>1. c[1] = c[1 - 1] + w[1] /\ c[0] = 0 /\ w[1] \in Int
    BY <1>1, <1>3 DEF Sums
  <2> QED BY <2>1
<1> DEFINE d == [k \in 0..Len(v) |-> c[k + 1] - w[1]]
<1>5. \A k \in 0..Len(v) : k + 1 \in 0..Len(w) /\ c[k + 1] \in Int
  <2>1. \A k \in 0..Len(v) : k + 1 \in 0..Len(w)
    BY <1>3
  <2> QED BY <1>0, <2>1
<1>6. Sums(d, v, Len(v))
  <2>1. d \in [0..Len(v) -> Int] /\ d[0] = 0
    BY <1>3, <1>4, <1>5
  <2>2. ASSUME NEW k \in 1..Len(v) PROVE d[k] = d[k - 1] + v[k]
    <3>1. k \in 0..Len(v) /\ k - 1 \in 0..Len(v) /\ k + 1 \in 1..Len(w) /\ (k - 1) + 1 = k
      <4> DEFINE m == Len(v)
      <4>1. m \in Nat /\ k \in 1..m /\ Len(w) = m + 1
        BY <1>3
      <4> HIDE DEF m, d
      <4>2. k \in 0..m /\ k - 1 \in 0..m /\ k + 1 \in 1..m + 1 /\ (k - 1) + 1 = k
        BY <4>1, Shift
      <4> QED BY <4>1, <4>2 DEF m
    <3>2. c[k + 1] = c[k] + w[k + 1]
      <4>1. c[k + 1] = c[(k + 1) - 1] + w[k + 1]
        BY <1>1, <3>1 DEF Sums
      <4>2. (k + 1) - 1 = k
        OBVIOUS
      <4> QED BY <4>1, <4>2
    <3>3. d[k] = c[k + 1] - w[1] /\ d[k - 1] = c[k] - w[1] /\ v[k] = w[k + 1]
      BY <3>1
    <3>4. c[k] \in Int /\ c[k + 1] \in Int /\ w[k + 1] \in Int
      <4>1. k \in 0..Len(w) /\ k + 1 \in 0..Len(w)
        BY <1>3
      <4>2. c[k] \in Int /\ c[k + 1] \in Int
        BY <1>0, <4>1
      <4>3. w[k + 1] \in Int
        BY <3>1
      <4> QED BY <4>2, <4>3
    <3> DEFINE x == c[k + 1]
               y == c[k]
               z == w[k + 1]
               first == w[1]
    <3>5. x = y + z /\ x \in Int /\ y \in Int /\ z \in Int /\ first \in Int
      BY <3>2, <3>4, <1>4
    <3> HIDE DEF x, y, z, first
    <3>6. x - first = (y - first) + z
      BY <3>5
    <3> HIDE DEF d
    <3> QED BY <3>3, <3>6 DEF x, y, z, first
  <2> HIDE DEF d
  <2> QED BY <2>1, <2>2 DEF Sums
<1>7. SumOf(v) = d[Len(v)]
  BY <1>6, SumIs
<1>8. d[Len(v)] = c[Len(w)] - w[1] /\ c[Len(w)] \in Int
  BY <1>3, <1>5
<1> QED BY <1>2, <1>4, <1>7, <1>8

LEMMA SumNat ==
  ASSUME NEW w \in Seq(Int), \A k \in 1..Len(w) : w[k] >= 0
  PROVE  SumOf(w) \in Nat
<1>1. PICK c : Sums(c, w, Len(w))
  BY SumsExist
<1>0. Len(w) \in Nat /\ (\A k \in 0..Len(w) : c[k] \in Int) /\ \A k \in 1..Len(w) : w[k] \in Int
  <2>1. \A k \in 0..Len(w) : c[k] \in Int
    BY <1>1 DEF Sums
  <2> QED BY <2>1
<1> DEFINE T == {n \in 0..Len(w) : c[n] < 0}
<1>2. ASSUME NEW n \in T, \A m \in T : n <= m PROVE FALSE
  <2>1. n \in 0..Len(w) /\ c[n] < 0 /\ c[0] = 0
    BY <1>1 DEF Sums
  <2>2. n \in 1..Len(w) /\ n - 1 \in 0..Len(w) /\ n - 1 \notin T
    BY <1>0, <1>2, <2>1
  <2>3. c[n] = c[n - 1] + w[n] /\ c[n - 1] \in Int /\ w[n] \in Int /\ w[n] >= 0
    BY <1>0, <1>1, <2>2 DEF Sums
  <2>4. c[n - 1] >= 0
    BY <2>2, <2>3
  <2> QED BY <2>1, <2>3, <2>4
<1>3. T = {}
  <2>1. T \in SUBSET Nat
    BY <1>0
  <2> HIDE DEF T
  <2> QED BY <1>2, <2>1, LeastNat
<1>4. SumOf(w) = c[Len(w)] /\ Len(w) \in 0..Len(w)
  BY <1>0, <1>1, SumIs
<1> QED BY <1>0, <1>3, <1>4

LEMMA SumType ==
  ASSUME NEW w \in Seq(Int)
  PROVE  SumOf(w) \in Int
<1>1. PICK c : Sums(c, w, Len(w))
  BY SumsExist
<1>2. Len(w) \in 0..Len(w)
  OBVIOUS
<1>3. c[Len(w)] \in Int
  BY <1>1, <1>2 DEF Sums
<1> QED BY <1>1, <1>3, SumIs

-----------------------------------------------------------------------------
LEMMA TypeInit == Init => TypeInv
<1> SUFFICES ASSUME Init PROVE TypeInv
  OBVIOUS
<1>1. 0 \in 0..MaxAge
  BY DEF MaxAge
<1>2. lens \in Seq(0..NumLines - 1) /\ tx \in Seq(Items)
  BY DEF Init
<1>3. 0 \in 0..CounterMod - 1 /\ 0 \in 0..NumLines /\ 0 \in 0..MaxLag
  OBVIOUS
<1> QED BY <1>1, <1>2, <1>3 DEF Init, TypeInv, TypeOK, ReadInFile, SendHasItem, States, Faults

LEMMA TypeNext == TypeInv /\ [Next]_vars => TypeInv'
<1> SUFFICES ASSUME TypeInv, [Next]_vars PROVE TypeInv'
  OBVIOUS
<1> USE DEF TypeInv
<1>a. 0 \in 0..MaxAge /\ lag \in 0..MaxAge
  BY DEF MaxAge, TypeOK
<1>1. CASE Clock
  BY <1>1, <1>a DEF TypeOK, ReadInFile, SendHasItem, Clock, Least, MaxAge, streamer, runner, engine, driver, history
<1>2. CASE TickBegin
  BY <1>2 DEF TypeOK, ReadInFile, SendHasItem, TickBegin, streamer, runner, engine, driver, history
<1>3. CASE Rx
  <2> DEFINE Kept == UNCHANGED <<st, fault, total, next_line, lens, inflight, age, claimed, saw_grant,
                                 last_ok, last_err, last_terminal, pc1, act, loop, lag, pc0, mpg_user,
                                 mpg_snap, snap_idle, fresh, tx, halted, owed>>
  <2>k. ASSUME Kept, ok_count' \in 0..CounterMod - 1, err_count' \in 0..CounterMod - 1, mpg_remote' \in BOOLEAN,
               mach' \in {"idle", "busy", "other"}, conn' \in BOOLEAN, silent' \in BOOLEAN
        PROVE  TypeInv'
    BY <2>k DEF TypeOK, ReadInFile, SendHasItem
  <2>t. /\ ok_count \in 0..CounterMod - 1 /\ err_count \in 0..CounterMod - 1 /\ mpg_remote \in BOOLEAN
        /\ mach \in {"idle", "busy", "other"} /\ conn \in BOOLEAN /\ silent \in BOOLEAN
    BY DEF TypeOK
  <2>f. (UNCHANGED parserFrame /\ UNCHANGED history) => Kept
    BY DEF parserFrame, streamer, runner, history
  <2> HIDE DEF TypeInv, Kept
  <2>1. CASE RxOk
    <3>1. Kept /\ UNCHANGED <<conn, silent, mach, err_count, mpg_remote>>
      BY <2>1, <2>f DEF RxOk
    <3>2. ok_count' = (ok_count + 1) % CounterMod /\ ok_count + 1 \in Int
      BY <2>1, <2>t DEF RxOk
    <3>3. ok_count' \in 0..CounterMod - 1
      BY <3>2, ModuloType
    <3> QED BY <2>k, <2>t, <3>1, <3>3
  <2>2. CASE RxErr
    <3>1. Kept /\ UNCHANGED <<conn, silent, mach, ok_count, mpg_remote>>
      BY <2>2, <2>f DEF RxErr
    <3>2. err_count' = (err_count + 1) % CounterMod /\ err_count + 1 \in Int
      BY <2>2, <2>t DEF RxErr
    <3>3. err_count' \in 0..CounterMod - 1
      BY <3>2, ModuloType
    <3> QED BY <2>k, <2>t, <3>1, <3>3
  <2>3. CASE \E m \in BOOLEAN, s \in {"idle", "busy", "other"} : RxStatus(m, s)
    <3>1. Kept /\ UNCHANGED <<ok_count, err_count>> /\ silent' = FALSE
      BY <2>3, <2>f DEF RxStatus
    <3>2. mpg_remote' \in BOOLEAN /\ mach' \in {"idle", "busy", "other"} /\ conn' \in BOOLEAN
      BY <2>3, <2>t DEF RxStatus
    <3> QED BY <2>k, <2>t, <3>1, <3>2
  <2>4. CASE SessionOpens
    <3>1. Kept /\ UNCHANGED <<silent, mach, ok_count, err_count, mpg_remote>> /\ conn' = TRUE
      BY <2>4, <2>f DEF SessionOpens, engine
    <3> QED BY <2>k, <2>t, <3>1
  <2> QED BY <1>3, <2>1, <2>2, <2>3, <2>4 DEF Rx
<1>4. CASE Pump
  <2> USE DEF pumpFrame, engine, streamer, runner, driver, Goto
  <2>s. ASSUME SnapshotRefresh
        PROVE  /\ mpg_snap' \in BOOLEAN /\ snap_idle' \in BOOLEAN /\ mach' \in {"idle", "busy", "other"}
               /\ conn' \in BOOLEAN /\ silent' \in BOOLEAN /\ fresh' \in BOOLEAN
    <3>1. conn' \in BOOLEAN /\ mpg_snap' \in BOOLEAN
      BY <2>s DEF SnapshotRefresh, TypeOK
    <3>2. mach' \in {"idle", "busy", "other"}
      BY <2>s DEF SnapshotRefresh, TypeOK
    <3> QED BY <2>s, <3>1, <3>2 DEF SnapshotRefresh
  <2>1. CASE PumpSkip
    BY <2>1, <2>s DEF TypeOK, ReadInFile, SendHasItem, PumpSkip
  <2>2. CASE PumpError
    BY <2>2, <2>s DEF TypeOK, ReadInFile, SendHasItem, PumpError, States, Faults
  <2>3. CASE PumpCount
    <3>1. AckDelta \in Nat
      <4>1. ok_count - last_ok \in Int
        BY DEF TypeOK
      <4>2. AckDelta \in 0..CounterMod - 1
        BY <4>1, ModuloType DEF AckDelta
      <4> QED BY <4>2
    <3> QED BY <2>3, <2>s, <3>1 DEF TypeOK, ReadInFile, SendHasItem, PumpCount
  <2>4. CASE PumpAck
    <3>1. lens' \in Seq(0..NumLines - 1) /\ inflight' \in Nat
      <4>1. CASE Active(st) /\ lens # <<>>
        <5>1. Tail(lens) \in Seq(0..NumLines - 1) /\ Head(lens) \in 0..NumLines - 1
          BY <4>1, HeadTail DEF TypeOK
        <5>2. Cost(Head(lens)) \in Nat
          BY <5>1, CostType
        <5>3. lens' = Tail(lens)
          BY <2>4, <4>1 DEF PumpAck
        <5>4. inflight' = IF inflight >= Cost(Head(lens)) THEN inflight - Cost(Head(lens)) ELSE 0
          BY <2>4, <4>1 DEF PumpAck
        <5>5. inflight \in Nat
          BY DEF TypeOK
        <5> HIDE DEF TypeInv
        <5> QED BY <5>1, <5>2, <5>3, <5>4, <5>5, SMTT(30)
      <4>2. CASE ~(Active(st) /\ lens # <<>>)
        BY <2>4, <4>2 DEF TypeOK, PumpAck
      <4> QED BY <4>1, <4>2
    <3>2. age' \in 0..MaxAge /\ st' \in States /\ loop' \in Nat
      <4>1. age' \in 0..MaxAge
        BY <2>4, <1>a DEF TypeOK, PumpAck
      <4>2. loop' \in Nat
        BY <2>4 DEF TypeOK, PumpAck
      <4>3. st' \in States
        BY <2>4 DEF TypeOK, PumpAck, States
      <4> QED BY <4>1, <4>2, <4>3
    <3> QED BY <2>4, <3>1, <3>2 DEF TypeOK, ReadInFile, SendHasItem, PumpAck
  <2>5. CASE PumpGrant
    <3>1. age' \in 0..MaxAge /\ st' \in States /\ fault' \in Faults /\ saw_grant' \in BOOLEAN
      BY <2>5, <1>a DEF TypeOK, PumpGrant, States, Faults
    <3> QED BY <2>5, <3>1 DEF TypeOK, ReadInFile, SendHasItem, PumpGrant
  <2>6. CASE PumpNext
    <3> USE DEF nextFrame
    <3>1. CASE PumpClaimTimeout \/ PumpDeadMan
      <4>1. Reset \in Items /\ Byte("hold") \in Items
        BY ItemTypes DEF Reset
      <4>2. Reset # NoAct /\ Byte("hold") # NoAct
        BY DEF Reset, Byte, NoAct
      <4>3. \/ NextFails("claim_denied", Reset)
            \/ NextFails("ack_timeout", Byte("hold"))
        BY <3>1 DEF PumpClaimTimeout, PumpDeadMan
      <4>4. act' \in Items /\ pc1' = "send" /\ st' \in States /\ fault' \in Faults
        BY <4>1, <4>2, <4>3 DEF NextFails, States, Faults
      <4>5. lag' = lag /\ loop' = loop /\ UNCHANGED <<total, next_line, lens, inflight, nextFrame>>
        BY <4>2, <4>3 DEF NextFails
      <4> QED BY <4>4, <4>5 DEF TypeOK, ReadInFile, SendHasItem
    <3>2. CASE PumpEndOfFile
      BY <3>2 DEF TypeOK, ReadInFile, SendHasItem, PumpEndOfFile, Finished, NextTurn, States
    <3>3. CASE PumpRead
      <4>1. next_line \in 0..NumLines - 1 /\ Line(next_line) \in Items
        BY <3>3, ItemTypes DEF TypeOK, PumpRead
      <4> QED BY <3>3, <4>1 DEF TypeOK, ReadInFile, SendHasItem, PumpRead, NextTurn
    <3>4. CASE PumpNothing
      BY <3>4 DEF TypeOK, ReadInFile, SendHasItem, PumpNothing
    <3>5. CASE PumpNullRead
      BY <3>5 DEF TypeOK, ReadInFile, SendHasItem, PumpNullRead, Finished, States
    <3>6. CASE PumpOversize
      BY <3>6 DEF TypeOK, ReadInFile, SendHasItem, PumpOversize, NextFails, States, Faults
    <3>7. CASE PumpLine
      <4>1. act.num \in 0..NumLines - 1
        BY ItemTypes DEF TypeOK
      <4>2. Cost(act.num) \in Nat
        BY <4>1, CostType
      <4>3. lens' \in Seq(0..NumLines - 1) /\ inflight' \in Nat /\ next_line' \in 0..NumLines
        BY <3>7, <4>1, <4>2, SMTT(30) DEF TypeOK, ReadInFile, SendHasItem, PumpLine
      <4> QED BY <3>7, <4>3 DEF TypeOK, ReadInFile, SendHasItem, PumpLine
    <3>8. CASE PumpFull
      BY <3>8 DEF TypeOK, ReadInFile, SendHasItem, PumpFull
    <3> QED BY <2>6, <3>1, <3>2, <3>3, <3>4, <3>5, <3>6, <3>7, <3>8 DEF PumpNext
  <2>7. CASE PumpSend
    <3>1. act \in Items
      BY <2>7 DEF PumpSend, SendHasItem
    <3>2. tx' \in Seq(Items)
      BY <2>7, <3>1, SendType DEF PumpSend, TypeOK
    <3> QED BY <2>7, <3>2, ItemTypes DEF TypeOK, ReadInFile, SendHasItem, PumpSend
  <2>8. CASE PumpFinish
    <3>1. tx' \in Seq(Items) /\ owed' \in BOOLEAN
      BY <2>8, ItemTypes, SendType DEF PumpFinish, Toggle, TypeOK
    <3> QED BY <2>8, <3>1 DEF TypeOK, ReadInFile, SendHasItem, PumpFinish
  <2>9. CASE PumpIdle
    BY <2>9 DEF TypeOK, ReadInFile, SendHasItem, PumpIdle, States
  <2> QED BY <1>4, <2>1, <2>2, <2>3, <2>4, <2>5, <2>6, <2>7, <2>8, <2>9 DEF Pump
<1>5. CASE Ui
  <2> USE DEF uiFrame, buttonFrame, engine, streamer, driver, history
  <2>a. \A k \in {"toggle", "hold", "cycle", "reset", "mdi"} : Send(Byte(k)) => tx' \in Seq(Items)
    BY ItemTypes, SendType
  <2>1. CASE UiLoad \/ UiReload
    <3>1. LoadJob
      BY <2>1 DEF UiLoad, UiReload
    <3>2. lens' \in Seq(0..NumLines - 1)
      BY <3>1 DEF LoadJob
    <3>3. total' \in 0..NumLines /\ next_line' \in 0..NumLines /\ inflight' \in Nat /\ age' \in 0..MaxAge
      BY <3>1, <1>a DEF LoadJob
    <3>4. TypeOK'
      <4>1. /\ st' \in States /\ fault' \in Faults
            /\ claimed' \in BOOLEAN /\ saw_grant' \in BOOLEAN
        BY <3>1 DEF LoadJob, States, Faults
      <4>2. UNCHANGED <<uiFrame, last_ok, last_err, pc0, mpg_user, driver, tx, history>>
        BY <3>1 DEF LoadJob
      <4> QED BY <3>2, <3>3, <4>1, <4>2 DEF TypeOK
    <3> QED BY <3>1, <3>4 DEF ReadInFile, SendHasItem, LoadJob
  <2>2. CASE UiStart
    <3>1. st' \in States /\ age' \in 0..MaxAge /\ pc0' \in {"rest", "baseline", "claim", "reset"}
      BY <2>2, <1>a DEF UiStart, States
    <3>2. claimed' \in BOOLEAN /\ saw_grant' \in BOOLEAN /\ halted' \in BOOLEAN
      BY <2>2, Zenon DEF UiStart, TypeOK
    <3> QED BY <2>2, <3>1, <3>2 DEF TypeOK, ReadInFile, SendHasItem, UiStart
  <2>3. CASE UiBaseline
    <3>1. tx' \in Seq(Items) /\ owed' \in BOOLEAN
      BY <2>3, <2>a DEF TypeOK, UiBaseline, Toggle
    <3> QED BY <2>3, <3>1 DEF TypeOK, ReadInFile, SendHasItem, UiBaseline
  <2>4. CASE UiHold
    BY <2>4, <2>a DEF TypeOK, ReadInFile, SendHasItem, UiHold, States
  <2>5. CASE UiResume
    BY <2>5, <2>a, <1>a DEF TypeOK, ReadInFile, SendHasItem, UiResume, States
  <2>6. CASE UiAbort
    BY <2>6 DEF TypeOK, ReadInFile, SendHasItem, UiAbort, States
  <2>7. CASE UiAbortReset
    BY <2>7, <2>a DEF TypeOK, ReadInFile, SendHasItem, UiAbortReset, Reset
  <2>8. CASE UiStop
    BY <2>8, <2>a DEF TypeOK, ReadInFile, SendHasItem, UiStop, Reset
  <2>9. CASE UiMpgToggle
    BY <2>9, <2>a DEF TypeOK, ReadInFile, SendHasItem, UiMpgToggle, Toggle
  <2>10. CASE UiMdi
    BY <2>10, <2>a DEF TypeOK, ReadInFile, SendHasItem, UiMdi
  <2> QED BY <1>5, <2>1, <2>2, <2>3, <2>4, <2>5, <2>6, <2>7, <2>8, <2>9, <2>10 DEF Ui
<1>6. CASE WireTake
  BY <1>6 DEF TypeOK, ReadInFile, SendHasItem, WireTake, streamer, runner, engine, driver, history
<1>7. CASE UNCHANGED vars
  BY <1>7 DEF TypeOK, ReadInFile, SendHasItem, vars, streamer, runner, engine, driver, history
<1> QED BY <1>1, <1>2, <1>3, <1>4, <1>5, <1>6, <1>7 DEF Next

(* Every variable of the streamer keeps to its values, for every instance. *)
THEOREM TypeCorrect == Spec => []TypeOK
<1>1. TypeInv => TypeOK
  BY DEF TypeInv
<1> QED BY TypeInit, TypeNext, <1>1, PTL DEF Spec

-----------------------------------------------------------------------------
(***************************************************************************)
(* in_flight_bytes.  A pop takes off what the oldest line costs, a push    *)
(* adds what the newest one costs, and a load clears both, so the count is *)
(* the sum of the tracked lines even when a job is loaded under the pump:  *)
(* the window of a mixed-up job is still a window.                         *)
(***************************************************************************)
Costs(lines) == [k \in DOMAIN lines |-> Cost(lines[k])]

BytesInv == TypeInv /\ BytesConserved /\ WindowBound

LEMMA FunctionIsSeq ==
  ASSUME NEW S, NEW n \in Nat, NEW f \in [1..n -> S]
  PROVE  f \in Seq(S) /\ Len(f) = n
OBVIOUS

LEMMA CostsType ==
  ASSUME NEW s \in Seq(0..NumLines - 1)
  PROVE  /\ Costs(s) \in Seq(Int) /\ Len(Costs(s)) = Len(s) /\ Len(s) \in Nat
         /\ \A k \in 1..Len(s) : Costs(s)[k] = Cost(s[k]) /\ s[k] \in 0..NumLines - 1
<1>1. DOMAIN s = 1..Len(s) /\ Len(s) \in Nat /\ \A k \in 1..Len(s) : s[k] \in 0..NumLines - 1
  OBVIOUS
<1>2. \A k \in 1..Len(s) : Cost(s[k]) \in Int
  BY <1>1, CostType
<1>3. Costs(s) = [k \in 1..Len(s) |-> Cost(s[k])]
  BY <1>1 DEF Costs
<1>4. Costs(s) \in [1..Len(s) -> Int]
  BY <1>2, <1>3
<1>5. Costs(s) \in Seq(Int) /\ Len(Costs(s)) = Len(s)
  BY <1>1, <1>4, FunctionIsSeq
<1> QED BY <1>1, <1>3, <1>5

LEMMA CostsPop ==
  ASSUME NEW s \in Seq(0..NumLines - 1), s # <<>>
  PROVE  SumOf(Costs(s)) = Cost(Head(s)) + SumOf(Costs(Tail(s)))
<1>1. /\ Tail(s) \in Seq(0..NumLines - 1) /\ Head(s) = s[1] /\ Len(s) \in Nat \ {0}
      /\ Len(Tail(s)) = Len(s) - 1 /\ \A k \in 1..Len(s) - 1 : Tail(s)[k] = s[k + 1]
  BY HeadTail
<1>s. /\ Costs(s) \in Seq(Int) /\ Len(Costs(s)) = Len(s)
      /\ \A k \in 1..Len(s) : Costs(s)[k] = Cost(s[k])
  BY CostsType
<1>t. /\ Costs(Tail(s)) \in Seq(Int) /\ Len(Costs(Tail(s))) = Len(s) - 1
      /\ \A k \in 1..Len(s) - 1 : Costs(Tail(s))[k] = Cost(s[k + 1])
  <2> DEFINE t == Tail(s)
  <2>1. t \in Seq(0..NumLines - 1) /\ Len(t) = Len(s) - 1 /\ \A k \in 1..Len(s) - 1 : t[k] = s[k + 1]
    BY <1>1
  <2> HIDE DEF t
  <2>2. /\ Costs(t) \in Seq(Int) /\ Len(Costs(t)) = Len(t)
        /\ \A k \in 1..Len(t) : Costs(t)[k] = Cost(t[k])
    BY <2>1, CostsType
  <2>3. Costs(t) \in Seq(Int) /\ Len(Costs(t)) = Len(s) - 1
        /\ \A k \in 1..Len(s) - 1 : Costs(t)[k] = Cost(s[k + 1])
    BY <2>1, <2>2
  <2> QED BY <2>3 DEF t
<1>2. Len(Costs(s)) = Len(Costs(Tail(s))) + 1
  <2> DEFINE x == Len(Costs(s))
             y == Len(Costs(Tail(s)))
             z == Len(s)
  <2>1. x = z /\ y = z - 1 /\ z \in Nat
    BY <1>1, <1>s, <1>t
  <2> HIDE DEF x, y, z
  <2>2. x = y + 1
    BY <2>1
  <2> QED BY <2>2 DEF x, y
<1>3. Costs(s)[1] = Cost(Head(s))
  BY <1>1, <1>s
<1>4. ASSUME NEW k \in 1..Len(Costs(Tail(s))) PROVE Costs(Tail(s))[k] = Costs(s)[k + 1]
  <2>1. k + 1 \in 1..Len(s) /\ k \in 1..Len(s) - 1
    BY <1>1, <1>t
  <2>2. Costs(Tail(s))[k] = Cost(s[k + 1])
    BY <1>t, <2>1
  <2>3. Costs(s)[k + 1] = Cost(s[k + 1])
    BY <1>s, <2>1
  <2> QED BY <2>2, <2>3
<1> QED BY <1>2, <1>3, <1>4, <1>s, <1>t, SumTail

LEMMA CostsPush ==
  ASSUME NEW s \in Seq(0..NumLines - 1), NEW i \in 0..NumLines - 1
  PROVE  SumOf(Costs(Append(s, i))) = SumOf(Costs(s)) + Cost(i)
<1>1. /\ Append(s, i) \in Seq(0..NumLines - 1) /\ Len(Append(s, i)) = Len(s) + 1 /\ Len(s) \in Nat
      /\ Append(s, i)[Len(s) + 1] = i /\ \A k \in 1..Len(s) : Append(s, i)[k] = s[k]
  OBVIOUS
<1>s. /\ Costs(s) \in Seq(Int) /\ Len(Costs(s)) = Len(s)
      /\ \A k \in 1..Len(s) : Costs(s)[k] = Cost(s[k])
  BY CostsType
<1>p. /\ Costs(Append(s, i)) \in Seq(Int) /\ Len(Costs(Append(s, i))) = Len(Append(s, i))
      /\ \A k \in 1..Len(Append(s, i)) : Costs(Append(s, i))[k] = Cost(Append(s, i)[k])
  <2> DEFINE t == Append(s, i)
  <2>1. t \in Seq(0..NumLines - 1)
    BY <1>1
  <2> HIDE DEF t
  <2>2. /\ Costs(t) \in Seq(Int) /\ Len(Costs(t)) = Len(t)
        /\ \A k \in 1..Len(t) : Costs(t)[k] = Cost(t[k])
    BY <2>1, CostsType
  <2> QED BY <2>2 DEF t
<1>2. /\ Len(Costs(Append(s, i))) = Len(Costs(s)) + 1
      /\ Costs(Append(s, i))[Len(Costs(s)) + 1] = Cost(i)
  <2>1. Len(s) + 1 \in 1..Len(Append(s, i))
    BY <1>1
  <2>2. Costs(Append(s, i))[Len(s) + 1] = Cost(Append(s, i)[Len(s) + 1])
    BY <1>p, <2>1
  <2> QED BY <1>1, <1>p, <1>s, <2>2
<1>3. ASSUME NEW k \in 1..Len(Costs(s)) PROVE Costs(Append(s, i))[k] = Costs(s)[k]
  <2>1. k \in 1..Len(s) /\ k \in 1..Len(Append(s, i))
    BY <1>1, <1>s
  <2>2. Costs(Append(s, i))[k] = Cost(Append(s, i)[k]) /\ Costs(s)[k] = Cost(s[k])
    BY <1>p, <1>s, <2>1
  <2> QED BY <1>1, <2>1, <2>2
<1>4. Costs(Append(s, i)) \in Seq(Int) /\ Costs(s) \in Seq(Int)
  BY <1>p, <1>s
<1> QED BY <1>2, <1>3, <1>4, SumAppend

LEMMA CostsNat ==
  ASSUME NEW s \in Seq(0..NumLines - 1)
  PROVE  SumOf(Costs(s)) \in Nat
<1>1. ASSUME NEW k \in 1..Len(Costs(s)) PROVE Costs(s)[k] >= 0
  <2>1. Costs(s)[k] = Cost(s[k]) /\ s[k] \in 0..NumLines - 1
    BY CostsType
  <2> QED BY <2>1, CostType
<1> QED BY <1>1, CostsType, SumNat

LEMMA BytesInit == Init => BytesInv
<1> SUFFICES ASSUME Init PROVE BytesInv
  OBVIOUS
<1>1. lens = <<>> /\ inflight = 0 /\ Len(lens) = 0 /\ [k \in DOMAIN lens |-> Cost(lens[k])] = <<>>
  BY DEF Init
<1>2. BytesConserved
  BY <1>1, SumEmpty DEF BytesConserved
<1> QED BY TypeInit, <1>1, <1>2 DEF BytesInv, WindowBound

LEMMA BytesNext == BytesInv /\ [Next]_vars => BytesInv'
<1> SUFFICES ASSUME BytesInv, [Next]_vars PROVE BytesInv'
  OBVIOUS
<1>t. TypeInv' /\ TypeOK
  BY TypeNext DEF BytesInv, TypeInv
<1>b. /\ inflight = SumOf(Costs(lens)) /\ inflight <= RxWindow /\ Len(lens) <= MaxInflight
      /\ inflight \in Nat /\ lens \in Seq(0..NumLines - 1)
  BY <1>t DEF BytesInv, BytesConserved, Costs, WindowBound, TypeOK
<1>s. ASSUME inflight' = SumOf(Costs(lens')), inflight' <= RxWindow, Len(lens') <= MaxInflight
      PROVE  BytesInv'
  BY <1>t, <1>s DEF BytesInv, BytesConserved, Costs, WindowBound
<1>e. ASSUME inflight' = 0, lens' = <<>> PROVE BytesInv'
  <2>1. Costs(<<>>) = <<>> /\ Len(<<>>) = 0
    BY DEF Costs
  <2> QED BY <1>e, <1>s, <2>1, SumEmpty
<1>u. ASSUME UNCHANGED <<lens, inflight>> PROVE BytesInv'
  BY <1>u, <1>b, <1>s
<1>1. CASE Clock \/ TickBegin \/ Rx \/ WireTake \/ UNCHANGED vars
  BY <1>1, <1>u DEF Clock, TickBegin, Rx, RxOk, RxErr, RxStatus, SessionOpens, WireTake, parserFrame, streamer, vars
<1>2. CASE PumpAck
  <2>1. CASE Active(st) /\ lens # <<>>
    <3>1. /\ lens' = Tail(lens)
          /\ inflight' = IF inflight >= Cost(Head(lens)) THEN inflight - Cost(Head(lens)) ELSE 0
      BY <1>2, <2>1 DEF PumpAck
    <3>2. Len(Tail(lens)) = Len(lens) - 1 /\ Len(lens) \in Nat /\ Head(lens) \in 0..NumLines - 1
      BY <1>b, <2>1, HeadTail
    <3>3. SumOf(Costs(lens)) = Cost(Head(lens)) + SumOf(Costs(Tail(lens)))
      BY <1>b, <2>1, CostsPop
    <3>4. Cost(Head(lens)) \in Nat
      BY <3>2, CostType
    <3>5. SumOf(Costs(Tail(lens))) \in Nat
      BY <1>b, <2>1, HeadTail, CostsNat
    <3>6. inflight' = SumOf(Costs(Tail(lens))) /\ inflight' <= RxWindow
      BY <1>b, <3>1, <3>3, <3>4, <3>5
    <3>7. Len(lens') <= MaxInflight
      BY <1>b, <3>1, <3>2
    <3> QED BY <1>s, <3>1, <3>6, <3>7
  <2>2. CASE ~(Active(st) /\ lens # <<>>)
    BY <1>2, <2>2, <1>u DEF PumpAck
  <2> QED BY <2>1, <2>2
<1>3. CASE PumpLine
  <2>1. /\ lens' = Append(lens, act.num) /\ inflight' = inflight + Cost(act.num)
        /\ Len(lens) < MaxInflight /\ inflight + Cost(act.num) <= RxWindow /\ pc1 = "read"
    BY <1>3 DEF PumpLine, Fits
  <2>2. act.num \in 0..NumLines - 1
    BY <2>1, ItemTypes DEF BytesInv, TypeInv, SendHasItem
  <2>3. Len(lens') = Len(lens) + 1 /\ Len(lens) \in Nat
    BY <1>b, <2>1, <2>2
  <2>4. inflight' = SumOf(Costs(lens'))
    BY <1>b, <2>1, <2>2, CostsPush
  <2> QED BY <1>s, <2>1, <2>3, <2>4
<1>4. CASE Pump /\ ~PumpAck /\ ~PumpLine
  BY <1>4, <1>u DEF Pump, PumpSkip, PumpError, PumpCount, PumpGrant, PumpNext, PumpClaimTimeout, PumpDeadMan,
     PumpEndOfFile, PumpRead, PumpNothing, PumpNullRead, PumpOversize, PumpFull, PumpSend, PumpFinish, PumpIdle,
     NextFails, streamer
<1>5. CASE UiLoad \/ UiReload
  BY <1>5, <1>e DEF UiLoad, UiReload, LoadJob
<1>6. CASE Ui /\ ~UiLoad /\ ~UiReload
  BY <1>6, <1>u DEF Ui, UiStart, UiBaseline, UiHold, UiResume, UiAbort, UiAbortReset, UiStop, UiMpgToggle,
     UiMdi, buttonFrame, streamer
<1> QED BY <1>1, <1>2, <1>3, <1>4, <1>5, <1>6 DEF Next

(* in_flight_bytes is the bytes of the tracked lines and stays within the  *)
(* window, whatever the acks do and even when the UI loads another job in  *)
(* the middle of a read.                                                   *)
THEOREM BytesAreExact == Spec => [](BytesConserved /\ WindowBound)
<1>1. BytesInv => BytesConserved /\ WindowBound
  BY DEF BytesInv
<1> QED BY BytesInit, BytesNext, <1>1, PTL DEF Spec

-----------------------------------------------------------------------------
(***************************************************************************)
(* The window.  next() reads line next_line and, when the read returns,    *)
(* counts line next_line: the two are the same line as long as nobody      *)
(* loads another job meanwhile.  ReadIsNext is that fact, and it is what   *)
(* makes the window invariant inductive.                                   *)
(***************************************************************************)
ReadIsNext == pc1 = "read" => act = Line(next_line) /\ next_line < total

JobInv == TypeInv /\ ReadIsNext /\ WindowInv /\ CompleteMeansDrained

LEMMA OffsetFacts ==
  ASSUME NEW i \in 0..NumLines, NEW j \in 0..NumLines, i <= j
  PROVE  Offset[i] \in Nat /\ Offset[j] \in Nat /\ Offset[i] <= Offset[j]
<1>1. CASE i = j
  BY <1>1
<1>2. CASE i < j
  BY <1>2
<1> QED BY <1>1, <1>2

LEMMA WindowSame ==
  ASSUME WindowInv, UNCHANGED <<total, next_line, lens, inflight>>
  PROVE  WindowInv'
BY DEF WindowInv, WindowBound

LEMMA DrainedSame ==
  ASSUME CompleteMeansDrained, UNCHANGED <<total, next_line, lens>>,
         st' = st \/ st' \notin {"complete", "draining"}
  PROVE  CompleteMeansDrained'
BY DEF CompleteMeansDrained

(* An ack: the line that leaves is the oldest, and its bytes leave too.    *)
LEMMA WindowPop ==
  ASSUME TypeOK, WindowInv, lens # <<>>, lens' = Tail(lens),
         inflight' = IF inflight >= Cost(Head(lens)) THEN inflight - Cost(Head(lens)) ELSE 0,
         UNCHANGED <<total, next_line>>
  PROVE  WindowInv'
<1> DEFINE n == Len(lens)
           o == next_line - n
<1>1. /\ n \in Nat \ {0} /\ Head(lens) = lens[1]
      /\ lens' \in Seq(0..NumLines - 1) /\ Len(lens') = n - 1
      /\ \A k \in 1..n - 1 : lens'[k] = lens[k + 1]
  BY HeadTail DEF TypeOK
<1>2. /\ o \in 0..NumLines - 1 /\ o + 1 \in 0..NumLines /\ next_line \in 0..NumLines
      /\ lens[1] = o /\ inflight = Offset[next_line] - Offset[o]
      /\ \A k \in 1..n : lens[k] = o + k - 1
  <2>1. next_line \in 0..NumLines /\ n <= next_line
    BY DEF WindowInv, TypeOK
  <2>2. o \in 0..NumLines - 1 /\ o + 1 \in 0..NumLines
    BY <1>1, <2>1
  <2>3. /\ inflight = Offset[next_line] - Offset[o]
        /\ \A k \in 1..n : lens[k] = o + k - 1
    BY <1>1, <2>1 DEF WindowInv
  <2>4. 1 \in 1..n
    BY <1>1
  <2> HIDE DEF n, o
  <2>5. lens[1] = o + 1 - 1
    BY <2>3, <2>4
  <2>6. lens[1] = o
    BY <2>5, <2>2
  <2> QED BY <2>1, <2>2, <2>3, <2>6
<1>3. /\ Offset[o] \in Nat /\ Offset[o + 1] \in Nat /\ Offset[next_line] \in Nat
      /\ Offset[o] <= Offset[o + 1] /\ Offset[o + 1] <= Offset[next_line]
  <2>1. o <= o + 1 /\ o + 1 <= next_line /\ o \in 0..NumLines
    BY <1>1, <1>2
  <2> HIDE DEF n, o
  <2> QED BY <1>2, <2>1, OffsetFacts
<1>4. Cost(Head(lens)) = Offset[o + 1] - Offset[o]
  BY <1>1, <1>2 DEF Cost
<1>5. inflight' = Offset[next_line'] - Offset[next_line' - Len(lens')]
  <2>1. inflight' = Offset[next_line] - Offset[o + 1]
    BY <1>2, <1>3, <1>4, SMTT(30)
  <2>2. next_line' - Len(lens') = o + 1
    BY <1>1, <1>2
  <2> QED BY <2>1, <2>2
<1>6. inflight' <= RxWindow /\ Len(lens') <= MaxInflight
  <2>1. inflight <= RxWindow /\ n <= MaxInflight /\ inflight \in Nat
    BY DEF WindowInv, WindowBound, TypeOK
  <2>2. Cost(Head(lens)) \in Nat
    BY <1>3, <1>4
  <2>3. inflight' <= inflight
    BY <2>1, <2>2
  <2>4. inflight' \in Int
    BY <2>1, <2>2
  <2> QED BY <1>1, <2>1, <2>3, <2>4, SMTT(30)
<1>7. Len(lens') <= next_line' /\ next_line' <= total'
  BY <1>1 DEF WindowInv, TypeOK
<1>8. \A k \in 1..Len(lens') : lens'[k] = next_line' - Len(lens') + k - 1
  BY <1>1, <1>2
<1> QED BY <1>5, <1>6, <1>7, <1>8 DEF WindowInv, WindowBound

(* The line that was read enters behind the ones in flight.                *)
LEMMA WindowPush ==
  ASSUME TypeOK, WindowInv, act = Line(next_line), next_line < total, Fits(act.num),
         lens' = Append(lens, act.num), inflight' = inflight + Cost(act.num),
         next_line' = next_line + 1, UNCHANGED total
  PROVE  WindowInv'
<1> DEFINE n == Len(lens)
           o == next_line - n
<1>1. act.num = next_line /\ next_line \in 0..NumLines - 1 /\ next_line + 1 \in 0..NumLines
  BY DEF Line, TypeOK
<1>2. /\ n \in Nat /\ Len(lens') = n + 1 /\ lens'[n + 1] = next_line
      /\ \A k \in 1..n : lens'[k] = lens[k]
  BY <1>1 DEF TypeOK
<1>3. /\ o \in 0..NumLines /\ inflight = Offset[next_line] - Offset[o]
      /\ \A k \in 1..n : lens[k] = o + k - 1
  BY <1>1, <1>2 DEF WindowInv, TypeOK
<1>4. next_line' - Len(lens') = o
  BY <1>1, <1>2
<1>5. inflight' = Offset[next_line'] - Offset[o]
  <2>1. Cost(act.num) = Offset[next_line + 1] - Offset[next_line]
    BY <1>1 DEF Cost
  <2>2. Offset[next_line + 1] \in Nat /\ Offset[next_line] \in Nat /\ Offset[o] \in Nat
    BY <1>1, <1>3
  <2> QED BY <1>3, <2>1, <2>2, SMTT(30)
<1>6. \A k \in 1..Len(lens') : lens'[k] = o + k - 1
  <2> SUFFICES ASSUME NEW k \in 1..n + 1 PROVE lens'[k] = o + k - 1
    BY <1>2
  <2>1. CASE k \in 1..n
    BY <2>1, <1>2, <1>3
  <2>2. CASE k = n + 1
    BY <2>2, <1>1, <1>2
  <2>3. n \in Nat
    BY <1>2
  <2> HIDE DEF n, o
  <2>4. k \in 1..n \/ k = n + 1
    BY <2>3
  <2> QED BY <2>1, <2>2, <2>4
<1>7. Len(lens') <= next_line' /\ next_line' <= total'
  BY <1>1, <1>2 DEF WindowInv, TypeOK
<1>8. inflight' <= RxWindow /\ Len(lens') <= MaxInflight
  BY <1>2 DEF Fits
<1> QED BY <1>4, <1>5, <1>6, <1>7, <1>8 DEF WindowInv, WindowBound

LEMMA JobInit == Init => JobInv
<1> SUFFICES ASSUME Init PROVE JobInv
  OBVIOUS
<1>1. Len(lens) = 0
  BY DEF Init
<1>2. WindowInv
  BY <1>1 DEF Init, WindowInv, WindowBound
<1> QED BY TypeInit, <1>2 DEF Init, JobInv, ReadIsNext, CompleteMeansDrained

LEMMA JobNext ==
  ASSUME "reload" \notin Ops
  PROVE  JobInv /\ [Next]_vars => JobInv'
<1> SUFFICES ASSUME JobInv, [Next]_vars PROVE JobInv'
  OBVIOUS
<1> USE DEF JobInv
<1>t. TypeInv' /\ TypeOK
  BY TypeNext DEF TypeInv
<1>r. ASSUME UNCHANGED <<total, next_line, lens, inflight>>,
             st' = st \/ st' \notin {"complete", "draining"},
             pc1' # "read" \/ UNCHANGED <<pc1, act>>
      PROVE  JobInv'
  BY <1>t, <1>r, WindowSame, DrainedSame DEF ReadIsNext
<1>1. CASE Clock \/ TickBegin \/ Rx \/ WireTake \/ UNCHANGED vars
  BY <1>1, <1>r DEF Clock, TickBegin, Rx, RxOk, RxErr, RxStatus, SessionOpens, WireTake, parserFrame, streamer, vars
<1>2. CASE Pump
  <2>1. CASE PumpSkip \/ PumpError \/ PumpCount
    BY <2>1, <1>r DEF PumpSkip, PumpError, PumpCount, Goto, streamer
  <2>2. CASE PumpAck
    <3>1. pc1' = "acks" /\ UNCHANGED <<total, next_line>>
      BY <2>2 DEF PumpAck
    <3>2. CASE Active(st) /\ lens # <<>>
      <4>1. WindowInv'
        BY <2>2, <3>1, <3>2, <1>t, WindowPop DEF PumpAck
      <4>2. CompleteMeansDrained'
        BY <2>2, <3>1, <3>2 DEF PumpAck, CompleteMeansDrained, Active
      <4> QED BY <1>t, <3>1, <4>1, <4>2 DEF ReadIsNext
    <3>3. CASE Active(st) /\ lens = <<>>
      <4>1. WindowInv'
        BY <2>2, <3>1, <3>3, WindowSame DEF PumpAck
      <4>2. CompleteMeansDrained'
        BY <2>2, <3>1, <3>3 DEF PumpAck, CompleteMeansDrained, Active
      <4> QED BY <1>t, <3>1, <4>1, <4>2 DEF ReadIsNext
    <3>4. CASE ~Active(st)
      BY <2>2, <3>1, <3>4, <1>r DEF PumpAck
    <3> QED BY <3>2, <3>3, <3>4
  <2>3. CASE PumpGrant
    BY <2>3, <1>r DEF PumpGrant, Goto
  <2>4. CASE PumpNext
    <3>1. CASE PumpClaimTimeout \/ PumpDeadMan \/ PumpOversize
      BY <3>1, <1>r DEF PumpClaimTimeout, PumpDeadMan, PumpOversize, NextFails, Goto
    <3>2. CASE PumpEndOfFile
      <4>1. next_line = total
        BY <3>2, <1>t DEF PumpEndOfFile, WindowInv, TypeOK
      <4>2. WindowInv'
        BY <3>2, WindowSame DEF PumpEndOfFile
      <4>3. CompleteMeansDrained' /\ pc1' = "finish"
        BY <3>2, <4>1 DEF PumpEndOfFile, Finished, Goto, CompleteMeansDrained
      <4> QED BY <1>t, <4>2, <4>3 DEF ReadIsNext
    <3>3. CASE PumpRead
      <4>1. WindowInv' /\ CompleteMeansDrained'
        BY <3>3, WindowSame, DrainedSame DEF PumpRead
      <4> QED BY <1>t, <3>3, <4>1 DEF PumpRead, ReadIsNext
    <3>4. CASE PumpNothing \/ PumpFull
      BY <3>4, <1>r DEF PumpNothing, PumpFull, Goto
    <3>5. CASE PumpNullRead
      <4>1. /\ total' = next_line /\ pc1' = "finish"
            /\ UNCHANGED <<next_line, lens, inflight>>
        BY <3>5 DEF PumpNullRead, Goto
      <4>2. WindowInv'
        BY <4>1, <1>t DEF WindowInv, WindowBound, TypeOK
      <4>3. CompleteMeansDrained'
        BY <3>5, <4>1 DEF PumpNullRead, Finished, CompleteMeansDrained
      <4> QED BY <1>t, <4>1, <4>2, <4>3 DEF ReadIsNext
    <3>6. CASE PumpLine
      <4>1. act = Line(next_line) /\ next_line < total
        BY <3>6 DEF PumpLine, ReadIsNext
      <4>2. WindowInv'
        BY <3>6, <4>1, <1>t, WindowPush DEF PumpLine
      <4>3. CompleteMeansDrained'
        BY <3>6, <4>1, <1>t DEF PumpLine, CompleteMeansDrained, TypeOK
      <4> QED BY <1>t, <3>6, <4>2, <4>3 DEF PumpLine, Goto, ReadIsNext
    <3> QED BY <2>4, <3>1, <3>2, <3>3, <3>4, <3>5, <3>6 DEF PumpNext
  <2>5. CASE PumpSend \/ PumpFinish \/ PumpIdle
    BY <2>5, <1>r DEF PumpSend, PumpFinish, PumpIdle, Goto, streamer
  <2> QED BY <1>2, <2>1, <2>2, <2>3, <2>4, <2>5 DEF Pump
<1>3. CASE Ui
  <2>1. CASE UiLoad
    <3>1. LoadJob /\ pc1 = "rest" /\ pc1' = pc1
      BY <2>1 DEF UiLoad, AtRest, LoadJob, uiFrame
    <3>2. Len(lens') = 0
      BY <3>1 DEF LoadJob
    <3>3. WindowInv'
      BY <3>1, <3>2 DEF LoadJob, WindowInv, WindowBound
    <3>4. CompleteMeansDrained' /\ ReadIsNext'
      BY <3>1 DEF LoadJob, CompleteMeansDrained, ReadIsNext
    <3> QED BY <1>t, <3>3, <3>4
  <2>2. CASE UiReload
    BY <2>2 DEF UiReload, Pressed
  <2>3. CASE UiStart \/ UiBaseline
    BY <2>3, <1>r DEF UiStart, UiBaseline, uiFrame, streamer
  <2>4. CASE UiHold \/ UiResume \/ UiAbort \/ UiAbortReset \/ UiStop \/ UiMpgToggle \/ UiMdi
    BY <2>4, <1>r DEF UiHold, UiResume, UiAbort, UiAbortReset, UiStop, UiMpgToggle, UiMdi,
                      buttonFrame, uiFrame
  <2> QED BY <1>3, <2>1, <2>2, <2>3, <2>4 DEF Ui
<1> QED BY <1>1, <1>2, <1>3 DEF Next

(* However acks, reads and buttons interleave, in_flight_bytes is exactly  *)
(* what the unacked lines cost and never more than the RX window, as long  *)
(* as no other job is loaded while one is being pumped.                    *)
THEOREM WindowIsExact ==
  ASSUME "reload" \notin Ops
  PROVE  Spec => []WindowInv
<1>1. JobInv => WindowInv
  BY DEF JobInv
<1> QED BY JobInit, JobNext, <1>1, PTL DEF Spec

(* Under the same condition a job is complete only when it has no line     *)
(* left to send and none unacked.                                          *)
THEOREM CompleteIsDrained ==
  ASSUME "reload" \notin Ops
  PROVE  Spec => []CompleteMeansDrained
<1>1. JobInv => CompleteMeansDrained
  BY DEF JobInv
<1> QED BY JobInit, JobNext, <1>1, PTL DEF Spec

-----------------------------------------------------------------------------
(***************************************************************************)
(* The operator's soft reset.  abort() takes the streamer out of every     *)
(* state from which next() may read, before the reset is sent; a read that *)
(* is under way may still end the job as draining, but that state does not *)
(* read either.                                                            *)
(***************************************************************************)
HaltInv == halted \/ pc0 = "reset" => st \notin {"claiming", "streaming", "paused"}

LEMMA HaltInit == Init => HaltInv
BY DEF Init, HaltInv

LEMMA HaltNext ==
  ASSUME "stop" \notin Ops
  PROVE  HaltInv /\ [Next]_vars => HaltInv'
<1> SUFFICES ASSUME HaltInv, [Next]_vars PROVE HaltInv'
  OBVIOUS
<1>s. ASSUME UNCHANGED <<st, halted, pc0>> PROVE HaltInv'
  BY <1>s DEF HaltInv
<1>1. CASE Clock \/ TickBegin \/ Rx \/ WireTake \/ UNCHANGED vars
  BY <1>1, <1>s DEF Clock, TickBegin, Rx, RxOk, RxErr, RxStatus, SessionOpens, WireTake, parserFrame,
                    streamer, history, vars
<1>2. CASE Pump
  <2> USE DEF pumpFrame, streamer
  <2>1. CASE PumpSkip \/ PumpCount \/ PumpSend \/ PumpFinish
    BY <2>1, <1>s DEF PumpSkip, PumpCount, PumpSend, PumpFinish
  <2>2. CASE PumpError \/ PumpIdle
    BY <2>2 DEF PumpError, PumpIdle, HaltInv
  <2>3. CASE PumpAck
    <3>1. (st' = st \/ st' = "complete") /\ UNCHANGED <<halted, pc0>>
      BY <2>3 DEF PumpAck
    <3> QED BY <3>1 DEF HaltInv
  <2>4. CASE PumpGrant
    <3>1. (st' = st \/ st = "claiming" \/ st' = "aborted") /\ UNCHANGED <<halted, pc0>>
      BY <2>4 DEF PumpGrant
    <3> QED BY <3>1 DEF HaltInv
  <2>5. CASE PumpNext
    <3>1. (st' = st \/ st' \in {"aborted", "complete", "draining"}) /\ UNCHANGED <<halted, pc0>>
      BY <2>5 DEF PumpNext, PumpClaimTimeout, PumpDeadMan, PumpOversize, NextFails, PumpEndOfFile,
                  PumpRead, PumpNothing, PumpNullRead, PumpLine, PumpFull, Finished, nextFrame
    <3> QED BY <3>1 DEF HaltInv
  <2> QED BY <1>2, <2>1, <2>2, <2>3, <2>4, <2>5 DEF Pump
<1>3. CASE Ui
  <2> USE DEF buttonFrame, streamer, history
  <2>1. CASE UiLoad \/ UiReload
    BY <2>1 DEF UiLoad, UiReload, LoadJob, HaltInv
  <2>2. CASE UiStart
    BY <2>2 DEF UiStart, HaltInv
  <2>3. CASE UiBaseline
    BY <2>3 DEF UiBaseline, HaltInv
  <2>4. CASE UiHold \/ UiResume
    BY <2>4 DEF UiHold, UiResume, HaltInv
  <2>5. CASE UiAbort
    BY <2>5 DEF UiAbort, HaltInv, Active
  <2>6. CASE UiAbortReset
    BY <2>6 DEF UiAbortReset, HaltInv
  <2>7. CASE UiStop
    BY <2>7 DEF UiStop, Pressed
  <2>8. CASE UiMpgToggle \/ UiMdi
    BY <2>8, <1>s DEF UiMpgToggle, UiMdi
  <2> QED BY <1>3, <2>1, <2>2, <2>3, <2>4, <2>5, <2>6, <2>7, <2>8 DEF Ui
<1> QED BY <1>1, <1>2, <1>3 DEF Next

(* After an abort's soft reset the streamer reads no further line of the   *)
(* file, whatever the pump was doing when the operator aborted.  cmdStop   *)
(* is excluded: it does not tell the streamer.                             *)
THEOREM AbortStopsReading ==
  ASSUME "stop" \notin Ops
  PROVE  Spec => NoReadAfterReset
<1>1. HaltInv /\ [Next]_vars => [(pc1' = "read" /\ pc1 # "read") => ~halted]_vars
  <2> SUFFICES ASSUME HaltInv, [Next]_vars, pc1' = "read", pc1 # "read" PROVE ~halted
    OBVIOUS
  <2>1. PumpRead
    <3>1. ~(Clock \/ TickBegin \/ Rx \/ WireTake \/ UNCHANGED vars)
      BY DEF Clock, TickBegin, Rx, RxOk, RxErr, RxStatus, SessionOpens, WireTake, parserFrame, vars
    <3>2. ~Ui
      BY DEF Ui, UiLoad, UiReload, LoadJob, UiStart, UiBaseline, UiHold, UiResume, UiAbort,
             UiAbortReset, UiStop, UiMpgToggle, UiMdi, buttonFrame, uiFrame
    <3>3. ~(PumpSkip \/ PumpError \/ PumpCount \/ PumpAck \/ PumpGrant \/ PumpSend \/ PumpFinish \/ PumpIdle)
      BY DEF PumpSkip, PumpError, PumpCount, PumpAck, PumpGrant, PumpSend, PumpFinish, PumpIdle, Goto
    <3>4. PumpNext
      BY <3>1, <3>2, <3>3 DEF Next, Pump
    <3> QED BY <3>4 DEF PumpNext, PumpClaimTimeout, PumpDeadMan, PumpOversize, NextFails,
                        PumpEndOfFile, PumpNothing, PumpNullRead, PumpLine, PumpFull, Goto
  <2> QED BY <2>1 DEF PumpRead, MaySend, HaltInv
<1> QED BY HaltInit, HaltNext, <1>1, PTL DEF Spec, NoReadAfterReset

-----------------------------------------------------------------------------
(***************************************************************************)
(* The grant.  The pump looks at the reported grant once per tick, before  *)
(* its sending loop; from there to the end of the loop the parser does not *)
(* run.  What it looks at is the snapshot: a started job is one that the   *)
(* snapshot grants, and in a tick that found the session open the snapshot *)
(* is the last report, so the line goes out.                               *)
(***************************************************************************)
GrantInv ==
  /\ pc1 \notin {"rest", "drain"} /\ fresh => (mpg_snap <=> mpg_remote)
  /\ st = "loaded" => pc1 \in {"rest", "drain"}
  /\ Started(st) => saw_grant
  /\ pc1 = "read" => saw_grant /\ mpg_snap
  /\ pc1 \in {"next", "send"} /\ Started(st) => mpg_snap
  /\ pc1 = "send" /\ act.kind = "line" => mpg_snap

LEMMA GrantInit == Init => GrantInv
BY DEF Init, GrantInv, Started

LEMMA GrantNext ==
  ASSUME "reload" \notin Ops
  PROVE  GrantInv /\ [Next]_vars => GrantInv'
<1> SUFFICES ASSUME GrantInv, [Next]_vars PROVE GrantInv'
  OBVIOUS
<1> USE DEF Started
<1>s. ASSUME UNCHANGED <<st, saw_grant, pc1, act, mpg_remote, mpg_snap, fresh>> PROVE GrantInv'
  BY <1>s DEF GrantInv
<1>1. CASE Clock \/ WireTake \/ UNCHANGED vars
  BY <1>1, <1>s DEF Clock, WireTake, streamer, engine, driver, vars
<1>2. CASE TickBegin
  BY <1>2 DEF TickBegin, streamer, engine, driver, GrantInv
<1>3. CASE Rx
  <2>1. CASE SessionOpens
    BY <1>s, <2>1 DEF SessionOpens, parserFrame, streamer, engine
  <2>2. CASE ~SessionOpens
    <3>1. pc1 = "drain" /\ UNCHANGED <<pc1, act, st, saw_grant, mpg_snap, fresh>>
      BY <1>3, <2>2 DEF Rx, RxOk, RxErr, RxStatus, parserFrame, streamer
    <3> QED BY <3>1 DEF GrantInv
  <2> QED BY <2>1, <2>2
<1>4. CASE Pump
  <2> USE DEF pumpFrame, streamer, engine, driver, Goto
  <2>1. CASE PumpSkip \/ PumpError \/ PumpCount
    BY <2>1 DEF PumpSkip, PumpError, PumpCount, SnapshotRefresh, GrantInv, Active
  <2>2. CASE PumpAck
    <3>1. st' = st \/ st' = "complete"
      BY <2>2 DEF PumpAck
    <3>2. pc1' = "acks" /\ pc1 = "acks" /\ UNCHANGED <<saw_grant, mpg_remote, mpg_snap, fresh>>
      BY <2>2 DEF PumpAck
    <3> QED BY <3>1, <3>2 DEF GrantInv
  <2>3. CASE PumpGrant
    <3>1. /\ pc1 = "acks" /\ pc1' \in {"next", "finish"} /\ UNCHANGED <<mpg_remote, mpg_snap, fresh>>
          /\ saw_grant' = (saw_grant \/ (mpg_snap /\ st = "claiming"))
      BY <2>3 DEF PumpGrant
    <3>2. \/ st = "claiming" /\ mpg_snap /\ st' = "streaming"
          \/ ~mpg_snap /\ saw_grant /\ Started(st) /\ st' = "aborted"
          \/ st' = st /\ ~(mpg_snap /\ st = "claiming") /\ ~(~mpg_snap /\ saw_grant /\ Started(st))
      BY <2>3 DEF PumpGrant
    <3> QED BY <3>1, <3>2 DEF GrantInv
  <2>4. CASE PumpNext
    <3> USE DEF nextFrame
    <3>1. CASE PumpClaimTimeout \/ PumpDeadMan \/ PumpOversize
      <4>1. /\ st' = "aborted" /\ pc1 \in {"next", "read"} /\ pc1' \in {"finish", "send"}
            /\ act'.kind # "line" /\ UNCHANGED <<saw_grant, mpg_remote, mpg_snap, fresh>>
        BY <3>1 DEF PumpClaimTimeout, PumpDeadMan, PumpOversize, NextTurn, NextFails, Reset, Byte, NoAct
      <4> QED BY <4>1 DEF GrantInv
    <3>2. CASE PumpEndOfFile \/ PumpNullRead
      <4>1. /\ st' \in {"complete", "draining"} /\ pc1' = "finish" /\ UNCHANGED <<saw_grant, mpg_remote, mpg_snap, fresh>>
            /\ pc1 = "read" \/ (pc1 = "next" /\ st = "streaming")
        BY <3>2 DEF PumpEndOfFile, PumpNullRead, NextTurn, Finished, MaySend
      <4> QED BY <4>1 DEF GrantInv
    <3>3. CASE PumpRead
      BY <3>3 DEF PumpRead, NextTurn, MaySend, GrantInv
    <3>4. CASE PumpNothing \/ PumpFull
      BY <3>4 DEF PumpNothing, PumpFull, GrantInv
    <3>5. CASE PumpLine
      BY <3>5 DEF PumpLine, GrantInv
    <3> QED BY <2>4, <3>1, <3>2, <3>3, <3>4, <3>5 DEF PumpNext
  <2>5. CASE PumpSend
    BY <2>5 DEF PumpSend, GrantInv
  <2>6. CASE PumpFinish \/ PumpIdle
    BY <2>6 DEF PumpFinish, PumpIdle, GrantInv
  <2> QED BY <1>4, <2>1, <2>2, <2>3, <2>4, <2>5, <2>6 DEF Pump
<1>5. CASE Ui
  <2> USE DEF buttonFrame, uiFrame, streamer, engine, driver
  <2>1. CASE UiLoad
    BY <2>1 DEF UiLoad, AtRest, LoadJob, GrantInv
  <2>2. CASE UiReload
    BY <2>2 DEF UiReload, Pressed
  <2>3. CASE UiStart
    BY <2>3 DEF UiStart, GrantInv
  <2>4. CASE UiBaseline \/ UiAbortReset \/ UiStop \/ UiMpgToggle \/ UiMdi
    BY <2>4, <1>s DEF UiBaseline, UiAbortReset, UiStop, UiMpgToggle, UiMdi
  <2>5. CASE UiHold \/ UiResume \/ UiAbort
    BY <2>5 DEF UiHold, UiResume, UiAbort, GrantInv
  <2> QED BY <1>5, <2>1, <2>2, <2>3, <2>4, <2>5 DEF Ui
<1> QED BY <1>1, <1>2, <1>3, <1>4, <1>5 DEF Next

(* In a tick that found the session open, every line of the job leaves     *)
(* while the controller's last report says that it reads this port, so     *)
(* none is dropped after the window has counted it.                        *)
THEOREM LinesAreGranted ==
  ASSUME "reload" \notin Ops
  PROVE  Spec => []LineNeedsGrant
<1>1. GrantInv => LineNeedsGrant
  BY DEF GrantInv, LineNeedsGrant, LineHoldsGrant, CanSendLine
<1> QED BY GrantInit, GrantNext, <1>1, PTL DEF Spec

-----------------------------------------------------------------------------
(***************************************************************************)
(* The toggles.  A job sends 0x8B when the UI claims the port, after the   *)
(* streamer has already turned to claiming, and again when the pump ends   *)
(* it; the pump may be the first of the two.  owed is odd while exactly    *)
(* one of them has been sent.                                              *)
(***************************************************************************)
(* The pump has no release to send any more.                               *)
Settled == st \in {"idle", "loaded"} \/ pc1 = "idle"

ReleaseInv ==
  /\ owed \in BOOLEAN /\ claimed \in BOOLEAN
  /\ owed <=> claimed /\ (Settled <=> pc0 = "claim")
  /\ pc0 = "claim" => claimed
  /\ st = "loaded" => ~claimed
  /\ st \in {"idle", "loaded"} => pc1 \in {"rest", "drain"}
  /\ st \in {"complete", "aborted"} => pc1 \notin {"rest", "drain"}
  /\ pc1 = "idle" => st \in {"complete", "aborted"}
  /\ err_count = last_err

LEMMA ReleaseInit == Init => ReleaseInv
BY DEF Init, ReleaseInv, Settled

(* Errors and aborts are left out as hypotheses on the step: on either the *)
(* pump returns before the release.                                        *)
LEMMA ReleaseNext ==
  ASSUME "reload" \notin Ops
  PROVE  TypeInv /\ ReleaseInv /\ [Next]_vars /\ UNCHANGED err_count /\ ~UiAbort => ReleaseInv'
<1> SUFFICES ASSUME TypeInv, ReleaseInv, [Next]_vars, UNCHANGED err_count, ~UiAbort PROVE ReleaseInv'
  OBVIOUS
<1>s. ASSUME UNCHANGED <<st, claimed, pc0, pc1, owed, last_err>> PROVE ReleaseInv'
  BY <1>s DEF ReleaseInv, Settled
<1>1. CASE Clock \/ Rx \/ WireTake \/ UNCHANGED vars
  BY <1>1, <1>s DEF Clock, Rx, RxOk, RxErr, RxStatus, SessionOpens, WireTake, parserFrame,
                    streamer, runner, history, vars
<1>2. CASE TickBegin
  BY <1>2 DEF TickBegin, streamer, runner, history, ReleaseInv, Settled
<1>3. CASE Pump
  <2> USE DEF pumpFrame, streamer, runner, Goto
  <2>1. CASE PumpSkip \/ PumpCount
    BY <2>1 DEF PumpSkip, PumpCount, ReleaseInv, Settled, Active
  <2>2. CASE PumpError
    BY <2>2 DEF PumpError, ReleaseInv
  <2>3. CASE PumpAck
    <3>1. /\ st' = st \/ (st = "draining" /\ st' = "complete")
          /\ pc1 = "acks" /\ UNCHANGED <<claimed, pc0, pc1, owed, last_err>>
      BY <2>3 DEF PumpAck
    <3> QED BY <3>1 DEF ReleaseInv, Settled
  <2>4. CASE PumpGrant
    <3>1. /\ st' = st \/ (Active(st) /\ st' \in {"streaming", "aborted"})
          /\ pc1 = "acks" /\ pc1' \in {"next", "finish"}
          /\ UNCHANGED <<claimed, pc0, owed, last_err>>
      BY <2>4 DEF PumpGrant, Started, Active
    <3> QED BY <3>1 DEF ReleaseInv, Settled, Active
  <2>5. CASE PumpNext
    <3>1. /\ st' = st \/ st' \in {"aborted", "complete", "draining"}
          /\ pc1 \in {"next", "read"} /\ pc1' \in {"finish", "read", "send"}
          /\ UNCHANGED <<claimed, pc0, owed, last_err>>
      BY <2>5 DEF PumpNext, PumpClaimTimeout, PumpDeadMan, PumpOversize, NextFails, NextTurn, PumpEndOfFile,
                  PumpRead, PumpNothing, PumpNullRead, PumpLine, PumpFull, Finished, nextFrame
    <3> QED BY <3>1 DEF ReleaseInv, Settled
  <2>6. CASE PumpSend
    BY <2>6 DEF PumpSend, ReleaseInv, Settled
  <2>7. CASE PumpFinish
    BY <2>7 DEF PumpFinish, ReleaseInv, Settled
  <2>8. CASE PumpIdle
    BY <2>8 DEF PumpIdle, ReleaseInv, Settled
  <2> QED BY <1>3, <2>1, <2>2, <2>3, <2>4, <2>5, <2>6, <2>7, <2>8 DEF Pump
<1>4. CASE Ui
  <2> USE DEF buttonFrame, uiFrame, streamer, history
  <2>1. CASE UiLoad
    <3>1. st \in {"idle", "loaded", "complete", "aborted"} /\ pc1 = "rest" /\ pc0 = "rest"
      BY <2>1 DEF UiLoad, Pressed, AtRest, Active, TypeInv, TypeOK, States
    <3>2. ~owed
      BY <3>1 DEF ReleaseInv, Settled
    <3>3. /\ st' = "loaded" /\ ~claimed' /\ claimed' \in BOOLEAN /\ err_count' = last_err'
          /\ owed \in BOOLEAN /\ UNCHANGED <<owed, pc0, pc1>>
      BY <2>1 DEF UiLoad, Pressed, LoadJob, ReleaseInv
    <3> QED BY <3>1, <3>2, <3>3 DEF ReleaseInv, Settled
  <2>2. CASE UiReload
    BY <2>2 DEF UiReload, Pressed
  <2>3. CASE UiStart
    BY <2>3 DEF UiStart, Pressed, ReleaseInv, Settled
  <2>4. CASE UiBaseline
    BY <2>4 DEF UiBaseline, ReleaseInv, Settled
  <2>5. CASE UiHold \/ UiResume
    BY <2>5 DEF UiHold, UiResume, ReleaseInv, Settled
  <2>6. CASE UiAbortReset
    BY <2>6 DEF UiAbortReset, ReleaseInv, Settled
  <2>7. CASE UiStop \/ UiMpgToggle \/ UiMdi
    BY <2>7, <1>s DEF UiStop, UiMpgToggle, UiMdi
  <2> QED BY <1>4, <2>1, <2>2, <2>3, <2>4, <2>5, <2>6, <2>7 DEF Ui
<1> QED BY <1>1, <1>2, <1>3, <1>4 DEF Next

LEMMA ReleasePaired == ReleaseInv => TogglesPaired
BY DEF ReleaseInv, Settled, TogglesPaired

LEMMA ParserAlone == Clock \/ TickBegin \/ Pump \/ Ui \/ WireTake => UNCHANGED engine
<1>1. CASE Clock \/ TickBegin \/ WireTake
  BY <1>1 DEF Clock, TickBegin, WireTake
<1>2. CASE Pump
  BY <1>2 DEF Pump, PumpSkip, PumpError, PumpCount, PumpAck, PumpGrant, PumpSend, PumpFinish,
              PumpIdle, PumpNext, PumpClaimTimeout, PumpDeadMan, PumpOversize, NextFails,
              PumpEndOfFile, PumpRead, PumpNothing, PumpNullRead, PumpLine, PumpFull,
              nextFrame, pumpFrame
<1>3. CASE Ui
  BY <1>3 DEF Ui, UiLoad, UiReload, LoadJob, UiStart, UiBaseline, UiHold, UiResume, UiAbort,
              UiAbortReset, UiStop, UiMpgToggle, UiMdi, buttonFrame, uiFrame
<1> QED BY <1>1, <1>2, <1>3

LEMMA ErrorsCounted ==
  ASSUME ~Rejects
  PROVE  [Next]_vars => UNCHANGED err_count
<1>1. Rx => UNCHANGED err_count
  BY DEF Rx, RxOk, RxErr, RxStatus, SessionOpens, engine
<1>2. UNCHANGED engine => UNCHANGED err_count
  BY DEF engine
<1>3. UNCHANGED vars => UNCHANGED err_count
  BY DEF vars, engine
<1> QED BY <1>1, <1>2, <1>3, ParserAlone DEF Next

(* Once a job is over it has sent an even number of 0x8B, whichever of     *)
(* claim and release went first, however the claim ends and whatever the   *)
(* operator does meanwhile.  An abort, a controller error and a load in    *)
(* the middle of a job leave the pump without a release and are excluded.  *)
THEOREM ToggleIsPaired ==
  ASSUME "reload" \notin Ops, "abort" \notin Ops, ~Rejects
  PROVE  Spec => []TogglesPaired
<1>1. TypeInv /\ ReleaseInv /\ [Next]_vars => TypeInv' /\ ReleaseInv'
  BY TypeNext, ReleaseNext, ErrorsCounted DEF UiAbort, Pressed
<1> QED BY TypeInit, ReleaseInit, ReleasePaired, <1>1, PTL DEF Spec

-----------------------------------------------------------------------------
(***************************************************************************)
(* The link.  JobLink runs the same streamer against a controller, so what *)
(* was proved of the open streamer holds there as well: every step of the  *)
(* link is a step of JobStream or leaves the streamer alone.               *)
(***************************************************************************)
Answers == [kind : {"ok", "status"}, mpg : BOOLEAN, mach : {"idle", "busy"}]

LinkTypeOK ==
  /\ cbuf \in Seq(Items)
  /\ cmpg \in BOOLEAN /\ held \in BOOLEAN /\ moving \in BOOLEAN
  /\ up \in Seq(Answers) /\ ran \in Seq(0..NumLines - 1)
  /\ jobs \in 0..MaxJobs /\ smooth \in BOOLEAN /\ clean \in BOOLEAN

LEMMA AnswerTypes ==
  ASSUME NEW m \in BOOLEAN, NEW b \in BOOLEAN
  PROVE  /\ Ok \in Answers /\ Ok.kind = "ok"
         /\ Report(m, b) \in Answers /\ Report(m, b).kind = "status" /\ Report(m, b).mpg = m
BY DEF Ok, Report, Answers

LEMMA BusyType == LinkTypeOK => Busy \in BOOLEAN
BY DEF LinkTypeOK, Busy

LEMMA SeqParts ==
  ASSUME NEW S, NEW s \in Seq(S), NEW x \in S
  PROVE  /\ Append(s, x) \in Seq(S) /\ Len(Append(s, x)) = Len(s) + 1 /\ Len(s) \in Nat
         /\ Append(s, x)[Len(s) + 1] = x
         /\ \A k \in 1..Len(s) : Append(s, x)[k] = s[k]
         /\ DOMAIN s = 1..Len(s) /\ DOMAIN Append(s, x) = 1..Len(s) + 1
OBVIOUS

LEMMA EmptySeq ==
  ASSUME NEW S
  PROVE  <<>> \in Seq(S) /\ Len(<<>>) = 0 /\ DOMAIN <<>> = {}
OBVIOUS

LEMMA AppendNonEmpty ==
  ASSUME NEW S, NEW s \in Seq(S), NEW e \in S
  PROVE  Append(s, e) # <<>>
<1>1. Len(Append(s, e)) = Len(s) + 1 /\ Len(s) \in Nat
  OBVIOUS
<1>2. Len(<<>>) = 0
  OBVIOUS
<1>3. Len(s) + 1 # 0
  BY <1>1
<1> QED BY <1>1, <1>2, <1>3

LEMMA AcceptType ==
  ASSUME LinkTypeOK, NEW item \in Items, Accept(item)
  PROVE  /\ cbuf' \in Seq(Items) /\ up' \in Seq(Answers)
         /\ cmpg' \in BOOLEAN /\ held' \in BOOLEAN /\ moving' \in BOOLEAN
<1> USE DEF LinkTypeOK
<1>1. CASE item.kind \in {"line", "mdi"}
  <2>1. /\ cbuf' = IF cmpg THEN Append(cbuf, item) ELSE cbuf
        /\ UNCHANGED <<cmpg, held, moving, up>>
    BY <1>1 DEF Accept
  <2>2. Append(cbuf, item) \in Seq(Items)
    BY SeqParts
  <2> QED BY <2>1, <2>2
<1>2. CASE item.kind \in {"hold", "cycle"}
  BY <1>2, BusyType DEF Accept
<1>3. CASE item.kind = "reset"
  <2>1. /\ cbuf' = <<>> /\ held' = FALSE /\ moving' = FALSE
        /\ UNCHANGED <<cmpg, up>>
    BY <1>3 DEF Accept
  <2> QED BY <2>1, EmptySeq
<1>4. CASE item.kind \notin {"line", "mdi", "hold", "cycle", "reset"}
  <2>1. /\ cmpg' \in {cmpg, ~cmpg, FALSE} /\ up' = Append(up, Report(cmpg', Busy))
        /\ UNCHANGED <<cbuf, held, moving>>
    BY <1>4 DEF Accept
  <2>2. cmpg' \in BOOLEAN
    BY <2>1
  <2>3. Report(cmpg', Busy) \in Answers
    BY <2>2, BusyType, AnswerTypes
  <2> QED BY <2>1, <2>2, <2>3, SeqParts
<1> QED BY <1>1, <1>2, <1>3, <1>4

LEMMA LinkTypeInit == LinkInit => LinkTypeOK
<1> SUFFICES ASSUME LinkInit PROVE LinkTypeOK
  OBVIOUS
<1>1. cbuf \in Seq(Items) /\ up \in Seq(Answers) /\ ran \in Seq(0..NumLines - 1)
  BY EmptySeq DEF LinkInit
<1>2. jobs \in 0..MaxJobs
  BY LinkAssumption DEF LinkInit
<1> QED BY <1>1, <1>2 DEF LinkInit, LinkTypeOK

LEMMA LinkTypeNext == TypeInv /\ LinkTypeOK /\ [LinkNext]_linkVars => LinkTypeOK'
<1> SUFFICES ASSUME TypeInv, LinkTypeOK, [LinkNext]_linkVars PROVE LinkTypeOK'
  OBVIOUS
<1> USE DEF ctl, link
<1>h. tx \in Seq(Items) /\ (tx # <<>> => Head(tx) \in Items)
  BY DEF TypeInv, TypeOK
<1>1. CASE Pendant
  <2>1. jobs' \in 0..MaxJobs
    <3>1. jobs \in 0..MaxJobs /\ MaxJobs \in Nat
      BY LinkAssumption DEF LinkTypeOK
    <3>2. jobs' = jobs \/ (jobs < MaxJobs /\ jobs' = jobs + 1)
      BY <1>1 DEF Pendant
    <3> QED BY <3>1, <3>2
  <2>2. ran' \in Seq(0..NumLines - 1)
    BY <1>1, EmptySeq DEF Pendant, LinkTypeOK
  <2>3. clean' \in BOOLEAN
    <3>1. Leftover \in BOOLEAN
      BY DEF Leftover
    <3> QED BY <1>1, <3>1 DEF Pendant, LinkTypeOK
  <2> QED BY <1>1, <2>1, <2>2, <2>3 DEF Pendant, LinkTypeOK
<1>2. CASE Answer
  BY <1>2 DEF Answer, LinkTypeOK
<1>3. CASE Deliver
  <2>1. Accept(Head(tx)) /\ Head(tx) \in Items /\ UNCHANGED <<ran, jobs, clean>>
    BY <1>3, <1>h DEF Deliver, WireTake
  <2>2. smooth' \in BOOLEAN
    BY <1>3 DEF Deliver, LinkTypeOK
  <2> QED BY <2>1, <2>2, AcceptType DEF LinkTypeOK
<1>4. CASE DeliverTwice
  <2>1. Accept(Head(tx)) /\ Head(tx) \in Items /\ smooth' = FALSE /\ UNCHANGED <<ran, jobs, clean>>
    BY <1>4, <1>h DEF DeliverTwice
  <2> QED BY <2>1, AcceptType DEF LinkTypeOK
<1>5. CASE DownLost \/ UpLost
  <2>1. up' \in Seq(Answers)
    BY <1>5, HeadTail DEF DownLost, UpLost, LinkTypeOK
  <2> QED BY <1>5, <2>1 DEF DownLost, UpLost, LinkTypeOK
<1>6. CASE CtlRun
  <2>1. /\ cbuf' \in Seq(Items) /\ moving' \in BOOLEAN /\ up' \in Seq(Answers)
    BY <1>6, HeadTail, AnswerTypes DEF CtlRun, LinkTypeOK
  <2>2. Head(cbuf) \in Items
    BY <1>6 DEF CtlRun, LinkTypeOK
  <2>3. ran' \in Seq(0..NumLines - 1)
    <3>1. Head(cbuf).num \in 0..NumLines - 1
      BY <2>2, ItemTypes
    <3>2. Append(ran, Head(cbuf).num) \in Seq(0..NumLines - 1)
      BY <3>1, SeqParts DEF LinkTypeOK
    <3> QED BY <1>6, <3>2 DEF CtlRun, LinkTypeOK
  <2> QED BY <1>6, <2>1, <2>3 DEF CtlRun, LinkTypeOK
<1>7. CASE CtlMoved
  BY <1>7 DEF CtlMoved, LinkTypeOK
<1>8. CASE CtlReport
  <2>1. up' \in Seq(Answers)
    BY <1>8, BusyType, AnswerTypes, SeqParts DEF CtlReport, LinkTypeOK
  <2> QED BY <1>8, <2>1 DEF CtlReport, LinkTypeOK
<1>9. CASE UNCHANGED linkVars
  BY <1>9 DEF linkVars, LinkTypeOK
<1>10. CASE Reopen
  BY <1>10 DEF Reopen, LinkTypeOK
<1> QED BY <1>1, <1>2, <1>3, <1>4, <1>5, <1>6, <1>7, <1>8, <1>9, <1>10 DEF LinkNext

LEMMA AnswerStep ==
  ASSUME LinkTypeOK, Answer
  PROVE  \/ Head(up).kind = "ok" /\ RxOk
         \/ /\ Head(up).kind = "status" /\ Head(up).mpg \in BOOLEAN
            /\ Head(up).mach \in {"idle", "busy"} /\ RxStatus(Head(up).mpg, Head(up).mach)
<1>1. Head(up) \in Answers
  BY DEF LinkTypeOK, Answer
<1>2. Head(up).kind \in {"ok", "status"} /\ Head(up).mpg \in BOOLEAN /\ Head(up).mach \in {"idle", "busy"}
  BY <1>1 DEF Answers
<1> QED BY <1>2 DEF Answer

LEMMA LinkStep == LinkTypeOK /\ [LinkNext]_linkVars => [Next]_vars
<1> SUFFICES ASSUME LinkTypeOK, [LinkNext]_linkVars PROVE [Next]_vars
  OBVIOUS
<1>1. CASE Pendant
  BY <1>1 DEF Pendant, Next
<1>2. CASE Answer
  BY <1>2, AnswerStep DEF Next, Rx
<1>5. CASE Reopen
  BY <1>5 DEF Reopen, Next, Rx
<1>3. CASE Deliver \/ DownLost
  BY <1>3 DEF Deliver, DownLost, Next
<1>4. CASE DeliverTwice \/ UpLost \/ CtlRun \/ CtlMoved \/ CtlReport \/ UNCHANGED linkVars
  BY <1>4 DEF DeliverTwice, UpLost, CtlRun, CtlMoved, CtlReport, linkVars
<1> QED BY <1>1, <1>2, <1>3, <1>4, <1>5 DEF LinkNext

LEMMA LinkInvariant == LinkSpec => [](TypeInv /\ LinkTypeOK)
<1>1. LinkInit => TypeInv /\ LinkTypeOK
  BY TypeInit, LinkTypeInit DEF LinkInit
<1>2. (TypeInv /\ LinkTypeOK) /\ [LinkNext]_linkVars => (TypeInv /\ LinkTypeOK)'
  BY TypeNext, LinkTypeNext, LinkStep
<1> QED BY <1>1, <1>2, PTL DEF LinkSpec

(* The streamer in front of a lossy link and a real controller implements  *)
(* the streamer on its own, so each theorem about Spec holds of LinkSpec.  *)
THEOREM LinkRefinesStream == LinkSpec => Spec
<1>1. LinkInit => Init
  BY DEF LinkInit
<1>2. (TypeInv /\ LinkTypeOK) /\ [LinkNext]_linkVars => [Next]_vars
  BY LinkStep
<1> QED BY <1>1, <1>2, LinkInvariant, PTL DEF LinkSpec, Spec

-----------------------------------------------------------------------------
(***************************************************************************)
(* What the pendant sends.                                                 *)
(***************************************************************************)
(* What the pump is about to send is a line or a byte of its own.          *)
ActInv == act.kind \in {"none", "line", "hold", "reset"}

LEMMA ActNext == ActInv /\ [Next]_vars => ActInv'
<1> SUFFICES ASSUME ActInv, [Next]_vars PROVE ActInv'
  OBVIOUS
<1>s. UNCHANGED act => ActInv'
  BY DEF ActInv
<1>1. CASE Clock \/ TickBegin \/ Rx \/ WireTake \/ UNCHANGED vars
  BY <1>1, <1>s DEF Clock, TickBegin, Rx, RxOk, RxErr, RxStatus, SessionOpens, WireTake, parserFrame, vars
<1>2. CASE Pump
  <2>1. CASE PumpSkip \/ PumpError \/ PumpCount \/ PumpAck \/ PumpGrant \/ PumpFinish \/ PumpIdle
    BY <2>1, <1>s DEF PumpSkip, PumpError, PumpCount, PumpAck, PumpGrant, PumpFinish, PumpIdle
  <2>2. CASE PumpNext \/ PumpSend
    <3>1. act' \in {act, NoAct, Reset, Byte("hold"), Line(next_line)}
      BY <2>2 DEF PumpSend, PumpNext, PumpClaimTimeout, PumpDeadMan, PumpOversize, NextFails,
                  PumpEndOfFile, PumpRead, PumpNothing, PumpNullRead, PumpLine, PumpFull
    <3> QED BY <3>1 DEF ActInv, NoAct, Reset, Byte, Line
  <2> QED BY <1>2, <2>1, <2>2 DEF Pump
<1>3. CASE Ui
  BY <1>3, <1>s DEF Ui, UiLoad, UiReload, LoadJob, UiStart, UiBaseline, UiHold, UiResume, UiAbort,
                    UiAbortReset, UiStop, UiMpgToggle, UiMdi, buttonFrame, uiFrame
<1> QED BY <1>1, <1>2, <1>3 DEF Next

(* What a step of the pendant hands to the transport, and when it counts.  *)
LEMMA PendantSends ==
  ASSUME TypeInv, ActInv, Clock \/ TickBegin \/ Pump \/ Ui
  PROVE  \/ UNCHANGED <<tx, owed>>
         \/ \E x \in Items : /\ x.kind # "toggle" /\ (x.kind = "mdi" => "mdi" \in Ops)
                            /\ tx' = Append(tx, x) /\ UNCHANGED owed
         \/ tx' = Append(tx, Toggle) /\ owed' = ~owed
         \/ "mpg" \in Ops /\ tx' = Append(tx, Toggle) /\ UNCHANGED owed
<1> USE DEF Send, history
<1>1. CASE Clock \/ TickBegin
  BY <1>1 DEF Clock, TickBegin
<1>2. CASE Pump
  <2>1. CASE PumpSkip \/ PumpError \/ PumpCount \/ PumpAck \/ PumpGrant \/ PumpNext \/ PumpIdle
    BY <2>1 DEF PumpSkip, PumpError, PumpCount, PumpAck, PumpGrant, PumpIdle, PumpNext,
                PumpClaimTimeout, PumpDeadMan, PumpOversize, NextFails, PumpEndOfFile, PumpRead,
                PumpNothing, PumpNullRead, PumpLine, PumpFull, nextFrame
  <2>2. CASE PumpSend
    <3>1. act \in Items /\ act.kind \notin {"toggle", "mdi"} /\ UNCHANGED owed
      BY <2>2 DEF PumpSend, TypeInv, SendHasItem, ActInv
    <3> QED BY <2>2, <3>1 DEF PumpSend
  <2>3. CASE PumpFinish
    BY <2>3 DEF PumpFinish
  <2> QED BY <1>2, <2>1, <2>2, <2>3 DEF Pump
<1>3. CASE Ui
  <2>1. CASE UiLoad \/ UiReload \/ UiStart \/ UiAbort
    BY <2>1 DEF UiLoad, UiReload, LoadJob, UiStart, UiAbort
  <2>2. CASE UiBaseline
    BY <2>2 DEF UiBaseline
  <2>3. CASE UiHold \/ UiResume \/ UiAbortReset \/ UiStop \/ UiMdi
    <3>1. /\ UNCHANGED owed
          /\ \/ tx' \in {Append(tx, Byte("hold")), Append(tx, Byte("cycle")), Append(tx, Byte("reset"))}
             \/ tx' = Append(tx, Byte("mdi")) /\ "mdi" \in Ops
      BY <2>3 DEF UiHold, UiResume, UiAbortReset, UiStop, UiMdi, Reset, Pressed
    <3>2. \A k \in {"hold", "cycle", "reset", "mdi"} : Byte(k) \in Items /\ Byte(k).kind = k
      BY ItemTypes DEF Byte
    <3> QED BY <3>1, <3>2
  <2>4. CASE UiMpgToggle
    BY <2>4 DEF UiMpgToggle, Pressed
  <2> QED BY <1>3, <2>1, <2>2, <2>3, <2>4 DEF Ui
<1> QED BY <1>1, <1>2, <1>3

(* No line of the link is answered by an error.                            *)
LEMMA NoErrors == LinkTypeOK /\ [LinkNext]_linkVars => UNCHANGED err_count
<1> SUFFICES ASSUME LinkTypeOK, [LinkNext]_linkVars PROVE UNCHANGED err_count
  OBVIOUS
<1>1. RxOk \/ (\E m, s : RxStatus(m, s)) => UNCHANGED err_count
  BY DEF RxOk, RxStatus
<1>2. CASE Answer
  BY <1>1, <1>2, AnswerStep
<1>3. CASE Pendant \/ Deliver \/ DownLost
  BY <1>3, ParserAlone DEF Pendant, Deliver, DownLost, engine
<1>4. CASE DeliverTwice \/ UpLost \/ CtlRun \/ CtlMoved \/ CtlReport \/ UNCHANGED linkVars
  BY <1>4 DEF DeliverTwice, UpLost, CtlRun, CtlMoved, CtlReport, linkVars, vars, engine
<1>5. CASE Reopen
  BY <1>5 DEF Reopen, SessionOpens, engine
<1> QED BY <1>2, <1>3, <1>4, <1>5 DEF LinkNext

-----------------------------------------------------------------------------
(***************************************************************************)
(* The order of the lines.  A line of the job is in at most one of four    *)
(* places on its way: in the pump's hand between next() and its send, in   *)
(* tx, in the controller's buffer, executed.  What is further on was read  *)
(* earlier; only a frame sent twice puts the same line in two places.      *)
(***************************************************************************)
Before(a, b) == a < b \/ (Dups /\ a = b)
Ahead(S, T)  == \A a \in S, b \in T : Before(a, b)

Lines(items) == {items[k].num : k \in {i \in DOMAIN items : items[i].kind = "line"}}
InOrder(items) ==
  \A i, j \in DOMAIN items :
    i < j /\ items[i].kind = "line" /\ items[j].kind = "line" => Before(items[i].num, items[j].num)
RunInOrder(run) == \A i, j \in DOMAIN run : i < j => Before(run[i], run[j])
Numbers(run) == {run[k] : k \in DOMAIN run}

Flow(run, buf, wire, hand) ==
  /\ RunInOrder(run) /\ InOrder(buf) /\ InOrder(wire)
  /\ Ahead(Numbers(run), Lines(buf)) /\ Ahead(Numbers(run), Lines(wire)) /\ Ahead(Numbers(run), hand)
  /\ Ahead(Lines(buf), Lines(wire)) /\ Ahead(Lines(buf), hand)
  /\ Ahead(Lines(wire), hand)

AllLines(run, buf, wire, hand) == Numbers(run) \cup Lines(buf) \cup Lines(wire) \cup hand

Hand    == IF pc1 = "send" /\ act.kind = "line" THEN {act.num} ELSE {}
Reading == Active(st) \/ pc1 = "read"

FlowInv ==
  /\ clean => /\ Flow(ran, cbuf, tx, Hand)
              /\ Reading => \A a \in AllLines(ran, cbuf, tx, Hand) : a < next_line
  /\ jobs = 0 => /\ clean /\ AllLines(ran, cbuf, tx, Hand) = {}
                 /\ ~Active(st) /\ pc1 \in {"rest", "drain"}

LEMMA LinesAppend ==
  ASSUME NEW s \in Seq(Items), NEW x \in Items
  PROVE  Lines(Append(s, x)) = Lines(s) \cup (IF x.kind = "line" THEN {x.num} ELSE {})
<1>1. /\ DOMAIN s = 1..Len(s) /\ DOMAIN Append(s, x) = 1..Len(s) + 1 /\ Len(s) \in Nat
      /\ Append(s, x)[Len(s) + 1] = x /\ \A k \in 1..Len(s) : Append(s, x)[k] = s[k]
  BY SeqParts
<1>2. DOMAIN Append(s, x) = DOMAIN s \cup {Len(s) + 1}
  BY <1>1
<1> QED BY <1>1, <1>2 DEF Lines

LEMMA LinesTail ==
  ASSUME NEW s \in Seq(Items), s # <<>>
  PROVE  /\ Lines(Tail(s)) \subseteq Lines(s)
         /\ Head(s).kind = "line" => Head(s).num \in Lines(s)
<1>1. /\ Head(s) = s[1] /\ Tail(s) \in Seq(Items) /\ Len(s) \in Nat \ {0} /\ Len(Tail(s)) = Len(s) - 1
      /\ \A k \in 1..Len(s) - 1 : Tail(s)[k] = s[k + 1]
  BY HeadTail
<1>2. DOMAIN s = 1..Len(s) /\ DOMAIN Tail(s) = 1..Len(s) - 1 /\ 1 \in DOMAIN s
      /\ \A k \in DOMAIN Tail(s) : k + 1 \in DOMAIN s /\ Tail(s)[k] = s[k + 1]
  BY <1>1
<1> QED BY <1>1, <1>2 DEF Lines

LEMMA OrderAppend ==
  ASSUME NEW s \in Seq(Items), NEW x \in Items, InOrder(s),
         x.kind = "line" => Ahead(Lines(s), {x.num})
  PROVE  InOrder(Append(s, x))
<1> SUFFICES ASSUME NEW i \in DOMAIN Append(s, x), NEW j \in DOMAIN Append(s, x), i < j,
                    Append(s, x)[i].kind = "line", Append(s, x)[j].kind = "line"
             PROVE  Before(Append(s, x)[i].num, Append(s, x)[j].num)
  BY DEF InOrder
<1>1. /\ DOMAIN s = 1..Len(s) /\ DOMAIN Append(s, x) = 1..Len(s) + 1 /\ Len(s) \in Nat
      /\ Append(s, x)[Len(s) + 1] = x /\ \A k \in 1..Len(s) : Append(s, x)[k] = s[k]
  BY SeqParts
<1>2. i \in DOMAIN s /\ Append(s, x)[i] = s[i]
  BY <1>1
<1>3. CASE j \in DOMAIN s
  BY <1>1, <1>2, <1>3 DEF InOrder
<1>4. CASE j = Len(s) + 1
  <2>1. s[i].num \in Lines(s)
    BY <1>2 DEF Lines
  <2> QED BY <1>1, <1>2, <1>4, <2>1 DEF Ahead
<1> QED BY <1>1, <1>3, <1>4

LEMMA OrderTail ==
  ASSUME NEW s \in Seq(Items), s # <<>>, InOrder(s)
  PROVE  /\ InOrder(Tail(s))
         /\ Head(s).kind = "line" => Ahead({Head(s).num}, Lines(Tail(s)))
<1>1. /\ Head(s) = s[1] /\ Tail(s) \in Seq(Items) /\ Len(s) \in Nat \ {0} /\ Len(Tail(s)) = Len(s) - 1
      /\ \A k \in 1..Len(s) - 1 : Tail(s)[k] = s[k + 1]
  BY HeadTail
<1>2. DOMAIN s = 1..Len(s) /\ DOMAIN Tail(s) = 1..Len(s) - 1 /\ 1 \in DOMAIN s
      /\ \A k \in DOMAIN Tail(s) : k + 1 \in DOMAIN s /\ 1 < k + 1 /\ Tail(s)[k] = s[k + 1]
  BY <1>1
<1>3. InOrder(Tail(s))
  <2> SUFFICES ASSUME NEW i \in DOMAIN Tail(s), NEW j \in DOMAIN Tail(s), i < j,
                      Tail(s)[i].kind = "line", Tail(s)[j].kind = "line"
               PROVE  Before(Tail(s)[i].num, Tail(s)[j].num)
    BY DEF InOrder
  <2>1. i + 1 < j + 1
    BY <1>2
  <2> QED BY <1>2, <2>1 DEF InOrder
<1>4. ASSUME Head(s).kind = "line", NEW b \in Lines(Tail(s)) PROVE Before(Head(s).num, b)
  <2>1. PICK k \in DOMAIN Tail(s) : Tail(s)[k].kind = "line" /\ b = Tail(s)[k].num
    BY DEF Lines
  <2> QED BY <1>1, <1>2, <1>4, <2>1 DEF InOrder
<1> QED BY <1>3, <1>4 DEF Ahead

(* Something that is no longer under way disturbs nothing.                 *)
LEMMA FlowLess ==
  ASSUME NEW r, NEW b, NEW w, NEW h, NEW c, NEW v, NEW g, Flow(r, b, w, h),
         InOrder(c), Lines(c) \subseteq Lines(b), InOrder(v), Lines(v) \subseteq Lines(w), g \subseteq h
  PROVE  Flow(r, c, v, g) /\ AllLines(r, c, v, g) \subseteq AllLines(r, b, w, h)
BY DEF Flow, Ahead, AllLines

(* The line in hand goes to the end of the wire.                           *)
LEMMA FlowSend ==
  ASSUME NEW r, NEW b, NEW w \in Seq(Items), NEW x \in Items, x.kind = "line", Flow(r, b, w, {x.num})
  PROVE  /\ Flow(r, b, Append(w, x), {})
         /\ AllLines(r, b, Append(w, x), {}) \subseteq AllLines(r, b, w, {x.num})
<1>1. Lines(Append(w, x)) = Lines(w) \cup {x.num}
  BY LinesAppend
<1>2. InOrder(Append(w, x))
  BY OrderAppend DEF Flow
<1> QED BY <1>1, <1>2 DEF Flow, Ahead, AllLines

(* A byte or an MDI line on the wire is no line of the job.                *)
LEMMA FlowByte ==
  ASSUME NEW r, NEW b, NEW w \in Seq(Items), NEW x \in Items, x.kind # "line", NEW h, Flow(r, b, w, h)
  PROVE  /\ Flow(r, b, Append(w, x), h)
         /\ AllLines(r, b, Append(w, x), h) \subseteq AllLines(r, b, w, h)
<1>1. Lines(Append(w, x)) = Lines(w)
  BY LinesAppend
<1>2. InOrder(Append(w, x))
  BY OrderAppend DEF Flow
<1> QED BY <1>1, <1>2 DEF Flow, AllLines

(* The oldest item of the wire arrives.                                    *)
LEMMA FlowArrive ==
  ASSUME NEW r, NEW b \in Seq(Items), NEW w \in Seq(Items), w # <<>>, NEW h, Flow(r, b, w, h)
  PROVE  /\ Flow(r, Append(b, Head(w)), Tail(w), h)
         /\ AllLines(r, Append(b, Head(w)), Tail(w), h) \subseteq AllLines(r, b, w, h)
<1>1. Head(w) \in Items
  BY HeadTail
<1>2. /\ Lines(Tail(w)) \subseteq Lines(w) /\ InOrder(Tail(w))
      /\ Head(w).kind = "line" => Head(w).num \in Lines(w) /\ Ahead({Head(w).num}, Lines(Tail(w)))
  BY LinesTail, OrderTail DEF Flow
<1>3. Lines(Append(b, Head(w))) = Lines(b) \cup (IF Head(w).kind = "line" THEN {Head(w).num} ELSE {})
  BY <1>1, LinesAppend
<1>4. InOrder(Append(b, Head(w)))
  <2>1. Head(w).kind = "line" => Ahead(Lines(b), {Head(w).num})
    BY <1>2 DEF Flow, Ahead
  <2> QED BY <1>1, <2>1, OrderAppend DEF Flow
<1>5. CASE Head(w).kind = "line"
  BY <1>2, <1>3, <1>4, <1>5 DEF Flow, Ahead, AllLines
<1>6. CASE Head(w).kind # "line"
  <2>1. Lines(Append(b, Head(w))) \subseteq Lines(b)
    BY <1>3, <1>6
  <2> QED BY <1>2, <1>4, <2>1, FlowLess
<1> QED BY <1>5, <1>6

(* ... and once more, when its acknowledgement is lost.                    *)
LEMMA FlowTwice ==
  ASSUME Dups, NEW r, NEW b \in Seq(Items), NEW w \in Seq(Items), w # <<>>, NEW h, Flow(r, b, w, h)
  PROVE  /\ Flow(r, Append(b, Head(w)), w, h)
         /\ AllLines(r, Append(b, Head(w)), w, h) \subseteq AllLines(r, b, w, h)
<1>1. Head(w) \in Items /\ Head(w) = w[1] /\ 1 \in DOMAIN w /\ DOMAIN w = 1..Len(w)
  BY HeadTail
<1>2. Head(w).kind = "line" => Head(w).num \in Lines(w)
  BY LinesTail
<1>3. Lines(Append(b, Head(w))) = Lines(b) \cup (IF Head(w).kind = "line" THEN {Head(w).num} ELSE {})
  BY <1>1, LinesAppend
<1>4. InOrder(Append(b, Head(w)))
  <2>1. Head(w).kind = "line" => Ahead(Lines(b), {Head(w).num})
    BY <1>2 DEF Flow, Ahead
  <2> QED BY <1>1, <2>1, OrderAppend DEF Flow
<1>5. Head(w).kind = "line" => Ahead({Head(w).num}, Lines(w))
  <2> SUFFICES ASSUME Head(w).kind = "line", NEW a \in Lines(w) PROVE Before(Head(w).num, a)
    BY DEF Ahead
  <2>1. PICK k \in DOMAIN w : w[k].kind = "line" /\ a = w[k].num
    BY DEF Lines
  <2>2. CASE k = 1
    BY <1>1, <2>1, <2>2 DEF Before
  <2>3. CASE k # 1
    <3>1. 1 < k
      BY <1>1, <2>1, <2>3
    <3> QED BY <1>1, <2>1, <3>1 DEF Flow, InOrder
  <2> QED BY <2>2, <2>3
<1>6. CASE Head(w).kind = "line"
  BY <1>2, <1>3, <1>4, <1>5, <1>6 DEF Flow, Ahead, AllLines
<1>7. CASE Head(w).kind # "line"
  <2>1. Lines(Append(b, Head(w))) \subseteq Lines(b) /\ InOrder(w)
    BY <1>3, <1>7 DEF Flow
  <2> QED BY <1>4, <2>1, FlowLess
<1> QED BY <1>6, <1>7

(* The oldest line of the buffer is executed.                              *)
LEMMA FlowRun ==
  ASSUME NEW r \in Seq(0..NumLines - 1), NEW b \in Seq(Items), b # <<>>, NEW w, NEW h, Flow(r, b, w, h),
         Head(b).kind = "line"
  PROVE  /\ Flow(Append(r, Head(b).num), Tail(b), w, h)
         /\ AllLines(Append(r, Head(b).num), Tail(b), w, h) \subseteq AllLines(r, b, w, h)
<1>1. /\ Lines(Tail(b)) \subseteq Lines(b) /\ InOrder(Tail(b))
      /\ Head(b).kind = "line" => Head(b).num \in Lines(b) /\ Ahead({Head(b).num}, Lines(Tail(b)))
  BY LinesTail, OrderTail DEF Flow
<1> DEFINE x == Head(b).num
           q == Append(r, x)
<1>2. x \in 0..NumLines - 1 /\ x \in Lines(b)
  BY <1>1, HeadTail, ItemTypes
<1>3. /\ DOMAIN r = 1..Len(r) /\ DOMAIN q = 1..Len(r) + 1 /\ Len(r) \in Nat
      /\ q[Len(r) + 1] = x /\ \A k \in 1..Len(r) : q[k] = r[k]
  BY <1>2, SeqParts
<1>4. Ahead(Numbers(r), {x})
  BY <1>2 DEF Flow, Ahead
<1>5. Numbers(q) = Numbers(r) \cup {x}
  <2>1. DOMAIN q = DOMAIN r \cup {Len(r) + 1}
    BY <1>3
  <2> HIDE DEF x, q
  <2>2. ASSUME NEW k \in DOMAIN q PROVE q[k] \in Numbers(r) \cup {x}
    <3>1. CASE k \in DOMAIN r
      BY <1>3, <3>1 DEF Numbers
    <3>2. CASE k = Len(r) + 1
      BY <1>3, <3>2
    <3> QED BY <2>1, <3>1, <3>2
  <2>3. \A k \in DOMAIN r : r[k] \in Numbers(q)
    BY <1>3 DEF Numbers
  <2>4. x \in Numbers(q)
    <3>1. Len(r) + 1 \in DOMAIN q /\ q[Len(r) + 1] = x
      BY <1>3
    <3> QED BY <3>1 DEF Numbers
  <2> QED BY <2>2, <2>3, <2>4 DEF Numbers
<1>6. RunInOrder(q)
  <2> SUFFICES ASSUME NEW i \in DOMAIN q, NEW j \in DOMAIN q, i < j PROVE Before(q[i], q[j])
    BY DEF RunInOrder
  <2> HIDE DEF x, q
  <2>0. i \in 1..Len(r)
    BY <1>3
  <2>1. i \in DOMAIN r /\ q[i] = r[i] /\ r[i] \in Numbers(r)
    BY <1>3, <2>0 DEF Numbers
  <2>2. CASE j \in DOMAIN r
    BY <1>3, <2>1, <2>2 DEF Flow, RunInOrder
  <2>3. CASE j = Len(r) + 1
    BY <1>3, <1>4, <2>1, <2>3 DEF Ahead
  <2>4. j \in DOMAIN r \/ j = Len(r) + 1
    BY <1>3
  <2> QED BY <2>2, <2>3, <2>4
<1>7. Ahead({x}, Lines(w)) /\ Ahead({x}, h) /\ Ahead({x}, Lines(Tail(b)))
  BY <1>1, <1>2 DEF Flow, Ahead
<1>8. Flow(q, Tail(b), w, h) /\ AllLines(q, Tail(b), w, h) \subseteq AllLines(r, b, w, h)
  <2> HIDE DEF x, q
  <2> QED BY <1>1, <1>2, <1>5, <1>6, <1>7 DEF Flow, Ahead, AllLines
<1> QED BY <1>8

(* The next line of the file is taken in hand.                             *)
LEMMA FlowRead ==
  ASSUME NEW r, NEW b, NEW w, NEW n, Flow(r, b, w, {}), Ahead(AllLines(r, b, w, {}), {n})
  PROVE  /\ Flow(r, b, w, {n})
         /\ \A a \in AllLines(r, b, w, {n}) : a \in AllLines(r, b, w, {}) \/ a = n
BY DEF Flow, Ahead, AllLines

(***************************************************************************)
(* A step of the pendant leaves the lines alone (and at most sends a byte),*)
(* takes a line in hand, puts it on the wire, or starts the job.  In a     *)
(* tick that did not find the session open, sendGcode may drop the line.   *)
(***************************************************************************)
Waits == ~Active(st) /\ pc1 \in {"rest", "drain"}

Sends(item) == tx' = Append(tx, item)
Quiet ==
  /\ UNCHANGED tx \/ \E x \in Items : x.kind # "line" /\ Sends(x)
  /\ Hand' = Hand /\ (Reading' => Reading /\ UNCHANGED next_line)
  /\ ~Starts /\ (Waits => Waits')
Takes ==
  /\ UNCHANGED tx /\ pc1 = "read" /\ Hand = {} /\ Hand' = {next_line}
  /\ next_line' = next_line + 1 /\ lens' = Append(lens, next_line) /\ ~Starts
Puts ==
  /\ act \in Items /\ act.kind = "line" /\ Hand = {act.num} /\ Hand' = {}
  /\ Sends(act) /\ pc1 = "send" /\ (Reading' => Reading) /\ UNCHANGED next_line /\ ~Starts
Drops ==
  /\ UNCHANGED tx /\ ~fresh /\ pc1 = "send" /\ Hand' = {}
  /\ (Reading' => Reading) /\ UNCHANGED next_line /\ ~Starts
Begins == UiStart /\ Starts /\ UNCHANGED tx /\ Hand' = Hand

(* What a smooth link says of the session.                                 *)
OpenInv == smooth => conn /\ fresh

LinkHyp == TypeInv /\ LinkTypeOK /\ ActInv /\ JobInv /\ GrantInv /\ OpenInv

LEMMA PumpFlow ==
  ASSUME LinkHyp, Pump
  PROVE  Quiet \/ Takes \/ Puts \/ Drops
<1> USE DEF LinkHyp, Hand, Reading, Starts, Waits, Sends, Goto
<1>g. st = "loaded" => pc1 \in {"rest", "drain"}
  BY DEF GrantInv
<1>1. CASE PumpSkip \/ PumpError \/ PumpCount
  BY <1>1 DEF PumpSkip, PumpError, PumpCount, streamer, Quiet, Active
<1>2. CASE PumpAck
  <2>1. /\ st' = st \/ (st = "draining" /\ st' = "complete")
        /\ UNCHANGED <<tx, act, next_line>>
    BY <1>2 DEF PumpAck
  <2>2. pc1 = "acks" /\ pc1' = "acks" /\ UNCHANGED <<tx, act, next_line>>
    BY <1>2 DEF PumpAck
  <2> QED BY <1>g, <2>1, <2>2 DEF Quiet, Active
<1>3. CASE PumpGrant
  <2>1. /\ pc1 = "acks" /\ pc1' \in {"next", "finish"} /\ UNCHANGED <<tx, act, next_line>>
        /\ st' = st \/ (Active(st) /\ st' \in {"streaming", "aborted"})
    BY <1>3 DEF PumpGrant, Started, Active
  <2> QED BY <1>g, <2>1 DEF Quiet, Active
<1>4. CASE PumpClaimTimeout \/ PumpDeadMan \/ PumpOversize
  <2>1. /\ st' = "aborted" /\ pc1 \in {"next", "read"} /\ pc1' \in {"finish", "send"}
        /\ act'.kind # "line" /\ UNCHANGED <<tx, next_line>>
    BY <1>4 DEF PumpClaimTimeout, PumpDeadMan, PumpOversize, NextTurn, NextFails, Reset, Byte, NoAct, nextFrame
  <2> QED BY <2>1 DEF Quiet, Active
<1>5. CASE PumpEndOfFile \/ PumpNullRead
  <2>1. /\ st' \in {"complete", "draining"} /\ pc1' = "finish" /\ UNCHANGED <<tx, next_line>>
        /\ pc1 = "read" \/ (pc1 = "next" /\ st = "streaming")
    BY <1>5 DEF PumpEndOfFile, PumpNullRead, NextTurn, MaySend, Finished, nextFrame
  <2> QED BY <1>g, <2>1 DEF Quiet, Active
<1>6. CASE PumpRead \/ PumpNothing \/ PumpFull
  <2>1. /\ UNCHANGED <<st, tx, next_line>> /\ pc1 \in {"next", "read"} /\ pc1' \in {"read", "finish"}
        /\ pc1' = "read" => Active(st)
    BY <1>6 DEF PumpRead, PumpNothing, PumpFull, NextTurn, MaySend, nextFrame, Active
  <2> QED BY <1>g, <2>1 DEF Quiet, Active
<1>7. CASE PumpLine
  <2>1. /\ act = Line(next_line) /\ UNCHANGED <<act, tx, st>> /\ next_line' = next_line + 1
        /\ lens' = Append(lens, act.num) /\ pc1 = "read" /\ pc1' = "send"
    BY <1>7 DEF PumpLine, JobInv, ReadIsNext, nextFrame
  <2> QED BY <1>g, <2>1 DEF Takes, Line
<1>8. CASE PumpSend
  <2>1. /\ pc1 = "send" /\ pc1' = "next" /\ act \in Items /\ UNCHANGED <<st, next_line>>
        /\ act.kind = "line" /\ fresh => CanSendLine
    BY <1>8 DEF PumpSend, TypeInv, SendHasItem, GrantInv, CanSendLine, streamer
  <2>2. CASE act.kind = "line" /\ ~CanSendLine
    <3>1. UNCHANGED tx /\ ~fresh
      BY <1>8, <2>1, <2>2 DEF PumpSend
    <3> QED BY <1>g, <2>1, <3>1 DEF Drops
  <2>3. CASE ~(act.kind = "line" /\ ~CanSendLine)
    <3>1. tx' = Append(tx, act)
      BY <1>8, <2>3 DEF PumpSend, Send
    <3>2. CASE act.kind = "line"
      BY <1>g, <2>1, <3>1, <3>2 DEF Puts
    <3>3. CASE act.kind # "line"
      BY <1>g, <2>1, <3>1, <3>3 DEF Quiet, Active
    <3> QED BY <3>2, <3>3
  <2> QED BY <2>2, <2>3
<1>9. CASE PumpFinish \/ PumpIdle
  <2>1. /\ st' \in {st, "idle"} /\ pc1 \in {"finish", "idle"} /\ pc1' \in {"idle", "rest"}
        /\ UNCHANGED <<act, next_line>> /\ (st' = st \/ pc1' = "rest")
        /\ UNCHANGED tx \/ tx' = Append(tx, Toggle)
    BY <1>9 DEF PumpFinish, PumpIdle, streamer, Send
  <2>2. Toggle \in Items /\ Toggle.kind # "line"
    BY ItemTypes DEF Toggle, Byte
  <2> QED BY <1>g, <2>1, <2>2 DEF Quiet, Active
<1> QED BY <1>1, <1>2, <1>3, <1>4, <1>5, <1>6, <1>7, <1>8, <1>9 DEF Pump, PumpNext

LEMMA UiFlow ==
  ASSUME LinkHyp, "reload" \notin Ops, Ui
  PROVE  Quiet \/ Begins
<1> USE DEF LinkHyp, Hand, Reading, Starts, Waits, Sends
<1>g. st = "loaded" => pc1 \in {"rest", "drain"}
  BY DEF GrantInv
<1>f. UNCHANGED <<pc1, act>>
  BY DEF Ui, UiLoad, UiReload, LoadJob, UiStart, UiBaseline, UiHold, UiResume, UiAbort,
         UiAbortReset, UiStop, UiMpgToggle, UiMdi, buttonFrame, uiFrame
<1>b. \A k \in {"toggle", "hold", "cycle", "reset", "mdi"} : Byte(k) \in Items /\ Byte(k).kind # "line"
  BY ItemTypes DEF Byte
<1>1. CASE UiLoad
  BY <1>1, <1>f DEF UiLoad, AtRest, LoadJob, Quiet, Active
<1>2. CASE UiReload
  BY <1>2 DEF UiReload, Pressed
<1>3. CASE UiStart
  <2>1. Starts /\ UNCHANGED tx
    BY <1>3 DEF UiStart, Active
  <2> QED BY <1>3, <1>f, <2>1 DEF Begins
<1>4. CASE UiBaseline \/ UiAbortReset \/ UiStop \/ UiMpgToggle \/ UiMdi \/ UiHold \/ UiResume \/ UiAbort
  <2>1. /\ UNCHANGED next_line
        /\ UNCHANGED tx \/ \E k \in {"toggle", "hold", "cycle", "reset", "mdi"} : tx' = Append(tx, Byte(k))
    BY <1>4 DEF UiBaseline, UiAbortReset, UiStop, UiMpgToggle, UiMdi, UiHold, UiResume, UiAbort,
                buttonFrame, streamer, Send, Toggle, Reset
  <2>2. st' = st \/ (st = "streaming" /\ st' = "paused") \/ (st = "paused" /\ st' = "streaming") \/ st' = "aborted"
    BY <1>4 DEF UiBaseline, UiAbortReset, UiStop, UiMpgToggle, UiMdi, UiHold, UiResume, UiAbort, streamer
  <2>3. /\ Hand' = Hand /\ (Reading' => Reading) /\ ~Starts /\ (Waits => Waits')
    BY <1>f, <2>2 DEF Active
  <2>4. UNCHANGED tx \/ \E x \in Items : x.kind # "line" /\ tx' = Append(tx, x)
    BY <1>b, <2>1
  <2> QED BY <2>1, <2>3, <2>4 DEF Quiet
<1> QED BY <1>1, <1>2, <1>3, <1>4 DEF Ui

LEMMA PendantFlow ==
  ASSUME LinkHyp, "reload" \notin Ops, Pendant
  PROVE  Quiet \/ Takes \/ Puts \/ Drops \/ Begins
<1>1. CASE Clock \/ TickBegin
  BY <1>1 DEF Clock, TickBegin, Quiet, Hand, Reading, Starts, Waits, streamer, Active, LinkHyp, GrantInv
<1> QED BY <1>1, PumpFlow, UiFlow DEF Pendant

LEMMA FlowInit == LinkInit => FlowInv
<1> SUFFICES ASSUME LinkInit PROVE FlowInv
  OBVIOUS
<1>1. ran = <<>> /\ cbuf = <<>> /\ tx = <<>> /\ st = "idle" /\ pc1 = "rest" /\ clean
  BY DEF LinkInit, Init
<1>2. Hand = {} /\ ~Reading /\ ~Active(st)
  BY <1>1 DEF Hand, Reading, Active
<1>3. Numbers(ran) = {} /\ Lines(cbuf) = {} /\ Lines(tx) = {}
  BY <1>1, EmptySeq DEF Numbers, Lines
<1>4. RunInOrder(ran) /\ InOrder(cbuf) /\ InOrder(tx)
  BY <1>1, EmptySeq DEF RunInOrder, InOrder
<1> QED BY <1>1, <1>2, <1>3, <1>4 DEF FlowInv, Flow, Ahead, AllLines

(* What a step has to show once the lines only move on.                    *)
LEMMA FlowKept ==
  ASSUME FlowInv, clean, Flow(ran', cbuf', tx', Hand'),
         AllLines(ran', cbuf', tx', Hand') \subseteq AllLines(ran, cbuf, tx, Hand),
         Reading' => Reading /\ UNCHANGED next_line, UNCHANGED <<jobs, clean>>, Waits => Waits'
  PROVE  FlowInv'
<1>1. Flow(ran, cbuf, tx, Hand)'
  OBVIOUS
<1>2. Reading' => \A a \in AllLines(ran', cbuf', tx', Hand') : a < next_line'
  BY DEF FlowInv
<1>3. jobs' = 0 => AllLines(ran', cbuf', tx', Hand') = {} /\ Waits'
  BY DEF FlowInv, Waits
<1> QED BY <1>1, <1>2, <1>3 DEF FlowInv, Waits

LEMMA FlowMoves ==
  ASSUME "reload" \notin Ops, LinkHyp, FlowInv, [LinkNext]_linkVars, clean, UNCHANGED <<jobs, clean>>
  PROVE  FlowInv'
<1> USE DEF ctl, link
<1>t. /\ tx \in Seq(Items) /\ cbuf \in Seq(Items) /\ ran \in Seq(0..NumLines - 1)
      /\ next_line \in 0..NumLines /\ jobs \in Nat
  BY DEF LinkHyp, TypeInv, TypeOK, LinkTypeOK
<1>f. Flow(ran, cbuf, tx, Hand) /\ InOrder(cbuf) /\ InOrder(tx)
  BY DEF FlowInv, Flow
<1>s. ASSUME UNCHANGED <<st, pc1, act, next_line, jobs>>, Flow(ran', cbuf', tx', Hand),
             AllLines(ran', cbuf', tx', Hand) \subseteq AllLines(ran, cbuf, tx, Hand)
      PROVE  FlowInv'
  <2>1. Hand' = Hand /\ Reading' = Reading /\ Waits' = Waits
    BY <1>s DEF Hand, Reading, Waits
  <2> QED BY <1>s, <2>1, FlowKept
<1>1. CASE Pendant
  <2> USE DEF Sends
  <2>0. cbuf' = cbuf
    BY <1>1 DEF Pendant
  <2>n. ASSUME ~Starts PROVE UNCHANGED <<jobs, ran>>
    BY <1>1, <2>n DEF Pendant
  <2>1. CASE Quiet
    <3>1. CASE UNCHANGED tx
      BY <1>f, <2>0, <2>1, <2>n, <3>1, FlowKept DEF Quiet
    <3>2. CASE \E x \in Items : x.kind # "line" /\ tx' = Append(tx, x)
      <4>0. PICK x \in Items : x.kind # "line" /\ tx' = Append(tx, x)
        BY <3>2
      <4>1. Flow(ran, cbuf, tx', Hand) /\ AllLines(ran, cbuf, tx', Hand) \subseteq AllLines(ran, cbuf, tx, Hand)
        <5>1. /\ Flow(ran, cbuf, Append(tx, x), Hand)
              /\ AllLines(ran, cbuf, Append(tx, x), Hand) \subseteq AllLines(ran, cbuf, tx, Hand)
          BY <1>t, <1>f, <4>0, FlowByte
        <5> QED BY <4>0, <5>1
      <4> QED BY <2>0, <2>1, <2>n, <4>1, FlowKept DEF Quiet
    <3> QED BY <2>1, <3>1, <3>2 DEF Quiet
  <2>2. CASE Takes
    <3>1. /\ pc1 = "read" /\ Hand = {} /\ Hand' = {next_line} /\ next_line' = next_line + 1
          /\ UNCHANGED <<ran, cbuf, tx, jobs>>
      BY <2>0, <2>2, <2>n DEF Takes
    <3>2. /\ \A a \in AllLines(ran, cbuf, tx, {}) : a < next_line
          /\ jobs # 0
      BY <3>1 DEF FlowInv, Reading
    <3>3. /\ Flow(ran, cbuf, tx, {next_line})
          /\ \A a \in AllLines(ran, cbuf, tx, {next_line}) : a \in AllLines(ran, cbuf, tx, {}) \/ a = next_line
      <4>1. Flow(ran, cbuf, tx, {})
        BY <1>f, <3>1
      <4>2. Ahead(AllLines(ran, cbuf, tx, {}), {next_line})
        BY <3>2 DEF Ahead, Before
      <4> QED BY <4>1, <4>2, FlowRead
    <3>4. \A a \in AllLines(ran, cbuf, tx, {next_line}) : a < next_line + 1
      <4>1. \A a \in AllLines(ran, cbuf, tx, {}) : a \in Nat
        <5>1. Numbers(ran) \subseteq Nat
          BY <1>t DEF Numbers
        <5>2. \A s \in Seq(Items) : Lines(s) \subseteq Nat
          BY ItemTypes DEF Lines
        <5>3. Lines(cbuf) \subseteq Nat /\ Lines(tx) \subseteq Nat
          BY <1>t, <5>2
        <5> QED BY <5>1, <5>3 DEF AllLines
      <4> SUFFICES ASSUME NEW a \in AllLines(ran, cbuf, tx, {next_line}) PROVE a < next_line + 1
        OBVIOUS
      <4>2. a = next_line \/ a \in AllLines(ran, cbuf, tx, {})
        BY <3>3
      <4>3. a = next_line \/ (a \in Nat /\ a < next_line)
        BY <3>2, <4>1, <4>2
      <4> QED BY <1>t, <4>3
    <3>5. (jobs = 0)' = FALSE
      BY <3>1, <3>2
    <3>6. Flow(ran, cbuf, tx, Hand)'
      BY <3>1, <3>3
    <3>7. (\A a \in AllLines(ran, cbuf, tx, Hand) : a < next_line)'
      BY <3>1, <3>4
    <3> QED BY <3>5, <3>6, <3>7 DEF FlowInv
  <2>3. CASE Puts
    <3>1. /\ Flow(ran, cbuf, tx', {})
          /\ AllLines(ran, cbuf, tx', {}) \subseteq AllLines(ran, cbuf, tx, Hand)
      BY <1>t, <1>f, <2>3, FlowSend DEF Puts
    <3>2. ~Waits
      BY <2>3 DEF Puts, Waits
    <3> QED BY <2>0, <2>3, <2>n, <3>1, <3>2, FlowKept DEF Puts
  <2>4. CASE Drops
    <3>1. Flow(ran, cbuf, tx, {}) /\ AllLines(ran, cbuf, tx, {}) \subseteq AllLines(ran, cbuf, tx, Hand)
      BY <1>f DEF Flow, Ahead, AllLines
    <3>2. ~Waits
      BY <2>4 DEF Drops, Waits
    <3> QED BY <2>0, <2>4, <2>n, <3>1, <3>2, FlowKept DEF Drops
  <2>5. ~Begins
    BY <1>1, <1>t DEF Pendant, Begins
  <2> QED BY <1>1, <2>1, <2>2, <2>3, <2>4, <2>5, PendantFlow
<1>2. CASE Answer
  <2>1. UNCHANGED <<st, pc1, act, next_line, tx>>
    BY <1>2, AnswerStep DEF RxOk, RxStatus, parserFrame, streamer, LinkHyp
  <2>2. UNCHANGED <<jobs, ran, cbuf>>
    BY <1>2 DEF Answer
  <2> QED BY <1>f, <2>1, <2>2, <1>s
<1>3. CASE Deliver \/ DownLost \/ DeliverTwice
  <2>1. /\ tx # <<>> /\ UNCHANGED <<st, pc1, act, next_line, jobs, ran>>
    BY <1>3 DEF Deliver, DownLost, DeliverTwice, WireTake, streamer, vars
  <2>2. Lines(Tail(tx)) \subseteq Lines(tx) /\ InOrder(Tail(tx))
    BY <1>t, <1>f, <2>1, LinesTail, OrderTail
  <2>3. cbuf' \in {cbuf, <<>>, Append(cbuf, Head(tx))}
    BY <1>3 DEF Deliver, DownLost, DeliverTwice, Accept
  <2>4. tx' \in {tx, Tail(tx)} /\ (tx' = tx => Dups \/ tx' = Tail(tx))
    BY <1>3 DEF Deliver, DownLost, DeliverTwice, WireTake, vars
  <2>5. CASE cbuf' \in {cbuf, <<>>}
    <3>1. Lines(<<>>) = {} /\ InOrder(<<>>)
      BY EmptySeq DEF Lines, InOrder
    <3>2. InOrder(cbuf') /\ Lines(cbuf') \subseteq Lines(cbuf) /\ InOrder(tx') /\ Lines(tx') \subseteq Lines(tx)
      BY <1>f, <2>2, <2>4, <2>5, <3>1
    <3> QED BY <1>f, <1>s, <2>1, <3>2, FlowLess
  <2>6. CASE cbuf' = Append(cbuf, Head(tx)) /\ tx' = Tail(tx)
    BY <1>t, <1>f, <1>s, <2>1, <2>6, FlowArrive
  <2>7. CASE cbuf' = Append(cbuf, Head(tx)) /\ tx' = tx /\ Dups
    BY <1>t, <1>f, <1>s, <2>1, <2>7, FlowTwice
  <2> QED BY <2>3, <2>4, <2>5, <2>6, <2>7
<1>4. CASE CtlRun
  <2>1. /\ UNCHANGED <<st, pc1, act, next_line, jobs, tx>> /\ cbuf # <<>> /\ cbuf' = Tail(cbuf)
        /\ ran' = IF Head(cbuf).kind = "line" THEN Append(ran, Head(cbuf).num) ELSE ran
    BY <1>4 DEF CtlRun, vars, streamer
  <2>2. Flow(ran', cbuf', tx, Hand) /\ AllLines(ran', cbuf', tx, Hand) \subseteq AllLines(ran, cbuf, tx, Hand)
    <3>1. CASE Head(cbuf).kind = "line"
      <4>1. ran' = Append(ran, Head(cbuf).num) /\ cbuf' = Tail(cbuf) /\ cbuf # <<>>
        BY <2>1, <3>1
      <4>2. /\ Flow(Append(ran, Head(cbuf).num), Tail(cbuf), tx, Hand)
            /\ AllLines(Append(ran, Head(cbuf).num), Tail(cbuf), tx, Hand) \subseteq AllLines(ran, cbuf, tx, Hand)
        BY <1>t, <1>f, <3>1, <4>1, FlowRun
      <4> QED BY <4>1, <4>2
    <3>2. CASE Head(cbuf).kind # "line"
      <4>1. ran' = ran /\ cbuf' = Tail(cbuf) /\ Lines(Tail(cbuf)) \subseteq Lines(cbuf) /\ InOrder(Tail(cbuf))
        BY <1>t, <1>f, <2>1, <3>2, LinesTail, OrderTail
      <4>2. Flow(ran, Tail(cbuf), tx, Hand) /\ AllLines(ran, Tail(cbuf), tx, Hand) \subseteq AllLines(ran, cbuf, tx, Hand)
        BY <1>f, <4>1, FlowLess
      <4> QED BY <4>1, <4>2
    <3> QED BY <3>1, <3>2
  <2> QED BY <1>s, <2>1, <2>2
<1>5. CASE UpLost \/ CtlMoved \/ CtlReport \/ Reopen \/ UNCHANGED linkVars
  <2>1. UNCHANGED <<st, pc1, act, next_line, jobs, tx, cbuf, ran>>
    BY <1>5 DEF UpLost, CtlMoved, CtlReport, Reopen, SessionOpens, parserFrame, link, linkVars, vars, streamer
  <2> QED BY <1>f, <1>s, <2>1
<1> QED BY <1>1, <1>2, <1>3, <1>4, <1>5 DEF LinkNext

(* A clean start: nothing of an earlier job is on its way.                 *)
LEMMA FlowBegins ==
  ASSUME LinkHyp, Pendant, Begins
  PROVE  FlowInv' /\ (clean' => AllLines(ran, cbuf, tx, Hand)' = {})
<1>1. ran' = <<>> /\ UNCHANGED <<cbuf, tx>> /\ Hand' = Hand /\ jobs' = jobs + 1 /\ clean' = ~Leftover
  BY DEF Pendant, Begins, ctl
<1>2. jobs' # 0
  BY <1>1 DEF LinkHyp, LinkTypeOK
<1>3. Hand = {}
  BY DEF LinkHyp, GrantInv, Begins, Starts, Hand
<1>4. ASSUME clean' PROVE Flow(ran, cbuf, tx, Hand)' /\ AllLines(ran, cbuf, tx, Hand)' = {}
  <2>1. Lines(cbuf) = {} /\ Lines(tx) = {}
    BY <1>1, <1>4 DEF Leftover, Lines
  <2>2. InOrder(cbuf) /\ InOrder(tx)
    BY <1>1, <1>4 DEF Leftover, InOrder
  <2>3. Numbers(<<>>) = {} /\ RunInOrder(<<>>)
    BY EmptySeq DEF Numbers, RunInOrder
  <2>4. Flow(<<>>, cbuf, tx, {}) /\ AllLines(<<>>, cbuf, tx, {}) = {}
    BY <2>1, <2>2, <2>3 DEF Flow, Ahead, AllLines
  <2> QED BY <1>1, <1>3, <2>4
<1>5. clean' => (Reading => \A a \in AllLines(ran, cbuf, tx, Hand) : a < next_line)'
  BY <1>4
<1> QED BY <1>2, <1>4, <1>5 DEF FlowInv

LEMMA CleanKept ==
  ASSUME "reload" \notin Ops, LinkHyp, [LinkNext]_linkVars, ~(Pendant /\ Begins)
  PROVE  UNCHANGED <<jobs, clean>>
<1>1. CASE Pendant
  <2>1. ~Starts
    BY <1>1, PendantFlow DEF Quiet, Takes, Puts, Drops
  <2> QED BY <1>1, <2>1 DEF Pendant
<1>2. CASE ~Pendant
  BY <1>2 DEF LinkNext, Reopen, Answer, Deliver, DeliverTwice, DownLost, UpLost, CtlRun, CtlMoved, CtlReport,
              linkVars, link
<1> QED BY <1>1, <1>2

LEMMA FlowNext ==
  ASSUME "reload" \notin Ops
  PROVE  LinkHyp /\ FlowInv /\ [LinkNext]_linkVars => FlowInv'
<1> SUFFICES ASSUME LinkHyp, FlowInv, [LinkNext]_linkVars PROVE FlowInv'
  OBVIOUS
<1>1. CASE Pendant /\ Begins
  BY <1>1, FlowBegins
<1>2. CASE ~(Pendant /\ Begins) /\ ~clean
  BY <1>2, CleanKept DEF FlowInv
<1>3. CASE ~(Pendant /\ Begins) /\ clean
  BY <1>3, CleanKept, FlowMoves
<1> QED BY <1>1, <1>2, <1>3

LEMMA HypInit == LinkInit => LinkHyp
<1>1. Init => ActInv
  BY DEF Init, ActInv, NoAct
<1>2. LinkInit => OpenInv
  BY DEF LinkInit, Init, OpenInv
<1> QED BY <1>1, <1>2, TypeInit, LinkTypeInit, JobInit, GrantInit DEF LinkInit, LinkHyp

LEMMA SmoothBefore == LinkTypeOK /\ [LinkNext]_linkVars /\ smooth' => smooth
BY DEF LinkTypeOK, LinkNext, Pendant, Reopen, Answer, Deliver, DeliverTwice, DownLost, UpLost, CtlRun, CtlMoved,
       CtlReport, linkVars, link

(* Only the engine closes the session, and then the link is smooth no more. *)
LEMMA OpenNext == TypeInv /\ LinkTypeOK /\ OpenInv /\ [LinkNext]_linkVars => OpenInv'
<1> SUFFICES ASSUME TypeInv, LinkTypeOK, OpenInv, [LinkNext]_linkVars, smooth' PROVE conn' /\ fresh'
  BY DEF OpenInv
<1>1. conn /\ fresh
  BY SmoothBefore DEF OpenInv
<1>2. CASE Pendant
  <2>1. conn'
    BY <1>2 DEF Pendant
  <2>2. UNCHANGED fresh \/ fresh' = conn'
    <3>1. CASE Clock \/ TickBegin
      BY <3>1 DEF Clock, TickBegin, driver
    <3>2. CASE Pump
      BY <3>2 DEF Pump, PumpSkip, PumpError, PumpCount, PumpAck, PumpGrant, PumpSend, PumpFinish, PumpIdle,
                  PumpNext, PumpClaimTimeout, PumpDeadMan, PumpOversize, NextFails, PumpEndOfFile, PumpRead,
                  PumpNothing, PumpNullRead, PumpLine, PumpFull, nextFrame, SnapshotRefresh, driver
    <3>3. CASE Ui
      BY <3>3 DEF Ui, UiLoad, UiReload, LoadJob, UiStart, UiBaseline, UiHold, UiResume, UiAbort,
                  UiAbortReset, UiStop, UiMpgToggle, UiMdi, driver
    <3> QED BY <1>2, <3>1, <3>2, <3>3 DEF Pendant
  <2> QED BY <1>1, <2>1, <2>2
<1>3. CASE Answer
  BY <1>1, <1>3, AnswerStep DEF RxOk, RxStatus, parserFrame
<1>4. CASE ~Pendant /\ ~Answer
  BY <1>1, <1>4 DEF LinkNext, Reopen, SessionOpens, parserFrame, Deliver, DeliverTwice, DownLost, UpLost, CtlRun,
                    CtlMoved, CtlReport, WireTake, driver, vars, linkVars
<1> QED BY <1>2, <1>3, <1>4

LEMMA HypNext ==
  ASSUME "reload" \notin Ops
  PROVE  LinkHyp /\ [LinkNext]_linkVars => LinkHyp'
BY TypeNext, LinkTypeNext, LinkStep, ActNext, JobNext, GrantNext, OpenNext DEF LinkHyp

(* The controller never goes back in the file, although the link loses     *)
(* frames and repeats them, and whatever the operator presses but a load   *)
(* in the middle of a job: however many jobs there were before, as long as *)
(* nothing of them was left on its way when this one was started.          *)
THEOREM NeverGoesBack ==
  ASSUME "reload" \notin Ops
  PROVE  LinkSpec => []RunsNeverBack
<1> DEFINE Inv == LinkHyp /\ FlowInv
<1>1. LinkInit => Inv
  BY HypInit, FlowInit
<1>2. Inv /\ [LinkNext]_linkVars => Inv'
  BY HypNext, FlowNext
<1>3. Inv => RunsNeverBack
  <2> SUFFICES ASSUME Inv, clean, NEW i \in DOMAIN ran, NEW j \in DOMAIN ran, i < j PROVE ran[i] <= ran[j]
    BY DEF RunsNeverBack
  <2>1. Before(ran[i], ran[j])
    BY DEF FlowInv, Flow, RunInOrder
  <2>2. ran[i] \in 0..NumLines - 1 /\ ran[j] \in 0..NumLines - 1
    BY SMTT(30) DEF LinkHyp, LinkTypeOK
  <2> QED BY <2>1, <2>2 DEF Before
<1> HIDE DEF Inv
<1> QED BY <1>1, <1>2, <1>3, PTL DEF LinkSpec

(* If no frame is repeated it executes no line twice either, however many  *)
(* frames are lost in both directions.                                     *)
THEOREM RunsEachOnce ==
  ASSUME "reload" \notin Ops, ~Dups
  PROVE  LinkSpec => []RunsOnce
<1> DEFINE Inv == LinkHyp /\ FlowInv
<1>1. LinkInit => Inv
  BY HypInit, FlowInit
<1>2. Inv /\ [LinkNext]_linkVars => Inv'
  BY HypNext, FlowNext
<1>3. Inv => RunsOnce
  BY DEF RunsOnce, FlowInv, Flow, RunInOrder, Before
<1> HIDE DEF Inv
<1> QED BY <1>1, <1>2, <1>3, PTL DEF LinkSpec

-----------------------------------------------------------------------------
(***************************************************************************)
(* The acks.  An ok that the streamer has counted, the parser has counted, *)
(* or that is still under way stands for one executed line.  c says for    *)
(* each position of up how many lines the oks up to there stand for, so no *)
(* sum over a sequence is needed.                                          *)
(***************************************************************************)
Covers(c, answers, low, high) ==
  /\ low <= c[0] /\ c[Len(answers)] <= high
  /\ \A i, j \in 0..Len(answers) : i <= j => c[i] <= c[j]
  /\ \A i, j \in 0..Len(answers) : i < j /\ answers[j].kind = "ok" => c[i] < c[j]
Covered(answers, low, high) == \E c \in [0..Len(answers) -> Nat] : Covers(c, answers, low, high)

PlainItems == {x \in Items : x.kind # "mdi"}
LineItems  == {x \in Items : x.kind = "line"}

(* Only lines of a job reach the buffer, and the k-th one executed has at  *)
(* least k - 1 lines before it in the file.                                *)
LineInv ==
  /\ tx \in Seq(PlainItems) /\ cbuf \in Seq(LineItems)
  /\ clean => \A k \in 1..Len(ran) : k - 1 <= ran[k]

(* The lines taken out of the window, and the oks that were parsed since:  *)
(* the counters say how many, or the pump's loop of onOk calls does.       *)
Taken   == next_line - Len(lens)
Owing   == IF pc1 = "acks" THEN loop ELSE 0
Counted == IF next_line = 0 THEN 0 ELSE Taken + AckDelta + Owing

(* Between a count and the next parse no ok is uncounted.                  *)
BaseInv == pc1 \notin {"rest", "drain"} => last_ok = ok_count

(* A loaded job starts at the first line.                                  *)
FreshInv == st = "loaded" => next_line = 0

AckInv ==
  /\ LineInv /\ BaseInv /\ FreshInv
  /\ clean => Covered(up, Counted, Len(ran))

LEMMA FreshNext == LinkHyp /\ FreshInv /\ [Next]_vars => FreshInv'
<1> SUFFICES ASSUME LinkHyp, FreshInv, [Next]_vars PROVE FreshInv'
  OBVIOUS
<1> USE DEF FreshInv
<1>1. CASE Clock \/ TickBegin \/ Rx \/ WireTake \/ UNCHANGED vars
  BY <1>1 DEF Clock, TickBegin, Rx, RxOk, RxErr, RxStatus, SessionOpens, WireTake, parserFrame, streamer, vars
<1>2. CASE Pump
  <2>1. CASE PumpLine
    <3>1. st' = st /\ st # "loaded"
      BY <2>1 DEF PumpLine, LinkHyp, GrantInv
    <3> QED BY <3>1
  <2>2. CASE PumpSkip \/ PumpError \/ PumpCount \/ PumpAck \/ PumpGrant \/ PumpSend \/ PumpFinish \/ PumpIdle
    <3>1. next_line' = next_line /\ (st' = "loaded" => st = "loaded")
      BY <2>2 DEF PumpSkip, PumpError, PumpCount, PumpAck, PumpGrant, PumpSend, PumpFinish, PumpIdle, streamer
    <3> QED BY <3>1
  <2>3. CASE PumpClaimTimeout \/ PumpDeadMan \/ PumpOversize \/ PumpEndOfFile \/ PumpRead \/ PumpNothing
             \/ PumpNullRead \/ PumpFull
    <3>1. next_line' = next_line /\ (st' = "loaded" => st = "loaded")
      BY <2>3 DEF PumpClaimTimeout, PumpDeadMan, PumpOversize, NextFails, PumpEndOfFile, PumpRead,
                  PumpNothing, PumpNullRead, PumpFull, Finished
    <3> QED BY <3>1
  <2> QED BY <1>2, <2>1, <2>2, <2>3 DEF Pump, PumpNext
<1>3. CASE Ui
  BY <1>3 DEF Ui, UiLoad, UiReload, LoadJob, UiStart, UiBaseline, UiHold, UiResume, UiAbort,
              UiAbortReset, UiStop, UiMpgToggle, UiMdi, buttonFrame, streamer
<1> QED BY <1>1, <1>2, <1>3 DEF Next

(* The ack counters are unsigned and wrap, from one job to the next too.   *)
LEMMA Multiple ==
  ASSUME NEW k \in Int, NEW b \in Nat \ {0}
  PROVE  (k > 0 => k * b >= b) /\ (k < 0 => k * b <= -b)
<1>1. CASE k > 0
  BY <1>1
<1>2. CASE k < 0
  BY <1>2
<1>3. CASE k = 0
  BY <1>3
<1> QED BY <1>1, <1>2, <1>3

LEMMA DivMod ==
  ASSUME NEW a \in Int, NEW b \in Nat \ {0}
  PROVE  a = b * (a \div b) + (a % b) /\ a \div b \in Int /\ a % b \in 0..b - 1
OBVIOUS

LEMMA Linear ==
  ASSUME NEW x \in Int, NEW m \in Int, NEW n \in Int, NEW d \in Int, NEW r \in Int,
         x = m - n, n + d = m + r
  PROVE  x = d - r
OBVIOUS

LEMMA LastOrBefore ==
  ASSUME NEW n \in Nat, NEW k \in 1..n + 1
  PROVE  k \in 1..n \/ k = n + 1
OBVIOUS

LEMMA Remainder ==
  ASSUME NEW a \in Int, NEW b \in Nat \ {0}, NEW q \in Int, NEW r \in 0..b - 1,
         a = b * q + r
  PROVE  a % b = r
<1>1. a = b * (a \div b) + (a % b) /\ a \div b \in Int /\ a % b \in 0..b - 1
  BY DivMod
<1> DEFINE k == q - (a \div b)
<1>2. k \in Int /\ k * b = b * q - b * (a \div b)
  BY <1>1
<1>3. k * b = (a % b) - r
  <2> DEFINE m == b * q
             n == b * (a \div b)
             d == a % b
             x == k * b
  <2>1. m \in Int /\ n \in Int /\ d \in Int
    BY <1>1
  <2>2. x = m - n
    BY <1>2
  <2>3. n + d = m + r
    BY <1>1
  <2> HIDE DEF m, n, d, x, k
  <2>4. x \in Int /\ r \in Int
    BY <2>1, <2>2
  <2>5. x = d - r
    BY <2>1, <2>2, <2>3, <2>4, Linear
  <2> QED BY <2>5 DEF d, x
<1> HIDE DEF k
<1> DEFINE p == k * b
<1>4. p < b /\ p > -b
  BY <1>1, <1>3
<1>5. (k > 0 => p >= b) /\ (k < 0 => p <= -b) /\ (k = 0 => p = 0)
  BY <1>2, Multiple
<1> HIDE DEF p
<1>6. p \in Int
  BY <1>2 DEF p
<1>7. k = 0
  BY <1>2, <1>4, <1>5, <1>6
<1>8. (a % b) - r = 0
  BY <1>3, <1>5, <1>7 DEF p
<1> QED BY <1>1, <1>8

LEMMA Difference ==
  ASSUME NEW m \in Nat \ {0}, NEW a \in 0..m - 1, NEW b \in 0..m - 1
  PROVE  (a - b) % m = IF a >= b THEN a - b ELSE a - b + m
<1>0. m * 0 = 0 /\ m * (-1) = -m /\ a - b \in Int
  OBVIOUS
<1>1. CASE a >= b
  <2> DEFINE r == a - b
  <2>1. r = m * 0 + r /\ r \in 0..m - 1 /\ r \in Int
    BY <1>0, <1>1
  <2>2. r % m = r
    <3> HIDE DEF r
    <3> QED BY <2>1, Remainder
  <2> QED BY <1>1, <2>2
<1>2. CASE a < b
  <2> DEFINE r == a - b + m
  <2>1. a - b = m * (-1) + r /\ r \in 0..m - 1 /\ -1 \in Int
    BY <1>0, <1>2
  <2>2. (a - b) % m = r
    <3> HIDE DEF r
    <3> QED BY <1>0, <2>1, Remainder
  <2> QED BY <1>2, <2>2
<1> QED BY <1>1, <1>2

(* One more ok, while fewer than the counter holds are uncounted.          *)
LEMMA OneMore ==
  ASSUME NEW m \in Nat \ {0}, NEW a \in 0..m - 1, NEW b \in 0..m - 1, ((a - b) % m) + 1 < m
  PROVE  (((a + 1) % m) - b) % m = ((a - b) % m) + 1
<1> DEFINE d == IF a >= b THEN a - b ELSE a - b + m
           n == IF a + 1 < m THEN a + 1 ELSE 0
<1>1. (a - b) % m = d
  BY Difference
<1>2. (a + 1) % m = n
  <2>1. CASE a + 1 < m
    <3>1. a + 1 = m * 0 + (a + 1) /\ a + 1 \in 0..m - 1
      BY <2>1
    <3> QED BY <2>1, <3>1, Remainder
  <2>2. CASE a + 1 >= m
    <3>1. a + 1 = m * 1 + 0 /\ 0 \in 0..m - 1
      BY <2>2
    <3> QED BY <2>2, <3>1, Remainder
  <2> QED BY <2>1, <2>2
<1>3. n \in 0..m - 1
  OBVIOUS
<1>4. (n - b) % m = IF n >= b THEN n - b ELSE n - b + m
  <2> HIDE DEF n
  <2> QED BY <1>3, Difference
<1>5. (IF n >= b THEN n - b ELSE n - b + m) = d + 1
  BY <1>1
<1> QED BY <1>1, <1>2, <1>4, <1>5

LEMMA DeltaType == TypeOK => AckDelta \in 0..CounterMod - 1
<1> SUFFICES ASSUME TypeOK PROVE AckDelta \in 0..CounterMod - 1
  OBVIOUS
<1>1. ok_count - last_ok \in Int /\ CounterMod \in Nat \ {0}
  BY LimitAssumption DEF TypeOK
<1> QED BY <1>1, ModuloType DEF AckDelta

(* What covers more covers less.                                           *)
LEMMA CoversLess ==
  ASSUME NEW s \in Seq(Answers), NEW low \in Nat, NEW high \in Nat, NEW less \in 0..low,
         Covered(s, low, high)
  PROVE  Covered(s, less, high)
<1>1. PICK c \in [0..Len(s) -> Nat] : Covers(c, s, low, high)
  BY DEF Covered
<1>2. c[0] \in Nat
  OBVIOUS
<1>3. less <= c[0]
  BY <1>1, <1>2 DEF Covers
<1> QED BY <1>1, <1>3 DEF Covers, Covered

(* Nothing is claimed of answers without an ok.                            *)
LEMMA CoversNone ==
  ASSUME NEW s \in Seq(Answers), \A k \in DOMAIN s : s[k].kind # "ok"
  PROVE  Covered(s, 0, 0)
<1> DEFINE c == [k \in 0..Len(s) |-> 0]
<1>1. c \in [0..Len(s) -> Nat] /\ Len(s) \in Nat /\ \A k \in 0..Len(s) : c[k] = 0
  OBVIOUS
<1>2. \A i, j \in 0..Len(s) : i < j => j \in DOMAIN s
  BY <1>1
<1> HIDE DEF c
<1>3. 0 <= c[0] /\ c[Len(s)] <= 0
  BY <1>1
<1>4. \A i, j \in 0..Len(s) : (i <= j => c[i] <= c[j]) /\ (i < j => s[j].kind # "ok")
  BY <1>1, <1>2
<1>5. Covers(c, s, 0, 0)
  BY <1>3, <1>4 DEF Covers
<1> QED BY <1>1, <1>5 DEF Covered

LEMMA CoversTail ==
  ASSUME NEW s \in Seq(Answers), s # <<>>, NEW low \in Nat, NEW high \in Nat, Covered(s, low, high)
  PROVE  /\ Covered(Tail(s), low, high)
         /\ Head(s).kind = "ok" => low + 1 <= high /\ Covered(Tail(s), low + 1, high)
<1> DEFINE n == Len(s)
           t == Tail(s)
<1>1. /\ n \in Nat \ {0} /\ Len(t) = n - 1 /\ Head(s) = s[1]
      /\ \A k \in 1..n - 1 : t[k] = s[k + 1]
  BY HeadTail
<1>2. PICK c \in [0..n -> Nat] :
         /\ low <= c[0] /\ c[n] <= high
         /\ \A i, j \in 0..n : i <= j => c[i] <= c[j]
         /\ \A i, j \in 0..n : i < j /\ s[j].kind = "ok" => c[i] < c[j]
  BY DEF Covered, Covers
<1> DEFINE d == [k \in 0..n - 1 |-> c[k + 1]]
<1>3. d \in [0..n - 1 -> Nat] /\ \A k \in 0..n - 1 : d[k] = c[k + 1] /\ k + 1 \in 0..n
  BY <1>1
<1>4. /\ c[0] <= c[1] /\ c[1] <= c[n] /\ c[0] \in Nat /\ c[1] \in Nat /\ c[n] \in Nat
      /\ Head(s).kind = "ok" => c[0] < c[1]
  <2>1. 0 \in 0..n /\ 1 \in 0..n /\ n \in 0..n /\ 0 <= 1 /\ 0 < 1 /\ 1 <= n
    BY <1>1
  <2> HIDE DEF n
  <2> QED BY <1>1, <1>2, <2>1
<1>5. ASSUME NEW i \in 0..n - 1, NEW j \in 0..n - 1
      PROVE  /\ i <= j => d[i] <= d[j]
             /\ i < j /\ t[j].kind = "ok" => d[i] < d[j]
  <2>1. i + 1 \in 0..n /\ j + 1 \in 0..n /\ d[i] = c[i + 1] /\ d[j] = c[j + 1]
    BY <1>3
  <2>2. (i <= j => i + 1 <= j + 1) /\ (i < j => i + 1 < j + 1 /\ t[j] = s[j + 1])
    BY <1>1
  <2> HIDE DEF d, n, t
  <2> QED BY <1>2, <2>1, <2>2
<1>6. d[0] = c[1] /\ d[n - 1] = c[n]
  BY <1>1, <1>3
<1>7. ASSUME NEW b \in Nat, b <= d[0]
      PROVE  Covers(d, t, b, high)
  <2>1. d[Len(t)] <= high
    BY <1>1, <1>2, <1>6
  <2>2. 0..Len(t) = 0..n - 1
    BY <1>1
  <2> HIDE DEF d, n, t
  <2> QED BY <1>5, <1>7, <2>1, <2>2 DEF Covers
<1>8. d \in [0..Len(t) -> Nat]
  BY <1>1, <1>3
<1> HIDE DEF d, n, t
<1>9. Covered(t, low, high)
  <2>1. low <= d[0]
    BY <1>2, <1>4, <1>6
  <2>2. Covers(d, t, low, high)
    BY <1>7, <2>1
  <2> QED BY <1>8, <2>2 DEF Covered
<1>10. Head(s).kind = "ok" => low + 1 <= high /\ Covered(t, low + 1, high)
  <2>1. Head(s).kind = "ok" => low + 1 <= d[0] /\ low + 1 <= high /\ low + 1 \in Nat
    BY <1>2, <1>4, <1>6
  <2> QED BY <1>7, <1>8, <2>1 DEF Covered
<1> QED BY <1>9, <1>10 DEF t

LEMMA CoversAppend ==
  ASSUME NEW s \in Seq(Answers), NEW x \in Answers, NEW low \in Nat, NEW high \in Nat, Covered(s, low, high)
  PROVE  /\ Covered(Append(s, x), low, high + 1)
         /\ x.kind # "ok" => Covered(Append(s, x), low, high)
<1> DEFINE n == Len(s)
           t == Append(s, x)
<1>1. /\ n \in Nat /\ Len(t) = n + 1 /\ t[n + 1] = x /\ \A k \in 1..n : t[k] = s[k]
  BY SeqParts
<1>2. PICK c \in [0..n -> Nat] :
         /\ low <= c[0] /\ c[n] <= high
         /\ \A i, j \in 0..n : i <= j => c[i] <= c[j]
         /\ \A i, j \in 0..n : i < j /\ s[j].kind = "ok" => c[i] < c[j]
  BY DEF Covered, Covers
<1>3. ASSUME NEW top \in Nat, c[n] <= top, x.kind = "ok" => c[n] < top
      PROVE  Covered(t, low, top)
  <2> DEFINE d == [k \in 0..n + 1 |-> IF k = n + 1 THEN top ELSE c[k]]
  <2>0. \A k \in 0..n : k \in 0..n + 1 /\ k # n + 1 /\ c[k] \in Nat
    <3>1. \A k \in 0..n : c[k] \in Nat
      OBVIOUS
    <3> HIDE DEF n
    <3> QED BY <1>1, <3>1
  <2>1. d \in [0..n + 1 -> Nat] /\ d[n + 1] = top
    BY <1>1, <2>0
  <2>2. \A k \in 0..n : d[k] = c[k]
    BY <2>0
  <2>3. n \in 0..n /\ 0 \in 0..n /\ \A i \in 0..n : c[i] <= c[n]
    BY <1>1, <1>2
  <2>4. ASSUME NEW i \in 0..n + 1, NEW j \in 0..n + 1
        PROVE  /\ i <= j => d[i] <= d[j]
               /\ i < j /\ t[j].kind = "ok" => d[i] < d[j]
    <3> HIDE DEF d, t
    <3>0. n \in Nat
      BY <1>1
    <3> HIDE DEF n
    <3>1. CASE j \in 0..n /\ i \in 0..n
      <4>1. j \in 1..n \/ j = 0
        BY <3>0, <3>1
      <4>2. (i <= j => c[i] <= c[j]) /\ (i < j /\ s[j].kind = "ok" => c[i] < c[j])
        BY <1>2, <3>1
      <4>3. i < j => t[j] = s[j]
        BY <1>1, <3>0, <3>1, <4>1
      <4> QED BY <2>2, <3>1, <4>2, <4>3
    <3>2. CASE j = n + 1 /\ i \in 0..n
      <4>1. d[i] = c[i] /\ c[i] <= c[n] /\ c[i] \in Nat /\ c[n] \in Nat /\ d[j] = top /\ t[j] = x
        BY <1>1, <2>0, <2>1, <2>2, <2>3, <3>2
      <4> QED BY <1>3, <4>1, SMTT(30)
    <3>3. CASE i = n + 1
      <4>1. ~(i < j) /\ (i <= j => j = i) /\ d[i] = top
        BY <2>1, <3>0, <3>3
      <4> QED BY <4>1
    <3>4. (i \in 0..n \/ i = n + 1) /\ (j \in 0..n \/ j = n + 1)
      BY <3>0
    <3> QED BY <3>1, <3>2, <3>3, <3>4
  <2>5. low <= d[0]
    BY <1>2, <2>2, <2>3
  <2>6. d[Len(t)] <= top /\ d \in [0..Len(t) -> Nat] /\ 0..Len(t) = 0..n + 1
    BY <1>1, <2>1
  <2> HIDE DEF d, t, n
  <2>7. Covers(d, t, low, top)
    BY <2>4, <2>5, <2>6 DEF Covers
  <2> QED BY <2>6, <2>7 DEF Covered
<1>4. c[n] \in Nat /\ c[n] <= high
  BY <1>1, <1>2
<1> HIDE DEF t, n
<1>5. Covered(t, low, high + 1)
  <2>1. c[n] <= high + 1 /\ c[n] < high + 1 /\ high + 1 \in Nat
    BY <1>4
  <2> QED BY <1>3, <2>1
<1>6. x.kind # "ok" => Covered(t, low, high)
  BY <1>3, <1>4
<1> QED BY <1>5, <1>6 DEF t

LEMMA CoversBound ==
  ASSUME NEW s \in Seq(Answers), NEW low \in Nat, NEW high \in Nat, Covered(s, low, high)
  PROVE  low <= high
<1>1. PICK c \in [0..Len(s) -> Nat] : Covers(c, s, low, high)
  BY DEF Covered
<1>2. 0 \in 0..Len(s) /\ Len(s) \in 0..Len(s) /\ 0 <= Len(s)
  OBVIOUS
<1>3. c[0] <= c[Len(s)] /\ c[0] \in Nat /\ c[Len(s)] \in Nat
  BY <1>1, <1>2 DEF Covers
<1> QED BY <1>1, <1>3 DEF Covers

(* No more lines are executed than the file has.                           *)
LEMMA RunBound ==
  ASSUME LinkTypeOK, LineInv, clean
  PROVE  Len(ran) \in 0..NumLines
<1>1. Len(ran) \in Nat /\ \A k \in 1..Len(ran) : ran[k] \in 0..NumLines - 1
  BY SMTT(30) DEF LinkTypeOK
<1>2. \A k \in 1..Len(ran) : k - 1 <= ran[k]
  BY DEF LineInv
<1>3. CASE Len(ran) = 0
  BY <1>3, FileAssumption
<1>4. CASE Len(ran) # 0
  <2>1. Len(ran) \in 1..Len(ran)
    BY <1>1, <1>4
  <2>2. ran[Len(ran)] \in 0..NumLines - 1 /\ Len(ran) - 1 <= ran[Len(ran)]
    BY <1>1, <1>2, <2>1
  <2> QED BY <1>1, <2>2, FileAssumption
<1> QED BY <1>3, <1>4

LEMMA LineNext ==
  ASSUME "reload" \notin Ops, "mdi" \notin Ops, ~Dups
  PROVE  LinkHyp /\ FlowInv /\ LineInv /\ [LinkNext]_linkVars => LineInv'
<1> SUFFICES ASSUME LinkHyp, FlowInv, LineInv, [LinkNext]_linkVars PROVE LineInv'
  OBVIOUS
<1> USE DEF ctl, link
<1>t. /\ tx \in Seq(PlainItems) /\ cbuf \in Seq(LineItems) /\ ran \in Seq(0..NumLines - 1)
      /\ Len(ran) \in Nat /\ tx \in Seq(Items) /\ cbuf \in Seq(Items)
  BY DEF LinkHyp, TypeInv, TypeOK, LinkTypeOK, LineInv
<1>s. ASSUME tx' \in Seq(PlainItems), cbuf' \in Seq(LineItems), UNCHANGED <<ran, clean>>
      PROVE  LineInv'
  BY <1>s DEF LineInv
<1>h. ASSUME tx # <<>>
      PROVE  Head(tx) \in PlainItems /\ Tail(tx) \in Seq(PlainItems)
  BY <1>h, <1>t
<1>1. CASE Pendant
  <2>1. tx' \in Seq(PlainItems)
    <3>1. CASE UNCHANGED tx
      BY <3>1, <1>t
    <3>2. CASE \E x \in Items : (x.kind = "mdi" => "mdi" \in Ops) /\ tx' = Append(tx, x)
      <4>1. PICK x \in Items : x.kind # "mdi" /\ tx' = Append(tx, x)
        BY <3>2
      <4>2. x \in PlainItems
        BY <4>1 DEF PlainItems
      <4> QED BY <1>t, <4>1, <4>2, SeqParts
    <3>3. CASE tx' = Append(tx, Toggle)
      <4>1. Toggle \in PlainItems
        BY ItemTypes DEF Toggle, Byte, PlainItems
      <4> QED BY <1>t, <3>3, <4>1, SeqParts
    <3> QED BY <1>1, <3>1, <3>2, <3>3, PendantSends DEF Pendant, LinkHyp
  <2>2. cbuf' = cbuf
    BY <1>1 DEF Pendant
  <2>3. CASE UNCHANGED <<ran, clean>>
    BY <1>t, <1>s, <2>1, <2>2, <2>3
  <2>4. CASE ran' = <<>>
    <3>1. \A k \in 1..Len(ran') : k - 1 <= ran'[k]
      BY <2>4, EmptySeq
    <3> QED BY <1>t, <2>1, <2>2, <3>1 DEF LineInv
  <2> QED BY <1>1, <2>3, <2>4 DEF Pendant
<1>2. CASE Answer
  <2>1. UNCHANGED <<tx, ran, cbuf, clean>>
    BY <1>2, AnswerStep DEF Answer, RxOk, RxStatus, parserFrame, LinkHyp
  <2> QED BY <1>t, <1>s, <2>1
<1>3. CASE Deliver
  <2>1. tx # <<>> /\ tx' = Tail(tx) /\ UNCHANGED <<ran, clean>> /\ Accept(Head(tx))
    BY <1>3 DEF Deliver, WireTake
  <2>2. Head(tx).kind # "mdi" /\ Head(tx) \in Items
    BY <1>h, <2>1 DEF PlainItems
  <2>3. cbuf' \in {cbuf, <<>>} \/ (Head(tx).kind = "line" /\ cbuf' = Append(cbuf, Head(tx)))
    BY <2>1, <2>2 DEF Accept
  <2>4. Head(tx).kind = "line" => Head(tx) \in LineItems
    BY <2>2 DEF LineItems
  <2>5. cbuf' \in Seq(LineItems)
    <3>1. CASE cbuf' \in {cbuf, <<>>}
      BY <1>t, <3>1, EmptySeq
    <3>2. CASE Head(tx).kind = "line" /\ cbuf' = Append(cbuf, Head(tx))
      <4>1. Append(cbuf, Head(tx)) \in Seq(LineItems)
        BY <1>t, <2>4, <3>2, SeqParts
      <4> QED BY <3>2, <4>1
    <3> QED BY <2>3, <3>1, <3>2
  <2> QED BY <1>h, <1>s, <2>1, <2>5
<1>4. CASE DownLost
  BY <1>4, <1>t, <1>h, <1>s DEF DownLost, WireTake
<1>5. CASE CtlRun
  <2> DEFINE n == Head(cbuf).num
             r == Append(ran, n)
  <2>1. /\ cbuf # <<>> /\ cbuf' = Tail(cbuf) /\ tx' = tx /\ clean' = clean
        /\ ran' = IF Head(cbuf).kind = "line" THEN r ELSE ran
    BY <1>5 DEF CtlRun, vars
  <2>2. Head(cbuf) \in LineItems /\ Tail(cbuf) \in Seq(LineItems)
    BY <1>t, <2>1
  <2>3. Head(cbuf).kind = "line" /\ n \in 0..NumLines - 1
    BY <2>2, ItemTypes DEF LineItems
  <2>4. n \in Lines(cbuf)
    BY <1>t, <2>1, <2>3, LinesTail
  <2>5. clean => Len(ran) <= n
    <3> SUFFICES ASSUME clean PROVE Len(ran) <= n
      OBVIOUS
    <3>1. CASE Len(ran) = 0
      BY <2>3, <3>1
    <3>2. CASE Len(ran) # 0
      <4>1. Len(ran) \in 1..Len(ran) /\ DOMAIN ran = 1..Len(ran)
        BY <1>t, <3>2
      <4>2. ran[Len(ran)] \in 0..NumLines - 1 /\ Len(ran) - 1 <= ran[Len(ran)]
        BY <1>t, <4>1 DEF LineInv
      <4>3. ran[Len(ran)] \in Numbers(ran)
        BY <4>1 DEF Numbers
      <4>4. Before(ran[Len(ran)], n)
        BY <2>4, <4>3 DEF FlowInv, Flow, Ahead
      <4> QED BY <1>t, <2>3, <4>2, <4>4, SMTT(30) DEF Before
    <3> QED BY <3>1, <3>2
  <2>6. Len(r) = Len(ran) + 1 /\ r[Len(ran) + 1] = n /\ \A k \in 1..Len(ran) : r[k] = ran[k]
    BY <1>t, <2>3, SeqParts
  <2> HIDE DEF n, r
  <2>7. clean => \A k \in 1..Len(r) : k - 1 <= r[k]
    <3> SUFFICES ASSUME clean, NEW k \in 1..Len(r) PROVE k - 1 <= r[k]
      OBVIOUS
    <3>1. CASE k \in 1..Len(ran)
      BY <2>6, <3>1 DEF LineInv
    <3>2. CASE k = Len(ran) + 1
      BY <1>t, <2>5, <2>6, <3>2
    <3>3. k \in 1..Len(ran) + 1
      BY <2>6
    <3>4. k \in 1..Len(ran) \/ k = Len(ran) + 1
      BY <1>t, <3>3, LastOrBefore
    <3> QED BY <3>1, <3>2, <3>4
  <2> QED BY <1>t, <2>1, <2>2, <2>3, <2>7 DEF LineInv
<1>6. CASE UpLost \/ CtlMoved \/ CtlReport \/ Reopen \/ UNCHANGED linkVars
  BY <1>6, <1>t, <1>s DEF UpLost, CtlMoved, CtlReport, Reopen, SessionOpens, parserFrame, link, linkVars, vars
<1> QED BY <1>1, <1>2, <1>3, <1>4, <1>5, <1>6 DEF LinkNext, DeliverTwice

LEMMA CountTypes ==
  ASSUME LinkHyp
  PROVE  /\ next_line \in 0..NumLines /\ lens \in Seq(0..NumLines - 1) /\ Len(lens) \in Nat
         /\ Len(lens) <= next_line /\ Taken \in 0..NumLines /\ NumLines \in Nat
         /\ AckDelta \in 0..CounterMod - 1 /\ loop \in Nat /\ Owing \in Nat /\ Counted \in Nat
         /\ CounterMod \in Nat \ {0} /\ last_ok \in 0..CounterMod - 1 /\ ok_count \in 0..CounterMod - 1
         /\ up \in Seq(Answers) /\ ran \in Seq(0..NumLines - 1) /\ Len(ran) \in Nat
<1>1. /\ next_line \in 0..NumLines /\ lens \in Seq(0..NumLines - 1) /\ loop \in Nat
      /\ last_ok \in 0..CounterMod - 1 /\ ok_count \in 0..CounterMod - 1
      /\ up \in Seq(Answers) /\ ran \in Seq(0..NumLines - 1)
  BY DEF LinkHyp, TypeInv, TypeOK, LinkTypeOK
<1>2. NumLines \in Nat /\ CounterMod \in Nat \ {0}
  BY FileAssumption, LimitAssumption
<1>3. Len(lens) \in Nat /\ Len(ran) \in Nat
  BY <1>1
<1>4. Len(lens) <= next_line
  BY DEF LinkHyp, JobInv, WindowInv
<1>5. Taken \in 0..NumLines
  BY <1>1, <1>2, <1>3, <1>4 DEF Taken
<1>6. AckDelta \in 0..CounterMod - 1
  BY DeltaType DEF LinkHyp, TypeInv
<1>7. Owing \in Nat
  BY <1>1 DEF Owing
<1>8. Counted \in Nat
  BY <1>2, <1>5, <1>6, <1>7 DEF Counted
<1> QED BY <1>1, <1>2, <1>3, <1>4, <1>5, <1>6, <1>7, <1>8

LEMMA SameDelta ==
  ASSUME TypeOK, last_ok' = ok_count, UNCHANGED ok_count
  PROVE  AckDelta' = 0
<1>1. AckDelta' = (ok_count - ok_count) % CounterMod
  BY DEF AckDelta
<1>2. ok_count \in 0..CounterMod - 1 /\ CounterMod \in Nat \ {0}
  BY LimitAssumption DEF TypeOK
<1>3. (ok_count - ok_count) % CounterMod = 0
  BY <1>2, Difference
<1> QED BY <1>1, <1>3

LEMMA BaseNext == TypeInv /\ BaseInv /\ [Next]_vars => BaseInv'
<1> SUFFICES ASSUME TypeInv, BaseInv, [Next]_vars PROVE BaseInv'
  OBVIOUS
<1> USE DEF BaseInv, Goto
<1>1. CASE Clock \/ TickBegin \/ WireTake \/ UNCHANGED vars
  BY <1>1 DEF Clock, TickBegin, WireTake, runner, engine, vars
<1>2. CASE Rx
  BY <1>2 DEF Rx, RxOk, RxErr, RxStatus, SessionOpens, parserFrame, runner, engine
<1>3. CASE Pump
  <2>1. UNCHANGED ok_count
    BY <1>3, ParserAlone DEF engine
  <2>2. CASE PumpSkip \/ PumpError \/ PumpCount
    BY <2>1, <2>2 DEF PumpSkip, PumpError, PumpCount
  <2>3. CASE PumpAck \/ PumpGrant \/ PumpSend \/ PumpFinish \/ PumpIdle
    <3>1. UNCHANGED last_ok /\ pc1 \notin {"rest", "drain"}
      BY <2>3 DEF PumpAck, PumpGrant, PumpSend, PumpFinish, PumpIdle, runner
    <3> QED BY <2>1, <3>1
  <2>4. CASE PumpNext
    <3>1. UNCHANGED last_ok /\ pc1 \notin {"rest", "drain"}
      BY <2>4 DEF PumpNext, PumpClaimTimeout, PumpDeadMan, PumpOversize, NextFails, NextTurn, PumpEndOfFile,
                  PumpRead, PumpNothing, PumpNullRead, PumpLine, PumpFull, nextFrame, runner
    <3> QED BY <2>1, <3>1
  <2> QED BY <1>3, <2>2, <2>3, <2>4 DEF Pump
<1>4. CASE Ui
  <2>1. UNCHANGED <<ok_count, pc1>> /\ (last_ok' = last_ok \/ last_ok' = ok_count)
    BY <1>4 DEF Ui, UiLoad, UiReload, LoadJob, UiStart, UiBaseline, UiHold, UiResume, UiAbort,
                UiAbortReset, UiStop, UiMpgToggle, UiMdi, buttonFrame, uiFrame, engine
  <2> QED BY <2>1
<1> QED BY <1>1, <1>2, <1>3, <1>4 DEF Next

(* A step of the pump moves oks from the counters to its loop and from     *)
(* there to the window; it never counts one more.                          *)
LEMMA PumpCounts ==
  ASSUME LinkHyp, BaseInv, Pump
  PROVE  Counted' <= Counted
<1> USE DEF Owing, Taken, Goto
<1>t. /\ next_line \in 0..NumLines /\ lens \in Seq(0..NumLines - 1) /\ Len(lens) \in Nat /\ Len(lens) <= next_line
      /\ Taken \in Nat /\ AckDelta \in Nat /\ loop \in Nat /\ Owing \in Nat /\ Counted \in Nat /\ NumLines \in Nat
  BY CountTypes
<1>o. UNCHANGED ok_count /\ TypeOK
  BY ParserAlone DEF engine, LinkHyp, TypeInv
<1>s. ASSUME UNCHANGED <<next_line, lens, last_ok>>, Owing' = 0
      PROVE  Counted' <= Counted
  <2>1. AckDelta' = AckDelta
    BY <1>o, <1>s DEF AckDelta
  <2> QED BY <1>s, <1>t, <2>1 DEF Counted
<1>1. CASE PumpSkip \/ PumpGrant \/ PumpEndOfFile \/ PumpRead \/ PumpNothing \/ PumpNullRead
           \/ PumpOversize \/ PumpFull \/ PumpClaimTimeout \/ PumpDeadMan \/ PumpFinish \/ PumpIdle \/ PumpSend
  <2>1. UNCHANGED <<next_line, lens, last_ok>>
    BY <1>1 DEF PumpSkip, PumpGrant, PumpEndOfFile, PumpRead, PumpNothing, PumpNullRead, PumpOversize,
                PumpFull, PumpClaimTimeout, PumpDeadMan, NextFails, PumpFinish, PumpIdle, PumpSend,
                streamer, runner, nextFrame
  <2>2. pc1' # "acks"
    BY <1>1 DEF PumpSkip, PumpGrant, PumpEndOfFile, PumpRead, PumpNothing, PumpNullRead, PumpOversize,
                PumpFull, PumpClaimTimeout, PumpDeadMan, NextFails, PumpFinish, PumpIdle, PumpSend
  <2> QED BY <1>s, <2>1, <2>2
<1>2. CASE PumpError
  <2>1. UNCHANGED <<next_line, lens>> /\ last_ok' = ok_count /\ pc1' = "rest"
    BY <1>2 DEF PumpError
  <2>2. AckDelta' = 0
    BY <1>o, <2>1, SameDelta
  <2> QED BY <1>t, <2>1, <2>2 DEF Counted
<1>3. CASE PumpCount
  <2>1. /\ UNCHANGED <<next_line, lens>> /\ last_ok' = ok_count /\ pc1 = "drain" /\ pc1' = "acks"
        /\ loop' = AckDelta
    BY <1>3 DEF PumpCount, streamer
  <2>2. AckDelta' = 0
    BY <1>o, <2>1, SameDelta
  <2> QED BY <1>t, <2>1, <2>2 DEF Counted
<1>4. CASE PumpAck
  <2>1. /\ UNCHANGED <<next_line, last_ok>> /\ pc1 = "acks" /\ pc1' = "acks" /\ loop > 0 /\ loop' = loop - 1
        /\ lens' = lens \/ (lens # <<>> /\ lens' = Tail(lens))
    BY <1>4 DEF PumpAck, runner
  <2>2. lens # <<>> => Len(Tail(lens)) = Len(lens) - 1
    BY <1>t, HeadTail
  <2>3. Len(lens') = Len(lens) \/ Len(lens') = Len(lens) - 1
    BY <2>1, <2>2
  <2>4. AckDelta' = AckDelta
    BY <1>o, <2>1 DEF AckDelta
  <2> QED BY <1>t, <2>1, <2>3, <2>4, SMTT(20) DEF Counted
<1>5. CASE PumpLine
  <2>1. /\ next_line' = next_line + 1 /\ lens' = Append(lens, act.num) /\ UNCHANGED last_ok
        /\ pc1 = "read" /\ pc1' = "send" /\ act = Line(next_line) /\ next_line < NumLines
    BY <1>5 DEF PumpLine, nextFrame, runner, LinkHyp, JobInv, ReadIsNext, TypeInv, ReadInFile
  <2>2. act.num \in 0..NumLines - 1
    BY <1>t, <2>1, FileAssumption DEF Line
  <2>3. Len(lens') = Len(lens) + 1
    BY <1>t, <2>1, <2>2, SeqParts
  <2>4. AckDelta' = 0
    <3>1. last_ok' = ok_count
      BY <2>1 DEF BaseInv
    <3> QED BY <1>o, <3>1, SameDelta
  <2>5. Counted' = next_line - Len(lens)
    BY <1>t, <2>1, <2>3, <2>4 DEF Counted
  <2>6. CASE next_line = 0
    BY <1>t, <2>5, <2>6
  <2>7. CASE next_line # 0
    <3>1. Counted = next_line - Len(lens) + AckDelta + Owing
      BY <2>7 DEF Counted
    <3> HIDE DEF Owing
    <3> QED BY <1>t, <2>5, <3>1
  <2> QED BY <2>6, <2>7
<1> QED BY <1>1, <1>2, <1>3, <1>4, <1>5 DEF Pump, PumpNext

LEMMA PendantCounts ==
  ASSUME LinkHyp, BaseInv, Pendant, "reload" \notin Ops
  PROVE  Counted' <= Counted
<1> USE DEF Taken, Owing
<1>t. /\ next_line \in Nat /\ Len(lens) \in Nat /\ Taken \in Nat /\ AckDelta \in Nat /\ loop \in Nat
      /\ Owing \in Nat /\ Counted \in Nat
  BY CountTypes
<1>o. UNCHANGED ok_count /\ TypeOK
  BY ParserAlone DEF engine, Pendant, LinkHyp, TypeInv
<1>s. ASSUME UNCHANGED <<next_line, lens, loop, last_ok>>, pc1' = "acks" => pc1 = "acks"
      PROVE  Counted' <= Counted
  <2>1. AckDelta' = AckDelta
    BY <1>o, <1>s DEF AckDelta
  <2> QED BY <1>s, <1>t, <2>1 DEF Counted
<1>1. CASE Clock \/ TickBegin
  BY <1>1, <1>s DEF Clock, TickBegin, streamer, runner
<1>2. CASE Pump
  BY <1>2, PumpCounts
<1>3. CASE UiLoad
  <2>1. next_line' = 0
    BY <1>3 DEF UiLoad, LoadJob
  <2> QED BY <1>t, <2>1 DEF Counted
<1>4. CASE UiBaseline
  <2>1. UNCHANGED <<next_line, lens, loop, pc1>> /\ last_ok' = ok_count
    BY <1>4 DEF UiBaseline, streamer, uiFrame
  <2>2. AckDelta' = 0
    BY <1>o, <2>1, SameDelta
  <2> QED BY <1>t, <2>1, <2>2 DEF Counted
<1>5. CASE UiStart \/ UiHold \/ UiResume \/ UiAbort \/ UiAbortReset \/ UiStop \/ UiMpgToggle \/ UiMdi
  <2>1. UNCHANGED <<next_line, lens, loop, pc1, last_ok>>
    BY <1>5 DEF UiStart, UiHold, UiResume, UiAbort, UiAbortReset, UiStop, UiMpgToggle, UiMdi,
                buttonFrame, uiFrame
  <2> QED BY <1>s, <2>1
<1> QED BY <1>1, <1>2, <1>3, <1>4, <1>5 DEF Pendant, Ui, UiReload, Pressed

(* The parser counts one ok more, and it stands for an executed line.      *)
LEMMA AnswerCounts ==
  ASSUME LinkHyp, LineInv, clean, Covered(up, Counted, Len(ran)), Answer, NumLines < CounterMod
  PROVE  Covered(up', Counted', Len(ran))
<1>t. /\ next_line \in Nat /\ NumLines \in Nat /\ CounterMod \in Nat \ {0} /\ up \in Seq(Answers)
      /\ last_ok \in 0..CounterMod - 1 /\ ok_count \in 0..CounterMod - 1 /\ AckDelta \in Nat
      /\ Taken \in Nat /\ Counted \in Nat /\ Len(ran) \in Nat
  BY CountTypes
<1>1. up # <<>> /\ up' = Tail(up)
  BY DEF Answer
<1>2. UNCHANGED <<next_line, lens, last_ok, pc1, loop>>
  BY AnswerStep DEF RxOk, RxStatus, parserFrame, streamer, runner, LinkHyp
<1>3. CASE Head(up).kind = "ok" /\ RxOk
  <2>0. pc1 = "drain" /\ ok_count' = (ok_count + 1) % CounterMod
    BY <1>3 DEF RxOk
  <2>1. Counted + 1 <= Len(ran) /\ Covered(up', Counted + 1, Len(ran))
    BY <1>t, <1>1, <1>3, CoversTail
  <2>2. Counted' \in 0..Counted + 1
    <3>1. CASE next_line = 0
      BY <1>t, <1>2, <3>1 DEF Counted
    <3>2. CASE next_line # 0
      <4>1. Counted = Taken + AckDelta
        BY <1>t, <2>0, <3>2 DEF Counted, Owing
      <4>2. AckDelta + 1 < CounterMod
        BY <1>t, <2>1, <4>1, RunBound DEF LinkHyp
      <4>3. AckDelta' = AckDelta + 1
        <5>1. AckDelta' = (((ok_count + 1) % CounterMod) - last_ok) % CounterMod
          BY <1>2, <2>0 DEF AckDelta
        <5> QED BY <1>t, <4>2, <5>1, OneMore DEF AckDelta
      <4>4. Taken' = Taken /\ Owing' = 0
        BY <1>2, <2>0 DEF Taken, Owing
      <4>5. Counted' = Taken' + AckDelta' + Owing'
        BY <1>2, <3>2 DEF Counted
      <4> QED BY <1>t, <4>1, <4>3, <4>4, <4>5
    <3> QED BY <3>1, <3>2
  <2>3. up' \in Seq(Answers)
    BY <1>t, <1>1, HeadTail
  <2>4. Counted + 1 \in Nat
    BY <1>t
  <2> QED BY <1>t, <2>1, <2>2, <2>3, <2>4, CoversLess
<1>4. CASE RxStatus(Head(up).mpg, Head(up).mach)
  <2>1. Counted' = Counted
    BY <1>2, <1>4 DEF RxStatus, Counted, Taken, AckDelta, Owing
  <2> QED BY <1>t, <1>1, <2>1, CoversTail
<1> QED BY <1>3, <1>4, AnswerStep DEF LinkHyp

CountedType == Counted \in Nat

LEMMA CountedNext ==
  ASSUME "reload" \notin Ops
  PROVE  LinkHyp /\ [LinkNext]_linkVars => CountedType'
<1>1. LinkHyp => CountedType
  BY CountTypes DEF CountedType
<1>2. LinkHyp /\ [LinkNext]_linkVars => LinkHyp'
  BY HypNext
<1> QED BY <1>1, <1>2, PTL

LEMMA CoveredNext ==
  ASSUME "reload" \notin Ops, "mdi" \notin Ops, ~Dups, NumLines < CounterMod,
         LinkHyp, AckInv, [LinkNext]_linkVars, clean'
  PROVE  Covered(up, Counted, Len(ran))'
<1> USE DEF ctl, link
<1>t. /\ up \in Seq(Answers) /\ ran \in Seq(0..NumLines - 1) /\ Len(ran) \in Nat /\ Counted \in Nat
  BY CountTypes
<1>h. Counted' \in Nat
  BY CountedNext DEF CountedType
<1>1. CASE Pendant /\ Begins
  <2>1. ran' = <<>> /\ up' = up /\ ~Leftover /\ next_line' = 0
    BY <1>1 DEF Pendant, Begins, UiStart, Starts, AckInv, FreshInv
  <2>2. \A k \in DOMAIN up : up[k].kind # "ok"
    BY <2>1 DEF Leftover
  <2>3. Covered(up, 0, 0)
    BY <1>t, <2>2, CoversNone
  <2>4. Counted' = 0 /\ Len(ran') = 0
    BY <2>1, EmptySeq DEF Counted
  <2> QED BY <2>1, <2>3, <2>4
<1>2. CASE ~(Pendant /\ Begins)
  <2>c. clean /\ Covered(up, Counted, Len(ran)) /\ LineInv
    BY <1>2, CleanKept DEF AckInv
  <2>r. ASSUME NEW m \in BOOLEAN, NEW b \in BOOLEAN
        PROVE  Covered(Append(up, Report(m, b)), Counted, Len(ran))
    <3>1. Report(m, b) \in Answers /\ Report(m, b).kind # "ok"
      BY AnswerTypes DEF Report
    <3> QED BY <1>t, <2>c, <3>1, CoversAppend
  <2>1. CASE Pendant
    <3>1. ~Starts
      BY <1>2, <2>1, PendantFlow DEF Quiet, Takes, Puts, Drops
    <3>2. UNCHANGED <<up, ran>>
      BY <2>1, <3>1 DEF Pendant
    <3>3. Counted' \in 0..Counted
      BY <1>t, <1>h, <2>1, PendantCounts DEF AckInv
    <3> QED BY <1>t, <2>c, <3>2, <3>3, CoversLess
  <2>2. CASE Answer
    <3>1. UNCHANGED ran
      BY <2>2 DEF Answer
    <3> QED BY <2>2, <2>c, <3>1, AnswerCounts
  <2>s. ASSUME UNCHANGED <<next_line, lens, last_ok, pc1, loop, ok_count>>
        PROVE  Counted' = Counted
    BY <2>s DEF Counted, Taken, Owing, AckDelta
  <2>3. CASE Deliver
    <3>0. tx # <<>> /\ UNCHANGED ran /\ Accept(Head(tx)) /\ Counted' = Counted
      BY <2>3, <2>s DEF Deliver, WireTake, engine, streamer, runner
    <3>1. Head(tx) \in Items
      BY <3>0 DEF LinkHyp, TypeInv, TypeOK
    <3>2. up' = up \/ up' = Append(up, Report(cmpg', Busy))
      <4>1. Head(tx).kind \in {"line", "toggle", "hold", "cycle", "reset", "mdi"}
        BY <3>1 DEF Items
      <4> QED BY <3>0, <4>1 DEF Accept
    <3>3. cmpg' \in BOOLEAN /\ Busy \in BOOLEAN
      BY LinkTypeNext, BusyType DEF LinkHyp, LinkTypeOK
    <3> QED BY <2>c, <2>r, <3>0, <3>2, <3>3
  <2>4. CASE DownLost \/ CtlMoved \/ Reopen \/ UNCHANGED linkVars
    <3>1. UNCHANGED <<ran, up>> /\ Counted' = Counted
      BY <2>4, <2>s DEF DownLost, WireTake, engine, streamer, runner, CtlMoved, Reopen, SessionOpens, parserFrame, link, linkVars, vars
    <3> QED BY <2>c, <3>1
  <2>5. CASE UpLost
    <3>1. UNCHANGED ran /\ up # <<>> /\ up' = Tail(up) /\ Counted' = Counted
      BY <2>5, <2>s DEF UpLost, vars, engine, streamer, runner
    <3> QED BY <1>t, <2>c, <3>1, CoversTail
  <2>6. CASE CtlRun
    <3>1. /\ cbuf # <<>> /\ up' = Append(up, Ok) /\ Counted' = Counted
          /\ ran' = IF Head(cbuf).kind = "line" THEN Append(ran, Head(cbuf).num) ELSE ran
      BY <2>6, <2>s DEF CtlRun, vars, engine, streamer, runner
    <3>2. Head(cbuf) \in LineItems
      BY <2>c, <3>1 DEF LineInv
    <3>3. Head(cbuf).num \in 0..NumLines - 1 /\ Head(cbuf).kind = "line"
      BY <3>2, ItemTypes DEF LineItems
    <3>4. Len(ran') = Len(ran) + 1
      BY <1>t, <3>1, <3>3, SeqParts
    <3>5. Covered(Append(up, Ok), Counted, Len(ran) + 1)
      BY <1>t, <2>c, AnswerTypes, CoversAppend
    <3> QED BY <3>1, <3>4, <3>5
  <2>7. CASE CtlReport
    <3>1. UNCHANGED ran /\ up' = Append(up, Report(cmpg, Busy)) /\ Counted' = Counted
      BY <2>7, <2>s DEF CtlReport, vars, engine, streamer, runner
    <3>2. cmpg \in BOOLEAN /\ Busy \in BOOLEAN
      BY BusyType DEF LinkHyp, LinkTypeOK
    <3> QED BY <2>r, <3>1, <3>2
  <2> QED BY <2>1, <2>2, <2>3, <2>4, <2>5, <2>6, <2>7 DEF LinkNext, DeliverTwice
<1> QED BY <1>1, <1>2

LEMMA AckInit == LinkInit => AckInv
<1> SUFFICES ASSUME LinkInit PROVE AckInv
  OBVIOUS
<1>1. /\ tx = <<>> /\ cbuf = <<>> /\ ran = <<>> /\ up = <<>>
      /\ next_line = 0 /\ pc1 = "rest"
  BY DEF LinkInit, Init
<1>2. LineInv
  BY <1>1, EmptySeq DEF LineInv
<1>3. Covered(up, Counted, Len(ran))
  <2>1. Covered(<<>>, 0, 0)
    BY EmptySeq, CoversNone
  <2> QED BY <1>1, <2>1, EmptySeq DEF Counted
<1> QED BY <1>1, <1>2, <1>3 DEF AckInv, BaseInv, FreshInv

LEMMA AckNext ==
  ASSUME "reload" \notin Ops, "mdi" \notin Ops, ~Dups, NumLines < CounterMod
  PROVE  LinkHyp /\ FlowInv /\ AckInv /\ [LinkNext]_linkVars => AckInv'
<1> SUFFICES ASSUME LinkHyp, FlowInv, AckInv, [LinkNext]_linkVars PROVE AckInv'
  OBVIOUS
<1>1. [Next]_vars /\ TypeInv
  BY LinkStep DEF LinkHyp
<1>2. LineInv' /\ BaseInv' /\ FreshInv'
  BY <1>1, LineNext, BaseNext, FreshNext DEF AckInv
<1>3. clean' => Covered(up, Counted, Len(ran))'
  BY CoveredNext
<1> QED BY <1>2, <1>3 DEF AckInv

LEMMA AckInvariant ==
  ASSUME "reload" \notin Ops, "mdi" \notin Ops, ~Dups, NumLines < CounterMod
  PROVE  LinkSpec => [](LinkHyp /\ FlowInv /\ AckInv)
<1>1. LinkInit => LinkHyp /\ FlowInv /\ AckInv
  BY HypInit, FlowInit, AckInit
<1>2. (LinkHyp /\ FlowInv /\ AckInv) /\ [LinkNext]_linkVars => (LinkHyp /\ FlowInv /\ AckInv)'
  BY HypNext, FlowNext, AckNext
<1> QED BY <1>1, <1>2, PTL DEF LinkSpec

(* What has left the window has been executed.                             *)
LEMMA TakenBound ==
  ASSUME LinkHyp, AckInv, clean
  PROVE  Taken + Owing <= Len(ran) \/ next_line = 0
<1>1. /\ Taken \in Nat /\ AckDelta \in Nat /\ Owing \in Nat /\ Counted \in Nat
      /\ up \in Seq(Answers) /\ Len(ran) \in Nat
  BY CountTypes
<1>2. Counted <= Len(ran)
  BY <1>1, CoversBound DEF AckInv
<1> QED BY <1>1, <1>2 DEF Counted

(* A line leaves the window only when the controller has executed a line   *)
(* of the job for it, whatever frames the link loses in either direction.  *)
(* The operator sends no line of his own, whose ok would count for one of  *)
(* the job's, and one job has fewer lines than the counter counts: the     *)
(* counter itself may wrap, in a job or from one to the next.              *)
THEOREM AckedIsRun ==
  ASSUME "reload" \notin Ops, "mdi" \notin Ops, ~Dups, NumLines < CounterMod
  PROVE  LinkSpec => []AckedMeansRun
<1>1. LinkHyp /\ FlowInv /\ AckInv => AckedMeansRun
  <2> SUFFICES ASSUME LinkHyp, AckInv, clean PROVE Taken <= Len(ran)
    BY DEF AckedMeansRun, Taken
  <2>1. /\ next_line \in Nat /\ Len(lens) \in Nat /\ Taken \in Nat /\ Owing \in Nat /\ Len(ran) \in Nat
        /\ Len(lens) <= next_line
    BY CountTypes
  <2>2. CASE next_line = 0
    BY <2>1, <2>2 DEF Taken
  <2>3. CASE next_line # 0
    BY <2>1, <2>3, TakenBound
  <2> QED BY <2>2, <2>3
<1> QED BY <1>1, AckInvariant, PTL

-----------------------------------------------------------------------------
(* What the streamer takes for the end of the file is its end.             *)
WholeFile ==
  /\ total \in {0, NumLines}
  /\ total = 0 => st = "idle" /\ pc1 \in {"rest", "drain"}

LEMMA WholeNext ==
  ASSUME "reload" \notin Ops, ~UsbFails
  PROVE  WholeFile /\ [Next]_vars => WholeFile'
<1> SUFFICES ASSUME WholeFile, [Next]_vars PROVE WholeFile'
  OBVIOUS
<1> USE DEF WholeFile
<1>n. NumLines # 0
  BY FileAssumption
<1>1. CASE Clock \/ TickBegin \/ Rx \/ WireTake \/ UNCHANGED vars
  BY <1>1 DEF Clock, TickBegin, Rx, RxOk, RxErr, RxStatus, SessionOpens, WireTake, parserFrame, streamer, vars
<1>2. CASE Pump
  <2>1. UNCHANGED total
    BY <1>2 DEF Pump, PumpSkip, PumpError, PumpCount, PumpAck, PumpGrant, PumpSend, PumpFinish, PumpIdle,
                PumpNext, PumpClaimTimeout, PumpDeadMan, PumpOversize, NextFails, PumpEndOfFile, PumpRead,
                PumpNothing, PumpNullRead, PumpLine, PumpFull, nextFrame, streamer
  <2>2. total # 0 \/ (PumpSkip /\ st = "idle")
    BY <1>2 DEF Pump, PumpError, PumpCount, PumpAck, PumpGrant, PumpSend, PumpFinish, PumpIdle,
                PumpNext, PumpClaimTimeout, PumpDeadMan, PumpOversize, NextTurn, PumpEndOfFile, PumpRead,
                PumpNothing, PumpNullRead, PumpLine, PumpFull, Active
  <2> QED BY <2>1, <2>2 DEF PumpSkip, Goto, streamer
<1>3. CASE Ui
  <2>1. CASE UiLoad
    BY <1>n, <2>1 DEF UiLoad, LoadJob
  <2>2. CASE UiStart \/ UiBaseline \/ UiHold \/ UiResume \/ UiAbort \/ UiAbortReset \/ UiStop \/ UiMpgToggle \/ UiMdi
    <3>1. UNCHANGED <<total, pc1>> /\ (st = "idle" => st' = "idle")
      BY <2>2 DEF UiStart, UiBaseline, UiHold, UiResume, UiAbort, UiAbortReset, UiStop, UiMpgToggle, UiMdi,
                  buttonFrame, uiFrame, streamer, Active
    <3> QED BY <3>1
  <2> QED BY <1>3, <2>1, <2>2 DEF Ui, UiReload, Pressed
<1> QED BY <1>1, <1>2, <1>3 DEF Next

(* A job that ends as complete has been executed by the controller to its  *)
(* last line, each line once: an incomplete run over a bad link ends in a  *)
(* timeout, never as complete.  Each of several jobs is, as long as nothing *)
(* of the one before it was left when it was started.                      *)
THEOREM CompleteIsRun ==
  ASSUME "reload" \notin Ops, "mdi" \notin Ops, ~Dups, ~UsbFails, NumLines < CounterMod
  PROVE  LinkSpec => []CompleteMeansRun
<1>1. LinkInit => WholeFile
  BY DEF LinkInit, Init, WholeFile
<1>2. LinkHyp /\ WholeFile /\ [LinkNext]_linkVars => WholeFile'
  BY LinkStep, WholeNext DEF LinkHyp
<1>3. LinkHyp /\ FlowInv /\ AckInv /\ WholeFile => CompleteMeansRun
  <2> SUFFICES ASSUME LinkHyp, AckInv, WholeFile, clean, st = "complete" PROVE Len(ran) = NumLines
    BY DEF CompleteMeansRun
  <2>1. Taken \in Nat /\ Owing \in Nat /\ Len(ran) \in Nat
    BY CountTypes
  <2>2. next_line = NumLines /\ Len(lens) = 0
    BY EmptySeq DEF WholeFile, LinkHyp, JobInv, CompleteMeansDrained
  <2>3. Len(ran) \in 0..NumLines
    BY RunBound DEF LinkHyp, AckInv
  <2>4. Taken = NumLines /\ next_line # 0
    BY <2>2, FileAssumption DEF Taken
  <2>5. Taken + Owing <= Len(ran)
    BY <2>4, TakenBound
  <2> QED BY <2>1, <2>3, <2>4, <2>5, FileAssumption
<1> QED BY <1>1, <1>2, <1>3, AckInvariant, PTL DEF LinkSpec

-----------------------------------------------------------------------------
(***************************************************************************)
(* What may be in flight.  Each line between the pump's hand and the end of *)
(* the controller's buffer is one of the lines that the window counts.  By *)
(* WindowIsExact the window's bytes fit the RX buffer, and by FlowInv no   *)
(* line is in flight twice.                                                *)
(***************************************************************************)
InFlight == Lines(cbuf) \cup Lines(tx) \cup Hand
FlightTracked == clean /\ Reading => InFlight \subseteq {lens[k] : k \in DOMAIN lens}

LEMMA Tracked ==
  ASSUME ~Dups
  PROVE  LinkHyp /\ FlowInv /\ AckInv => FlightTracked
<1> SUFFICES ASSUME LinkHyp, FlowInv, AckInv, clean, Reading, NEW a \in InFlight
             PROVE  \E k \in DOMAIN lens : a = lens[k]
  BY DEF FlightTracked
<1>1. /\ next_line \in Nat /\ lens \in Seq(0..NumLines - 1) /\ Len(lens) \in Nat /\ DOMAIN lens = 1..Len(lens)
      /\ ran \in Seq(0..NumLines - 1) /\ Len(ran) \in Nat /\ DOMAIN ran = 1..Len(ran)
      /\ cbuf \in Seq(Items) /\ tx \in Seq(Items) /\ act \in Items \cup {NoAct}
  BY DEF LinkHyp, TypeInv, TypeOK, LinkTypeOK
<1>2. /\ Len(lens) <= next_line
      /\ \A k \in 1..Len(lens) : lens[k] = next_line - Len(lens) + k - 1
  BY DEF LinkHyp, JobInv, WindowInv
<1>3. a \in Nat
  <2>1. \A x \in Items : x.num \in Nat
    BY ItemTypes
  <2>2. Lines(cbuf) \subseteq Nat /\ Lines(tx) \subseteq Nat
    <3>1. \A s \in Seq(Items) : Lines(s) \subseteq Nat
      BY ItemTypes DEF Lines
    <3> QED BY <1>1, <3>1
  <2>3. Hand \subseteq Nat
    <3>1. pc1 = "send" => act \in Items
      BY DEF LinkHyp, TypeInv, SendHasItem
    <3> QED BY <2>1, <3>1 DEF Hand
  <2> QED BY <2>2, <2>3 DEF InFlight
<1>4. a < next_line
  BY DEF FlowInv, Reading, InFlight, AllLines
<1>5. Len(ran) <= a
  <2>1. CASE Len(ran) = 0
    BY <1>3, <2>1
  <2>2. CASE Len(ran) # 0
    <3>1. Len(ran) \in 1..Len(ran)
      BY <1>1, <2>2
    <3>2. ran[Len(ran)] \in 0..NumLines - 1 /\ Len(ran) - 1 <= ran[Len(ran)]
      BY <1>1, <3>1, SMTT(30) DEF AckInv, LineInv
    <3>3. ran[Len(ran)] \in Numbers(ran)
      BY <1>1, <3>1 DEF Numbers
    <3>4. Before(ran[Len(ran)], a)
      BY <3>3 DEF FlowInv, Flow, Ahead, InFlight
    <3> QED BY <1>1, <1>3, <3>2, <3>4 DEF Before
  <2> QED BY <2>1, <2>2
<1>6. next_line - Len(lens) <= a
  <2>1. Taken \in Nat /\ Owing \in Nat
    BY CountTypes
  <2>2. next_line # 0
    BY <1>1, <1>3, <1>4
  <2>3. Taken + Owing <= Len(ran)
    BY <2>2, TakenBound
  <2> QED BY <1>1, <1>3, <1>5, <2>1, <2>3 DEF Taken
<1> DEFINE k == a - (next_line - Len(lens)) + 1
<1>7. k \in 1..Len(lens) /\ a = next_line - Len(lens) + k - 1
  BY <1>1, <1>3, <1>4, <1>6
<1> HIDE DEF k
<1> QED BY <1>1, <1>2, <1>7

(* While the pump may still read, no line is on its way that the window    *)
(* does not count, whatever the link has lost: a line that was acked has   *)
(* been executed.                                                          *)
THEOREM FlightIsTracked ==
  ASSUME "reload" \notin Ops, "mdi" \notin Ops, ~Dups, NumLines < CounterMod
  PROVE  LinkSpec => []FlightTracked
<1> QED BY Tracked, AckInvariant, PTL

(* What is in flight fits into some window of the file.  The window is     *)
(* chosen when a line is taken in hand, where the streamer has just checked *)
(* that it fits, and serves until the next one is: nothing enters meanwhile, *)
(* and a line that the streamer forgets at the end of a job, or that is    *)
(* lost, is still one of it.                                               *)
FitInv ==
  clean => \E lo, hi \in 0..NumLines :
             /\ lo <= hi /\ Offset[hi] - Offset[lo] <= RxWindow
             /\ InFlight \subseteq lo..hi - 1

(* Lines of lo .. hi - 1 in the order of the file take no more than those  *)
(* lines do.                                                               *)
LEMMA ItemBytes ==
  ASSUME NEW s \in Seq(PlainItems)
  PROVE  /\ [k \in DOMAIN s |-> BytesOf(s[k])] \in Seq(Int) /\ Len(s) \in Nat
         /\ Len([k \in DOMAIN s |-> BytesOf(s[k])]) = Len(s)
         /\ \A k \in 1..Len(s) :
              /\ s[k] \in PlainItems
              /\ s[k].kind = "line" => BytesOf(s[k]) = Cost(s[k].num)
              /\ s[k].kind # "line" => BytesOf(s[k]) = 0
<1>1. DOMAIN s = 1..Len(s) /\ Len(s) \in Nat /\ \A k \in 1..Len(s) : s[k] \in PlainItems
  OBVIOUS
<1>2. ASSUME NEW x \in PlainItems
      PROVE  /\ x.kind = "line" => BytesOf(x) = Cost(x.num)
             /\ x.kind # "line" => BytesOf(x) = 0
             /\ BytesOf(x) \in Int
  <2>1. x.kind # "mdi" /\ x.num \in 0..NumLines - 1
    BY ItemTypes DEF PlainItems
  <2>2. Cost(x.num) \in Int
    BY <2>1, CostType
  <2> QED BY <2>1, <2>2 DEF BytesOf
<1>3. [k \in DOMAIN s |-> BytesOf(s[k])] \in [1..Len(s) -> Int]
  BY <1>1, <1>2
<1> QED BY <1>1, <1>2, <1>3, FunctionIsSeq

LEMMA LinesFit ==
  ASSUME ~Dups, NEW s \in Seq(PlainItems), InOrder(s),
         NEW lo \in 0..NumLines, NEW hi \in lo..NumLines, Lines(s) \subseteq lo..hi - 1
  PROVE  Bytes(s) <= Offset[hi] - Offset[lo]
<1> DEFINE w == [k \in DOMAIN s |-> BytesOf(s[k])]
<1>1. w \in Seq(Int) /\ Len(w) = Len(s) /\ Len(s) \in Nat /\ Bytes(s) = SumOf(w)
  BY ItemBytes DEF Bytes
<1>2. ASSUME NEW k \in 1..Len(s)
      PROVE  /\ s[k].kind = "line" => /\ w[k] = Cost(s[k].num) /\ s[k].num \in lo..hi - 1
                                      /\ \A i \in 1..k - 1 : s[i].kind = "line" => s[i].num < s[k].num
             /\ s[k].kind # "line" => w[k] = 0
  <2>1. DOMAIN s = 1..Len(s) /\ w[k] = BytesOf(s[k])
    OBVIOUS
  <2>2. s[k].kind = "line" => s[k].num \in Lines(s)
    BY <2>1 DEF Lines
  <2>3. \A i \in 1..k - 1 : i \in DOMAIN s /\ i < k
    BY <1>1, <2>1
  <2>4. s[k].kind = "line" => \A i \in 1..k - 1 : s[i].kind = "line" => s[i].num < s[k].num
    BY <2>1, <2>3 DEF InOrder, Before
  <2>5. /\ s[k].kind = "line" => BytesOf(s[k]) = Cost(s[k].num)
        /\ s[k].kind # "line" => BytesOf(s[k]) = 0
    BY ItemBytes
  <2> QED BY <2>1, <2>2, <2>4, <2>5
<1> HIDE DEF w
<1>3. PICK c : Sums(c, w, Len(s))
  BY <1>1, SumsExist
<1>4. SumOf(w) = c[Len(s)]
  BY <1>1, <1>3, SumIs
<1> DEFINE Below(n, h) == \A k \in 1..n : s[k].kind = "line" => s[k].num < h
           T == {n \in 0..Len(s) : \E h \in lo..hi : Below(n, h) /\ ~(c[n] <= Offset[h] - Offset[lo])}
<1>5. ASSUME NEW n \in T, \A m \in T : n <= m PROVE FALSE
  <2>1. n \in 0..Len(s) /\ n \in Nat
    BY <1>1
  <2>2. PICK h \in lo..hi : Below(n, h) /\ ~(c[n] <= Offset[h] - Offset[lo])
    OBVIOUS
  <2>3. lo \in 0..NumLines /\ h \in 0..NumLines /\ lo <= h /\ Offset[lo] \in Nat /\ Offset[h] \in Nat
        /\ Offset[lo] <= Offset[h]
    <3>1. lo \in 0..NumLines /\ h \in 0..NumLines /\ lo <= h
      BY FileAssumption
    <3> QED BY <3>1, OffsetFacts
  <2>4. n # 0
    BY <1>3, <2>2, <2>3 DEF Sums
  <2>5. n \in 1..Len(s) /\ n - 1 \in 0..Len(s) /\ n - 1 < n /\ c[n] = c[n - 1] + w[n]
    BY <1>1, <1>3, <2>1, <2>4 DEF Sums
  <2>6. c[n - 1] \in Int
    BY <1>3, <2>5 DEF Sums
  <2>7. ASSUME NEW g \in lo..hi, Below(n - 1, g) PROVE c[n - 1] <= Offset[g] - Offset[lo]
    <3>1. n - 1 \notin T
      <4> HIDE DEF T
      <4> QED BY <1>5, <2>1, <2>5
    <3> QED BY <2>5, <2>7, <3>1
  <2>8. CASE s[n].kind # "line"
    <3>1. Below(n - 1, h)
      BY <2>1, <2>2
    <3> HIDE DEF Below, T
    <3>2. c[n - 1] <= Offset[h] - Offset[lo]
      BY <2>2, <2>7, <3>1
    <3>3. w[n] = 0
      BY <1>2, <2>5, <2>8
    <3>4. c[n] = c[n - 1]
      BY <2>5, <2>6, <3>3
    <3> QED BY <2>2, <3>2, <3>4
  <2>9. CASE s[n].kind = "line"
    <3> DEFINE i == s[n].num
    <3>1. i \in lo..hi - 1 /\ i < h /\ w[n] = Cost(i) /\ Below(n - 1, i)
      <4>1. i \in lo..hi - 1 /\ w[n] = Cost(i)
            /\ \A k \in 1..n - 1 : s[k].kind = "line" => s[k].num < i
        <5> HIDE DEF Below, T
        <5> QED BY <1>2, <2>5, <2>9
      <4>2. i < h
        BY <2>2, <2>5, <2>9
      <4>3. Below(n - 1, i)
        BY <4>1
      <4> QED BY <4>1, <4>2, <4>3
    <3> HIDE DEF i, Below, T
    <3>2. i \in lo..hi /\ i + 1 \in 0..NumLines /\ i \in 0..NumLines /\ i + 1 <= h
      BY <2>3, <3>1, FileAssumption
    <3>3. c[n - 1] <= Offset[i] - Offset[lo]
      BY <2>7, <3>1, <3>2
    <3>4. Offset[i + 1] <= Offset[h] /\ Offset[i + 1] \in Nat /\ Offset[i] \in Nat
      BY <2>3, <3>2, OffsetFacts
    <3>5. w[n] = Offset[i + 1] - Offset[i]
      BY <3>1 DEF Cost
    <3> DEFINE x == Offset[i + 1]
               y == Offset[i]
               z == Offset[h]
               u == Offset[lo]
               a == c[n - 1]
    <3>6. /\ x \in Nat /\ y \in Nat /\ z \in Nat /\ u \in Nat /\ a \in Int
          /\ c[n] = a + (x - y) /\ a <= y - u /\ x <= z
      BY <2>3, <2>5, <2>6, <3>3, <3>4, <3>5
    <3> HIDE DEF x, y, z, u, a
    <3>9. c[n] <= z - u
      BY <3>6
    <3> QED BY <2>2, <3>9 DEF z, u
  <2> QED BY <2>8, <2>9
<1>6. T = {}
  <2>1. T \in SUBSET Nat
    BY <1>1
  <2> HIDE DEF T
  <2> QED BY <1>5, <2>1, LeastNat
<1>7. Len(s) \in 0..Len(s) /\ hi \in lo..hi
  BY <1>1
<1>8. Below(Len(s), hi)
  <2> SUFFICES ASSUME NEW k \in 1..Len(s), s[k].kind = "line" PROVE s[k].num < hi
    OBVIOUS
  <2> HIDE DEF T
  <2>1. s[k].num \in lo..hi - 1
    BY <1>2
  <2>2. lo \in Int /\ hi \in Int
    BY FileAssumption
  <2> QED BY <2>1, <2>2
<1>9. c[Len(s)] <= Offset[hi] - Offset[lo]
  BY <1>6, <1>7, <1>8
<1> QED BY <1>1, <1>4, <1>9

(* A step puts nothing in flight but the line that the pump takes in hand. *)
LEMMA FlightLess ==
  ASSUME "reload" \notin Ops, ~Dups, LinkHyp, [LinkNext]_linkVars, ~(Pendant /\ Begins)
  PROVE  InFlight' \subseteq InFlight \/ (Pendant /\ Takes)
<1> USE DEF ctl, link
<1>t. tx \in Seq(Items) /\ cbuf \in Seq(Items)
  BY DEF LinkHyp, TypeInv, TypeOK, LinkTypeOK
<1>s. ASSUME UNCHANGED <<pc1, act>> PROVE Hand' = Hand
  BY <1>s DEF Hand
<1>1. CASE Pendant
  <2> USE DEF Sends
  <2>0. cbuf' = cbuf
    BY <1>1 DEF Pendant
  <2>1. CASE Quiet
    <3>1. Lines(tx') = Lines(tx)
      <4>1. CASE UNCHANGED tx
        BY <4>1
      <4>2. CASE \E x \in Items : x.kind # "line" /\ Sends(x)
        BY <1>t, <4>2, LinesAppend
      <4> QED BY <2>1, <4>1, <4>2 DEF Quiet
    <3> QED BY <2>0, <2>1, <3>1 DEF Quiet, InFlight
  <2>2. CASE Puts
    <3>1. /\ act \in Items /\ act.kind = "line" /\ Hand = {act.num} /\ Hand' = {} /\ tx' = Append(tx, act)
      BY <2>2 DEF Puts
    <3>2. Lines(Append(tx, act)) = Lines(tx) \cup {act.num}
      BY <1>t, <3>1, LinesAppend
    <3> QED BY <2>0, <3>1, <3>2 DEF InFlight
  <2>3. CASE Drops
    BY <2>0, <2>3 DEF Drops, InFlight
  <2> QED BY <1>1, <2>1, <2>2, <2>3, PendantFlow
<1>2. CASE Answer
  <2>1. UNCHANGED <<pc1, act, tx>>
    BY <1>2, AnswerStep DEF RxOk, RxStatus, parserFrame, streamer, runner, LinkHyp
  <2>2. UNCHANGED cbuf
    BY <1>2 DEF Answer
  <2> QED BY <1>s, <2>1, <2>2 DEF InFlight
<1>3. CASE Deliver \/ DownLost
  <2>1. tx # <<>> /\ tx' = Tail(tx) /\ UNCHANGED <<pc1, act>> /\ cbuf' \in {cbuf, <<>>, Append(cbuf, Head(tx))}
        /\ (cbuf' = Append(cbuf, Head(tx)) => cbuf' = cbuf \/ Head(tx).kind \in {"line", "mdi"})
    <3>1. tx # <<>> /\ tx' = Tail(tx) /\ UNCHANGED <<pc1, act>> /\ (Accept(Head(tx)) \/ cbuf' = cbuf)
      BY <1>3 DEF Deliver, DownLost, WireTake, streamer
    <3>2. CASE Accept(Head(tx))
      <4> DEFINE item == Head(tx)
      <4>0. Accept(item)
        BY <3>2
      <4> HIDE DEF item
      <4>1. cbuf' \in {cbuf, <<>>, Append(cbuf, item)}
            /\ (cbuf' = Append(cbuf, item) => cbuf' = cbuf \/ item.kind \in {"line", "mdi"})
        <5>1. CASE item.kind \in {"line", "mdi"}
          BY <4>0, <5>1 DEF Accept
        <5>2. CASE item.kind = "reset"
          <6>1. cbuf' = <<>>
            BY <4>0, <5>2 DEF Accept
          <6>2. item \in Items
            BY <1>t, <3>1, HeadTail DEF item
          <6>3. Append(cbuf, item) # <<>>
            BY <1>t, <6>2, AppendNonEmpty
          <6> QED BY <6>1, <6>3
        <5>3. CASE item.kind \notin {"line", "mdi", "reset"}
          BY <4>0, <5>3 DEF Accept
        <5> QED BY <5>1, <5>2, <5>3
      <4> QED BY <3>1, <4>1 DEF item
    <3> QED BY <3>1, <3>2
  <2>2. Lines(Tail(tx)) \subseteq Lines(tx) /\ (Head(tx).kind = "line" => Head(tx).num \in Lines(tx))
        /\ Head(tx) \in Items
    BY <1>t, <2>1, LinesTail, HeadTail
  <2>3. Lines(Append(cbuf, Head(tx))) \subseteq Lines(cbuf) \cup Lines(tx)
    BY <1>t, <2>2, LinesAppend
  <2>4. Lines(<<>>) = {}
    BY EmptySeq DEF Lines
  <2> QED BY <1>s, <2>1, <2>2, <2>3, <2>4 DEF InFlight
<1>4. CASE CtlRun
  <2>1. UNCHANGED <<pc1, act, tx>> /\ cbuf # <<>> /\ cbuf' = Tail(cbuf)
    BY <1>4 DEF CtlRun, vars, streamer
  <2>2. Lines(Tail(cbuf)) \subseteq Lines(cbuf)
    BY <1>t, <2>1, LinesTail
  <2> QED BY <1>s, <2>1, <2>2 DEF InFlight
<1>5. CASE UpLost \/ CtlMoved \/ CtlReport \/ Reopen \/ UNCHANGED linkVars
  <2>1. UNCHANGED <<pc1, act, tx, cbuf>>
    BY <1>5 DEF UpLost, CtlMoved, CtlReport, Reopen, SessionOpens, parserFrame, link, linkVars, vars, streamer
  <2> QED BY <1>s, <2>1 DEF InFlight
<1> QED BY <1>1, <1>2, <1>3, <1>4, <1>5 DEF LinkNext, DeliverTwice

LEMMA FitNext ==
  ASSUME "reload" \notin Ops, ~Dups
  PROVE  LinkHyp /\ FlowInv /\ AckInv /\ FitInv /\ [LinkNext]_linkVars => FitInv'
<1> SUFFICES ASSUME LinkHyp, FlowInv, AckInv, FitInv, [LinkNext]_linkVars, clean'
             PROVE  \E lo, hi \in 0..NumLines :
                      /\ lo <= hi /\ Offset[hi] - Offset[lo] <= RxWindow
                      /\ InFlight' \subseteq lo..hi - 1
  BY DEF FitInv
<1>n. NumLines \in Nat /\ RxWindow \in Nat
  BY FileAssumption, LimitAssumption
<1>1. CASE Pendant /\ Begins
  <2>1. InFlight' = {}
    BY <1>1, FlowBegins DEF AllLines, InFlight
  <2>2. 0 \in 0..NumLines /\ Offset[0] - Offset[0] <= RxWindow
    BY <1>n, FileAssumption
  <2> QED BY <2>1, <2>2
<1>2. CASE ~(Pendant /\ Begins)
  <2>c. clean
    BY <1>2, CleanKept
  <2>1. CASE InFlight' \subseteq InFlight
    BY <2>c, <2>1 DEF FitInv
  <2>2. CASE Pendant /\ Takes
    <3> DEFINE m == Len(lens)
    <3>1. /\ pc1 = "read" /\ Hand = {} /\ Hand' = {next_line} /\ next_line' = next_line + 1
          /\ UNCHANGED <<cbuf, tx>> /\ lens' = Append(lens, next_line)
      BY <2>2 DEF Takes, Pendant, ctl
    <3>2. /\ lens \in Seq(0..NumLines - 1) /\ m \in Nat /\ DOMAIN lens = 1..m /\ next_line \in 0..NumLines
          /\ m <= next_line /\ \A k \in 1..m : lens[k] = next_line - m + k - 1
      BY DEF LinkHyp, TypeInv, TypeOK, JobInv, WindowInv
    <3>3. LinkHyp'
      BY HypNext
    <3>4. Len(lens') = m + 1
      <4>1. next_line \in 0..NumLines - 1
        <5>1. act = Line(next_line) /\ act.num \in 0..NumLines - 1
          BY <3>1, ItemTypes DEF LinkHyp, JobInv, ReadIsNext, TypeInv, SendHasItem
        <5> QED BY <5>1 DEF Line
      <4> QED BY <3>1, <3>2, <4>1, SeqParts
    <3>5. /\ next_line' \in 0..NumLines /\ Len(lens') <= next_line'
          /\ inflight' = Offset[next_line'] - Offset[next_line' - Len(lens')] /\ inflight' <= RxWindow
      <4>1. TypeOK' /\ WindowInv' /\ WindowBound'
        BY <3>3 DEF LinkHyp, TypeInv, JobInv, WindowInv
      <4>2. next_line' \in 0..NumLines
        BY <4>1 DEF TypeOK
      <4>3. inflight' <= RxWindow
        BY <4>1 DEF WindowBound
      <4> QED BY <4>1, <4>2, <4>3 DEF WindowInv
    <3> HIDE DEF m
    <3>6. InFlight \subseteq {lens[k] : k \in DOMAIN lens}
      BY <2>c, <3>1, Tracked DEF FlightTracked, Reading
    <3>7. InFlight \subseteq (next_line - m)..(next_line - 1)
      <4> SUFFICES ASSUME NEW k \in 1..m PROVE lens[k] \in (next_line - m)..(next_line - 1)
        BY <3>2, <3>6
      <4>1. lens[k] = next_line - m + k - 1
        BY <3>2
      <4> QED BY <3>2, <4>1
    <3>8. InFlight' = InFlight \cup {next_line}
      BY <3>1 DEF InFlight
    <3> DEFINE lo == next_line - m
               hi == next_line + 1
    <3>9. /\ lo \in 0..NumLines /\ hi \in 0..NumLines /\ lo <= hi
          /\ next_line' = hi /\ next_line' - Len(lens') = lo
          /\ (next_line - m)..(next_line - 1) \subseteq lo..hi - 1 /\ next_line \in lo..hi - 1
      BY <1>n, <3>1, <3>2, <3>4, <3>5
    <3> HIDE DEF lo, hi
    <3>10. Offset[hi] - Offset[lo] <= RxWindow
      BY <3>5, <3>9
    <3>11. InFlight' \subseteq lo..hi - 1
      BY <3>7, <3>8, <3>9
    <3> QED BY <3>9, <3>10, <3>11
  <2> QED BY <1>2, <2>1, <2>2, FlightLess
<1> QED BY <1>1, <1>2

(* The lines on their way and those in the buffer share that window: the   *)
(* buffer has its first lines, up to the last one that arrived.            *)
LEMMA FlightBytes == ~Dups /\ LinkHyp /\ FlowInv /\ AckInv /\ FitInv => FlightFits
<1> SUFFICES ASSUME ~Dups, LinkHyp, FlowInv, AckInv, FitInv, clean
             PROVE  Bytes(cbuf) + Bytes(tx) <= RxWindow
  BY DEF FlightFits
<1>t. cbuf \in Seq(LineItems) /\ tx \in Seq(PlainItems) /\ cbuf \in Seq(PlainItems)
  <2>1. LineItems \subseteq PlainItems
    BY DEF LineItems, PlainItems
  <2>2. cbuf \in Seq(LineItems) /\ tx \in Seq(PlainItems)
    BY DEF AckInv, LineInv
  <2>3. DOMAIN cbuf = 1..Len(cbuf) /\ Len(cbuf) \in Nat /\ cbuf \in [1..Len(cbuf) -> LineItems]
    BY <2>2
  <2>4. cbuf \in [1..Len(cbuf) -> PlainItems]
    BY <2>1, <2>3
  <2> QED BY <2>2, <2>3, <2>4, FunctionIsSeq
<1>b. Bytes(cbuf) \in Int /\ Bytes(tx) \in Int
  BY <1>t, ItemBytes, SumType DEF Bytes
<1>f. InOrder(cbuf) /\ InOrder(tx) /\ Ahead(Lines(cbuf), Lines(tx))
  BY DEF FlowInv, Flow
<1>1. PICK lo \in 0..NumLines, hi \in 0..NumLines :
        /\ lo <= hi /\ Offset[hi] - Offset[lo] <= RxWindow
        /\ InFlight \subseteq lo..hi - 1
  BY DEF FitInv
<1>2. Lines(cbuf) \subseteq lo..hi - 1 /\ Lines(tx) \subseteq lo..hi - 1
  BY <1>1 DEF InFlight
<1>n. NumLines \in Nat /\ lo \in Nat /\ hi \in Nat /\ RxWindow \in Nat
  BY FileAssumption, LimitAssumption
<1>3. \E mid \in lo..hi : Lines(cbuf) \subseteq lo..mid - 1 /\ Lines(tx) \subseteq mid..hi - 1
  <2>1. CASE cbuf = <<>>
    <3>1. Lines(cbuf) = {} /\ lo \in lo..hi
      BY <1>1, <1>n, <2>1, EmptySeq DEF Lines
    <3> QED BY <1>2, <3>1
  <2>2. CASE cbuf # <<>>
    <3> DEFINE z == Len(cbuf)
               mid == cbuf[z].num + 1
    <3>1. z \in Nat \ {0} /\ DOMAIN cbuf = 1..z /\ z \in DOMAIN cbuf
          /\ \A k \in DOMAIN cbuf : cbuf[k].kind = "line"
      <4>1. cbuf \in Seq(LineItems) /\ Len(cbuf) \in Nat \ {0} /\ DOMAIN cbuf = 1..Len(cbuf)
        BY <1>t, <2>2, HeadTail
      <4>2. \A k \in 1..Len(cbuf) : cbuf[k] \in LineItems
        BY <4>1
      <4> QED BY <4>1, <4>2 DEF LineItems
    <3>2. cbuf[z].num \in Lines(cbuf) /\ cbuf[z].num \in lo..hi - 1
      BY <1>2, <3>1 DEF Lines
    <3>3. mid \in lo..hi
      <4> DEFINE i == cbuf[z].num
      <4>1. i \in lo..hi - 1
        BY <3>2
      <4> HIDE DEF i, z
      <4>2. i + 1 \in lo..hi
        BY <1>n, <4>1
      <4> QED BY <4>2 DEF i
    <3>4. ASSUME NEW a \in Lines(cbuf) PROVE a \in lo..mid - 1
      <4>1. PICK k \in DOMAIN cbuf : a = cbuf[k].num
        BY DEF Lines
      <4>2. k < z => cbuf[k].num < cbuf[z].num
        BY <1>f, <3>1 DEF InOrder, Before
      <4>3. k = z \/ k < z
        BY <3>1
      <4>4. a \in lo..hi - 1
        BY <1>2
      <4> QED BY <1>n, <3>2, <4>1, <4>2, <4>3, <4>4
    <3>5. ASSUME NEW b \in Lines(tx) PROVE b \in mid..hi - 1
      <4>1. cbuf[z].num < b
        BY <1>f, <3>2 DEF Ahead, Before
      <4>2. b \in lo..hi - 1
        BY <1>2
      <4> QED BY <1>n, <3>2, <4>1, <4>2
    <3> QED BY <3>3, <3>4, <3>5
  <2> QED BY <2>1, <2>2
<1>4. PICK mid \in lo..hi : Lines(cbuf) \subseteq lo..mid - 1 /\ Lines(tx) \subseteq mid..hi - 1
  BY <1>3
<1>5. mid \in 0..NumLines /\ mid \in lo..NumLines /\ hi \in mid..NumLines
  BY <1>n
<1>6. Bytes(cbuf) <= Offset[mid] - Offset[lo] /\ Bytes(tx) <= Offset[hi] - Offset[mid]
  BY <1>t, <1>f, <1>4, <1>5, LinesFit
<1>7. Offset[lo] \in Nat /\ Offset[mid] \in Nat /\ Offset[hi] \in Nat
  BY <1>5, FileAssumption
<1> DEFINE x == Offset[lo]
           y == Offset[mid]
           z == Offset[hi]
           a == Bytes(cbuf)
           b == Bytes(tx)
<1>8. /\ x \in Nat /\ y \in Nat /\ z \in Nat /\ a \in Int /\ b \in Int
      /\ a <= y - x /\ b <= z - y /\ z - x <= RxWindow
  BY <1>1, <1>6, <1>7, <1>b
<1> HIDE DEF x, y, z, a, b
<1>9. a + b <= RxWindow
  BY <1>n, <1>8
<1> QED BY <1>9 DEF a, b

(* The lines in the controller's RX buffer and those on their way to it    *)
(* never exceed the buffer, however many of them and of their acks the     *)
(* link loses: what the streamer takes off its window for an ack has left  *)
(* the buffer, and what the link has lost stays on the window until the    *)
(* job times out.                                                          *)
THEOREM FlightAlwaysFits ==
  ASSUME "reload" \notin Ops, "mdi" \notin Ops, ~Dups, NumLines < CounterMod
  PROVE  LinkSpec => []FlightFits
<1>1. LinkInit => FitInv
  <2> SUFFICES ASSUME LinkInit PROVE FitInv
    OBVIOUS
  <2>1. InFlight = {}
    BY FlowInit DEF LinkInit, FlowInv, AllLines, InFlight
  <2>2. 0 \in 0..NumLines /\ Offset[0] - Offset[0] <= RxWindow
    BY FileAssumption, LimitAssumption
  <2> QED BY <2>1, <2>2 DEF FitInv
<1>2. LinkHyp /\ FlowInv /\ AckInv /\ FitInv /\ [LinkNext]_linkVars => FitInv'
  BY FitNext
<1>3. LinkHyp /\ FlowInv /\ AckInv /\ FitInv => FlightFits
  BY FlightBytes
<1> QED BY <1>1, <1>2, <1>3, AckInvariant, PTL DEF LinkSpec

-----------------------------------------------------------------------------
(***************************************************************************)
(* The mode.  0x8B toggles, so whoever sends it must know what it toggles. *)
(* Of what holds a copy of the mode (the snapshot, the parser, the answers *)
(* under way, the controller) none is up to date while a newer one is not; *)
(* the next toggle is sent only once the snapshot is up to date, so there  *)
(* is never more than one of them on its way.                              *)
(***************************************************************************)
HasReset(wire) == \E k \in DOMAIN wire : wire[k].kind = "reset"
Live(wire, k)  == \A i \in DOMAIN wire : i < k => wire[i].kind # "reset"

(* A reset is on its way, and the link will not be smooth behind it.       *)
Doom == HasReset(tx) \/ pc0 = "reset" \/ (pc1 = "send" /\ act.kind = "reset")

(* At most one toggle stands before position n of the wire; it leads from  *)
(* one mode to the other.                                                  *)
Path(wire, n, from, to) ==
  IF from = to
    THEN \A i \in DOMAIN wire : i < n => wire[i].kind # "toggle"
    ELSE \E i \in DOMAIN wire :
           /\ i < n /\ wire[i].kind = "toggle"
           /\ \A j \in DOMAIN wire : j < n /\ wire[j].kind = "toggle" => j = i

AllSay(answers, mode) ==
  \A k \in DOMAIN answers : answers[k].kind = "status" => answers[k].mpg = mode
SayLast(answers, mode, now) ==
  \A i \in DOMAIN answers : answers[i].kind = "status" /\ answers[i].mpg = mode =>
    /\ now = mode
    /\ \A k \in DOMAIN answers : i < k /\ answers[k].kind = "status" => answers[k].mpg = mode

Views ==
  /\ mpg_snap = owed => mpg_remote = owed
  /\ mpg_remote = owed => cmpg = owed /\ AllSay(up, owed)
  /\ SayLast(up, owed, cmpg)

(* What the pendant knows of the grant of its own job.                     *)
Holds ==
  /\ pc0 = "claim" => st = "claiming" /\ ~mpg_snap /\ ~saw_grant
  /\ claimed /\ saw_grant /\ ~Settled => mpg_snap
  /\ st = "loaded" => ~saw_grant
  /\ st \in {"complete", "aborted"} /\ claimed /\ pc1 # "idle" => saw_grant

AgreeInv ==
  smooth /\ ~Doom => ReleaseInv /\ Holds /\ Views /\ Path(tx, Len(tx) + 1, cmpg, owed)

ButtonInv ==
  /\ mpg_user = "auto"
  /\ pc0 = "reset" => st \in {"idle", "draining", "complete", "aborted"}
  /\ st = "idle" => pc1 \in {"rest", "drain"}

LEMMA ResetAppend ==
  ASSUME NEW s \in Seq(Items), NEW x \in Items
  PROVE  /\ HasReset(Append(s, x)) <=> HasReset(s) \/ x.kind = "reset"
         /\ \A k \in 1..Len(s) : Live(Append(s, x), k) <=> Live(s, k)
         /\ Live(Append(s, x), Len(s) + 1) <=> ~HasReset(s)
<1>1. /\ DOMAIN s = 1..Len(s) /\ DOMAIN Append(s, x) = 1..Len(s) + 1 /\ Len(s) \in Nat
      /\ Append(s, x)[Len(s) + 1] = x /\ \A k \in 1..Len(s) : Append(s, x)[k] = s[k]
  BY SeqParts
<1>2. /\ \A k \in DOMAIN Append(s, x) : (k \in DOMAIN s /\ Append(s, x)[k] = s[k]) \/ (k = Len(s) + 1 /\ Append(s, x)[k] = x)
      /\ \A k \in DOMAIN s : k \in DOMAIN Append(s, x) /\ Append(s, x)[k] = s[k] /\ k < Len(s) + 1
      /\ Len(s) + 1 \in DOMAIN Append(s, x)
      /\ \A i \in DOMAIN Append(s, x), k \in 1..Len(s) + 1 : i < k => i \in DOMAIN s
  BY <1>1
<1>3. HasReset(Append(s, x)) <=> HasReset(s) \/ x.kind = "reset"
  BY <1>1, <1>2 DEF HasReset
<1>4. \A k \in 1..Len(s) : Live(Append(s, x), k) <=> Live(s, k)
  <2> SUFFICES ASSUME NEW k \in 1..Len(s) PROVE Live(Append(s, x), k) <=> Live(s, k)
    OBVIOUS
  <2>1. k \in 1..Len(s) + 1
    BY <1>1
  <2> QED BY <1>2, <2>1 DEF Live
<1>5. Live(Append(s, x), Len(s) + 1) <=> ~HasReset(s)
  <2>1. Len(s) + 1 \in 1..Len(s) + 1
    BY <1>1
  <2> QED BY <1>2, <2>1 DEF Live, HasReset
<1> QED BY <1>3, <1>4, <1>5

LEMMA ResetTail ==
  ASSUME NEW s \in Seq(Items), s # <<>>
  PROVE  /\ HasReset(s) <=> HasReset(Tail(s)) \/ Head(s).kind = "reset"
         /\ Head(s).kind # "reset" => \A k \in DOMAIN Tail(s) : Live(Tail(s), k) => Live(s, k + 1)
<1>1. /\ Head(s) = s[1] /\ Tail(s) \in Seq(Items) /\ Len(s) \in Nat \ {0} /\ Len(Tail(s)) = Len(s) - 1
      /\ \A k \in 1..Len(s) - 1 : Tail(s)[k] = s[k + 1]
  BY HeadTail
<1>2. /\ DOMAIN s = 1..Len(s) /\ DOMAIN Tail(s) = 1..Len(s) - 1 /\ 1 \in DOMAIN s
      /\ \A k \in DOMAIN Tail(s) : k + 1 \in DOMAIN s /\ Tail(s)[k] = s[k + 1]
      /\ \A i \in DOMAIN s : i = 1 \/ (i - 1 \in DOMAIN Tail(s) /\ Tail(s)[i - 1] = s[i])
  BY <1>1
<1>3. HasReset(s) <=> HasReset(Tail(s)) \/ Head(s).kind = "reset"
  <2>1. HasReset(s) => HasReset(Tail(s)) \/ Head(s).kind = "reset"
    <3> SUFFICES ASSUME NEW i \in DOMAIN s, s[i].kind = "reset", i # 1 PROVE HasReset(Tail(s))
      BY <1>1 DEF HasReset
    <3> QED BY <1>2 DEF HasReset
  <2>2. HasReset(Tail(s)) => HasReset(s)
    BY <1>2 DEF HasReset
  <2> QED BY <1>1, <1>2, <2>1, <2>2 DEF HasReset
<1>4. ASSUME Head(s).kind # "reset", NEW k \in DOMAIN Tail(s), Live(Tail(s), k), NEW i \in DOMAIN s, i < k + 1
      PROVE  s[i].kind # "reset"
  <2>1. CASE i = 1
    BY <1>1, <1>4, <2>1
  <2>2. CASE i # 1
    <3>1. i - 1 \in DOMAIN Tail(s) /\ Tail(s)[i - 1] = s[i]
      BY <1>2, <2>2
    <3>2. i - 1 < k
      BY <1>1, <1>2, <1>4
    <3> QED BY <1>4, <3>1, <3>2 DEF Live
  <2> QED BY <2>1, <2>2
<1> QED BY <1>3, <1>4 DEF Live

LEMMA PathAppend ==
  ASSUME NEW s \in Seq(Items), NEW x \in Items, NEW from \in BOOLEAN, NEW to \in BOOLEAN
  PROVE  /\ \A k \in 1..Len(s) + 1 : Path(s, k, from, to) => Path(Append(s, x), k, from, to)
         /\ x.kind # "toggle" /\ Path(s, Len(s) + 1, from, to) => Path(Append(s, x), Len(s) + 2, from, to)
         /\ x.kind = "toggle" /\ Path(s, Len(s) + 1, from, from) => Path(Append(s, x), Len(s) + 2, from, ~from)
<1> DEFINE w == Append(s, x)
<1>1. /\ DOMAIN s = 1..Len(s) /\ DOMAIN w = 1..Len(s) + 1 /\ Len(s) \in Nat
      /\ w[Len(s) + 1] = x /\ \A k \in 1..Len(s) : w[k] = s[k]
  BY SeqParts
<1> HIDE DEF w
<1>2. /\ \A k \in DOMAIN s : k \in DOMAIN w /\ w[k] = s[k] /\ k < Len(s) + 1 /\ k < Len(s) + 2
      /\ \A k \in DOMAIN w : k \in DOMAIN s \/ k = Len(s) + 1
      /\ Len(s) + 1 \in DOMAIN w /\ Len(s) + 1 < Len(s) + 2
      /\ \A k \in 1..Len(s) + 1 : ~(Len(s) + 1 < k)
  BY <1>1
<1>3. \A k \in 1..Len(s) + 1 : Path(s, k, from, to) => Path(w, k, from, to)
  <2> SUFFICES ASSUME NEW k \in 1..Len(s) + 1, Path(s, k, from, to) PROVE Path(w, k, from, to)
    OBVIOUS
  <2>1. \A i \in DOMAIN w : i < k => i \in DOMAIN s /\ w[i] = s[i]
    BY <1>2
  <2> QED BY <1>2, <2>1 DEF Path
<1>w. \A k \in DOMAIN w : (k \in DOMAIN s /\ w[k] = s[k] /\ k < Len(s) + 1) \/ (k = Len(s) + 1 /\ w[k] = x)
  BY <1>1, <1>2
<1>4. ASSUME x.kind # "toggle", Path(s, Len(s) + 1, from, to) PROVE Path(w, Len(s) + 2, from, to)
  <2>1. CASE from = to
    BY <1>4, <1>w, <2>1 DEF Path
  <2>2. CASE from # to
    <3>1. PICK i \in DOMAIN s : /\ i < Len(s) + 1 /\ s[i].kind = "toggle"
                                /\ \A j \in DOMAIN s : j < Len(s) + 1 /\ s[j].kind = "toggle" => j = i
      BY <1>4, <2>2 DEF Path
    <3>2. i \in DOMAIN w /\ i < Len(s) + 2 /\ w[i].kind = "toggle"
      BY <1>2, <3>1
    <3>3. \A j \in DOMAIN w : w[j].kind = "toggle" => j = i
      BY <1>4, <1>w, <3>1
    <3> QED BY <2>2, <3>2, <3>3 DEF Path
  <2> QED BY <2>1, <2>2
<1>5. ASSUME x.kind = "toggle", Path(s, Len(s) + 1, from, from) PROVE Path(w, Len(s) + 2, from, ~from)
  <2>1. \A i \in DOMAIN s : s[i].kind # "toggle"
    BY <1>2, <1>5 DEF Path
  <2>2. from # ~from
    OBVIOUS
  <2>3. Len(s) + 1 \in DOMAIN w /\ Len(s) + 1 < Len(s) + 2 /\ w[Len(s) + 1].kind = "toggle"
    BY <1>1, <1>2, <1>5
  <2>4. \A j \in DOMAIN w : w[j].kind = "toggle" => j = Len(s) + 1
    BY <1>w, <2>1
  <2> QED BY <2>2, <2>3, <2>4 DEF Path
<1> QED BY <1>3, <1>4, <1>5 DEF w

LEMMA PathTail ==
  ASSUME NEW s \in Seq(Items), s # <<>>, NEW from \in BOOLEAN, NEW to \in BOOLEAN,
         NEW k \in 1..Len(s), Path(s, k + 1, from, to)
  PROVE  /\ Head(s).kind # "toggle" => Path(Tail(s), k, from, to)
         /\ Head(s).kind = "toggle" => from # to /\ Path(Tail(s), k, ~from, to)
<1> DEFINE w == Tail(s)
<1>1. /\ Head(s) = s[1] /\ w \in Seq(Items) /\ Len(s) \in Nat \ {0} /\ Len(w) = Len(s) - 1
      /\ \A i \in 1..Len(s) - 1 : w[i] = s[i + 1]
  BY HeadTail
<1> HIDE DEF w
<1>d. DOMAIN s = 1..Len(s) /\ DOMAIN w = 1..Len(s) - 1
  BY <1>1
<1>2. /\ \A i \in DOMAIN w : i + 1 \in DOMAIN s /\ i + 1 # 1 /\ w[i] = s[i + 1] /\ (i < k => i + 1 < k + 1)
      /\ 1 \in DOMAIN s /\ 1 < k + 1
  BY <1>1, <1>d
<1>b. \A i \in DOMAIN s : i = 1 \/ (i - 1 \in DOMAIN w /\ w[i - 1] = s[i] /\ (i < k + 1 => i - 1 < k))
  BY <1>1, <1>d
<1>c. \A j \in DOMAIN w, i \in DOMAIN s : j + 1 = i => j = i - 1
  BY <1>1, <1>d
<1>3. ASSUME Head(s).kind # "toggle" PROVE Path(w, k, from, to)
  <2>1. CASE from = to
    BY <1>1, <1>2, <2>1 DEF Path
  <2>2. CASE from # to
    <3>1. PICK i \in DOMAIN s : /\ i < k + 1 /\ s[i].kind = "toggle"
                                /\ \A j \in DOMAIN s : j < k + 1 /\ s[j].kind = "toggle" => j = i
      BY <2>2 DEF Path
    <3>2. i - 1 \in DOMAIN w /\ w[i - 1] = s[i] /\ i - 1 < k
      BY <1>1, <1>3, <1>b, <3>1
    <3>3. \A j \in DOMAIN w : j < k /\ w[j].kind = "toggle" => j = i - 1
      BY <1>2, <1>c, <3>1
    <3> QED BY <2>2, <3>1, <3>2, <3>3 DEF Path
  <2> QED BY <2>1, <2>2
<1>4. ASSUME Head(s).kind = "toggle" PROVE from # to /\ Path(w, k, ~from, to)
  <2>1. from # to
    BY <1>1, <1>2, <1>4 DEF Path
  <2>2. ~from = to
    BY <2>1
  <2>3. \A i \in DOMAIN w : i < k => w[i].kind # "toggle"
    <3>1. \A j \in DOMAIN s : j < k + 1 /\ s[j].kind = "toggle" => j = 1
      BY <1>1, <1>2, <1>4, <2>1 DEF Path
    <3> QED BY <1>2, <3>1
  <2> QED BY <2>1, <2>2, <2>3 DEF Path
<1> QED BY <1>3, <1>4 DEF w

LEMMA SayAppend ==
  ASSUME NEW s \in Seq(Answers), NEW x \in Answers, NEW mode \in BOOLEAN, NEW now \in BOOLEAN
  PROVE  /\ AllSay(s, mode) /\ (x.kind = "status" => x.mpg = mode) => AllSay(Append(s, x), mode)
         /\ SayLast(s, mode, now) /\ (x.kind = "status" => x.mpg = now) => SayLast(Append(s, x), mode, now)
<1> DEFINE a == Append(s, x)
<1>1. /\ DOMAIN s = 1..Len(s) /\ DOMAIN a = 1..Len(s) + 1 /\ Len(s) \in Nat
      /\ a[Len(s) + 1] = x /\ \A k \in 1..Len(s) : a[k] = s[k]
  BY SeqParts
<1> HIDE DEF a
<1>2. /\ \A k \in DOMAIN a : (k \in DOMAIN s /\ a[k] = s[k]) \/ (k = Len(s) + 1 /\ a[k] = x)
      /\ \A k \in DOMAIN a : ~(Len(s) + 1 < k)
  BY <1>1
<1>3. ASSUME AllSay(s, mode), x.kind = "status" => x.mpg = mode PROVE AllSay(a, mode)
  BY <1>2, <1>3 DEF AllSay
<1>4. ASSUME SayLast(s, mode, now), x.kind = "status" => x.mpg = now PROVE SayLast(a, mode, now)
  <2> SUFFICES ASSUME NEW i \in DOMAIN a, a[i].kind = "status", a[i].mpg = mode
               PROVE  now = mode /\ \A k \in DOMAIN a : i < k /\ a[k].kind = "status" => a[k].mpg = mode
    BY DEF SayLast
  <2>1. CASE i \in DOMAIN s /\ a[i] = s[i]
    <3>1. now = mode /\ \A k \in DOMAIN s : i < k /\ s[k].kind = "status" => s[k].mpg = mode
      BY <1>4, <2>1 DEF SayLast
    <3> QED BY <1>2, <1>4, <3>1
  <2>2. CASE i = Len(s) + 1 /\ a[i] = x
    BY <1>2, <1>4, <2>2
  <2> QED BY <1>2, <2>1, <2>2
<1> QED BY <1>3, <1>4 DEF a

LEMMA SayTail ==
  ASSUME NEW s \in Seq(Answers), s # <<>>, NEW mode \in BOOLEAN, NEW now \in BOOLEAN
  PROVE  /\ AllSay(s, mode) => AllSay(Tail(s), mode) /\ (Head(s).kind = "status" => Head(s).mpg = mode)
         /\ SayLast(s, mode, now) =>
              /\ SayLast(Tail(s), mode, now)
              /\ Head(s).kind = "status" /\ Head(s).mpg = mode => now = mode /\ AllSay(Tail(s), mode)
<1> DEFINE a == Tail(s)
<1>1. /\ Head(s) = s[1] /\ a \in Seq(Answers) /\ Len(s) \in Nat \ {0} /\ Len(a) = Len(s) - 1
      /\ \A k \in 1..Len(s) - 1 : a[k] = s[k + 1]
  BY HeadTail
<1> HIDE DEF a
<1>2. /\ DOMAIN s = 1..Len(s) /\ DOMAIN a = 1..Len(s) - 1 /\ 1 \in DOMAIN s
      /\ \A k \in DOMAIN a : k + 1 \in DOMAIN s /\ 1 < k + 1 /\ a[k] = s[k + 1]
      /\ \A i, k \in DOMAIN a : i < k => i + 1 < k + 1
  BY <1>1
<1>3. AllSay(s, mode) => AllSay(a, mode) /\ (Head(s).kind = "status" => Head(s).mpg = mode)
  BY <1>1, <1>2 DEF AllSay
<1>4. ASSUME SayLast(s, mode, now)
      PROVE  /\ SayLast(a, mode, now)
             /\ Head(s).kind = "status" /\ Head(s).mpg = mode => now = mode /\ AllSay(a, mode)
  <2>1. SayLast(a, mode, now)
    BY <1>2, <1>4 DEF SayLast
  <2>2. ASSUME Head(s).kind = "status", Head(s).mpg = mode
        PROVE  now = mode /\ AllSay(a, mode)
    <3>1. s[1].kind = "status" /\ s[1].mpg = mode
      BY <1>1, <2>2
    <3>2. now = mode /\ \A k \in DOMAIN s : 1 < k /\ s[k].kind = "status" => s[k].mpg = mode
      BY <1>2, <1>4, <3>1 DEF SayLast
    <3> QED BY <1>2, <3>2 DEF AllSay
  <2> QED BY <2>1, <2>2
<1> QED BY <1>3, <1>4 DEF a

LEMMA ButtonNext ==
  ASSUME "mpg" \notin Ops
  PROVE  LinkHyp /\ ButtonInv /\ [Next]_vars => ButtonInv'
<1> SUFFICES ASSUME LinkHyp, ButtonInv, [Next]_vars PROVE ButtonInv'
  OBVIOUS
<1> USE DEF ButtonInv
<1>1. CASE Clock \/ TickBegin \/ Rx \/ WireTake \/ UNCHANGED vars
  BY <1>1 DEF Clock, TickBegin, Rx, RxOk, RxErr, RxStatus, SessionOpens, WireTake, parserFrame, streamer, vars
<1>2. CASE Pump
  <2>1. UNCHANGED <<pc0, mpg_user>>
    BY <1>2 DEF Pump, PumpSkip, PumpError, PumpCount, PumpAck, PumpGrant, PumpSend, PumpFinish, PumpIdle,
                PumpNext, PumpClaimTimeout, PumpDeadMan, PumpOversize, NextFails, PumpEndOfFile, PumpRead,
                PumpNothing, PumpNullRead, PumpLine, PumpFull, nextFrame, pumpFrame
  <2>2. \/ st' = st \/ st' \in {"idle", "draining", "complete", "aborted"}
        \/ st = "claiming" /\ st' = "streaming"
    BY <1>2 DEF Pump, PumpSkip, PumpError, PumpCount, PumpAck, PumpGrant, PumpSend, PumpFinish, PumpIdle,
                PumpNext, PumpClaimTimeout, PumpDeadMan, PumpOversize, NextFails, PumpEndOfFile, PumpRead,
                PumpNothing, PumpNullRead, PumpLine, PumpFull, Finished, streamer
  <2>3. st' = "idle" => pc1' \in {"rest", "drain"}
    <3>1. CASE PumpSkip \/ PumpError \/ PumpIdle
      BY <3>1 DEF PumpSkip, PumpError, PumpIdle, Goto
    <3>2. CASE PumpCount \/ PumpAck \/ PumpGrant \/ PumpSend \/ PumpFinish
      BY <3>2 DEF PumpCount, PumpAck, PumpGrant, PumpSend, PumpFinish, streamer, Active
    <3>3. CASE PumpNext
      BY <3>3 DEF PumpNext, PumpClaimTimeout, PumpDeadMan, PumpOversize, NextFails, PumpEndOfFile, PumpRead,
                  PumpNothing, PumpNullRead, PumpLine, PumpFull, Finished, NextTurn
    <3> QED BY <1>2, <3>1, <3>2, <3>3 DEF Pump
  <2> QED BY <2>1, <2>2, <2>3
<1>3. CASE Ui
  <2>1. CASE UiLoad \/ UiReload \/ UiStart \/ UiHold \/ UiResume \/ UiStop \/ UiMdi \/ UiMpgToggle
    BY <2>1 DEF UiLoad, UiReload, LoadJob, UiStart, UiHold, UiResume, UiStop, UiMdi, UiMpgToggle, Pressed,
                buttonFrame, uiFrame, streamer
  <2>2. CASE UiBaseline
    BY <2>2 DEF UiBaseline, uiFrame, streamer
  <2>3. CASE UiAbort
    <3>1. pc0' = "reset" /\ UNCHANGED <<mpg_user, pc1>> /\ st' = IF Active(st) \/ st = "loaded" THEN "aborted" ELSE st
      BY <2>3 DEF UiAbort, buttonFrame, uiFrame
    <3>2. st \in States
      BY DEF LinkHyp, TypeInv, TypeOK
    <3> QED BY <3>1, <3>2 DEF Active, States
  <2>4. CASE UiAbortReset
    BY <2>4 DEF UiAbortReset, buttonFrame, uiFrame
  <2> QED BY <1>3, <2>1, <2>2, <2>3, <2>4 DEF Ui
<1> QED BY <1>1, <1>2, <1>3 DEF Next

(* A reset that is on its way stays so, until it ends what is smooth.      *)
LEMMA ResetStays ==
  ASSUME LinkHyp, [LinkNext]_linkVars, smooth', HasReset(tx)
  PROVE  HasReset(tx')
<1>t. tx \in Seq(Items)
  BY DEF LinkHyp, TypeInv, TypeOK
<1>1. CASE Pendant
  <2>1. UNCHANGED tx \/ \E x \in Items : tx' = Append(tx, x)
    <3>1. Toggle \in Items
      BY ItemTypes DEF Toggle, Byte
    <3> QED BY <1>1, <3>1, PendantSends DEF Pendant, LinkHyp
  <2> QED BY <1>t, <2>1, ResetAppend
<1>2. CASE Deliver
  <2>1. tx # <<>> /\ tx' = Tail(tx) /\ Head(tx).kind # "reset"
    BY <1>2 DEF Deliver, WireTake
  <2> QED BY <1>t, <2>1, ResetTail
<1>3. CASE DownLost \/ UpLost \/ DeliverTwice
  BY <1>3 DEF DownLost, UpLost, DeliverTwice
<1>4. CASE Answer \/ CtlRun \/ CtlMoved \/ CtlReport \/ Reopen \/ UNCHANGED linkVars
  <2>1. UNCHANGED tx
    BY <1>4, AnswerStep DEF Answer, RxOk, RxStatus, CtlRun, CtlMoved, CtlReport, Reopen, SessionOpens, parserFrame, link, linkVars, vars, LinkHyp
  <2> QED BY <2>1
<1> QED BY <1>1, <1>2, <1>3, <1>4 DEF LinkNext

(* ... and so does one that is still to be sent.                           *)
LEMMA DoomStays ==
  ASSUME LinkHyp, [LinkNext]_linkVars, smooth', ~Doom'
  PROVE  smooth /\ ~Doom /\ ~UiAbort
<1>t. tx \in Seq(Items) /\ smooth \in BOOLEAN
  BY DEF LinkHyp, TypeInv, TypeOK, LinkTypeOK
<1>n. [Next]_vars
  BY LinkStep DEF LinkHyp
<1>0. smooth
  BY SmoothBefore DEF LinkHyp
<1>1. ~UiAbort
  BY DEF UiAbort, Doom
<1>2. ~HasReset(tx)
  BY ResetStays DEF Doom
<1>r. ASSUME NEW x \in Items, x.kind = "reset", tx' = Append(tx, x) PROVE FALSE
  BY <1>t, <1>r, ResetAppend DEF Doom
<1>3. pc0 # "reset"
  <2> SUFFICES ASSUME pc0 = "reset" PROVE FALSE
    OBVIOUS
  <2>1. CASE UiAbortReset
    BY <1>r, <2>1, ItemTypes DEF UiAbortReset, Send, Reset, Byte
  <2>2. CASE ~UiAbortReset
    <3>1. pc0' = pc0
      BY <1>n, <2>2 DEF Next, Clock, TickBegin, Rx, RxOk, RxErr, RxStatus, SessionOpens, WireTake, parserFrame, vars,
          Pump, PumpSkip, PumpError, PumpCount, PumpAck, PumpGrant, PumpSend, PumpFinish, PumpIdle,
          PumpNext, PumpClaimTimeout, PumpDeadMan, PumpOversize, NextFails, PumpEndOfFile, PumpRead,
          PumpNothing, PumpNullRead, PumpLine, PumpFull, nextFrame, pumpFrame,
          Ui, UiLoad, UiReload, LoadJob, UiStart, UiBaseline, UiHold, UiResume, UiAbort, UiStop,
          UiMpgToggle, UiMdi, Pressed
    <3> QED BY <3>1 DEF Doom
  <2> QED BY <2>1, <2>2
<1>4. ~(pc1 = "send" /\ act.kind = "reset")
  <2> SUFFICES ASSUME pc1 = "send", act.kind = "reset" PROVE FALSE
    OBVIOUS
  <2>1. CASE PumpSend
    BY <1>r, <2>1 DEF PumpSend, Send, LinkHyp, TypeInv, SendHasItem
  <2>2. CASE ~PumpSend
    <3>1. pc1' = pc1 /\ act' = act
      BY <1>n, <2>2 DEF Next, Clock, TickBegin, Rx, RxOk, RxErr, RxStatus, SessionOpens, WireTake, parserFrame, vars,
          Pump, PumpSkip, PumpError, PumpCount, PumpAck, PumpGrant, PumpFinish, PumpIdle, NextTurn,
          PumpNext, PumpClaimTimeout, PumpDeadMan, PumpOversize, PumpEndOfFile, PumpRead,
          PumpNothing, PumpNullRead, PumpLine, PumpFull,
          Ui, UiLoad, UiReload, LoadJob, UiStart, UiBaseline, UiHold, UiResume, UiAbort, UiAbortReset, UiStop,
          UiMpgToggle, UiMdi, buttonFrame, uiFrame
    <3> QED BY <3>1 DEF Doom
  <2> QED BY <2>1, <2>2
<1> QED BY <1>0, <1>1, <1>2, <1>3, <1>4 DEF Doom

(* The pendant knows the grant of its own job as long as no reset is due.  *)
LEMMA HoldsNext ==
  ASSUME "reload" \notin Ops, "mpg" \notin Ops, LinkHyp, ButtonInv, ReleaseInv, Holds, Views,
         [Next]_vars, ~Doom', ~UiAbort, UNCHANGED err_count, conn'
  PROVE  Holds'
<1>t. /\ st \in States /\ saw_grant \in BOOLEAN /\ mpg_snap \in BOOLEAN /\ mpg_remote \in BOOLEAN
      /\ claimed \in BOOLEAN /\ owed \in BOOLEAN
  BY DEF LinkHyp, TypeInv, TypeOK
<1>r. st \in {"idle", "loaded"} => pc1 \in {"rest", "drain"}
  BY DEF ReleaseInv
<1>s. ASSUME UNCHANGED <<st, claimed, saw_grant, mpg_snap>>, pc0' = "claim" => pc0 = "claim",
             pc1' = "idle" <=> pc1 = "idle"
      PROVE  Holds'
  BY <1>s DEF Holds, Settled
<1>1. CASE Clock \/ TickBegin \/ Rx \/ WireTake \/ UNCHANGED vars
  BY <1>1, <1>s DEF Clock, TickBegin, Rx, RxOk, RxErr, RxStatus, SessionOpens, WireTake, parserFrame, streamer, driver, vars
<1>2. CASE Pump
  <2> USE DEF pumpFrame, streamer, driver, Goto
  <2>1. CASE PumpSkip \/ PumpCount
    <3>1. /\ UNCHANGED <<st, claimed, saw_grant, pc0>> /\ mpg_snap' = mpg_remote
          /\ pc1 = "drain" /\ pc1' \in {"rest", "acks"}
      BY <2>1 DEF PumpSkip, PumpCount, SnapshotRefresh
    <3>2. Settled' <=> Settled
      BY <3>1 DEF Settled
    <3>3. pc0 = "claim" => mpg_snap' = FALSE
      BY <1>t, <3>1 DEF Holds, ReleaseInv, Settled, Views
    <3>4. ASSUME claimed, saw_grant, ~Settled PROVE mpg_snap'
      <4>1. pc0 # "claim" /\ mpg_snap
        BY <3>4 DEF Holds
      <4>2. owed
        BY <3>4, <4>1 DEF ReleaseInv
      <4> QED BY <1>t, <3>1, <4>1, <4>2 DEF Views
    <3> QED BY <3>1, <3>2, <3>3, <3>4 DEF Holds, ReleaseInv
  <2>2. CASE PumpError
    BY <2>2 DEF PumpError, ReleaseInv
  <2>3. CASE PumpAck
    <3>1. /\ UNCHANGED <<claimed, saw_grant, mpg_snap, pc0>> /\ pc1 = "acks" /\ pc1' = "acks"
          /\ st' = st \/ (st = "draining" /\ st' = "complete")
      BY <2>3 DEF PumpAck
    <3> QED BY <3>1 DEF Holds, Settled, LinkHyp, GrantInv, Started
  <2>4. CASE PumpGrant
    <3>1. /\ pc1 = "acks" /\ pc1' \in {"next", "finish"} /\ UNCHANGED <<claimed, mpg_snap, pc0>>
          /\ \/ st = "claiming" /\ mpg_snap /\ st' = "streaming" /\ saw_grant' = TRUE
             \/ ~mpg_snap /\ saw_grant /\ Started(st) /\ st' = "aborted" /\ saw_grant' = saw_grant
             \/ UNCHANGED <<st, saw_grant>>
      BY <1>t, <2>4 DEF PumpGrant
    <3> QED BY <1>r, <3>1 DEF Holds, Settled, Started
  <2>5. CASE PumpClaimTimeout
    <3>1. pc1' = "send" /\ act'.kind = "reset"
      BY <2>5 DEF PumpClaimTimeout, NextFails, Reset, Byte, NoAct
    <3> QED BY <3>1 DEF Doom
  <2>6. CASE PumpDeadMan \/ PumpEndOfFile \/ PumpNullRead \/ PumpOversize
    <3>1. /\ UNCHANGED <<claimed, saw_grant, mpg_snap, pc0>> /\ pc1 \in {"next", "read"}
          /\ pc1' \in {"finish", "send"} /\ st' \in {"aborted", "complete", "draining"}
          /\ Started(st) \/ pc1 = "read"
      BY <2>6 DEF PumpDeadMan, PumpEndOfFile, PumpNullRead, PumpOversize, NextTurn, NextFails, nextFrame,
                  Finished, DeadMan, MaySend, Started
    <3>2. saw_grant
      BY <3>1 DEF LinkHyp, GrantInv
    <3> QED BY <1>r, <3>1, <3>2 DEF Holds, Settled
  <2>7. CASE PumpRead \/ PumpNothing \/ PumpFull \/ PumpLine \/ PumpSend
    BY <2>7, <1>s DEF PumpRead, NextTurn, PumpNothing, PumpFull, PumpLine, PumpSend, nextFrame
  <2>8. CASE PumpFinish
    BY <2>8 DEF PumpFinish, Holds, Settled
  <2>9. CASE PumpIdle
    BY <2>9 DEF PumpIdle, Holds, Settled, ReleaseInv
  <2> QED BY <1>2, <2>1, <2>2, <2>3, <2>4, <2>5, <2>6, <2>7, <2>8, <2>9 DEF Pump, PumpNext
<1>3. CASE Ui
  <2> USE DEF buttonFrame, uiFrame, streamer, driver
  <2>1. CASE UiLoad
    BY <2>1 DEF UiLoad, Pressed, LoadJob, Holds
  <2>2. CASE UiStart
    <3>1. /\ st = "loaded" /\ ~saw_grant /\ UNCHANGED <<mpg_snap, pc1>>
          /\ \/ mpg_snap /\ saw_grant' /\ st' = "streaming" /\ pc0' = "baseline"
             \/ ~mpg_snap /\ saw_grant' = saw_grant /\ st' = "claiming"
      BY <1>t, <2>2 DEF UiStart, MpgActive, ButtonInv, Holds
    <3> QED BY <1>r, <3>1 DEF Holds, Settled
  <2>3. CASE UiBaseline
    BY <2>3, <1>s DEF UiBaseline
  <2>4. CASE UiAbortReset \/ UiStop \/ UiMdi
    BY <2>4, <1>s DEF UiAbortReset, UiStop, UiMdi, Pressed
  <2>5. CASE UiHold \/ UiResume
    <3>1. /\ UNCHANGED <<claimed, saw_grant, mpg_snap, pc0, pc1>>
          /\ \/ st' = st
             \/ st = "streaming" /\ st' = "paused"
             \/ st = "paused" /\ st' = "streaming"
      BY <2>5 DEF UiHold, UiResume
    <3> QED BY <3>1 DEF Holds, Settled
  <2> QED BY <1>3, <2>1, <2>2, <2>3, <2>4, <2>5 DEF Ui, UiReload, UiMpgToggle, Pressed
<1> QED BY <1>1, <1>2, <1>3 DEF Next

(* The two places where the job sends 0x8B.                              *)
LEMMA TogglingSteps ==
  ASSUME LinkHyp, "reload" \notin Ops, "mpg" \notin Ops, Pendant, owed' = ~owed
  PROVE  \/ UiBaseline /\ pc0 = "claim"
         \/ PumpFinish /\ claimed /\ st \in {"complete", "aborted"}
<1>0. owed' # owed
  BY DEF LinkHyp, TypeInv, TypeOK
<1>1. CASE Clock \/ TickBegin
  BY <1>0, <1>1 DEF Clock, TickBegin, history
<1>2. CASE Pump
  BY <1>0, <1>2 DEF Pump, PumpSkip, PumpError, PumpCount, PumpAck, PumpGrant, PumpSend, PumpFinish, PumpIdle,
            PumpNext, PumpClaimTimeout, PumpDeadMan, PumpOversize, NextFails, PumpEndOfFile, PumpRead,
            PumpNothing, PumpNullRead, PumpLine, PumpFull, nextFrame
<1>3. CASE Ui
  BY <1>0, <1>3 DEF Ui, UiLoad, UiReload, LoadJob, UiStart, UiBaseline, UiHold, UiResume, UiAbort,
            UiAbortReset, UiStop, UiMpgToggle, UiMdi, Pressed, history
<1> QED BY <1>1, <1>2, <1>3 DEF Pendant

(* What the pendant's step has to do with the mode.  It toggles the port   *)
(* only when it knows its mode.                                            *)
LEMMA PortSteps ==
  ASSUME LinkHyp, "reload" \notin Ops, "mpg" \notin Ops, ReleaseInv, Holds, Pendant
  PROVE  /\ UNCHANGED mpg_remote /\ mpg_snap' \in {mpg_snap, mpg_remote}
         /\ \/ UNCHANGED <<tx, owed>>
            \/ \E x \in Items : x.kind # "toggle" /\ tx' = Append(tx, x) /\ UNCHANGED owed
            \/ tx' = Append(tx, Toggle) /\ owed' = ~owed /\ mpg_snap = owed /\ UNCHANGED mpg_snap
<1>t. /\ st \in States /\ saw_grant \in BOOLEAN /\ mpg_snap \in BOOLEAN
      /\ claimed \in BOOLEAN /\ owed \in BOOLEAN
  BY DEF LinkHyp, TypeInv, TypeOK
<1>r. UNCHANGED mpg_remote
  BY ParserAlone DEF Pendant, engine
<1>x. UNCHANGED <<tx, owed>> \/ (\E x \in Items : x.kind # "toggle" /\ tx' = Append(tx, x) /\ UNCHANGED owed)
      \/ (tx' = Append(tx, Toggle) /\ owed' = ~owed)
  BY PendantSends DEF LinkHyp, Pendant
<1>m. mpg_snap' \in {mpg_snap, mpg_remote}
  <2>1. CASE Clock \/ TickBegin
    BY <2>1 DEF Clock, TickBegin, driver
  <2>2. CASE Pump
    BY <2>2 DEF Pump, PumpSkip, PumpError, PumpCount, PumpAck, PumpGrant, PumpSend, PumpFinish, PumpIdle,
                PumpNext, PumpClaimTimeout, PumpDeadMan, PumpOversize, NextFails, PumpEndOfFile, PumpRead,
                PumpNothing, PumpNullRead, PumpLine, PumpFull, nextFrame, SnapshotRefresh, driver
  <2>3. CASE Ui
    BY <2>3 DEF Ui, UiLoad, UiReload, LoadJob, UiStart, UiBaseline, UiHold, UiResume, UiAbort,
                UiAbortReset, UiStop, UiMpgToggle, UiMdi, driver
  <2> QED BY <2>1, <2>2, <2>3 DEF Pendant
<1>o. ASSUME owed' = ~owed PROVE mpg_snap = owed /\ UNCHANGED mpg_snap
  <2>2. \/ UiBaseline /\ pc0 = "claim"
        \/ PumpFinish /\ claimed /\ st \in {"complete", "aborted"}
    BY <1>o, TogglingSteps
  <2>3. CASE UiBaseline /\ pc0 = "claim"
    <3>1. st = "claiming" /\ mpg_snap = FALSE /\ UNCHANGED mpg_snap
      BY <1>t, <2>3 DEF Holds, UiBaseline, driver
    <3>2. ~Settled
      BY <3>1 DEF ReleaseInv, Settled
    <3>3. owed = FALSE
      BY <1>t, <2>3, <3>2 DEF ReleaseInv
    <3> QED BY <3>1, <3>3
  <2>4. CASE PumpFinish /\ claimed /\ st \in {"complete", "aborted"}
    <3>1. pc1 = "finish" /\ UNCHANGED mpg_snap /\ ~Settled /\ pc0 # "claim"
      BY <2>4 DEF PumpFinish, driver, Settled, Holds
    <3>2. mpg_snap = TRUE
      BY <1>t, <2>4, <3>1 DEF Holds
    <3>3. owed = TRUE
      BY <1>t, <2>4, <3>1 DEF ReleaseInv
    <3> QED BY <3>1, <3>2, <3>3
  <2> QED BY <2>2, <2>3, <2>4
<1> QED BY <1>r, <1>x, <1>m, <1>o

LEMMA AgreeNext ==
  ASSUME "reload" \notin Ops, "mpg" \notin Ops
  PROVE  LinkHyp /\ ButtonInv /\ AgreeInv /\ [LinkNext]_linkVars => AgreeInv'
<1> SUFFICES ASSUME LinkHyp, ButtonInv, AgreeInv, [LinkNext]_linkVars, smooth', ~Doom'
             PROVE  ReleaseInv' /\ Holds' /\ Views' /\ Path(tx', Len(tx') + 1, cmpg', owed')
  BY DEF AgreeInv, Path
<1>t. /\ tx \in Seq(Items) /\ up \in Seq(Answers) /\ cmpg \in BOOLEAN /\ owed \in BOOLEAN
      /\ mpg_remote \in BOOLEAN /\ mpg_snap \in BOOLEAN
      /\ cmpg' \in BOOLEAN /\ owed' \in BOOLEAN
  BY HypNext DEF LinkHyp, TypeInv, TypeOK, LinkTypeOK
<1>n. [Next]_vars /\ UNCHANGED err_count
  BY LinkStep, NoErrors DEF LinkHyp
<1>d. smooth /\ ~Doom /\ ~UiAbort
  BY DoomStays
<1>p. ReleaseInv /\ Holds /\ Views /\ Path(tx, Len(tx) + 1, cmpg, owed)
  BY <1>d DEF AgreeInv
<1>o. conn'
  BY HypNext DEF LinkHyp, OpenInv
<1>r. ReleaseInv' /\ Holds'
  BY <1>d, <1>n, <1>o, <1>p, ReleaseNext, HoldsNext DEF LinkHyp
<1> HIDE DEF LinkHyp, ButtonInv, AgreeInv, ReleaseInv, Holds
<1> SUFFICES Views' /\ Path(tx', Len(tx') + 1, cmpg', owed')
  BY <1>r
<1>v. /\ mpg_snap = owed => mpg_remote = owed
      /\ mpg_remote = owed => cmpg = owed /\ AllSay(up, owed)
      /\ SayLast(up, owed, cmpg)
  BY <1>p DEF Views
<1>u. ASSUME mpg_snap' = owed' => mpg_remote' = owed',
             mpg_remote' = owed' => cmpg' = owed' /\ AllSay(up', owed'),
             SayLast(up', owed', cmpg'),
             Path(tx', Len(tx') + 1, cmpg', owed')
      PROVE  Views' /\ Path(tx', Len(tx') + 1, cmpg', owed')
  BY <1>u DEF Views, AllSay, SayLast
<1>1. CASE Pendant
  <2>0. UNCHANGED <<cmpg, up>>
    BY <1>1 DEF Pendant, ctl
  <2>1. /\ UNCHANGED mpg_remote /\ mpg_snap' \in {mpg_snap, mpg_remote}
        /\ \/ UNCHANGED <<tx, owed>>
           \/ \E x \in Items : x.kind # "toggle" /\ tx' = Append(tx, x) /\ UNCHANGED owed
           \/ tx' = Append(tx, Toggle) /\ owed' = ~owed /\ mpg_snap = owed /\ UNCHANGED mpg_snap
    BY <1>1, <1>p, PortSteps
  <2>2. CASE UNCHANGED <<tx, owed>>
    BY <1>p, <1>u, <1>v, <2>0, <2>1, <2>2
  <2>3. CASE \E x \in Items : x.kind # "toggle" /\ tx' = Append(tx, x) /\ UNCHANGED owed
    <3>1. PICK x \in Items : x.kind # "toggle" /\ tx' = Append(tx, x) /\ UNCHANGED owed
      BY <2>3
    <3>2. Path(Append(tx, x), Len(tx) + 2, cmpg, owed)
      BY <1>t, <1>p, <3>1, PathAppend
    <3>3. Len(tx') + 1 = Len(tx) + 2
      BY <1>t, <3>1, SeqParts
    <3> QED BY <1>u, <1>v, <2>0, <2>1, <3>1, <3>2, <3>3
  <2>4. CASE tx' = Append(tx, Toggle) /\ owed' = ~owed /\ mpg_snap = owed /\ UNCHANGED mpg_snap
    <3>1. Toggle \in Items /\ Toggle.kind = "toggle"
      BY ItemTypes DEF Toggle, Byte
    <3>2. mpg_remote = owed /\ cmpg = owed /\ AllSay(up, owed)
      BY <1>v, <2>4
    <3>3. Path(Append(tx, Toggle), Len(tx) + 2, cmpg, ~owed)
      BY <1>t, <1>p, <3>1, <3>2, PathAppend
    <3>4. Len(tx') + 1 = Len(tx) + 2
      BY <1>t, <2>4, <3>1, SeqParts
    <3>5. mpg_snap' # owed' /\ mpg_remote' # owed'
      BY <1>t, <2>1, <2>4, <3>2
    <3>6. SayLast(up, owed', cmpg)
      BY <1>t, <2>4, <3>2 DEF SayLast, AllSay
    <3> QED BY <1>u, <2>0, <2>4, <3>3, <3>4, <3>5, <3>6
  <2> QED BY <2>1, <2>2, <2>3, <2>4
<1>2. CASE Answer
  <2>1. UNCHANGED <<tx, cmpg, owed, mpg_snap>> /\ up # <<>> /\ up' = Tail(up)
    BY <1>2, AnswerStep DEF Answer, RxOk, RxStatus, parserFrame, ctl, driver, history, LinkHyp
  <2>2. \/ Head(up).kind = "ok" /\ mpg_remote' = mpg_remote
        \/ Head(up).kind = "status" /\ mpg_remote' = Head(up).mpg
    BY <1>2, AnswerStep DEF RxOk, RxStatus, LinkHyp
  <2>3. /\ AllSay(up, owed) => AllSay(up', owed) /\ (Head(up).kind = "status" => Head(up).mpg = owed)
        /\ SayLast(up', owed, cmpg)
        /\ Head(up).kind = "status" /\ Head(up).mpg = owed => cmpg = owed /\ AllSay(up', owed)
    BY <1>t, <1>v, <2>1, SayTail
  <2> QED BY <1>p, <1>u, <1>v, <2>1, <2>2, <2>3
<1>3. CASE Deliver
  <2>1. /\ tx # <<>> /\ tx' = Tail(tx) /\ Accept(Head(tx)) /\ UNCHANGED <<owed, mpg_snap, mpg_remote>>
        /\ Head(tx).kind # "reset" /\ (Head(tx).kind = "toggle" => cmpg' # cmpg)
    BY <1>3 DEF Deliver, WireTake, driver, history, engine
  <2>2. /\ Head(tx) \in Items /\ Len(tx) \in 1..Len(tx) /\ Len(tx') + 1 = Len(tx)
    BY <1>t, <2>1, HeadTail
  <2>3. Head(tx).kind \in {"line", "toggle", "hold", "cycle", "reset", "mdi"}
    BY <2>2 DEF Items
  <2>4. /\ Head(tx).kind # "toggle" => Path(tx', Len(tx') + 1, cmpg, owed)
        /\ Head(tx).kind = "toggle" => cmpg # owed /\ Path(tx', Len(tx') + 1, ~cmpg, owed)
    BY <1>t, <1>p, <2>1, <2>2, PathTail
  <2>5. CASE Head(tx).kind # "toggle"
    <3>1. UNCHANGED <<cmpg, up>>
      BY <2>1, <2>3, <2>5 DEF Accept
    <3> QED BY <1>u, <1>v, <2>1, <2>4, <2>5, <3>1
  <2>6. CASE Head(tx).kind = "toggle"
    <3>1. up' = Append(up, Report(cmpg', Busy))
      BY <2>1, <2>6 DEF Accept
    <3>2. cmpg # owed /\ cmpg' = ~cmpg /\ cmpg' = owed
      BY <1>t, <2>1, <2>4, <2>6
    <3>3. mpg_snap # owed /\ mpg_remote # owed
      BY <1>v, <3>2
    <3>4. Report(cmpg', Busy) \in Answers /\ Report(cmpg', Busy).mpg = cmpg'
      BY <1>t, AnswerTypes, BusyType DEF LinkHyp, Report
    <3>5. SayLast(up, owed, cmpg')
      BY <1>v, <3>2 DEF SayLast
    <3>6. SayLast(up', owed, cmpg')
      BY <1>t, <3>1, <3>2, <3>4, <3>5, SayAppend
    <3> QED BY <1>u, <2>1, <2>4, <2>6, <3>2, <3>3, <3>6
  <2> QED BY <2>5, <2>6
<1>4. CASE DeliverTwice \/ DownLost \/ UpLost
  BY <1>4 DEF DeliverTwice, DownLost, UpLost
<1>5. CASE CtlRun \/ CtlReport
  <2>1. UNCHANGED <<tx, cmpg, owed, mpg_snap, mpg_remote>>
    BY <1>5 DEF CtlRun, CtlReport, vars, ctl, driver, engine, history
  <2>2. PICK x \in Answers : up' = Append(up, x) /\ (x.kind = "status" => x.mpg = cmpg)
    <3>1. CASE CtlRun
      <4>1. Ok \in Answers /\ Ok.kind = "ok"
        BY AnswerTypes DEF Ok
      <4> QED BY <3>1, <4>1 DEF CtlRun
    <3>2. CASE CtlReport
      <4>1. Report(cmpg, Busy) \in Answers /\ Report(cmpg, Busy).mpg = cmpg
        BY <1>t, AnswerTypes, BusyType DEF LinkHyp, Report
      <4> QED BY <3>2, <4>1 DEF CtlReport
    <3> QED BY <1>5, <3>1, <3>2
  <2>3. SayLast(up', owed, cmpg) /\ (AllSay(up, owed) /\ cmpg = owed => AllSay(up', owed))
    BY <1>t, <1>v, <2>2, SayAppend
  <2> QED BY <1>p, <1>u, <1>v, <2>1, <2>3
<1>6. CASE CtlMoved \/ Reopen \/ UNCHANGED linkVars
  <2>1. UNCHANGED <<tx, cmpg, up, owed, mpg_snap, mpg_remote>>
    BY <1>6 DEF CtlMoved, Reopen, SessionOpens, parserFrame, link, linkVars, ctl, vars, driver, engine, history
  <2> QED BY <1>p, <1>u, <1>v, <2>1
<1> QED BY <1>1, <1>2, <1>3, <1>4, <1>5, <1>6 DEF LinkNext

LEMMA AgreeInit == LinkInit => ButtonInv /\ AgreeInv
<1> SUFFICES ASSUME LinkInit PROVE ButtonInv /\ AgreeInv
  OBVIOUS
<1>1. /\ tx = <<>> /\ up = <<>> /\ mpg_user = "auto" /\ cmpg = FALSE /\ st = "idle" /\ pc1 = "rest" /\ pc0 = "rest"
      /\ mpg_remote = FALSE /\ mpg_snap = FALSE /\ owed = FALSE /\ claimed = FALSE /\ saw_grant = FALSE
  BY DEF LinkInit, Init
<1>2. ReleaseInv
  BY ReleaseInit DEF LinkInit
<1>3. Views /\ Path(tx, Len(tx) + 1, cmpg, owed)
  BY <1>1, EmptySeq DEF Views, AllSay, SayLast, Path
<1> QED BY <1>1, <1>2, <1>3 DEF ButtonInv, AgreeInv, Holds, Settled

(* A job over a link that loses nothing leaves the port to the PC sender,  *)
(* whatever was still under way when it ended.  An aborted job ends in a   *)
(* reset, after which nothing is said of the mode.                         *)
THEOREM PortIsReturned ==
  ASSUME "reload" \notin Ops, "mpg" \notin Ops
  PROVE  LinkSpec => []PortReturned
<1> DEFINE Inv == LinkHyp /\ ButtonInv /\ AgreeInv
<1>1. LinkInit => Inv
  BY HypInit, AgreeInit
<1>2. Inv /\ [LinkNext]_linkVars => Inv'
  <2> SUFFICES ASSUME Inv, [LinkNext]_linkVars PROVE Inv'
    OBVIOUS
  <2>1. [Next]_vars
    BY LinkStep DEF LinkHyp
  <2> QED BY <2>1, HypNext, ButtonNext, AgreeNext
<1>3. Inv => PortReturned
  <2> SUFFICES ASSUME Inv, smooth, st = "idle", pc0 = "rest", tx = <<>> PROVE ~cmpg
    BY DEF PortReturned
  <2>1. ~Doom
    <3>1. DOMAIN tx = {}
      BY EmptySeq
    <3> QED BY <3>1 DEF Doom, HasReset, ButtonInv
  <2>2. ReleaseInv /\ Path(tx, Len(tx) + 1, cmpg, owed)
    BY <2>1 DEF AgreeInv
  <2>3. ~owed
    BY <2>2, ReleasePaired DEF TogglesPaired
  <2>4. cmpg = owed
    BY <2>2, EmptySeq DEF Path
  <2> QED BY <2>3, <2>4
<1> HIDE DEF Inv
<1> QED BY <1>1, <1>2, <1>3, PTL DEF LinkSpec

-----------------------------------------------------------------------------
(***************************************************************************)
(* Nothing missing.  As long as the link is smooth no line of a job falls  *)
(* out on its way: the port owns the stream whenever a line of a job that  *)
(* has claimed it arrives.                                                 *)
(***************************************************************************)
Below(n, S) == \A b \in Nat : b < n => b \in S

(* No line of the file is missing among those that were read.              *)
Gapless ==
  /\ \A k \in DOMAIN ran : ran[k] = k - 1
  /\ \A a \in AllLines(ran, cbuf, tx, Hand) : Below(a, AllLines(ran, cbuf, tx, Hand))
  /\ Reading => Below(next_line, AllLines(ran, cbuf, tx, Hand))

LEMMA LinesSplit ==
  ASSUME NEW s \in Seq(Items), s # <<>>
  PROVE  \A a \in Lines(s) : a \in Lines(Tail(s)) \/ (Head(s).kind = "line" /\ a = Head(s).num)
<1>1. /\ Head(s) = s[1] /\ Tail(s) \in Seq(Items) /\ Len(s) \in Nat \ {0} /\ Len(Tail(s)) = Len(s) - 1
      /\ \A k \in 1..Len(s) - 1 : Tail(s)[k] = s[k + 1]
  BY HeadTail
<1>2. \A i \in DOMAIN s : i = 1 \/ (i - 1 \in DOMAIN Tail(s) /\ Tail(s)[i - 1] = s[i])
  BY <1>1
<1> SUFFICES ASSUME NEW i \in DOMAIN s, s[i].kind = "line"
             PROVE  s[i].num \in Lines(Tail(s)) \/ (Head(s).kind = "line" /\ s[i].num = Head(s).num)
  BY DEF Lines
<1> QED BY <1>1, <1>2, ZenonT(30) DEF Lines

LEMMA GapKept ==
  ASSUME Gapless, \A k \in DOMAIN ran' : ran'[k] = ran[k] /\ k \in DOMAIN ran,
         \A a : a \in AllLines(ran', cbuf', tx', Hand') <=> a \in AllLines(ran, cbuf, tx, Hand),
         Reading' => Reading /\ UNCHANGED next_line
  PROVE  Gapless'
<1> SUFFICES /\ \A k \in DOMAIN ran' : ran'[k] = k - 1
             /\ \A a \in AllLines(ran', cbuf', tx', Hand') : Below(a, AllLines(ran', cbuf', tx', Hand'))
             /\ Reading' => Below(next_line', AllLines(ran', cbuf', tx', Hand'))
  BY DEF Gapless, Below, AllLines, Numbers, Lines
<1> QED BY DEF Gapless, Below

LEMMA GapMoves ==
  ASSUME "reload" \notin Ops, ~Dups, LinkHyp, FlowInv, Gapless, [LinkNext]_linkVars,
         ~(Pendant /\ Begins), clean, smooth', Deliver /\ Head(tx).kind = "line" => cmpg
  PROVE  Gapless'
<1> USE DEF ctl, link
<1>t. /\ tx \in Seq(Items) /\ cbuf \in Seq(Items) /\ ran \in Seq(0..NumLines - 1)
      /\ next_line \in 0..NumLines /\ smooth \in BOOLEAN /\ Len(ran) \in Nat
  BY DEF LinkHyp, TypeInv, TypeOK, LinkTypeOK
<1>a. ASSUME NEW s \in Seq(Items), NEW x \in Items
      PROVE  \A a : a \in Lines(Append(s, x)) <=> a \in Lines(s) \/ (x.kind = "line" /\ a = x.num)
  BY <1>a, LinesAppend
<1>s. ASSUME UNCHANGED <<st, pc1, act, next_line, ran>>,
             \A a : a \in AllLines(ran, cbuf', tx', Hand) <=> a \in AllLines(ran, cbuf, tx, Hand)
      PROVE  Gapless'
  <2>1. Hand' = Hand /\ Reading' = Reading
    BY <1>s DEF Hand, Reading
  <2> QED BY <1>s, <2>1, GapKept
<1>1. CASE Pendant
  <2> USE DEF Sends
  <2>0. cbuf' = cbuf
    BY <1>1 DEF Pendant
  <2>n. ASSUME ~Starts PROVE UNCHANGED ran
    BY <1>1, <2>n DEF Pendant
  <2>1. CASE Quiet
    <3>1. \A a : a \in Lines(tx') <=> a \in Lines(tx)
      BY <1>a, <1>t, <2>1 DEF Quiet
    <3>2. \A a : a \in AllLines(ran', cbuf', tx', Hand') <=> a \in AllLines(ran, cbuf, tx, Hand)
      BY <2>0, <2>1, <2>n, <3>1 DEF Quiet, AllLines
    <3> QED BY <2>1, <2>n, <3>2, GapKept DEF Quiet
  <2>2. CASE Takes
    <3>1. /\ Reading /\ Hand = {} /\ Hand' = {next_line} /\ next_line' = next_line + 1
          /\ UNCHANGED <<ran, cbuf, tx>>
      BY <2>0, <2>2, <2>n DEF Takes, Reading
    <3>2. \A a : a \in AllLines(ran', cbuf', tx', Hand') <=> a \in AllLines(ran, cbuf, tx, Hand) \/ a = next_line
      BY <3>1 DEF AllLines
    <3> SUFFICES /\ \A k \in DOMAIN ran' : ran'[k] = k - 1
                 /\ \A a \in AllLines(ran', cbuf', tx', Hand') : Below(a, AllLines(ran', cbuf', tx', Hand'))
                 /\ Reading' => Below(next_line', AllLines(ran', cbuf', tx', Hand'))
      BY DEF Gapless, Below, AllLines, Numbers, Lines
    <3>3. /\ \A k \in DOMAIN ran : ran[k] = k - 1
          /\ \A a \in AllLines(ran, cbuf, tx, Hand) : Below(a, AllLines(ran, cbuf, tx, Hand))
          /\ Below(next_line, AllLines(ran, cbuf, tx, Hand))
      BY <3>1 DEF Gapless
    <3>4. \A b \in Nat : b < next_line + 1 => b < next_line \/ b = next_line
      BY <1>t
    <3> QED BY <3>1, <3>2, <3>3, <3>4 DEF Below
  <2>3. CASE Puts
    <3>1. \A a : a \in Lines(tx') <=> a \in Lines(tx) \/ a = act.num
      BY <1>a, <1>t, <2>3 DEF Puts
    <3>2. \A a : a \in AllLines(ran', cbuf', tx', Hand') <=> a \in AllLines(ran, cbuf, tx, Hand)
      BY <2>0, <2>3, <2>n, <3>1 DEF Puts, AllLines
    <3> QED BY <2>3, <2>n, <3>2, GapKept DEF Puts
  <2>4. ~Drops
    BY SmoothBefore DEF Drops, LinkHyp, OpenInv
  <2> QED BY <1>1, <2>1, <2>2, <2>3, <2>4, PendantFlow
<1>2. CASE Answer
  <2>1. UNCHANGED <<st, pc1, act, next_line, ran, cbuf, tx>>
    BY <1>2, AnswerStep DEF Answer, RxOk, RxStatus, parserFrame, streamer, LinkHyp
  <2> QED BY <1>s, <2>1
<1>3. CASE Deliver
  <2>1. tx # <<>> /\ tx' = Tail(tx) /\ Accept(Head(tx)) /\ UNCHANGED <<st, pc1, act, next_line, ran>>
    BY <1>3 DEF Deliver, WireTake, streamer
  <2>2. Head(tx) \in Items
    BY <1>t, <2>1
  <2>3. Head(tx).kind \in {"line", "toggle", "hold", "cycle", "reset", "mdi"}
    BY <2>2 DEF Items
  <2>4. Head(tx).kind # "reset" /\ (Head(tx).kind = "line" => cmpg)
    BY <1>3 DEF Deliver
  <2>5. \/ cbuf' = cbuf /\ Head(tx).kind # "line"
        \/ cbuf' = Append(cbuf, Head(tx))
    BY <2>1, <2>3, <2>4 DEF Accept
  <2>6. \A a : a \in Lines(cbuf') <=> a \in Lines(cbuf) \/ (Head(tx).kind = "line" /\ a = Head(tx).num)
    BY <1>a, <1>t, <2>2, <2>5
  <2>7. \A a : a \in Lines(tx) <=> a \in Lines(tx') \/ (Head(tx).kind = "line" /\ a = Head(tx).num)
    BY <1>t, <2>1, LinesSplit, LinesTail
  <2>8. \A a : a \in AllLines(ran, cbuf', tx', Hand) <=> a \in AllLines(ran, cbuf, tx, Hand)
    BY <2>6, <2>7 DEF AllLines
  <2> QED BY <1>s, <2>1, <2>8
<1>4. CASE DeliverTwice \/ DownLost \/ UpLost
  BY <1>4 DEF DeliverTwice, DownLost, UpLost
<1>5. CASE CtlRun
  <2>1. /\ UNCHANGED <<st, pc1, act, next_line, tx>> /\ cbuf # <<>> /\ cbuf' = Tail(cbuf)
        /\ ran' = IF Head(cbuf).kind = "line" THEN Append(ran, Head(cbuf).num) ELSE ran
    BY <1>5 DEF CtlRun, vars, streamer
  <2>2. \A a : a \in Lines(cbuf) <=> a \in Lines(cbuf') \/ (Head(cbuf).kind = "line" /\ a = Head(cbuf).num)
    BY <1>t, <2>1, LinesSplit, LinesTail
  <2>3. CASE Head(cbuf).kind # "line"
    <3>1. ran' = ran /\ \A a : a \in AllLines(ran, cbuf', tx', Hand) <=> a \in AllLines(ran, cbuf, tx, Hand)
      BY <2>1, <2>2, <2>3 DEF AllLines
    <3> QED BY <1>s, <2>1, <3>1
  <2>4. CASE Head(cbuf).kind = "line"
    <3> DEFINE n == Head(cbuf).num
               r == Append(ran, n)
    <3>1. ran' = r /\ n \in 0..NumLines - 1 /\ n \in Lines(cbuf)
      <4>1. Head(cbuf) \in Items
        BY <1>t, <2>1
      <4> QED BY <1>t, <2>1, <2>4, <4>1, ItemTypes, LinesTail
    <3>2. /\ DOMAIN ran = 1..Len(ran) /\ DOMAIN r = 1..Len(ran) + 1
          /\ r[Len(ran) + 1] = n /\ \A k \in 1..Len(ran) : r[k] = ran[k]
      BY <1>t, <3>1, SeqParts
    <3> HIDE DEF n, r
    <3>3. \A a : a \in Numbers(r) <=> a \in Numbers(ran) \/ a = n
      <4>1. \A k \in DOMAIN r : (k \in DOMAIN ran /\ r[k] = ran[k]) \/ r[k] = n
        BY <1>t, <3>2, SMTT(30)
      <4>2. \A k \in DOMAIN ran : k \in DOMAIN r /\ r[k] = ran[k]
        BY <1>t, <3>2
      <4>3. Len(ran) + 1 \in DOMAIN r /\ r[Len(ran) + 1] = n
        BY <1>t, <3>2
      <4> QED BY <4>1, <4>2, <4>3 DEF Numbers
    <3>4. \A a : a \in AllLines(r, cbuf', tx', Hand) <=> a \in AllLines(ran, cbuf, tx, Hand)
      BY <2>1, <2>2, <2>4, <3>1, <3>3 DEF AllLines, n
    <3>5. Hand' = Hand /\ Reading' = Reading
      BY <2>1 DEF Hand, Reading
    <3>6. n = Len(ran)
      <4>1. \A k \in 1..Len(ran) : ran[k] = k - 1
        BY <3>2 DEF Gapless
      <4>2. Len(ran) <= n
        <5>1. CASE Len(ran) = 0
          BY <3>1, <5>1
        <5>2. CASE Len(ran) # 0
          <6>1. Len(ran) \in 1..Len(ran) /\ ran[Len(ran)] = Len(ran) - 1
            BY <1>t, <4>1, <5>2
          <6>2. Before(ran[Len(ran)], n)
            BY <3>1, <3>2, <6>1 DEF FlowInv, Flow, Ahead, Numbers
          <6> QED BY <1>t, <3>1, <6>1, <6>2 DEF Before
        <5> QED BY <5>1, <5>2
      <4>3. ASSUME Len(ran) < n PROVE FALSE
        <5>1. Len(ran) \in AllLines(ran, cbuf, tx, Hand)
          <6>1. n \in AllLines(ran, cbuf, tx, Hand)
            BY <3>1 DEF AllLines
          <6>2. Below(n, AllLines(ran, cbuf, tx, Hand))
            BY <6>1 DEF Gapless
          <6> QED BY <1>t, <4>3, <6>2 DEF Below
        <5>2. Len(ran) \notin Numbers(ran)
          BY <1>t, <3>2, <4>1 DEF Numbers
        <5>3. \A a \in Lines(Tail(cbuf)) \cup Lines(tx) \cup Hand : Before(n, a)
          <6>1. Ahead({n}, Lines(Tail(cbuf)))
            BY <1>t, <2>1, <2>4, OrderTail DEF FlowInv, Flow, n
          <6> QED BY <3>1, <6>1 DEF FlowInv, Flow, Ahead
        <5>4. Len(ran) = n \/ Before(n, Len(ran))
          BY <2>1, <2>2, <5>1, <5>2, <5>3 DEF AllLines, n
        <5> QED BY <1>t, <3>1, <4>3, <5>4 DEF Before
      <4> QED BY <1>t, <3>1, <4>2, <4>3
    <3> SUFFICES /\ \A k \in DOMAIN ran' : ran'[k] = k - 1
                 /\ \A a \in AllLines(ran', cbuf', tx', Hand') : Below(a, AllLines(ran', cbuf', tx', Hand'))
                 /\ Reading' => Below(next_line', AllLines(ran', cbuf', tx', Hand'))
      BY DEF Gapless, Below, AllLines, Numbers, Lines
    <3>7. \A k \in DOMAIN r : r[k] = k - 1
      <4>1. \A k \in DOMAIN r : k \in DOMAIN ran \/ k = Len(ran) + 1
        <5>1. DOMAIN r = 1..Len(ran) + 1 /\ DOMAIN ran = 1..Len(ran)
          BY <1>t, <3>2
        <5> QED BY <1>t, <5>1, LastOrBefore
      <4>2. r[Len(ran) + 1] = Len(ran) + 1 - 1
        <5>1. n = Len(ran) /\ r[Len(ran) + 1] = n
          BY <3>2, <3>6
        <5> QED BY <1>t, <5>1
      <4>3. \A k \in DOMAIN ran : r[k] = ran[k] /\ ran[k] = k - 1
        BY <3>2 DEF Gapless
      <4> QED BY <4>1, <4>2, <4>3
    <3>8. \A a : a \in AllLines(ran', cbuf', tx', Hand') <=> a \in AllLines(ran, cbuf, tx, Hand)
      BY <3>1, <3>4, <3>5
    <3> QED BY <2>1, <3>1, <3>5, <3>7, <3>8 DEF Gapless, Below
  <2> QED BY <2>3, <2>4
<1>6. CASE CtlMoved \/ CtlReport \/ Reopen \/ UNCHANGED linkVars
  <2>1. UNCHANGED <<st, pc1, act, next_line, tx, cbuf, ran>>
    BY <1>6 DEF CtlMoved, CtlReport, Reopen, SessionOpens, parserFrame, link, linkVars, vars, streamer
  <2> QED BY <1>s, <2>1
<1> QED BY <1>1, <1>2, <1>3, <1>4, <1>5, <1>6 DEF LinkNext

(***************************************************************************)
(* The lane of a job.  Lines that leave the pendant for a port that the    *)
(* job has claimed find it claimed when they arrive, and all of them run.  *)
(* A job that is started while the pendant still sees the grant of the job *)
(* before claims nothing: the release overtakes it, none of its lines is   *)
(* taken, and nothing runs.                                                *)
(***************************************************************************)
Lane(b) ==
  /\ \A k \in DOMAIN tx : tx[k].kind = "line" /\ Live(tx, k) => Path(tx, k, cmpg, b)
  /\ ~Doom /\ Reading => (b <=> claimed)
  /\ ~HasReset(tx) /\ (pc1 = "read" \/ Hand # {}) => Path(tx, Len(tx) + 1, cmpg, b) /\ pc0 # "claim"

LaneInv ==
  clean /\ smooth =>
    \E b \in BOOLEAN : Lane(b) /\ (b => Gapless) /\ (~b => ran = <<>> /\ Lines(cbuf) = {})

LEMMA LaneSteps ==
  ASSUME LinkHyp, "reload" \notin Ops, "mpg" \notin Ops, Pendant, ~Begins
  PROVE  /\ pc0' = "claim" => pc0 = "claim"
         /\ Reading' => Reading /\ UNCHANGED claimed
         /\ pc1' = "read" \/ Hand' # {} => pc1 = "read" \/ Hand # {} \/ PumpRead
         /\ \/ UNCHANGED tx
            \/ \E x \in Items : x.kind \notin {"line", "toggle"} /\ tx' = Append(tx, x)
            \/ act \in Items /\ act.kind = "line" /\ Hand # {} /\ tx' = Append(tx, act)
            \/ tx' = Append(tx, Toggle) /\ (pc0 = "claim" \/ pc1' = "idle")
<1>f. Quiet \/ Takes \/ Puts \/ Drops
  BY PendantFlow
<1>1. /\ pc0' = "claim" => pc0 = "claim"
      /\ Reading' => UNCHANGED claimed
      /\ pc1' = "read" => pc1 = "read" \/ PumpRead
  <2>1. CASE Clock \/ TickBegin
    BY <2>1 DEF Clock, TickBegin, streamer
  <2>2. CASE Pump
    <3>1. UNCHANGED <<pc0, claimed>>
      BY <2>2 DEF Pump, PumpSkip, PumpError, PumpCount, PumpAck, PumpGrant, PumpSend, PumpFinish, PumpIdle,
                PumpNext, PumpClaimTimeout, PumpDeadMan, PumpOversize, NextFails, PumpEndOfFile, PumpRead,
                PumpNothing, PumpNullRead, PumpLine, PumpFull, nextFrame, pumpFrame, streamer
    <3>2. pc1' = "read" => pc1 = "read" \/ PumpRead
      BY <2>2 DEF Pump, PumpSkip, PumpError, PumpCount, PumpAck, PumpGrant, PumpSend, PumpFinish, PumpIdle,
                PumpNext, PumpClaimTimeout, PumpDeadMan, PumpOversize, NextFails, PumpEndOfFile,
                PumpNothing, PumpNullRead, PumpLine, PumpFull, Goto
    <3> QED BY <3>1, <3>2
  <2>3. CASE Ui
    <3>1. CASE UiLoad
      BY <3>1 DEF UiLoad, AtRest, LoadJob, uiFrame, Reading, Active
    <3>2. CASE UiStart
      BY <3>2 DEF UiStart, Begins, Starts, Hand, Active, uiFrame
    <3>3. CASE UiBaseline \/ UiHold \/ UiResume \/ UiAbort \/ UiAbortReset \/ UiStop \/ UiMdi
      BY <3>3 DEF UiBaseline, UiHold, UiResume, UiAbort, UiAbortReset, UiStop, UiMdi, buttonFrame, uiFrame, streamer
    <3> QED BY <2>3, <3>1, <3>2, <3>3 DEF Ui, UiReload, UiMpgToggle, Pressed
  <2> QED BY <2>1, <2>2, <2>3 DEF Pendant
<1>2. /\ Reading' => Reading
      /\ Hand' # {} => pc1 = "read" \/ Hand # {}
  BY <1>f DEF Quiet, Takes, Puts, Drops, Reading
<1>3. ASSUME tx' # tx
      PROVE  \/ \E x \in Items : x.kind \notin {"line", "toggle"} /\ tx' = Append(tx, x)
             \/ act \in Items /\ act.kind = "line" /\ Hand # {} /\ tx' = Append(tx, act)
             \/ tx' = Append(tx, Toggle) /\ (pc0 = "claim" \/ pc1' = "idle")
  <2>1. CASE Puts
    BY <2>1 DEF Puts, Sends
  <2>2. CASE \E y \in Items : y.kind # "line" /\ tx' = Append(tx, y)
    <3>1. PICK y \in Items : y.kind # "line" /\ tx' = Append(tx, y)
      BY <2>2
    <3>2. \/ \E x \in Items : x.kind # "toggle" /\ tx' = Append(tx, x)
          \/ tx' = Append(tx, Toggle) /\ owed' = ~owed
      BY <1>3, PendantSends DEF LinkHyp, Pendant
    <3>3. CASE \E x \in Items : x.kind # "toggle" /\ tx' = Append(tx, x)
      <4>1. PICK x \in Items : x.kind # "toggle" /\ tx' = Append(tx, x)
        BY <3>3
      <4>2. tx \in Seq(Items)
        BY DEF LinkHyp, TypeInv, TypeOK
      <4>3. Append(tx, x)[Len(tx) + 1] = x /\ Append(tx, y)[Len(tx) + 1] = y
        BY <4>2, SeqParts
      <4>4. x = y
        BY <3>1, <4>1, <4>3
      <4> QED BY <3>1, <4>1, <4>4
    <3>4. CASE tx' = Append(tx, Toggle) /\ owed' = ~owed
      <4>1. (UiBaseline /\ pc0 = "claim") \/ (PumpFinish /\ st \in {"complete", "aborted"})
        BY <3>4, TogglingSteps
      <4> QED BY <3>4, <4>1 DEF PumpFinish, Goto
    <3> QED BY <3>2, <3>3, <3>4
  <2> QED BY <1>3, <1>f, <2>1, <2>2 DEF Quiet, Takes, Drops, Sends
<1> QED BY <1>1, <1>2, <1>3

LEMMA LaneMoves ==
  ASSUME "reload" \notin Ops, "mpg" \notin Ops, LinkHyp, ButtonInv, AgreeInv, [LinkNext]_linkVars,
         ~(Pendant /\ Begins), smooth', NEW b \in BOOLEAN, Lane(b)
  PROVE  Lane(b)'
<1> SUFFICES /\ \A k \in DOMAIN tx' : tx'[k].kind = "line" /\ Live(tx', k) => Path(tx', k, cmpg', b)
             /\ ~Doom' /\ Reading' => (b <=> claimed')
             /\ ~HasReset(tx') /\ (pc1' = "read" \/ Hand' # {}) =>
                  Path(tx', Len(tx') + 1, cmpg', b) /\ pc0' # "claim"
  BY DEF Lane, Live, Path, HasReset
<1>t. tx \in Seq(Items) /\ cmpg \in BOOLEAN /\ cmpg' \in BOOLEAN /\ owed \in BOOLEAN /\ claimed \in BOOLEAN
  BY HypNext DEF LinkHyp, TypeInv, TypeOK, LinkTypeOK
<1>h. HasReset(tx) => HasReset(tx')
  BY ResetStays
<1>d. ~Doom' => ~Doom
  BY DoomStays
<1>l. /\ \A k \in DOMAIN tx : tx[k].kind = "line" /\ Live(tx, k) => Path(tx, k, cmpg, b)
      /\ ~Doom /\ Reading => (b <=> claimed)
      /\ ~HasReset(tx) /\ (pc1 = "read" \/ Hand # {}) => Path(tx, Len(tx) + 1, cmpg, b) /\ pc0 # "claim"
  BY DEF Lane
<1>1. CASE Pendant
  <2>0. UNCHANGED cmpg
    BY <1>1 DEF Pendant, ctl
  <2>1. /\ pc0' = "claim" => pc0 = "claim"
        /\ Reading' => Reading /\ UNCHANGED claimed
        /\ pc1' = "read" \/ Hand' # {} => pc1 = "read" \/ Hand # {} \/ PumpRead
        /\ \/ UNCHANGED tx
           \/ \E x \in Items : x.kind \notin {"line", "toggle"} /\ tx' = Append(tx, x)
           \/ act \in Items /\ act.kind = "line" /\ Hand # {} /\ tx' = Append(tx, act)
           \/ tx' = Append(tx, Toggle) /\ (pc0 = "claim" \/ pc1' = "idle")
    BY <1>1, LaneSteps
  <2>i. Toggle \in Items /\ Toggle.kind = "toggle"
    BY ItemTypes DEF Toggle, Byte
  <2>2. ASSUME NEW x \in Items, tx' = Append(tx, x), x.kind = "line" => Hand # {}
        PROVE  \A k \in DOMAIN tx' : tx'[k].kind = "line" /\ Live(tx', k) => Path(tx', k, cmpg, b)
    <3>1. /\ DOMAIN tx = 1..Len(tx) /\ DOMAIN tx' = 1..Len(tx) + 1 /\ Len(tx) \in Nat
          /\ tx'[Len(tx) + 1] = x /\ \A k \in 1..Len(tx) : tx'[k] = tx[k]
      BY <1>t, <2>2, SeqParts
    <3>2. /\ \A k \in 1..Len(tx) : Live(tx', k) <=> Live(tx, k)
          /\ Live(tx', Len(tx) + 1) <=> ~HasReset(tx)
      BY <1>t, <2>2, ResetAppend
    <3>3. \A k \in 1..Len(tx) + 1 : Path(tx, k, cmpg, b) => Path(tx', k, cmpg, b)
      BY <1>t, <2>2, PathAppend
    <3> SUFFICES ASSUME NEW k \in DOMAIN tx', tx'[k].kind = "line", Live(tx', k) PROVE Path(tx', k, cmpg, b)
      OBVIOUS
    <3>4. CASE k \in DOMAIN tx
      BY <1>l, <3>1, <3>2, <3>3, <3>4
    <3>5. CASE k = Len(tx) + 1
      BY <1>l, <2>2, <3>1, <3>2, <3>3, <3>5
    <3> QED BY <3>1, <3>4, <3>5
  <2>3. \A k \in DOMAIN tx' : tx'[k].kind = "line" /\ Live(tx', k) => Path(tx', k, cmpg, b)
    <3>1. CASE UNCHANGED tx
      BY <1>l, <3>1
    <3>2. CASE \E x \in Items : x.kind \notin {"line", "toggle"} /\ tx' = Append(tx, x)
      BY <2>2, <3>2
    <3>3. CASE act \in Items /\ act.kind = "line" /\ Hand # {} /\ tx' = Append(tx, act)
      BY <2>2, <3>3
    <3>4. CASE tx' = Append(tx, Toggle)
      BY <2>2, <2>i, <3>4
    <3> QED BY <2>1, <3>1, <3>2, <3>3, <3>4
  <2>4. ~Doom' /\ Reading' => (b <=> claimed')
    BY <1>d, <1>l, <2>1
  <2>5. ASSUME ~HasReset(tx'), pc1' = "read" \/ Hand' # {}
        PROVE  Path(tx', Len(tx') + 1, cmpg, b) /\ pc0' # "claim"
    <3>0. ~HasReset(tx)
      BY <1>h, <2>5
    <3>1. CASE pc1 = "read" \/ Hand # {}
      <4>1. Path(tx, Len(tx) + 1, cmpg, b) /\ pc0 # "claim" /\ pc0' # "claim"
        BY <1>l, <2>1, <3>0, <3>1
      <4>2. pc1' # "idle"
        BY <2>5 DEF Hand
      <4>3. ASSUME NEW x \in Items, x.kind # "toggle", tx' = Append(tx, x) PROVE Path(tx', Len(tx') + 1, cmpg, b)
        <5>1. Path(Append(tx, x), Len(tx) + 2, cmpg, b)
          BY <1>t, <4>1, <4>3, PathAppend
        <5>2. Len(tx') + 1 = Len(tx) + 2
          BY <1>t, <4>3, SeqParts
        <5> QED BY <4>3, <5>1, <5>2
      <4> QED BY <2>1, <4>1, <4>2, <4>3
    <3>2. CASE PumpRead
      <4>1. st = "streaming" /\ pc1 = "next" /\ UNCHANGED tx
        BY <3>2 DEF PumpRead, NextTurn, MaySend, nextFrame
      <4>2. ~Doom /\ Reading
        BY <3>0, <4>1 DEF Doom, ButtonInv, Reading, Active
      <4>3. smooth
        BY SmoothBefore DEF LinkHyp
      <4>4. ReleaseInv /\ Holds /\ Path(tx, Len(tx) + 1, cmpg, owed)
        BY <4>2, <4>3 DEF AgreeInv
      <4>5. pc0 # "claim"
        BY <4>1, <4>4 DEF Holds
      <4>6. ~Settled
        BY <4>1 DEF Settled
      <4>7. owed <=> claimed
        BY <4>4, <4>5, <4>6 DEF ReleaseInv
      <4>8. b <=> claimed
        BY <1>l, <4>2
      <4>9. owed = b
        BY <1>t, <4>7, <4>8
      <4> QED BY <2>1, <4>1, <4>4, <4>5, <4>9
    <3> QED BY <2>1, <2>5, <3>1, <3>2
  <2> QED BY <2>0, <2>3, <2>4, <2>5
<1>2. CASE Answer \/ CtlRun \/ CtlMoved \/ CtlReport \/ Reopen \/ UNCHANGED linkVars
  <2>1. UNCHANGED <<tx, cmpg, pc0, pc1, act, st, claimed>>
    BY <1>2, AnswerStep DEF Answer, RxOk, RxStatus, CtlRun, CtlMoved, CtlReport, Reopen, SessionOpens, parserFrame, link, linkVars, ctl,
                            vars, streamer, LinkHyp
  <2>2. Hand' = Hand /\ Reading' = Reading
    BY <2>1 DEF Hand, Reading
  <2> QED BY <1>d, <1>l, <2>1, <2>2
<1>3. CASE Deliver
  <2>1. /\ tx # <<>> /\ tx' = Tail(tx) /\ Accept(Head(tx)) /\ UNCHANGED <<pc0, pc1, act, st, claimed>>
        /\ Head(tx).kind # "reset" /\ (Head(tx).kind = "toggle" => cmpg' # cmpg)
    BY <1>3 DEF Deliver, WireTake, streamer
  <2>2. /\ Head(tx) \in Items /\ Len(tx) \in 1..Len(tx) /\ Len(tx') + 1 = Len(tx)
        /\ DOMAIN tx = 1..Len(tx) /\ DOMAIN tx' = 1..Len(tx) - 1 /\ Len(tx) \in Nat
        /\ \A k \in 1..Len(tx) - 1 : tx'[k] = tx[k + 1]
    BY <1>t, <2>1, HeadTail
  <2>3. Head(tx).kind \in {"line", "toggle", "hold", "cycle", "reset", "mdi"}
    BY <2>2 DEF Items
  <2>4. Hand' = Hand /\ Reading' = Reading
    BY <2>1 DEF Hand, Reading
  <2>5. cmpg' = IF Head(tx).kind = "toggle" THEN ~cmpg ELSE cmpg
    BY <1>t, <2>1, <2>3 DEF Accept
  <2>6. \A k \in 1..Len(tx) : Path(tx, k + 1, cmpg, b) => Path(tx', k, cmpg', b)
    BY <1>t, <2>1, <2>5, PathTail
  <2>7. \A k \in DOMAIN tx' : Live(tx', k) => Live(tx, k + 1)
    BY <1>t, <2>1, ResetTail
  <2>8. \A k \in DOMAIN tx' : k + 1 \in DOMAIN tx /\ k \in 1..Len(tx) /\ tx'[k] = tx[k + 1]
    BY <2>2
  <2>9. \A k \in DOMAIN tx' : tx'[k].kind = "line" /\ Live(tx', k) => Path(tx', k, cmpg', b)
    BY <1>l, <2>6, <2>7, <2>8
  <2>10. ASSUME ~HasReset(tx'), pc1' = "read" \/ Hand' # {}
         PROVE  Path(tx', Len(tx') + 1, cmpg', b) /\ pc0' # "claim"
    <3>1. Path(tx, Len(tx) + 1, cmpg, b) /\ pc0 # "claim"
      BY <1>h, <1>l, <2>1, <2>4, <2>10
    <3> QED BY <2>1, <2>2, <2>6, <3>1
  <2> QED BY <1>d, <1>l, <2>1, <2>4, <2>9, <2>10
<1>4. CASE DeliverTwice \/ DownLost \/ UpLost
  BY <1>4 DEF DeliverTwice, DownLost, UpLost
<1> QED BY <1>1, <1>2, <1>3, <1>4 DEF LinkNext

(* A controller that does not take this job's lines executes none of them. *)
LEMMA NothingRuns ==
  ASSUME "reload" \notin Ops, LinkHyp, [LinkNext]_linkVars, ~(Pendant /\ Begins), smooth',
         ran = <<>>, Lines(cbuf) = {}, Deliver /\ Head(tx).kind = "line" => ~cmpg
  PROVE  ran' = <<>> /\ Lines(cbuf') = {}
<1>t. tx \in Seq(Items) /\ cbuf \in Seq(Items)
  BY DEF LinkHyp, TypeInv, TypeOK, LinkTypeOK
<1>1. CASE Pendant
  <2>1. ~Starts
    BY <1>1, PendantFlow DEF Quiet, Takes, Puts, Drops
  <2> QED BY <1>1, <2>1 DEF Pendant, ctl
<1>2. CASE Deliver
  <2>1. tx # <<>> /\ Accept(Head(tx)) /\ UNCHANGED ran /\ Head(tx).kind # "reset"
    BY <1>2 DEF Deliver, WireTake
  <2>2. Head(tx) \in Items
    BY <1>t, <2>1, HeadTail
  <2>3. Head(tx).kind \in {"line", "toggle", "hold", "cycle", "reset", "mdi"}
    BY <2>2 DEF Items
  <2>4. cbuf' = cbuf \/ (Head(tx).kind # "line" /\ cbuf' = Append(cbuf, Head(tx)))
    BY <1>2, <2>1, <2>3 DEF Accept
  <2> QED BY <1>t, <2>1, <2>2, <2>4, LinesAppend
<1>3. CASE CtlRun
  <2>1. cbuf # <<>> /\ cbuf' = Tail(cbuf) /\ ran' = IF Head(cbuf).kind = "line" THEN Append(ran, Head(cbuf).num) ELSE ran
    BY <1>3 DEF CtlRun
  <2>2. Head(cbuf).kind # "line" /\ Lines(Tail(cbuf)) = {}
    BY <1>t, <2>1, LinesTail
  <2> QED BY <2>1, <2>2
<1>4. CASE DeliverTwice \/ DownLost \/ UpLost
  BY <1>4 DEF DeliverTwice, DownLost, UpLost
<1>5. CASE Answer \/ CtlMoved \/ CtlReport \/ Reopen \/ UNCHANGED linkVars
  BY <1>5 DEF Answer, CtlMoved, CtlReport, Reopen, SessionOpens, parserFrame, link, linkVars, ctl
<1> QED BY <1>1, <1>2, <1>3, <1>4, <1>5 DEF LinkNext

LEMMA LaneNext ==
  ASSUME "reload" \notin Ops, "mpg" \notin Ops, ~Dups
  PROVE  LinkHyp /\ FlowInv /\ ButtonInv /\ AgreeInv /\ FreshInv /\ LaneInv /\ [LinkNext]_linkVars => LaneInv'
<1> SUFFICES ASSUME LinkHyp, FlowInv, ButtonInv, AgreeInv, FreshInv, LaneInv, [LinkNext]_linkVars, clean', smooth'
             PROVE  \E b \in BOOLEAN : Lane(b)' /\ (b => Gapless') /\ (~b => ran' = <<>> /\ Lines(cbuf') = {})
  BY DEF LaneInv, Lane, Live, Path, HasReset, Gapless, Below, AllLines, Numbers, Lines
<1>t. /\ tx \in Seq(Items) /\ cbuf \in Seq(Items) /\ cmpg \in BOOLEAN /\ claimed' \in BOOLEAN
  BY HypNext DEF LinkHyp, TypeInv, TypeOK, LinkTypeOK
<1>0. smooth
  BY SmoothBefore DEF LinkHyp
<1>b. CASE Pendant /\ Begins
  <2>1. next_line' = 0 /\ ran' = <<>>
    BY <1>b DEF Begins, Starts, UiStart, FreshInv, Pendant
  <2>2. AllLines(ran', cbuf', tx', Hand') = {}
    BY <1>b, FlowBegins
  <2>3. Lines(tx') = {} /\ Lines(cbuf') = {} /\ Hand' = {}
    BY <2>2 DEF AllLines
  <2>4. \A k \in DOMAIN tx' : tx'[k].kind # "line"
    BY <2>3 DEF Lines
  <2>5. pc1' # "read"
    BY <1>b DEF Begins, UiStart, uiFrame, Starts, LinkHyp, GrantInv
  <2>b. PICK b \in BOOLEAN : b = claimed'
    BY <1>t
  <2>6. Lane(b)'
    <3> SUFFICES /\ \A k \in DOMAIN tx' : tx'[k].kind = "line" /\ Live(tx', k) => Path(tx', k, cmpg', b)
                 /\ ~Doom' /\ Reading' => (b <=> claimed')
                 /\ ~HasReset(tx') /\ (pc1' = "read" \/ Hand' # {}) =>
                      Path(tx', Len(tx') + 1, cmpg', b) /\ pc0' # "claim"
      BY DEF Lane, Live, Path, HasReset
    <3> QED BY <2>b, <2>3, <2>4, <2>5
  <2>7. Gapless'
    <3>1. Below(next_line', AllLines(ran', cbuf', tx', Hand'))
      BY <2>1 DEF Below
    <3>2. DOMAIN ran' = {}
      BY <2>1, EmptySeq
    <3> SUFFICES /\ \A k \in DOMAIN ran' : ran'[k] = k - 1
                 /\ \A a \in AllLines(ran', cbuf', tx', Hand') : Below(a, AllLines(ran', cbuf', tx', Hand'))
                 /\ Reading' => Below(next_line', AllLines(ran', cbuf', tx', Hand'))
      BY DEF Gapless, Below, AllLines, Numbers, Lines
    <3> QED BY <2>2, <3>1, <3>2
  <2> QED BY <1>t, <2>1, <2>3, <2>6, <2>7
<1>m. CASE ~(Pendant /\ Begins)
  <2>1. clean
    BY <1>m, CleanKept
  <2>2. PICK b \in BOOLEAN : Lane(b) /\ (b => Gapless) /\ (~b => ran = <<>> /\ Lines(cbuf) = {})
    BY <1>0, <2>1 DEF LaneInv
  <2>3. Lane(b)'
    BY <1>m, <2>2, LaneMoves
  <2>4. Deliver /\ Head(tx).kind = "line" => cmpg = b
    <3> SUFFICES ASSUME Deliver, Head(tx).kind = "line" PROVE cmpg = b
      OBVIOUS
    <3>1. /\ tx # <<>> /\ Head(tx) = tx[1] /\ 1 \in DOMAIN tx
          /\ \A i \in DOMAIN tx : ~(i < 1)
      <4>1. tx # <<>>
        BY DEF Deliver, WireTake
      <4> QED BY <1>t, <4>1, HeadTail
    <3>2. Live(tx, 1)
      BY <3>1 DEF Live
    <3>3. Path(tx, 1, cmpg, b)
      BY <2>2, <3>1, <3>2 DEF Lane
    <3> QED BY <3>1, <3>3 DEF Path
  <2>5. CASE b
    <3>1. Gapless'
      BY <1>m, <2>1, <2>2, <2>4, <2>5, GapMoves
    <3> QED BY <2>2, <2>3, <2>5, <3>1
  <2>6. CASE ~b
    <3>1. ran = <<>> /\ Lines(cbuf) = {}
      BY <2>2, <2>6
    <3>2. ran' = <<>> /\ Lines(cbuf') = {}
      BY <1>m, <2>1, <2>4, <2>6, <3>1, NothingRuns
    <3> QED BY <2>2, <2>3, <2>6, <3>2
  <2> QED BY <2>2, <2>5, <2>6
<1> QED BY <1>b, <1>m

LEMMA LaneInit == LinkInit => FreshInv /\ LaneInv
<1> SUFFICES ASSUME LinkInit PROVE FreshInv /\ Lane(FALSE) /\ ran = <<>> /\ Lines(cbuf) = {}
  BY DEF LaneInv
<1>1. /\ ran = <<>> /\ cbuf = <<>> /\ tx = <<>> /\ st = "idle" /\ pc1 = "rest"
      /\ claimed = FALSE
  BY DEF LinkInit, Init
<1>2. Hand = {} /\ ~Reading
  BY <1>1 DEF Hand, Reading, Active
<1>3. Lines(cbuf) = {}
  BY <1>1, EmptySeq DEF Lines
<1>4. Lane(FALSE)
  BY <1>1, <1>2, EmptySeq DEF Lane
<1> QED BY <1>1, <1>3, <1>4 DEF FreshInv

LEMMA LaneInvariant ==
  ASSUME "reload" \notin Ops, "mpg" \notin Ops, ~Dups
  PROVE  LinkSpec => []LaneInv
<1> DEFINE Inv == LinkHyp /\ FlowInv /\ ButtonInv /\ AgreeInv /\ FreshInv /\ LaneInv
<1>1. LinkInit => Inv
  BY HypInit, FlowInit, AgreeInit, LaneInit
<1>2. Inv /\ [LinkNext]_linkVars => Inv'
  <2> SUFFICES ASSUME Inv, [LinkNext]_linkVars PROVE Inv'
    OBVIOUS
  <2>1. [Next]_vars
    BY LinkStep DEF LinkHyp
  <2> QED BY <2>1, HypNext, FlowNext, ButtonNext, AgreeNext, FreshNext, LaneNext
<1>3. Inv => LaneInv
  OBVIOUS
<1> HIDE DEF Inv
<1> QED BY <1>1, <1>2, <1>3, PTL DEF LinkSpec

(* As long as nothing was lost, repeated, refused or reset, the controller *)
(* executes exactly the first lines of the file, whatever jobs were run    *)
(* before: none is dropped because the port was not claimed yet or had     *)
(* already been released.  Nobody else toggles the port and no frame is    *)
(* repeated.                                                               *)
THEOREM RunsAllInOrder ==
  ASSUME "reload" \notin Ops, "mpg" \notin Ops, ~Dups
  PROVE  LinkSpec => []RunsInOrder
<1>1. LaneInv => RunsInOrder
  <2> SUFFICES ASSUME LaneInv, clean, smooth PROVE \A i \in DOMAIN ran : ran[i] = i - 1
    BY DEF RunsInOrder
  <2>1. Gapless \/ ran = <<>>
    BY DEF LaneInv
  <2> QED BY <2>1, EmptySeq DEF Gapless
<1> QED BY <1>1, LaneInvariant, PTL

(* A job that was started on the grant of the job before it, and therefore *)
(* claims nothing, executes nothing: over a link that loses nothing every  *)
(* one of its lines is dropped at a port that has been given back.         *)
NothingUnclaimed ==
  clean /\ smooth /\ Active(st) /\ ~claimed /\ ~Doom => ran = <<>>

THEOREM StaleGrantRunsNothing ==
  ASSUME "reload" \notin Ops, "mpg" \notin Ops, ~Dups
  PROVE  LinkSpec => []NothingUnclaimed
<1>1. LaneInv => NothingUnclaimed
  BY DEF LaneInv, Lane, NothingUnclaimed, Reading
<1> QED BY <1>1, LaneInvariant, PTL
=============================================================================
