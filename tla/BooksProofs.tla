----------------------------- MODULE BooksProofs -----------------------------
(***************************************************************************)
(* What is proved of the books: their files and their calendar.            *)
(*                                                                         *)
(* A SIE file is read as it is written wherever it is damaged or cut off,  *)
(* imported to the ore and once, and what was imported comes back from an  *)
(* export that an import takes, for any number of files of any length, and *)
(* what is left out of a file is reported.  The parser is followed         *)
(* line by line: Reading says what the pending voucher, the open block and *)
(* the finished vouchers are in terms of the lines read so far.  Every     *)
(* entry of the journal has one-sided lines in whole ore that balance      *)
(* (Booked), and so its export, read line by line from where the last      *)
(* voucher ended, comes back as the voucher it was.                        *)
(*                                                                         *)
(* Periods tile the calendar and no deadline is missed, whatever day it is *)
(* and whatever day the fiscal year starts on.  A day is a month's index   *)
(* and a day of that month (RealDays), in that order (DaysInOrder); what   *)
(* addDays carries over is the day after as often as it says (AddOneMore), *)
(* so what holds of one month and the next holds of all.                   *)
(***************************************************************************)
EXTENDS SieExchange, TaxYear, ListPlacesProofs

-----------------------------------------------------------------------------
(* What the line machine has read.                                         *)

Opened(t, k) == \E o \in k..Len(t) : OpensAt(t, k, o)

Closed(t, k) == Opened(t, k) /\ ~InBlockOf(t, k, Len(t) + 1)

VouchersOf(t) == [k \in VersIn(t) |-> VoucherAt(t, k)]

LastVer(t, k) == k \in VersIn(t) /\ \A q \in VersIn(t) : q <= k

\* The state of the parser after the lines t, the last #VER of which is at k.
ReadTo(t, k, p) ==
  p = [pending  |-> IF Closed(t, k) THEN <<>> ELSE <<VoucherAt(t, k)>>,
       inBlock  |-> InBlockOf(t, k, Len(t) + 1),
       vouchers |-> Picked(VouchersOf(t), IF Closed(t, k) THEN VersIn(t) ELSE VersIn(t) \ {k})]

Reading(t, p) ==
  \/ VersIn(t) = {} /\ p = StartOfFile
  \/ \E k \in VersIn(t) : LastVer(t, k) /\ ReadTo(t, k, p)

\* The kinds of lines there are.
LEMMA KindsOfLines ==
  ASSUME NEW x \in Lines
  PROVE  /\ x.kind \in {"ver", "trans", "{", "}", "other"}
         /\ x.kind = "ver" => x.opens \in BOOLEAN
<1>1. CASE \E line \in VerLines : x = Ver(line)
  <2> PICK line \in VerLines : x = Ver(line)
    BY <1>1
  <2>1. line.opens \in BOOLEAN
    BY SieConstants
  <2>2. x.kind = "ver" /\ x.opens = line.opens
    BY DEF Ver
  <2> QED BY <2>1, <2>2
<1>2. CASE \E line \in TransLines : x = Trans(line)
  BY <1>2 DEF Trans
<1>3. ASSUME NEW kind \in {"{", "}", "other"}, x = Mark(kind)
      PROVE  x.kind \in {"{", "}", "other"} /\ x.kind # "ver"
  <2>1. x.kind = kind
    BY <1>3 DEF Mark
  <2> QED BY <2>1
<1> QED BY <1>1, <1>2, <1>3 DEF Lines

\* The #VER lines are finitely many places.
LEMMA VersArePlaces ==
  ASSUME NEW T, NEW t \in Seq(T)
  PROVE  /\ VersIn(t) \in SUBSET Int /\ IsFiniteSet(VersIn(t))
         /\ \A k \in VersIn(t) : k \in 1..Len(t)
<1>1. VersIn(t) \in SUBSET (1..Len(t)) /\ Len(t) \in Nat
  BY DEF VersIn
<1>2. IsFiniteSet(1..Len(t))
  BY <1>1, FS_Interval
<1>3. IsFiniteSet(VersIn(t))
  BY <1>1, <1>2, FS_Subset
<1> QED BY <1>1, <1>3

\* The #TRANS lines of a #VER are finitely many places behind it.
LEMMA TransArePlaces ==
  ASSUME NEW T, NEW t \in Seq(T), NEW k \in 1..Len(t)
  PROVE  /\ TransOf(t, k) \in SUBSET Int /\ IsFiniteSet(TransOf(t, k))
         /\ \A n \in TransOf(t, k) : n \in k + 1..Len(t)
<1>1. TransOf(t, k) \in SUBSET (k + 1..Len(t)) /\ Len(t) \in Nat
  BY DEF TransOf
<1>2. IsFiniteSet(k + 1..Len(t))
  BY <1>1, FS_Interval
<1>3. IsFiniteSet(TransOf(t, k))
  BY <1>1, <1>2, FS_Subset
<1> QED BY <1>1, <1>3

\* A voucher lists what its #TRANS lines say, and so do the vouchers of a file.
LEMMA VoucherPicks ==
  ASSUME NEW T, NEW t \in Seq(T), NEW k \in 1..Len(t), NEW f,
         \A n \in TransOf(t, k) : f[n] = Transaction(t[n])
  PROVE  VoucherAt(t, k) =
           [number |-> t[k].number, day |-> t[k].day, transactions |-> Picked(f, TransOf(t, k))]
<1>1. \A i \in 1..Cardinality(TransOf(t, k)) : Nth(TransOf(t, k), i) \in TransOf(t, k)
  BY TransArePlaces, NthPlace
<1> QED BY <1>1 DEF VoucherAt, Picked

\* The vouchers of a file are those at its #VER lines.
LEMMA VouchersArePicked ==
  ASSUME NEW T, NEW t \in Seq(T)
  PROVE  VouchersIn(t) = Picked(VouchersOf(t), VersIn(t))
<1>1. \A i \in 1..Cardinality(VersIn(t)) : Nth(VersIn(t), i) \in VersIn(t)
  BY VersArePlaces, NthPlace
<1> QED BY <1>1 DEF VouchersIn, Picked, VouchersOf

\* Unless a #VER opens its block itself, the first brace behind it does.
LEMMA FirstBrace ==
  ASSUME NEW T, NEW t \in Seq(T), NEW k \in 1..Len(t), t[k].kind = "ver"
  PROVE  Opened(t, k) <=> t[k].opens \/ \E j \in k + 1..Len(t) : t[j].kind = "{"
<1> PICK n \in Nat : n = Len(t)
  OBVIOUS
<1>0. k \in 1..n
  OBVIOUS
<1>1. k \in Nat /\ k \in k..n /\ \A o \in k + 1..n : o \in k..n
  BY <1>0
<1>2. ASSUME Opened(t, k), ~t[k].opens
      PROVE  \E j \in k + 1..n : t[j].kind = "{"
  <2>1. PICK o \in k..n : OpensAt(t, k, o)
    BY <1>2 DEF Opened
  <2>2. t[o].kind = "{"
    BY <1>2, <2>1 DEF OpensAt
  <2>3. o # k
    BY <2>2
  <2>4. o \in k + 1..n
    BY <1>0, <2>3
  <2> QED BY <2>2, <2>4
<1>3. ASSUME t[k].opens
      PROVE  Opened(t, k)
  <2>1. OpensAt(t, k, k)
    BY <1>3 DEF OpensAt
  <2> QED BY <1>1, <2>1 DEF Opened
<1>4. ASSUME NEW b \in k + 1..n, t[b].kind = "{", ~t[k].opens
      PROVE  Opened(t, k)
  <2> PICK B : B = {j \in k + 1..n : t[j].kind = "{"}
    OBVIOUS
  <2>1. B \in SUBSET (k + 1..n) /\ B # {}
    BY <1>4
  <2>2. PICK o \in k + 1..n : o \in B /\ \A j \in k + 1..o - 1 : j \notin B
    <3>1. k + 1 \in Nat /\ n \in Int
      BY ONLY <1>1, n \in Nat
    <3> QED BY ONLY <2>1, <3>1, FirstNumber
  <2>3. \A j \in k + 1..o - 1 : j \in k + 1..n
    BY ONLY <1>1, <2>2
  <2>4. t[o].kind = "{" /\ \A j \in k + 1..o - 1 : t[j].kind # "{"
    BY <2>2, <2>3
  <2>5. OpensAt(t, k, o)
    BY <1>4, <2>4 DEF OpensAt
  <2>6. o \in k..n
    BY <1>1
  <2> QED BY <2>5, <2>6 DEF Opened
<1> QED BY <1>2, <1>3, <1>4

\* u are the lines t and one more.
Grown(t, u, x) ==
  /\ t \in Seq(Lines) /\ u \in Seq(Lines) /\ x \in Lines
  /\ Len(t) \in Nat /\ Len(u) = Len(t) + 1
  /\ \A j \in 1..Len(t) : u[j] = t[j]
  /\ u[Len(t) + 1] = x

\* A file that is read on grows by a line.
LEMMA AppendGrows ==
  ASSUME NEW t \in Seq(Lines), NEW x \in Lines
  PROVE  Grown(t, Append(t, x), x)
BY AppendProperties, LenProperties DEF Grown

\* A line more changes nothing about the blocks before it.
LEMMA BlocksStay ==
  ASSUME NEW t, NEW u, NEW x, Grown(t, u, x), NEW k \in 1..Len(t)
  PROVE  /\ \A o \in k..Len(t) : OpensAt(u, k, o) <=> OpensAt(t, k, o)
         /\ \A n \in k..Len(t) + 1 : InBlockOf(u, k, n) <=> InBlockOf(t, k, n)
<1> PICK m \in Nat : m = Len(t)
  BY DEF Grown
<1>1. \A j \in 1..m : u[j] = t[j]
  BY DEF Grown
<1>2. k \in 1..m
  OBVIOUS
<1>3. \A o \in k..m : o \in 1..m /\ \A j \in k + 1..o - 1 : j \in 1..m
  BY <1>2
<1>4. \A o \in k..m : OpensAt(u, k, o) <=> OpensAt(t, k, o)
  BY <1>1, <1>2, <1>3 DEF OpensAt
<1>5. \A n \in k..m + 1 : \A o \in k..n - 1 : o \in k..m /\ \A j \in o + 1..n - 1 : j \in 1..m
  BY <1>2
<1>6. ASSUME NEW n \in k..m + 1
      PROVE  InBlockOf(u, k, n) <=> InBlockOf(t, k, n)
  BY <1>1, <1>4, <1>5 DEF InBlockOf
<1> QED BY <1>4, <1>6

\* The line decides whether the block is open behind it.
LEMMA BlockGoesOn ==
  ASSUME NEW t, NEW u, NEW x, Grown(t, u, x), NEW k \in 1..Len(t), t[k].kind = "ver"
  PROVE  /\ Opened(u, k) <=> Opened(t, k) \/ x.kind = "{"
         /\ InBlockOf(u, k, Len(u) + 1) <=>
              \/ InBlockOf(t, k, Len(t) + 1) /\ x.kind # "}"
              \/ x.kind = "{" /\ ~Opened(t, k)
         /\ InBlockOf(t, k, Len(t) + 1) => Opened(t, k)
<1> PICK m \in Nat : m = Len(t)
  BY DEF Grown
<1>0. t \in Seq(Lines) /\ u \in Seq(Lines) /\ Len(u) = m + 1 /\ m + 1 \in Nat
  BY DEF Grown
<1>1. (\A j \in 1..m : u[j] = t[j]) /\ u[m + 1] = x
  BY DEF Grown
<1>2. k \in 1..m /\ k \in 1..m + 1
  OBVIOUS
<1>3. u[k] = t[k]
  BY <1>1, <1>2
<1>4. /\ Opened(t, k) <=> t[k].opens \/ \E j \in k + 1..m : t[j].kind = "{"
      /\ Opened(u, k) <=> u[k].opens \/ \E j \in k + 1..m + 1 : u[j].kind = "{"
  BY <1>0, <1>2, <1>3, FirstBrace
<1>5. \A j \in k + 1..m : u[j] = t[j] /\ j \in k + 1..m + 1
  BY <1>1, <1>2
<1>6. \A j \in k + 1..m + 1 : j \in k + 1..m \/ j = m + 1
  BY <1>2
<1>7. m + 1 \in k + 1..m + 1
  BY <1>2
<1>8. Opened(u, k) <=> Opened(t, k) \/ x.kind = "{"
  BY <1>1, <1>3, <1>4, <1>5, <1>6, <1>7
<1>9. OpensAt(u, k, m + 1) <=> x.kind = "{" /\ ~Opened(t, k)
  <2>1. k # m + 1 /\ (m + 1) - 1 = m
    BY <1>2
  <2> QED BY <1>1, <1>3, <1>4, <1>5, <2>1 DEF OpensAt
<1>10. \A o \in k..m : OpensAt(u, k, o) <=> OpensAt(t, k, o)
  BY BlocksStay
<1>11. InBlockOf(u, k, m + 2) <=>
         \E o \in k..m + 1 : OpensAt(u, k, o) /\ \A j \in o + 1..m + 1 : u[j].kind # "}"
  <2>1. (m + 2) - 1 = m + 1
    OBVIOUS
  <2> QED BY <2>1 DEF InBlockOf
<1>12. InBlockOf(t, k, m + 1) <=>
         \E o \in k..m : OpensAt(t, k, o) /\ \A j \in o + 1..m : t[j].kind # "}"
  <2>1. (m + 1) - 1 = m
    OBVIOUS
  <2> QED BY <2>1 DEF InBlockOf
<1>13. \A o \in k..m :
         /\ m + 1 \in o + 1..m + 1
         /\ \A j \in o + 1..m : j \in o + 1..m + 1 /\ u[j] = t[j]
         /\ \A j \in o + 1..m + 1 : j = m + 1 \/ j \in o + 1..m
  <2>1. \A o \in k..m :
         /\ m + 1 \in o + 1..m + 1
         /\ \A j \in o + 1..m : j \in o + 1..m + 1 /\ j \in 1..m
         /\ \A j \in o + 1..m + 1 : j = m + 1 \/ j \in o + 1..m
    BY <1>2
  <2> QED BY <1>1, <2>1
<1>14. \A o \in k..m :
         (\A j \in o + 1..m + 1 : u[j].kind # "}") <=> (x.kind # "}" /\ \A j \in o + 1..m : t[j].kind # "}")
  BY <1>1, <1>13
<1>15. /\ \A o \in k..m : o \in k..m + 1
       /\ \A o \in k..m + 1 : o = m + 1 \/ o \in k..m
       /\ m + 1 \in k..m + 1
       /\ \A j \in m + 1 + 1..m + 1 : FALSE
  BY <1>2
<1>16. InBlockOf(u, k, m + 2) <=>
         (InBlockOf(t, k, m + 1) /\ x.kind # "}") \/ OpensAt(u, k, m + 1)
  BY <1>10, <1>11, <1>12, <1>14, <1>15
<1>17. InBlockOf(t, k, m + 1) => Opened(t, k)
  BY <1>12 DEF Opened
<1>18. Len(u) + 1 = m + 2
  BY <1>0
<1> QED BY <1>8, <1>9, <1>16, <1>17, <1>18

\* A transaction more of a voucher.
LEMMA TransactionAdded ==
  ASSUME NEW number, NEW day, NEW list, NEW x
  PROVE  WithTransaction([number |-> number, day |-> day, transactions |-> list], x) =
           [number |-> number, day |-> day, transactions |-> Append(list, Transaction(x))]
<1> PICK v : v = [number |-> number, day |-> day, transactions |-> list]
  OBVIOUS
<1> PICK longer : longer = Append(list, Transaction(x))
  OBVIOUS
<1>1. v.transactions = list
  OBVIOUS
<1>2. WithTransaction(v, x) = [v EXCEPT !.transactions = Append(v.transactions, Transaction(x))]
  BY DEF WithTransaction
<1>3. WithTransaction(v, x) = [v EXCEPT !.transactions = longer]
  BY <1>1, <1>2
<1>4. [v EXCEPT !.transactions = longer] = [number |-> number, day |-> day, transactions |-> longer]
  OBVIOUS
<1> QED BY <1>3, <1>4

\* A line more is a line of the last voucher, if it is one of its block.
LEMMA VoucherGoesOn ==
  ASSUME NEW t, NEW u, NEW x, Grown(t, u, x), NEW k \in VersIn(t)
  PROVE  VoucherAt(u, k) =
           IF x.kind = "trans" /\ InBlockOf(t, k, Len(t) + 1) /\ LastVer(t, k)
           THEN WithTransaction(VoucherAt(t, k), x) ELSE VoucherAt(t, k)
<1> PICK m \in Nat : m = Len(t)
  BY DEF Grown
<1>0. t \in Seq(Lines) /\ u \in Seq(Lines) /\ Len(u) = m + 1
  BY DEF Grown
<1>1. (\A j \in 1..m : u[j] = t[j]) /\ u[m + 1] = x
  BY DEF Grown
<1>2. k \in 1..m /\ k \in 1..m + 1 /\ t[k].kind = "ver"
  BY DEF VersIn
<1>3. \A n \in k + 1..m + 1 : (InBlockOf(u, k, n) <=> InBlockOf(t, k, n))
  <2>1. \A n \in k + 1..m + 1 : n \in k..m + 1
    BY <1>2
  <2> QED BY <1>2, <2>1, BlocksStay
<1>4. /\ \A n \in k + 1..m : n \in k + 1..m + 1 /\ u[n] = t[n] /\ \A j \in k + 1..n : u[j] = t[j]
      /\ \A n \in k + 1..m + 1 : n = m + 1 \/ n \in k + 1..m
      /\ m + 1 \in k + 1..m + 1
  <2>1. /\ \A n \in k + 1..m : n \in k + 1..m + 1 /\ n \in 1..m /\ \A j \in k + 1..n : j \in 1..m
        /\ \A n \in k + 1..m + 1 : n = m + 1 \/ n \in k + 1..m
        /\ m + 1 \in k + 1..m + 1
    BY <1>2
  <2> QED BY <1>1, <2>1
<1>5. \A n \in k + 1..m : n \in TransOf(u, k) <=> n \in TransOf(t, k)
  BY <1>0, <1>3, <1>4 DEF TransOf
<1>6. m + 1 \in TransOf(u, k) <=>
        x.kind = "trans" /\ InBlockOf(t, k, m + 1) /\ \A j \in k + 1..m : t[j].kind # "ver"
  <2>1. m + 1 \in TransOf(u, k) <=>
          x.kind = "trans" /\ InBlockOf(u, k, m + 1) /\ \A j \in k + 1..m + 1 : u[j].kind # "ver"
    BY <1>0, <1>1, <1>4 DEF TransOf
  <2> QED BY <1>1, <1>3, <1>4, <2>1
<1>7. LastVer(t, k) <=> \A j \in k + 1..m : t[j].kind # "ver"
  <2>1. \A j \in 1..m : j <= k \/ j \in k + 1..m
    BY <1>2
  <2>2. \A j \in k + 1..m : j \in 1..m /\ ~(j <= k)
    BY <1>2
  <2> QED BY <2>1, <2>2 DEF LastVer, VersIn
<1> DEFINE A == TransOf(t, k)
           B == TransOf(u, k)
<1>8. /\ A \in SUBSET Int /\ IsFiniteSet(A)
      /\ \A n \in A : n \in k + 1..m
  BY <1>0, <1>2, TransArePlaces
<1>9. \A n \in B : n \in k + 1..m + 1
  BY <1>0 DEF TransOf
<1>10. \A n \in A : n < m + 1
  BY <1>2, <1>8
<1> PICK f : f = [j \in 1..m + 1 |-> Transaction(u[j])]
  OBVIOUS
<1>11. \A n \in k + 1..m + 1 : f[n] = Transaction(u[n])
  <2>1. \A n \in k + 1..m + 1 : n \in 1..m + 1
    BY <1>2
  <2> QED BY <2>1
<1>12. \A n \in A : f[n] = Transaction(t[n])
  BY <1>4, <1>8, <1>11
<1>13. \A n \in B : f[n] = Transaction(u[n])
  BY <1>9, <1>11
<1> HIDE DEF A, B
<1>14. VoucherAt(t, k) = [number |-> t[k].number, day |-> t[k].day, transactions |-> Picked(f, A)]
  BY <1>0, <1>2, <1>12, VoucherPicks DEF A
<1>15. VoucherAt(u, k) = [number |-> t[k].number, day |-> t[k].day, transactions |-> Picked(f, B)]
  <2>1. VoucherAt(u, k) = [number |-> u[k].number, day |-> u[k].day, transactions |-> Picked(f, B)]
    BY <1>0, <1>2, <1>13, VoucherPicks DEF B
  <2> QED BY <1>1, <1>2, <2>1
<1>16. CASE x.kind = "trans" /\ InBlockOf(t, k, m + 1) /\ LastVer(t, k)
  <2>1. B = A \cup {m + 1}
    BY <1>4, <1>5, <1>6, <1>7, <1>8, <1>9, <1>16 DEF A, B
  <2>2. Picked(f, A \cup {m + 1}) = Append(Picked(f, A), f[m + 1])
    <3>1. m + 1 \in Int
      OBVIOUS
    <3> QED BY <1>8, <1>10, <3>1, PickedGrows
  <2>3. f[m + 1] = Transaction(x)
    BY <1>1, <1>4, <1>11
  <2>4. VoucherAt(u, k) =
          [number |-> t[k].number, day |-> t[k].day,
           transactions |-> Append(Picked(f, A), Transaction(x))]
    BY <1>15, <2>1, <2>2, <2>3
  <2>5. VoucherAt(u, k) = WithTransaction(VoucherAt(t, k), x)
    <3> PICK number, day, list : number = t[k].number /\ day = t[k].day /\ list = Picked(f, A)
      OBVIOUS
    <3>1. VoucherAt(t, k) = [number |-> number, day |-> day, transactions |-> list]
      BY <1>14
    <3>2. VoucherAt(u, k) = [number |-> number, day |-> day, transactions |-> Append(list, Transaction(x))]
      BY <2>4
    <3>3. WithTransaction([number |-> number, day |-> day, transactions |-> list], x) =
            [number |-> number, day |-> day, transactions |-> Append(list, Transaction(x))]
      BY TransactionAdded
    <3> QED BY ONLY <3>1, <3>2, <3>3
  <2> QED BY <1>16, <2>5
<1>17. CASE ~(x.kind = "trans" /\ InBlockOf(t, k, m + 1) /\ LastVer(t, k))
  <2>1. B = A
    BY <1>4, <1>5, <1>6, <1>7, <1>8, <1>9, <1>17 DEF A, B
  <2> QED BY <1>14, <1>15, <1>17, <2>1
<1> QED BY <1>16, <1>17

\* The #VER lines with one line more.
LEMMA VersGrow ==
  ASSUME NEW t, NEW u, NEW x, Grown(t, u, x)
  PROVE  /\ x.kind = "ver" => VersIn(u) = VersIn(t) \cup {Len(t) + 1} /\ LastVer(u, Len(t) + 1)
         /\ x.kind # "ver" => VersIn(u) = VersIn(t)
<1> PICK m \in Nat : m = Len(t)
  BY DEF Grown
<1>0. t \in Seq(Lines) /\ u \in Seq(Lines) /\ Len(u) = m + 1
  BY DEF Grown
<1>1. (\A j \in 1..m : u[j] = t[j]) /\ u[m + 1] = x
  BY DEF Grown
<1>2. /\ \A n \in 1..m : n \in 1..m + 1 /\ n <= m + 1
      /\ \A n \in 1..m + 1 : n = m + 1 \/ n \in 1..m
      /\ m + 1 \in 1..m + 1 /\ m + 1 <= m + 1
  OBVIOUS
<1> QED BY <1>0, <1>1, <1>2 DEF VersIn, LastVer

\* A file ends with all its vouchers, the one under construction included.
LEMMA AllVouchers ==
  ASSUME NEW t \in Seq(Lines), NEW p, NEW k, LastVer(t, k), ReadTo(t, k, p)
  PROVE  EndOfFile(p) = Picked(VouchersOf(t), VersIn(t))
<1>0. k \in VersIn(t) /\ \A q \in VersIn(t) : q <= k
  BY DEF LastVer
<1>1. CASE Closed(t, k)
  BY <1>1 DEF ReadTo, EndOfFile, Interrupt
<1>2. CASE ~Closed(t, k)
  <2> PICK S : S = VersIn(t) \ {k}
    OBVIOUS
  <2>1. VersIn(t) \in SUBSET Int /\ IsFiniteSet(VersIn(t))
    BY VersArePlaces
  <2>2. S \in SUBSET Int /\ IsFiniteSet(S)
    BY <2>1, FS_Subset
  <2>3. k \in Int /\ \A q \in S : q < k
    BY <1>0, <2>1
  <2>4. S \cup {k} = VersIn(t)
    BY <1>0
  <2> PICK f, v : f = VouchersOf(t) /\ v = VoucherAt(t, k)
    OBVIOUS
  <2>5. f[k] = v
    BY <1>0 DEF VouchersOf
  <2>6. Picked(f, S \cup {k}) = Picked(f, S) \o <<f[k]>>
    BY <2>2, <2>3, PickedGrows
  <2>7. p.pending = <<v>> /\ p.vouchers = Picked(f, S)
    BY <1>2 DEF ReadTo
  <2>8. <<v>> # <<>>
    OBVIOUS
  <2>9. EndOfFile(p) = p.vouchers \o p.pending
    BY <2>7, <2>8 DEF EndOfFile, Interrupt, CommitBlock
  <2> QED BY <2>4, <2>5, <2>6, <2>7, <2>9
<1> QED BY <1>1, <1>2

\* A new #VER has a voucher under construction without lines.
LEMMA VerStarts ==
  ASSUME NEW t, NEW u, NEW x, Grown(t, u, x), x.kind = "ver"
  PROVE  /\ VoucherAt(u, Len(t) + 1) = [number |-> x.number, day |-> x.day, transactions |-> <<>>]
         /\ InBlockOf(u, Len(t) + 1, Len(u) + 1) = x.opens
         /\ ~Closed(u, Len(t) + 1)
<1> PICK m \in Nat : m = Len(t)
  BY DEF Grown
<1>0. u \in Seq(Lines) /\ Len(u) = m + 1 /\ u[m + 1] = x
  BY DEF Grown
<1>1. x.opens \in BOOLEAN
  BY KindsOfLines DEF Grown
<1>2. /\ m + 1 \in m + 1..m + 1
      /\ \A o \in m + 1..m + 1 : o = m + 1
      /\ \A j \in m + 1 + 1..m + 1 : FALSE
      /\ m + 2 - 1 = m + 1
  OBVIOUS
<1>3. OpensAt(u, m + 1, m + 1) <=> x.opens
  <2>1. x.kind # "{"
    OBVIOUS
  <2> QED BY <1>0, <1>1, <2>1 DEF OpensAt
<1>4. Opened(u, m + 1) <=> x.opens
  BY <1>0, <1>2, <1>3 DEF Opened
<1>5. InBlockOf(u, m + 1, m + 2) <=> x.opens
  <2>1. InBlockOf(u, m + 1, m + 2) <=>
          \E o \in m + 1..m + 1 : OpensAt(u, m + 1, o) /\ \A j \in o + 1..m + 1 : u[j].kind # "}"
    <3>1. (m + 2) - 1 = m + 1
      OBVIOUS
    <3> QED BY ONLY <3>1 DEF InBlockOf
  <2> QED BY <1>2, <1>3, <2>1
<1>6. InBlockOf(u, m + 1, m + 2) = x.opens
  <2>1. InBlockOf(u, m + 1, m + 2) \in BOOLEAN
    BY DEF InBlockOf
  <2> QED BY <1>1, <1>5, <2>1
<1>7. ~Closed(u, m + 1)
  BY <1>0, <1>4, <1>5 DEF Closed
<1>8. TransOf(u, m + 1) = {}
  BY <1>0, <1>2 DEF TransOf
<1>9. [i \in 1..0 |-> Transaction(u[Nth({}, i)])] = <<>>
  OBVIOUS
<1>10. VoucherAt(u, m + 1) = [number |-> x.number, day |-> x.day, transactions |-> <<>>]
  BY <1>0, <1>8, <1>9, FS_EmptySet DEF VoucherAt
<1> QED BY <1>0, <1>6, <1>7, <1>10

\* The vouchers that a line more leaves alone.
LEMMA OthersStay ==
  ASSUME NEW t, NEW u, NEW x, Grown(t, u, x), NEW S \in SUBSET VersIn(t),
         x.kind = "trans" => \A k \in S : ~LastVer(t, k) \/ ~InBlockOf(t, k, Len(t) + 1)
  PROVE  Picked(VouchersOf(u), S) = Picked(VouchersOf(t), S)
<1>1. VersIn(t) \in SUBSET Int /\ IsFiniteSet(VersIn(t))
  BY VersArePlaces DEF Grown
<1>2. S \in SUBSET Int /\ IsFiniteSet(S)
  BY <1>1, FS_Subset
<1>3. \A k \in S : k \in VersIn(u)
  BY VersGrow, KindsOfLines
<1>4. \A k \in S : VoucherAt(u, k) = VoucherAt(t, k)
  BY VoucherGoesOn
<1>5. \A k \in S : VouchersOf(u)[k] = VouchersOf(t)[k]
  BY <1>3, <1>4 DEF VouchersOf
<1> QED BY <1>2, <1>5, PickedAgrees

\* A #VER comes: what was read is kept, the new voucher is under construction.
LEMMA VerRead ==
  ASSUME NEW t, NEW u, NEW x, Grown(t, u, x), x.kind = "ver", NEW p,
         EndOfFile(p) = Picked(VouchersOf(t), VersIn(t))
  PROVE  Reading(u, ReadLine(p, x))
<1> PICK m \in Nat : m = Len(t)
  BY DEF Grown
<1>1. VersIn(u) = VersIn(t) \cup {m + 1} /\ LastVer(u, m + 1)
  BY VersGrow
<1>2. /\ VoucherAt(u, m + 1) = [number |-> x.number, day |-> x.day, transactions |-> <<>>]
      /\ InBlockOf(u, m + 1, Len(u) + 1) = x.opens
      /\ ~Closed(u, m + 1)
  BY VerStarts
<1>3. ReadLine(p, x) = ReadVer(p, x)
  BY DEF ReadLine
<1>4. \A k \in VersIn(t) : k \in 1..m
  BY DEF VersIn
<1>5. VersIn(u) \ {m + 1} = VersIn(t)
  <2>1. m + 1 \notin VersIn(t)
    BY <1>4
  <2> QED BY <1>1, <2>1
<1>6. Picked(VouchersOf(u), VersIn(t)) = Picked(VouchersOf(t), VersIn(t))
  BY OthersStay
<1>7. ReadTo(u, m + 1, ReadVer(p, x))
  BY <1>2, <1>5, <1>6 DEF ReadTo, ReadVer, EndOfFile
<1> QED BY <1>1, <1>3, <1>7 DEF Reading

\* Another line comes while nothing is under construction yet.
LEMMA NothingRead ==
  ASSUME NEW x \in Lines, x.kind # "ver"
  PROVE  ReadLine(StartOfFile, x) = StartOfFile
<1>1. x.kind \in {"trans", "{", "}", "other"}
  BY KindsOfLines
<1> QED BY <1>1 DEF ReadLine, StartOfFile, ReadTrans

\* Another line comes behind the last #VER.
LEMMA LineRead ==
  ASSUME NEW t, NEW u, NEW x, Grown(t, u, x), x.kind # "ver", NEW p, NEW k,
         LastVer(t, k), ReadTo(t, k, p)
  PROVE  ReadTo(u, k, ReadLine(p, x))
<1> PICK m \in Nat : m = Len(t)
  BY DEF Grown
<1> DEFINE Open == InBlockOf(t, k, m + 1)
           v == VoucherAt(t, k)
           S(c) == IF c THEN VersIn(t) ELSE VersIn(t) \ {k}
           Before(c) == Picked(VouchersOf(t), S(c))
<1>0. k \in VersIn(t) /\ k \in 1..m /\ t[k].kind = "ver"
  BY DEF LastVer, VersIn
<1>1. x.kind \in {"trans", "{", "}", "other"}
  BY KindsOfLines DEF Grown
<1>2. VersIn(u) = VersIn(t)
  BY VersGrow
<1>3. /\ Opened(u, k) <=> Opened(t, k) \/ x.kind = "{"
      /\ InBlockOf(u, k, Len(u) + 1) <=> (Open /\ x.kind # "}") \/ (x.kind = "{" /\ ~Opened(t, k))
      /\ Open => Opened(t, k)
  BY <1>0, BlockGoesOn
<1>4. VoucherAt(u, k) = IF x.kind = "trans" /\ Open THEN WithTransaction(v, x) ELSE v
  BY <1>0, VoucherGoesOn
<1>5. \A c \in BOOLEAN :
        (x.kind = "trans" => ~c \/ ~Open) => Picked(VouchersOf(u), S(c)) = Before(c)
  <2> SUFFICES ASSUME NEW c \in BOOLEAN, x.kind = "trans" => ~c \/ ~Open
               PROVE  Picked(VouchersOf(u), S(c)) = Before(c)
    OBVIOUS
  <2>1. S(c) \in SUBSET VersIn(t)
    OBVIOUS
  <2>2. x.kind = "trans" => \A q \in S(c) : ~LastVer(t, q) \/ ~InBlockOf(t, q, Len(t) + 1)
    <3> SUFFICES ASSUME x.kind = "trans", NEW q \in S(c), LastVer(t, q), InBlockOf(t, q, m + 1)
                 PROVE  FALSE
      OBVIOUS
    <3>1. q = k
      <4>1. q \in Int /\ k \in Int
        BY <1>0, VersArePlaces DEF Grown, LastVer
      <4>2. q <= k /\ k <= q
        BY DEF LastVer
      <4> QED BY <4>1, <4>2
    <3>2. Open /\ ~c
      BY <3>1
    <3> QED BY <3>1, <3>2
  <2> HIDE DEF S
  <2>3. Picked(VouchersOf(u), S(c)) = Picked(VouchersOf(t), S(c))
    BY <2>1, <2>2, OthersStay
  <2> QED BY <2>3
<1>6. Closed(t, k) <=> Opened(t, k) /\ ~Open
  BY DEF Closed
<1>7. Closed(u, k) <=> (Opened(t, k) \/ x.kind = "{") /\ ~InBlockOf(u, k, Len(u) + 1)
  BY <1>3 DEF Closed
<1>8. Open \in BOOLEAN /\ InBlockOf(u, k, Len(u) + 1) \in BOOLEAN /\ Closed(t, k) \in BOOLEAN /\ Closed(u, k) \in BOOLEAN
  BY DEF InBlockOf, Closed
<1>9. p = [pending  |-> IF Closed(t, k) THEN <<>> ELSE <<v>>,
           inBlock  |-> Open,
           vouchers |-> Before(Closed(t, k))]
  BY DEF ReadTo
<1>10. ReadTo(u, k, ReadLine(p, x)) <=>
         ReadLine(p, x) =
           [pending  |-> IF Closed(u, k) THEN <<>> ELSE <<VoucherAt(u, k)>>,
            inBlock  |-> InBlockOf(u, k, Len(u) + 1),
            vouchers |-> Picked(VouchersOf(u), S(Closed(u, k)))]
  BY <1>2 DEF ReadTo
<1> HIDE DEF S
<1>11. CASE x.kind = "trans"
  <2>1. ReadLine(p, x) = ReadTrans(p, x)
    BY <1>11 DEF ReadLine
  <2>2. (InBlockOf(u, k, Len(u) + 1) <=> Open) /\ (Closed(u, k) <=> Closed(t, k))
    BY <1>3, <1>6, <1>7, <1>11
  <2>3. InBlockOf(u, k, Len(u) + 1) = Open /\ Closed(u, k) = Closed(t, k)
    BY <1>8, <2>2
  <2>4. Picked(VouchersOf(u), S(Closed(u, k))) = Before(Closed(t, k))
    BY <1>5, <1>6, <1>8, <2>3
  <2>5. CASE Open
    <3>1. ~Closed(t, k)
      BY <1>6, <2>5
    <3>2. p.inBlock /\ p.pending = <<v>> /\ p.vouchers = Before(Closed(t, k))
      BY <1>9, <2>5, <3>1
    <3>3. p.pending # <<>> /\ p.pending[1] = v
      BY <3>2
    <3> PICK w : w = WithTransaction(v, x)
      OBVIOUS
    <3>4. ReadTrans(p, x) = [p EXCEPT !.pending = <<WithTransaction(p.pending[1], x)>>]
      BY <3>2, <3>3 DEF ReadTrans
    <3>5. ReadTrans(p, x) = [p EXCEPT !.pending = <<w>>]
      BY <3>3, <3>4
    <3>6. VoucherAt(u, k) = w
      BY <1>4, <1>11, <2>5
    <3> QED BY <1>9, <1>10, <2>1, <2>3, <2>4, <3>1, <3>5, <3>6
  <2>6. CASE ~Open
    <3>1. ReadTrans(p, x) = p
      BY <1>9, <2>6 DEF ReadTrans
    <3>2. VoucherAt(u, k) = v
      BY <1>4, <2>6
    <3> QED BY <1>9, <1>10, <2>1, <2>3, <2>4, <3>1, <3>2
  <2> QED BY <2>5, <2>6
<1>12. (VoucherAt(u, k) = v /\ Picked(VouchersOf(u), S(Closed(u, k))) = Before(Closed(u, k)))
       \/ x.kind = "trans"
  BY <1>4, <1>5, <1>8
<1>13. CASE x.kind = "{"
  <2>1. ReadLine(p, x) = [p EXCEPT !.inBlock = p.inBlock \/ p.pending # <<>>]
    BY <1>13 DEF ReadLine
  <2>2. p.inBlock = Open /\ (p.pending # <<>> <=> ~Closed(t, k))
    BY <1>9
  <2>3. (p.inBlock \/ p.pending # <<>>) <=> InBlockOf(u, k, Len(u) + 1)
    BY <1>3, <1>6, <1>13, <2>2
  <2>4. ReadLine(p, x) = [p EXCEPT !.inBlock = InBlockOf(u, k, Len(u) + 1)]
    BY <1>8, <2>1, <2>2, <2>3
  <2>5. Closed(u, k) <=> Closed(t, k)
    BY <1>3, <1>6, <1>7, <1>13
  <2>6. Closed(u, k) = Closed(t, k)
    BY <1>8, <2>5
  <2> QED BY <1>9, <1>10, <1>12, <1>13, <2>4, <2>6
<1>14. CASE x.kind = "}"
  <2>1. ReadLine(p, x) = IF p.inBlock THEN CommitBlock(p) ELSE p
    BY <1>14 DEF ReadLine
  <2>2. InBlockOf(u, k, Len(u) + 1) = FALSE /\ (Closed(u, k) <=> Opened(t, k))
    BY <1>3, <1>7, <1>8, <1>14
  <2>3. CASE Open
    <3>1. Closed(u, k) = TRUE /\ Closed(t, k) = FALSE
      BY <1>3, <1>6, <1>8, <2>2, <2>3
    <3>2. CommitBlock(p) = [pending |-> <<>>, inBlock |-> FALSE, vouchers |-> p.vouchers \o p.pending]
      BY DEF CommitBlock
    <3>3. p.pending = <<v>> /\ p.pending # <<>>
      BY <1>9, <3>1
    <3>4. EndOfFile(p) = p.vouchers \o p.pending
      BY <3>3 DEF EndOfFile, Interrupt, CommitBlock
    <3>5. EndOfFile(p) = Picked(VouchersOf(t), VersIn(t))
      BY AllVouchers DEF Grown
    <3>6. Before(TRUE) = EndOfFile(p)
      BY <3>5 DEF S
    <3>7. ReadLine(p, x) = CommitBlock(p)
      BY <1>9, <2>1, <2>3
    <3>8. Picked(VouchersOf(u), S(Closed(u, k))) = p.vouchers \o p.pending
      BY <1>12, <1>14, <3>1, <3>4, <3>6
    <3>9. ReadLine(p, x) = [pending |-> <<>>, inBlock |-> InBlockOf(u, k, Len(u) + 1),
                            vouchers |-> Picked(VouchersOf(u), S(Closed(u, k)))]
      BY <2>2, <3>2, <3>7, <3>8
    <3> QED BY <1>10, <3>1, <3>9
  <2>4. CASE ~Open
    <3>1. Closed(u, k) = Closed(t, k)
      BY <1>6, <1>8, <2>2, <2>4
    <3>2. ReadLine(p, x) = p
      BY <1>9, <2>1, <2>4
    <3>3. InBlockOf(u, k, Len(u) + 1) = Open
      BY <1>8, <2>2, <2>4
    <3> QED BY <1>9, <1>10, <1>12, <1>14, <3>1, <3>2, <3>3
  <2> QED BY <2>3, <2>4
<1>15. CASE x.kind = "other"
  <2>1. ReadLine(p, x) = p
    BY <1>15 DEF ReadLine
  <2>2. (InBlockOf(u, k, Len(u) + 1) <=> Open) /\ (Closed(u, k) <=> Closed(t, k))
    BY <1>3, <1>6, <1>7, <1>15
  <2>3. InBlockOf(u, k, Len(u) + 1) = Open /\ Closed(u, k) = Closed(t, k)
    BY <1>8, <2>2
  <2> QED BY <1>9, <1>10, <1>12, <1>15, <2>1, <2>3
<1> QED BY <1>1, <1>11, <1>13, <1>14, <1>15

\* The parser reads a line more.
LEMMA ReadingGoesOn ==
  ASSUME NEW t \in Seq(Lines), NEW x \in Lines, NEW p, Reading(t, p)
  PROVE  Reading(Append(t, x), ReadLine(p, x))
<1> PICK u : u = Append(t, x)
  OBVIOUS
<1>1. Grown(t, u, x)
  BY AppendGrows
<1>2. CASE VersIn(t) = {} /\ p = StartOfFile
  <2>1. CASE x.kind = "ver"
    <3>1. EndOfFile(p) = <<>>
      BY <1>2 DEF EndOfFile, Interrupt, StartOfFile
    <3>2. Picked(VouchersOf(t), {}) = <<>>
      BY FS_EmptySet DEF Picked
    <3> QED BY <1>1, <1>2, <2>1, <3>1, <3>2, VerRead
  <2>2. CASE x.kind # "ver"
    BY <1>1, <1>2, <2>2, NothingRead, VersGrow DEF Reading
  <2> QED BY <2>1, <2>2
<1>3. ASSUME NEW k \in VersIn(t), LastVer(t, k), ReadTo(t, k, p)
      PROVE  Reading(u, ReadLine(p, x))
  <2>1. CASE x.kind = "ver"
    BY <1>1, <1>3, <2>1, AllVouchers, VerRead
  <2>2. CASE x.kind # "ver"
    <3>1. ReadTo(u, k, ReadLine(p, x))
      BY <1>1, <1>3, <2>2, LineRead
    <3>2. VersIn(u) = VersIn(t)
      BY <1>1, <2>2, VersGrow
    <3> QED BY <1>3, <3>1, <3>2 DEF Reading, LastVer
  <2> QED BY <2>1, <2>2
<1> QED BY <1>2, <1>3 DEF Reading

\* What was read is what is written, wherever the file ends.
LEMMA ReadingIsAsWritten ==
  ASSUME NEW t \in Seq(Lines), NEW p, Reading(t, p)
  PROVE  EndOfFile(p) = VouchersIn(t)
<1>1. VouchersIn(t) = Picked(VouchersOf(t), VersIn(t))
  BY VouchersArePicked
<1>2. CASE VersIn(t) = {} /\ p = StartOfFile
  <2>1. EndOfFile(p) = <<>>
    BY <1>2 DEF EndOfFile, Interrupt, StartOfFile
  <2>2. Picked(VouchersOf(t), {}) = <<>>
    BY FS_EmptySet DEF Picked
  <2> QED BY <1>1, <1>2, <2>1, <2>2
<1>3. ASSUME NEW k \in VersIn(t), LastVer(t, k), ReadTo(t, k, p)
      PROVE  EndOfFile(p) = VouchersIn(t)
  BY <1>1, <1>3, AllVouchers
<1> QED BY <1>2, <1>3 DEF Reading

-----------------------------------------------------------------------------
(* What is imported.                                                       *)

\* Lines of a journal: one side of each is an amount in ore, the other nothing.
OneSided(line) ==
  /\ line = [account |-> line.account, debit |-> line.debit, credit |-> line.credit]
  /\ line.debit \in Nat /\ line.credit \in Nat
  /\ line.debit = 0 \/ line.credit = 0

\* An entry of the journal.
Booked(entry) ==
  /\ \E n \in Nat \ {0} :
        ListOf(entry.lines, n) /\ n <= MaxSieLines /\ \A i \in 1..n : OneSided(entry.lines[i])
  /\ DateParses(entry.day)
  /\ LinesImbalance(entry.lines) = 0

\* A voucher that a file tells of.
ToldOf(voucher) ==
  \E n \in Nat :
    /\ ListOf(voucher.transactions, n)
    /\ \A i \in 1..n : voucher.transactions[i].amount \in Int \cup {NotANumber}

Places(entries) == 1..Len(entries)

SieInv ==
  /\ text \in Seq(Lines) /\ Reading(text, parser)
  /\ Len(journal) \in Nat /\ ListOf(journal, Len(journal))
  /\ \A i \in Places(journal) : Booked(journal[i])
  /\ \A i, j \in Places(journal) : journal[i].id = journal[j].id => i = j
  /\ answer # <<>> => NewPlaces(EndOfFile(parser), journal) = {}
  /\ LossesAreTold

\* The vouchers of a file.
LEMMA ToldOfAll ==
  ASSUME NEW t \in Seq(Lines)
  PROVE  \E n \in Nat : ListOf(VouchersIn(t), n) /\ \A i \in 1..n : ToldOf(VouchersIn(t)[i])
<1>1. VersIn(t) \in SUBSET Int /\ IsFiniteSet(VersIn(t)) /\ \A k \in VersIn(t) : k \in 1..Len(t)
  BY VersArePlaces
<1> PICK n \in Nat : n = Cardinality(VersIn(t))
  BY <1>1, FS_CardinalityType
<1> PICK vouchers : vouchers = VouchersIn(t)
  OBVIOUS
<1>2. \A i \in 1..n : Nth(VersIn(t), i) \in VersIn(t)
  BY <1>1, NthPlace
<1>3. vouchers = [i \in 1..n |-> VoucherAt(t, Nth(VersIn(t), i))]
  BY DEF VouchersIn
<1>4. ListOf(vouchers, n)
  BY ONLY <1>3 DEF ListOf
<1>5. ASSUME NEW k \in 1..Len(t)
      PROVE  ToldOf(VoucherAt(t, k))
  <2> PICK S : S = TransOf(t, k)
    OBVIOUS
  <2>1. S \in SUBSET Int /\ IsFiniteSet(S) /\ \A j \in S : j \in 1..Len(t) /\ t[j].kind = "trans"
    <3>1. S \in SUBSET Int /\ IsFiniteSet(S) /\ \A j \in S : j \in k + 1..Len(t)
      BY TransArePlaces
    <3>2. \A j \in k + 1..Len(t) : j \in 1..Len(t)
      OBVIOUS
    <3>3. \A j \in S : t[j].kind = "trans"
      BY DEF TransOf
    <3> QED BY <3>1, <3>2, <3>3
  <2> PICK c \in Nat : c = Cardinality(S)
    BY <2>1, FS_CardinalityType
  <2>2. \A j \in 1..c : Nth(S, j) \in S
    BY <2>1, NthPlace
  <2> PICK list : list = [j \in 1..c |-> Transaction(t[Nth(S, j)])]
    OBVIOUS
  <2>3. VoucherAt(t, k).transactions = list
    BY DEF VoucherAt
  <2>4. ListOf(list, c)
    BY DEF ListOf
  <2>5. \A x \in Lines : x.kind = "trans" => x.amount \in Int \cup {NotANumber}
    <3> SUFFICES ASSUME NEW x \in Lines, x.kind = "trans"
                 PROVE  x.amount \in Int \cup {NotANumber}
      OBVIOUS
    <3>1. \A line \in VerLines : x # Ver(line)
      BY DEF Ver
    <3>2. \A kind \in {"{", "}", "other"} : x # Mark(kind)
      <4> SUFFICES ASSUME NEW kind \in {"{", "}", "other"}, x = Mark(kind) PROVE FALSE
        OBVIOUS
      <4>1. x.kind = kind
        BY DEF Mark
      <4> QED BY <4>1
    <3>3. PICK line \in TransLines : x = Trans(line)
      BY <3>1, <3>2 DEF Lines
    <3>4. line.amount \in Int \cup {NotANumber}
      BY SieConstants
    <3>5. x.amount = line.amount
      BY <3>3 DEF Trans
    <3> QED BY <3>4, <3>5
  <2>6. \A j \in 1..c : list[j].amount \in Int \cup {NotANumber}
    <3> SUFFICES ASSUME NEW j \in 1..c PROVE list[j].amount \in Int \cup {NotANumber}
      OBVIOUS
    <3> PICK x : x = t[Nth(S, j)]
      OBVIOUS
    <3>1. x \in Lines /\ x.kind = "trans"
      BY <2>1, <2>2
    <3>2. list[j] = [account |-> x.account, amount |-> x.amount]
      BY DEF Transaction
    <3>3. list[j].amount = x.amount
      BY <3>2
    <3> QED BY <2>5, <3>1, <3>3
  <2> QED BY <2>3, <2>4, <2>6 DEF ToldOf
<1>6. \A i \in 1..n : ToldOf(vouchers[i])
  BY <1>1, <1>2, <1>3, <1>5
<1> QED BY <1>4, <1>6

\* An amount is one side of a line, to the ore.
LEMMA Sides ==
  ASSUME NEW amount \in Int
  PROVE  /\ SideOre(amount) \in Nat /\ SideOre(-amount) \in Nat
         /\ SideOre(amount) = 0 \/ SideOre(-amount) = 0
BY DEF SideOre

\* What is imported of a voucher is an entry of the journal.
LEMMA ImportedIsBooked ==
  ASSUME NEW vouchers, NEW p, ToldOf(vouchers[p]), Importable(vouchers[p]),
         Len(vouchers[p].transactions) <= MaxSieLines
  PROVE  Booked(SieEntry(vouchers, p))
<1> PICK v : v = vouchers[p]
  OBVIOUS
<1>1. PICK n \in Nat : /\ ListOf(v.transactions, n)
                       /\ \A i \in 1..n : v.transactions[i].amount \in Int \cup {NotANumber}
  BY DEF ToldOf
<1> PICK list : list = v.transactions
  OBVIOUS
<1>2. list = [i \in 1..n |-> list[i]]
  BY <1>1 DEF ListOf
<1>3. DOMAIN list = 1..n
  BY ONLY <1>2
<1>4. NotANumber \notin SieAmounts(v) /\ list # <<>> /\ DateParses(v.day) /\ LinesImbalance(JournalLines(v)) = 0
  BY DEF Importable, Balanced
<1>5. n # 0
  <2> SUFFICES ASSUME n = 0 PROVE FALSE
    OBVIOUS
  <2>1. list = [i \in 1..0 |-> list[i]]
    BY <1>2
  <2>2. list = <<>>
    BY ONLY <2>1
  <2> QED BY <1>4, <2>2
<1>6. \A i \in 1..n : list[i].amount \in Int
  BY <1>1, <1>3, <1>4 DEF SieAmounts
<1> PICK lines : lines = JournalLines(v)
  OBVIOUS
<1>7. lines = [i \in 1..n |-> JournalLine(list[i])]
  BY <1>3 DEF JournalLines
<1>8. ListOf(lines, n)
  BY ONLY <1>7 DEF ListOf
<1>9. \A i \in 1..n : OneSided(lines[i])
  <2> SUFFICES ASSUME NEW i \in 1..n PROVE OneSided(lines[i])
    OBVIOUS
  <2> PICK amount \in Int : amount = list[i].amount
    BY <1>6
  <2> PICK account : account = list[i].account
    OBVIOUS
  <2>1. lines[i] = [account |-> account, debit |-> SideOre(amount), credit |-> SideOre(-amount)]
    BY <1>7 DEF JournalLine
  <2> PICK d \in Nat, c \in Nat : d = SideOre(amount) /\ c = SideOre(-amount)
    BY Sides
  <2>2. d = 0 \/ c = 0
    BY Sides
  <2>3. lines[i] = [account |-> account, debit |-> d, credit |-> c]
    BY <2>1
  <2> QED BY <2>2, <2>3 DEF OneSided
<1>10. SieEntry(vouchers, p).day = v.day /\ SieEntry(vouchers, p).lines = lines
  BY DEF SieEntry
<1>11. n <= MaxSieLines
  BY <1>1, LengthOf
<1> QED BY <1>4, <1>5, <1>8, <1>9, <1>10, <1>11 DEF Booked

\* The planned vouchers of a file have different ids.
LEMMA PlannedApart ==
  ASSUME NEW vouchers, NEW m \in Nat, DOMAIN vouchers = 1..m,
         NEW i \in PlanSieImport(vouchers), NEW j \in PlanSieImport(vouchers),
         AggregateId(vouchers, i) = AggregateId(vouchers, j)
  PROVE  i = j
<1>1. i \in 1..m /\ j \in 1..m
  BY DEF PlanSieImport
<1>2. \A p \in PlanSieImport(vouchers) : TakesItsId(vouchers[p]) /\ ~Repeats(vouchers, p)
  BY DEF PlanSieImport, Importable, Balanced, TakesItsId
<1>3. ~(i < j)
  <2> SUFFICES ASSUME i < j PROVE FALSE
    OBVIOUS
  <2>1. i \in 1..j - 1
    BY <1>1
  <2> QED BY <1>2, <2>1 DEF Repeats
<1>4. ~(j < i)
  <2> SUFFICES ASSUME j < i PROVE FALSE
    OBVIOUS
  <2>1. j \in 1..i - 1
    BY <1>1
  <2> QED BY <1>2, <2>1 DEF Repeats
<1> QED BY <1>1, <1>3, <1>4

\* A list of the entries of c places, each once.
EntriesOf(list, vouchers, S, c) ==
  /\ ListOf(list, c)
  /\ \A n \in 1..c : Nth(S, n) \in S
  /\ \A n \in 1..c : list[n] = SieEntry(vouchers, Nth(S, n))
  /\ \A p \in S : \E n \in 1..c : Nth(S, n) = p
  /\ \A n, k \in 1..c : Nth(S, n) = Nth(S, k) => n = k
  /\ c = Cardinality(S)

\* The entries of finitely many places, each with the place it is from.
LEMMA EntriesOfPlaces ==
  ASSUME NEW vouchers, NEW m \in Nat, NEW S \in SUBSET (1..m)
  PROVE  \E c \in Nat : EntriesOf(EntriesAt(vouchers, S), vouchers, S, c)
<1>1. S \in SUBSET Int /\ IsFiniteSet(S)
  <2>1. IsFiniteSet(1..m) /\ S \in SUBSET Int
    BY FS_Interval
  <2> QED BY <2>1, FS_Subset
<1> PICK c \in Nat : c = Cardinality(S)
  BY <1>1, FS_CardinalityType
<1> PICK list : list = EntriesAt(vouchers, S)
  OBVIOUS
<1>2. list = [n \in 1..c |-> SieEntry(vouchers, Nth(S, n))]
  BY DEF EntriesAt
<1>3. ListOf(list, c) /\ \A n \in 1..c : list[n] = SieEntry(vouchers, Nth(S, n))
  BY ONLY <1>2 DEF ListOf
<1>4. \A n \in 1..c : Nth(S, n) \in S /\ CountUpTo(S, Nth(S, n)) = n
  BY <1>1, NthPlace
<1>5. \A p \in S : CountUpTo(S, p) \in 1..c /\ Nth(S, CountUpTo(S, p)) = p
  BY <1>1, NthPlace, PlacesNumbered
<1>6. EntriesOf(list, vouchers, S, c)
  BY <1>3, <1>4, <1>5 DEF EntriesOf
<1> QED BY <1>6

\* The file is imported: its new vouchers are booked once, and none is left.
LEMMA ImportStep ==
  ASSUME SieInv, ImportTheFile
  PROVE  SieInv'
<1> PICK vouchers : vouchers = EndOfFile(parser)
  OBVIOUS
<1> PICK old : old = journal
  OBVIOUS
<1> PICK a \in Nat : a = Len(journal)
  BY DEF SieInv
<1> PICK S : S = NewPlaces(vouchers, old)
  OBVIOUS
<1>1. PICK m \in Nat : ListOf(vouchers, m) /\ \A p \in 1..m : ToldOf(vouchers[p])
  <2>1. vouchers = VouchersIn(text)
    BY ReadingIsAsWritten DEF SieInv
  <2> QED BY <2>1, ToldOfAll DEF SieInv
<1>2. DOMAIN vouchers = 1..m
  <2>1. vouchers = [p \in 1..m |-> vouchers[p]]
    BY <1>1 DEF ListOf
  <2> QED BY ONLY <2>1
<1>3. S \in SUBSET (1..m) /\ S \in SUBSET PlanSieImport(vouchers)
  BY <1>2 DEF NewPlaces, PlanSieImport
<1> PICK new : new = EntriesAt(vouchers, S)
  OBVIOUS
<1>16. \E c \in Nat : EntriesOf(EntriesAt(vouchers, S), vouchers, S, c)
  BY <1>3, EntriesOfPlaces
<1>17. PICK c \in Nat : EntriesOf(new, vouchers, S, c)
  BY <1>16
<1>4. /\ ListOf(new, c)
      /\ \A n \in 1..c : Nth(S, n) \in S
      /\ \A n \in 1..c : new[n] = SieEntry(vouchers, Nth(S, n))
      /\ \A p \in S : \E n \in 1..c : Nth(S, n) = p
      /\ \A n, k \in 1..c : Nth(S, n) = Nth(S, k) => n = k
      /\ c = Cardinality(S)
  BY <1>17 DEF EntriesOf
<1> PICK next : next = old \o new
  OBVIOUS
<1>5. journal' = next /\ UNCHANGED <<text, parser>>
  BY DEF ImportTheFile, NewEntries
<1>6. /\ ListOf(next, a + c) /\ Len(next) = a + c
      /\ \A i \in 1..a : next[i] = old[i]
      /\ \A n \in 1..c : next[a + n] = new[n]
  BY <1>4, ListsJoined DEF SieInv
<1>7. \A i \in 1..a + c : i \in 1..a \/ \E n \in 1..c : i = a + n
  <2> SUFFICES ASSUME NEW i \in 1..a + c, i \notin 1..a PROVE \E n \in 1..c : i = a + n
    OBVIOUS
  <2>1. i - a \in 1..c /\ i = a + (i - a)
    OBVIOUS
  <2> QED BY <2>1
<1>8. \A n \in 1..c : next[a + n] = SieEntry(vouchers, Nth(S, n)) /\ Nth(S, n) \in S
  BY <1>4, <1>6
<1>9. \A i \in 1..a + c : Booked(next[i])
  <2>1. \A p \in S : Booked(SieEntry(vouchers, p))
    <3>1. \A p \in S : Importable(vouchers[p]) /\ Len(vouchers[p].transactions) <= MaxSieLines
      <4>1. \A p \in 1..m : Len(vouchers[p].transactions) \in Nat
        BY <1>1, LengthOf DEF ToldOf
      <4>2. \A p \in S : Importable(vouchers[p]) /\ ~(Len(vouchers[p].transactions) > MaxSieLines)
        BY <1>2, <1>3 DEF PlanSieImport, BeyondBounds
      <4> QED BY <1>3, <4>1, <4>2, SieConstants
    <3> QED BY <1>1, <1>3, <3>1, ImportedIsBooked
  <2>2. \A i \in 1..a : Booked(old[i])
    BY DEF SieInv, Places
  <2>3. \A i \in 1..a : Booked(next[i])
    BY <1>6, <2>2
  <2>4. \A n \in 1..c : Booked(next[a + n])
    BY <1>8, <2>1
  <2> QED BY ONLY <1>7, <2>3, <2>4
<1>10. \A p \in S : \A i \in 1..a : AggregateId(vouchers, p) # old[i].id
  <2>1. DOMAIN old = 1..a
    <3>1. old = [i \in 1..a |-> old[i]]
      BY DEF SieInv, ListOf
    <3> QED BY ONLY <3>1
  <2>2. \A p \in S : AggregateId(vouchers, p) \notin KnownIds(old)
    BY DEF NewPlaces
  <2> QED BY <2>1, <2>2 DEF KnownIds
<1>11. \A p \in S : SieEntry(vouchers, p).id = AggregateId(vouchers, p)
  BY DEF SieEntry
<1>12. \A i, j \in 1..a + c : next[i].id = next[j].id => i = j
  <2> SUFFICES ASSUME NEW i \in 1..a + c, NEW j \in 1..a + c, next[i].id = next[j].id
               PROVE  i = j
    OBVIOUS
  <2>1. CASE i \in 1..a /\ j \in 1..a
    BY <1>6, <2>1 DEF SieInv, Places
  <2>2. \A k \in 1..a : \A n \in 1..c : next[k].id # next[a + n].id
    BY <1>6, <1>8, <1>10, <1>11
  <2>3. CASE i \in 1..a /\ j \notin 1..a
    <3>1. PICK n \in 1..c : j = a + n
      BY <1>7, <2>3
    <3> QED BY <2>2, <2>3, <3>1
  <2>4. CASE i \notin 1..a /\ j \in 1..a
    <3>1. PICK n \in 1..c : i = a + n
      BY <1>7, <2>4
    <3> QED BY <2>2, <2>4, <3>1
  <2>5. CASE i \notin 1..a /\ j \notin 1..a
    <3>1. PICK n \in 1..c : i = a + n
      BY <1>7, <2>5
    <3>2. PICK k \in 1..c : j = a + k
      BY <1>7, <2>5
    <3>3. AggregateId(vouchers, Nth(S, n)) = AggregateId(vouchers, Nth(S, k))
      BY <1>8, <1>11, <3>1, <3>2
    <3>4. Nth(S, n) = Nth(S, k)
      BY <1>2, <1>3, <1>8, <3>3, PlannedApart
    <3>5. n = k
      BY <1>4, <3>4
    <3> QED BY <3>1, <3>2, <3>5
  <2> QED BY <2>1, <2>3, <2>4, <2>5
<1>13. NewPlaces(vouchers, next) = {}
  <2> SUFFICES ASSUME NEW p \in NewPlaces(vouchers, next) PROVE FALSE
    OBVIOUS
  <2>1. p \in PlanSieImport(vouchers) /\ AggregateId(vouchers, p) \notin KnownIds(next)
    BY DEF NewPlaces
  <2>2. DOMAIN next = 1..a + c
    <3>1. next = [i \in 1..a + c |-> next[i]]
      BY <1>6 DEF ListOf
    <3> QED BY ONLY <3>1
  <2>3. \A i \in 1..a + c : AggregateId(vouchers, p) # next[i].id
    BY <2>1, <2>2 DEF KnownIds
  <2>4. p \notin S
    <3> SUFFICES ASSUME p \in S PROVE FALSE
      OBVIOUS
    <3>1. PICK n \in 1..c : Nth(S, n) = p
      BY <1>4
    <3>2. a + n \in 1..a + c
      OBVIOUS
    <3> QED BY <1>8, <1>11, <2>3, <3>1, <3>2
  <2>5. AggregateId(vouchers, p) \in KnownIds(old)
    BY <2>1, <2>4 DEF NewPlaces
  <2>6. DOMAIN old = 1..a
    <3>1. old = [i \in 1..a |-> old[i]]
      BY DEF SieInv, ListOf
    <3> QED BY ONLY <3>1
  <2>7. PICK i \in 1..a : AggregateId(vouchers, p) = old[i].id
    BY <2>5, <2>6 DEF KnownIds
  <2>8. i \in 1..a + c
    OBVIOUS
  <2> QED BY <1>6, <2>3, <2>7, <2>8
<1>14. a + c \in Nat
  OBVIOUS
<1>15. EndOfFile(parser') = vouchers
  BY <1>5
<1>18. Len(journal') = a + c /\ ListOf(journal', Len(journal')) /\ Len(journal') \in Nat
  BY <1>5, <1>6, <1>14
<1>19. /\ \A i \in 1..Len(journal') : Booked(journal'[i])
       /\ \A i, j \in 1..Len(journal') : journal'[i].id = journal'[j].id => i = j
  BY <1>5, <1>9, <1>12, <1>18
<1>20. text' \in Seq(Lines) /\ Reading(text', parser')
  BY <1>5 DEF SieInv
<1>21. NewPlaces(EndOfFile(parser'), journal') = {}
  BY <1>5, <1>13, <1>15
<1>22. Cardinality(NotBooked(vouchers, next)) <= m - c
  <2>1. \A p \in S : p \notin NotBooked(vouchers, next)
    <3> SUFFICES ASSUME NEW p \in S PROVE p \notin NotBooked(vouchers, next)
      OBVIOUS
    <3>1. Importable(vouchers[p])
      BY <1>3 DEF PlanSieImport
    <3>2. PICK n \in 1..c : Nth(S, n) = p
      BY <1>4
    <3>3. a + n \in DOMAIN next /\ next[a + n] = SieEntry(vouchers, p)
      BY <1>6, <1>8, <3>2, LengthOf
    <3> QED BY <3>1, <3>3 DEF NotBooked
  <2>2. NotBooked(vouchers, next) \in SUBSET ((1..m) \ S)
    BY <1>2, <2>1 DEF NotBooked
  <2>3. IsFiniteSet(1..m) /\ Cardinality(1..m) = m
    BY ONLY m \in Nat, FS_Interval
  <2>4. IsFiniteSet((1..m) \ S) /\ Cardinality((1..m) \ S) = m - Cardinality((1..m) \cap S)
    BY <2>3, FS_Difference
  <2>5. (1..m) \cap S = S
    BY <1>3
  <2>6. Cardinality((1..m) \ S) = m - c
    <3>1. c = Cardinality(S)
      BY <1>4
    <3>2. Cardinality((1..m) \cap S) = c
      BY ONLY <2>5, <3>1
    <3> QED BY ONLY <2>4, <3>2
  <2> QED BY <2>2, <2>4, <2>6, FS_Subset
<1>23. LossesAreTold'
  <2> PICK told : told = [imported |-> c, skipped |-> m - c]
    OBVIOUS
  <2>1. Len(new) = c /\ Len(vouchers) = m
    BY <1>1, <1>4, LengthOf
  <2>2. answer' = <<told>>
    BY <2>1 DEF ImportTheFile, NewEntries
  <2>3. answer'[1].skipped = m - c
    BY <2>2
  <2> QED BY <1>5, <1>15, <1>22, <2>3 DEF LossesAreTold
<1> QED BY <1>18, <1>19, <1>20, <1>21, <1>23 DEF SieInv, Places

\* The invariant holds before a file is read.
LEMMA SieStart == SieInit => SieInv
<1> SUFFICES ASSUME SieInit PROVE SieInv
  OBVIOUS
<1>1. text = <<>> /\ parser = StartOfFile /\ answer = <<>> /\ journal = <<>>
  BY DEF SieInit
<1>2. <<>> \in Seq(Lines) /\ Len(<<>>) = 0
  OBVIOUS
<1>3. VersIn(<<>>) = {}
  BY <1>2 DEF VersIn
<1>4. ListOf(<<>>, 0)
  BY DEF ListOf
<1> QED BY <1>1, <1>2, <1>3, <1>4 DEF SieInv, Reading, Places, LossesAreTold

\* Every step of the parser and of the import preserves the invariant.
LEMMA SieStep == SieInv /\ [SieNext]_sieVars => SieInv'
<1> SUFFICES ASSUME SieInv, [SieNext]_sieVars PROVE SieInv'
  OBVIOUS
<1>1. ASSUME NEW line \in Lines, ReadNextLine(line)
      PROVE  SieInv'
  <2>1. text' = Append(text, line) /\ parser' = ReadLine(parser, line)
        /\ answer = <<>> /\ UNCHANGED <<answer, journal>>
    BY <1>1 DEF ReadNextLine
  <2>2. text \in Seq(Lines) /\ Reading(text, parser)
    BY DEF SieInv
  <2>3. Append(text, line) \in Seq(Lines)
    BY <2>2, AppendProperties
  <2>4. Reading(Append(text, line), ReadLine(parser, line))
    BY <2>2, ReadingGoesOn
  <2> QED BY <2>1, <2>3, <2>4 DEF SieInv, Places, LossesAreTold
<1>2. CASE ImportTheFile
  BY <1>2, ImportStep
<1>3. CASE RefuseTheFile
  <2>1. answer' = <<Refused>> /\ UNCHANGED <<text, parser, journal>>
    BY <1>3 DEF RefuseTheFile
  <2>2. BeyondBounds(EndOfFile(parser))
    BY <1>3 DEF RefuseTheFile
  <2>3. NewPlaces(EndOfFile(parser), journal) = {}
    BY <2>2 DEF NewPlaces, PlanSieImport
  <2> QED BY <2>1, <2>3 DEF SieInv, Places, LossesAreTold
<1>4. CASE ChooseAnotherFile
  <2>1. text' = <<>> /\ parser' = StartOfFile /\ answer' = <<>> /\ UNCHANGED journal
    BY <1>4 DEF ChooseAnotherFile
  <2>2. <<>> \in Seq(Lines) /\ VersIn(<<>>) = {}
    BY DEF VersIn
  <2> QED BY <2>1, <2>2 DEF SieInv, Reading, Places, LossesAreTold
<1>5. CASE UNCHANGED sieVars
  BY <1>5 DEF SieInv, Places, sieVars, LossesAreTold
<1> QED BY <1>1, <1>2, <1>3, <1>4, <1>5 DEF SieNext

-----------------------------------------------------------------------------
(* What comes back from an export.                                         *)

\* f tells the parser's states over the first n lines, from p on.
ReadUpTo(p, lines, f, n) ==
  f = [k \in 0..n |-> IF k = 0 THEN p ELSE ReadLine(f[k - 1], lines[k])]

\* The parser comes from p to q over the n lines.
Reads(p, lines, n, q) == \E f : ReadUpTo(p, lines, f, n) /\ q = f[n]

\* No lines leave the parser where it is.
LEMMA ReadsNothing ==
  ASSUME NEW p, NEW lines
  PROVE  Reads(p, lines, 0, p)
<1> PICK f : f = [k \in 0..0 |-> p]
  OBVIOUS
<1>1. \A k \in 0..0 : f[k] = IF k = 0 THEN p ELSE ReadLine(f[k - 1], lines[k])
  OBVIOUS
<1>2. ReadUpTo(p, lines, f, 0) /\ p = f[0]
  BY <1>1 DEF ReadUpTo
<1> QED BY <1>2 DEF Reads

\* One line is one step of the parser.
LEMMA ReadsOne ==
  ASSUME NEW p, NEW x, NEW q, q = ReadLine(p, x)
  PROVE  ListOf(<<x>>, 1) /\ Reads(p, <<x>>, 1, q)
<1> PICK lines : lines = <<x>>
  OBVIOUS
<1> PICK f : f = [k \in 0..1 |-> IF k = 0 THEN p ELSE q]
  OBVIOUS
<1>1. f[0] = p /\ f[1] = q /\ lines[1] = x
  OBVIOUS
<1>2. \A k \in 0..1 : f[k] = IF k = 0 THEN p ELSE ReadLine(f[k - 1], lines[k])
  <2> SUFFICES ASSUME NEW k \in 0..1
               PROVE  f[k] = IF k = 0 THEN p ELSE ReadLine(f[k - 1], lines[k])
    OBVIOUS
  <2>1. CASE k = 0
    BY <1>1, <2>1
  <2>2. CASE k = 1
    <3>1. k - 1 = 0 /\ k # 0
      BY <2>2
    <3> QED BY <1>1, <2>2, <3>1
  <2> QED BY <2>1, <2>2
<1>3. ReadUpTo(p, lines, f, 1)
  BY <1>2 DEF ReadUpTo
<1>4. ListOf(lines, 1)
  BY DEF ListOf
<1> QED BY <1>1, <1>3, <1>4 DEF Reads

\* Lines behind lines.
LEMMA ReadsOn ==
  ASSUME NEW a \in Nat, NEW b \in Nat, NEW s, NEW w, NEW p, NEW q, NEW r,
         ListOf(s, a), ListOf(w, b), Reads(p, s, a, q), Reads(q, w, b, r)
  PROVE  ListOf(s \o w, a + b) /\ Reads(p, s \o w, a + b, r)
<1> PICK lines : lines = s \o w
  OBVIOUS
<1>1. /\ ListOf(lines, a + b)
      /\ \A i \in 1..a : lines[i] = s[i]
      /\ \A i \in 1..b : lines[a + i] = w[i]
  BY ListsJoined
<1>2. PICK f : ReadUpTo(p, s, f, a) /\ q = f[a]
  BY DEF Reads
<1>3. PICK g : ReadUpTo(q, w, g, b) /\ r = g[b]
  BY DEF Reads
<1>4. /\ \A k \in 0..a : f[k] = IF k = 0 THEN p ELSE ReadLine(f[k - 1], s[k])
      /\ \A k \in 0..b : g[k] = IF k = 0 THEN q ELSE ReadLine(g[k - 1], w[k])
  BY <1>2, <1>3 DEF ReadUpTo
<1> PICK h : h = [k \in 0..a + b |-> IF k <= a THEN f[k] ELSE g[k - a]]
  OBVIOUS
<1>5. \A k \in 0..a : h[k] = f[k]
  OBVIOUS
<1>6. \A k \in 0..b : h[a + k] = g[k]
  <2> SUFFICES ASSUME NEW k \in 0..b PROVE h[a + k] = g[k]
    OBVIOUS
  <2>1. a + k \in 0..a + b /\ (a + k) - a = k
    OBVIOUS
  <2>2. CASE k = 0
    <3>1. 0 \in 0..b /\ a \in 0..a /\ a + k = a
      BY <2>2
    <3>2. g[0] = q
      BY <1>4, <3>1
    <3> QED BY <1>2, <1>5, <2>2, <3>1, <3>2
  <2>3. CASE k # 0
    <3>1. ~(a + k <= a)
      BY <2>3
    <3> QED BY <2>1, <3>1
  <2> QED BY <2>2, <2>3
<1>7. ASSUME NEW k \in 0..a + b
      PROVE  h[k] = IF k = 0 THEN p ELSE ReadLine(h[k - 1], lines[k])
  <2>1. CASE k = 0
    <3>1. 0 \in 0..a
      OBVIOUS
    <3> QED BY <1>4, <1>5, <2>1, <3>1
  <2>2. CASE k # 0 /\ k <= a
    <3>1. k \in 1..a /\ k \in 0..a /\ k - 1 \in 0..a
      BY <2>2
    <3>2. f[k] = ReadLine(f[k - 1], s[k])
      BY <1>4, <2>2, <3>1
    <3> QED BY <1>1, <1>5, <2>2, <3>1, <3>2
  <2>3. CASE ~(k <= a)
    <3> PICK i \in 1..b : k = a + i
      <4>1. k - a \in 1..b /\ k = a + (k - a)
        BY <2>3
      <4> QED BY <4>1
    <3>1. i \in 0..b /\ i - 1 \in 0..b /\ i # 0 /\ k # 0 /\ k - 1 = a + (i - 1)
      OBVIOUS
    <3>2. g[i] = ReadLine(g[i - 1], w[i])
      BY <1>4, <3>1
    <3>3. h[k] = g[i] /\ h[k - 1] = g[i - 1] /\ lines[k] = w[i]
      BY <1>1, <1>6, <3>1
    <3> QED BY <3>1, <3>2, <3>3
  <2> QED BY <2>1, <2>2, <2>3
<1>8. ReadUpTo(p, lines, h, a + b)
  BY <1>7 DEF ReadUpTo
<1>9. r = h[a + b]
  <2>1. b \in 0..b
    OBVIOUS
  <2> QED BY <1>3, <1>6, <2>1
<1> QED BY <1>1, <1>8, <1>9 DEF Reads

\* The lines decide where the parser comes.
LEMMA ReadsOneWay ==
  ASSUME NEW p, NEW lines, NEW n \in Nat, NEW f, NEW g,
         ReadUpTo(p, lines, f, n), ReadUpTo(p, lines, g, n)
  PROVE  f[n] = g[n]
<1>1. /\ \A k \in 0..n : f[k] = IF k = 0 THEN p ELSE ReadLine(f[k - 1], lines[k])
      /\ \A k \in 0..n : g[k] = IF k = 0 THEN p ELSE ReadLine(g[k - 1], lines[k])
  BY DEF ReadUpTo
<1> DEFINE T == {k \in 0..n : f[k] # g[k]}
<1> SUFFICES ASSUME n \in T PROVE FALSE
  OBVIOUS
<1>2. T \in SUBSET Nat /\ T # {}
  OBVIOUS
<1> HIDE DEF T
<1>3. PICK k \in T : \A j \in T : k <= j
  BY <1>2, LeastNumber
<1>4. k \in 0..n /\ f[k] # g[k]
  BY <1>3 DEF T
<1>5. k # 0
  BY <1>1, <1>4
<1>6. k - 1 \in 0..n /\ k - 1 \notin T
  BY <1>2, <1>3, <1>4, <1>5
<1>7. f[k - 1] = g[k - 1]
  BY <1>6 DEF T
<1> QED BY <1>1, <1>4, <1>5, <1>7

\* A file is parsed by reading it from its start to its end.
LEMMA ParsedIs ==
  ASSUME NEW lines, NEW n \in Nat, n = Len(lines), NEW q, Reads(StartOfFile, lines, n, q)
  PROVE  ParseSie(lines) = EndOfFile(q)
<1>1. PICK f : ReadUpTo(StartOfFile, lines, f, n) /\ q = f[n]
  BY DEF Reads
<1> PICK g : g = CHOOSE h : ReadUpTo(StartOfFile, lines, h, n)
  OBVIOUS
<1>2. ReadUpTo(StartOfFile, lines, g, n)
  BY <1>1
<1>3. g[n] = q
  BY <1>1, <1>2, ReadsOneWay
<1>4. ParseSie(lines) = EndOfFile(g[n])
  BY DEF ParseSie, ReadUpTo
<1> QED BY <1>3, <1>4

\* The transactions of an exported entry.
AmountOf(line) == 10 * (line.debit - line.credit)

ReadBackLine(line) == [account |-> line.account, amount |-> AmountOf(line)]

ReadBackLines(entry, n) == [i \in 1..n |-> ReadBackLine(entry.lines[i])]

\* The voucher that an exported entry comes back as.
ReadBack(number, entry, n) ==
  [number |-> number, day |-> entry.day, transactions |-> ReadBackLines(entry, n)]

UnderWay(voucher, before) == [pending |-> <<voucher>>, inBlock |-> TRUE, vouchers |-> before]

Done(vouchers) == [pending |-> <<>>, inBlock |-> FALSE, vouchers |-> vouchers]

\* Another voucher under construction.
LEMMA PendingReplaced ==
  ASSUME NEW a, NEW b, NEW c, NEW d
  PROVE  [[pending |-> a, inBlock |-> b, vouchers |-> c] EXCEPT !.pending = d] =
           [pending |-> d, inBlock |-> b, vouchers |-> c]
OBVIOUS

\* Two lines, one behind the other.
LEMMA TwoLines ==
  ASSUME NEW a, NEW b
  PROVE  <<a>> \o <<b>> = <<a, b>>
<1> PICK s, w, r : s = <<a>> /\ w = <<b>> /\ r = <<a, b>>
  OBVIOUS
<1>1. s \in Seq({a, b}) /\ w \in Seq({a, b}) /\ r \in Seq({a, b})
  OBVIOUS
<1>2. Len(s) = 1 /\ s[1] = a /\ Len(w) = 1 /\ w[1] = b /\ Len(r) = 2 /\ r[1] = a /\ r[2] = b
  OBVIOUS
<1>3. /\ s \o w \in Seq({a, b}) /\ Len(s \o w) = 2
      /\ (s \o w)[1] = a /\ (s \o w)[2] = b
  BY <1>1, <1>2, ConcatProperties
<1>4. \A i \in 1..2 : i = 1 \/ i = 2
  OBVIOUS
<1> PICK c : c = s \o w
  OBVIOUS
<1>5. c = r
  BY <1>1, <1>2, <1>3, <1>4, SeqEqual
<1> QED BY <1>5

\* The lines of an exported entry.
LEMMA LinesComeBack ==
  ASSUME NEW entry, NEW n \in Nat, ListOf(entry.lines, n), NEW number, NEW before
  PROVE  /\ ListOf(ExportedLines(entry), n)
         /\ Reads(UnderWay(ReadBack(number, entry, 0), before), ExportedLines(entry), n,
                  UnderWay(ReadBack(number, entry, n), before))
<1> PICK list : list = ExportedLines(entry)
  OBVIOUS
<1>1. DOMAIN entry.lines = 1..n
  <2> PICK l : l = entry.lines
    OBVIOUS
  <2>1. l = [i \in 1..n |-> l[i]]
    BY DEF ListOf
  <2>2. DOMAIN l = 1..n
    BY ONLY <2>1
  <2> QED BY <2>2
<1>2. list = [i \in 1..n |-> [kind |-> "trans", account |-> entry.lines[i].account,
                               amount |-> 10 * (entry.lines[i].debit - entry.lines[i].credit)]]
  BY <1>1 DEF ExportedLines
<1>3. ListOf(list, n)
  BY ONLY <1>2 DEF ListOf
<1>4. \A i \in 1..n : list[i].kind = "trans" /\ Transaction(list[i]) = ReadBackLine(entry.lines[i])
  <2> SUFFICES ASSUME NEW i \in 1..n
               PROVE  list[i].kind = "trans" /\ Transaction(list[i]) = ReadBackLine(entry.lines[i])
    OBVIOUS
  <2> PICK account, amount :
        account = entry.lines[i].account /\ amount = 10 * (entry.lines[i].debit - entry.lines[i].credit)
    OBVIOUS
  <2>1. list[i] = [kind |-> "trans", account |-> account, amount |-> amount]
    BY <1>2
  <2>2. ReadBackLine(entry.lines[i]) = [account |-> account, amount |-> amount]
    BY DEF ReadBackLine, AmountOf
  <2> QED BY <2>1, <2>2 DEF Transaction
<1> DEFINE State(k) == UnderWay(ReadBack(number, entry, k), before)
<1> PICK f : f = [k \in 0..n |-> State(k)]
  OBVIOUS
<1>5. ASSUME NEW k \in 1..n
      PROVE  State(k) = ReadLine(State(k - 1), list[k])
  <2> PICK shorter : shorter = ReadBackLines(entry, k - 1)
    OBVIOUS
  <2> PICK longer : longer = ReadBackLines(entry, k)
    OBVIOUS
  <2> PICK x : x = list[k]
    OBVIOUS
  <2>1. shorter = [i \in 1..k - 1 |-> ReadBackLine(entry.lines[i])]
    BY DEF ReadBackLines
  <2>2. longer = [i \in 1..k |-> ReadBackLine(entry.lines[i])]
    BY DEF ReadBackLines
  <2>3. k - 1 \in Nat /\ k = (k - 1) + 1
    OBVIOUS
  <2>4. ListOf(shorter, k - 1)
    BY ONLY <2>1 DEF ListOf
  <2>5. ListOf(longer, k)
    BY ONLY <2>2 DEF ListOf
  <2>6. Agree(shorter, longer, k - 1)
    <3>1. \A i \in 1..k - 1 : i \in 1..k
      OBVIOUS
    <3> QED BY ONLY <2>1, <2>2, <3>1 DEF Agree
  <2> PICK j \in Nat : j = k - 1
    BY <2>3
  <2>7. longer = Append(shorter, longer[j + 1])
    <3>1. ListOf(shorter, j) /\ ListOf(longer, j + 1) /\ Agree(shorter, longer, j)
      BY <2>3, <2>4, <2>5, <2>6
    <3> QED BY ONLY <3>1, j \in Nat, OneMoreElement
  <2>8. longer[j + 1] = Transaction(x)
    <3>1. j + 1 = k /\ k \in 1..k
      OBVIOUS
    <3>2. longer[k] = ReadBackLine(entry.lines[k])
      BY ONLY <2>2, <3>1
    <3> QED BY <1>4, <3>1, <3>2
  <2>9. longer = Append(shorter, Transaction(x))
    BY ONLY <2>7, <2>8
  <2> PICK v : v = ReadBack(number, entry, k - 1)
    OBVIOUS
  <2> PICK w : w = ReadBack(number, entry, k)
    OBVIOUS
  <2> PICK day : day = entry.day
    OBVIOUS
  <2>10. v = [number |-> number, day |-> day, transactions |-> shorter]
    BY DEF ReadBack
  <2>11. w = [number |-> number, day |-> day, transactions |-> longer]
    BY DEF ReadBack
  <2>12. WithTransaction([number |-> number, day |-> day, transactions |-> shorter], x) =
           [number |-> number, day |-> day, transactions |-> Append(shorter, Transaction(x))]
    BY TransactionAdded
  <2>13. WithTransaction(v, x) = w
    BY ONLY <2>9, <2>10, <2>11, <2>12
  <2> PICK p : p = State(k - 1)
    OBVIOUS
  <2>14. p = [pending |-> <<v>>, inBlock |-> TRUE, vouchers |-> before]
    BY DEF UnderWay
  <2>15. ReadLine(p, x) = ReadTrans(p, x)
    BY <1>4 DEF ReadLine
  <2>20. p.inBlock /\ p.pending = <<v>>
    <3> HIDE DEF State
    <3> QED BY <2>14
  <2>21. <<v>> # <<>> /\ <<v>>[1] = v
    OBVIOUS
  <2>16. p.inBlock /\ p.pending # <<>> /\ p.pending[1] = v
    BY ONLY <2>20, <2>21
  <2>17. ReadTrans(p, x) = [p EXCEPT !.pending = <<WithTransaction(p.pending[1], x)>>]
    BY <2>16 DEF ReadTrans
  <2>18. ReadTrans(p, x) = [p EXCEPT !.pending = <<w>>]
    BY ONLY <2>13, <2>16, <2>17
  <2>19. [p EXCEPT !.pending = <<w>>] = [pending |-> <<w>>, inBlock |-> TRUE, vouchers |-> before]
    <3> PICK one, other, yes : one = <<w>> /\ other = <<v>> /\ yes = TRUE
      OBVIOUS
    <3>1. [[pending |-> other, inBlock |-> yes, vouchers |-> before] EXCEPT !.pending = one] =
            [pending |-> one, inBlock |-> yes, vouchers |-> before]
      BY ONLY PendingReplaced
    <3>2. p = [pending |-> other, inBlock |-> yes, vouchers |-> before]
      BY Zenon, <2>14
    <3>3. [p EXCEPT !.pending = one] = [pending |-> one, inBlock |-> yes, vouchers |-> before]
      BY ONLY <3>1, <3>2
    <3> QED BY Zenon, <3>3
  <2> QED BY <2>15, <2>18, <2>19 DEF UnderWay
<1> HIDE DEF State
<1>6. \A k \in 0..n : f[k] = IF k = 0 THEN State(0) ELSE ReadLine(f[k - 1], list[k])
  <2> SUFFICES ASSUME NEW k \in 0..n
               PROVE  f[k] = IF k = 0 THEN State(0) ELSE ReadLine(f[k - 1], list[k])
    OBVIOUS
  <2>1. CASE k = 0
    BY <2>1
  <2>2. CASE k # 0
    <3>1. k \in 1..n /\ k - 1 \in 0..n
      BY <2>2
    <3>2. f[k - 1] = State(k - 1) /\ f[k] = State(k)
      BY <3>1
    <3> QED BY <1>5, <2>2, <3>1, <3>2
  <2> QED BY <2>1, <2>2
<1>7. f = [k \in 0..n |-> IF k = 0 THEN State(0) ELSE ReadLine(f[k - 1], list[k])]
  BY <1>6
<1>8. ReadUpTo(State(0), list, f, n) /\ State(n) = f[n]
  BY <1>7 DEF ReadUpTo
<1>9. Reads(State(0), list, n, State(n))
  BY <1>8 DEF Reads
<1> QED BY <1>3, <1>9 DEF State

\* An exported entry comes back as a voucher behind the others.
LEMMA EntryComesBack ==
  ASSUME NEW entry, NEW n \in Nat, ListOf(entry.lines, n), NEW number, NEW before
  PROVE  \E c \in Nat :
           /\ ListOf(ExportedVoucher(number, entry), c)
           /\ Reads(Done(before), ExportedVoucher(number, entry), c,
                    Done(before \o <<ReadBack(number, entry, n)>>))
<1>0. /\ 1 \in Nat /\ 2 \in Nat /\ 1 + 1 = 2
      /\ 2 + n \in Nat /\ (2 + n) + 1 \in Nat
  OBVIOUS
<1>14. \A a, b : <<a>> \o <<b>> = <<a, b>>
  BY TwoLines
<1> PICK ver, brace, closing :
      /\ ver = [kind |-> "ver", number |-> number, day |-> entry.day, opens |-> FALSE]
      /\ brace = Mark("{") /\ closing = Mark("}")
  OBVIOUS
<1> PICK v0, v : v0 = ReadBack(number, entry, 0) /\ v = ReadBack(number, entry, n)
  OBVIOUS
<1> PICK started : started = [pending |-> <<v0>>, inBlock |-> FALSE, vouchers |-> before]
  OBVIOUS
<1>1. ReadLine(Done(before), ver) = started
  <2>1. v0 = [number |-> number, day |-> entry.day, transactions |-> <<>>]
    <3>1. ReadBackLines(entry, 0) = <<>>
      BY EmptyList DEF ReadBackLines, ListOf
    <3> QED BY <3>1 DEF ReadBack
  <2>2. ReadLine(Done(before), ver) = ReadVer(Done(before), ver)
    BY DEF ReadLine
  <2>3. Interrupt(Done(before)).vouchers = before
    BY DEF Interrupt, Done
  <2> QED BY <2>1, <2>2, <2>3 DEF ReadVer
<1>2. ReadLine(started, brace) = UnderWay(v0, before)
  <2>1. brace.kind = "{"
    BY DEF Mark
  <2>2. started.pending # <<>>
    OBVIOUS
  <2>3. ReadLine(started, brace) = [started EXCEPT !.inBlock = TRUE]
    BY <2>1, <2>2 DEF ReadLine
  <2> QED BY <2>3 DEF UnderWay
<1>3. ReadLine(UnderWay(v, before), closing) = Done(before \o <<v>>)
  <2>1. closing.kind = "}"
    BY DEF Mark
  <2> PICK p : p = UnderWay(v, before)
    OBVIOUS
  <2>2. p.inBlock /\ p.pending = <<v>> /\ p.vouchers = before
    BY DEF UnderWay
  <2>3. ReadLine(p, closing) = CommitBlock(p)
    BY <2>1, <2>2 DEF ReadLine
  <2> QED BY <2>2, <2>3 DEF CommitBlock, Done
<1> PICK list : list = ExportedLines(entry)
  OBVIOUS
<1>4. ListOf(list, n) /\ Reads(UnderWay(v0, before), list, n, UnderWay(v, before))
  BY LinesComeBack
<1>5. ListOf(<<ver>>, 1) /\ Reads(Done(before), <<ver>>, 1, started)
  BY <1>1, ReadsOne
<1>6. ListOf(<<brace>>, 1) /\ Reads(started, <<brace>>, 1, UnderWay(v0, before))
  BY <1>2, ReadsOne
<1>7. ListOf(<<closing>>, 1) /\ Reads(UnderWay(v, before), <<closing>>, 1, Done(before \o <<v>>))
  BY <1>3, ReadsOne
<1>8. ListOf(<<ver>> \o <<brace>>, 2) /\ Reads(Done(before), <<ver>> \o <<brace>>, 2, UnderWay(v0, before))
  <2>1. 1 \in Nat /\ 1 + 1 = 2
    BY <1>0
  <2>2. ListOf(<<ver>> \o <<brace>>, 1 + 1) /\ Reads(Done(before), <<ver>> \o <<brace>>, 1 + 1, UnderWay(v0, before))
    BY <1>5, <1>6, <2>1, ReadsOn
  <2> QED BY <2>1, <2>2
<1>9. <<ver>> \o <<brace>> = <<ver, brace>>
  BY ONLY <1>14
<1>10. ListOf(<<ver, brace>> \o list, 2 + n)
       /\ Reads(Done(before), <<ver, brace>> \o list, 2 + n, UnderWay(v, before))
  <2>1. 2 \in Nat
    BY <1>0
  <2> QED BY <1>4, <1>8, <1>9, <2>1, ReadsOn
<1>11. ListOf((<<ver, brace>> \o list) \o <<closing>>, (2 + n) + 1)
       /\ Reads(Done(before), (<<ver, brace>> \o list) \o <<closing>>, (2 + n) + 1, Done(before \o <<v>>))
  <2>1. 2 + n \in Nat /\ 1 \in Nat
    BY <1>0
  <2> QED BY <1>7, <1>10, <2>1, ReadsOn
<1>12. ExportedVoucher(number, entry) = (<<ver, brace>> \o list) \o <<closing>>
  BY DEF ExportedVoucher
<1>13. (2 + n) + 1 \in Nat
  BY <1>0
<1> QED BY <1>11, <1>12, <1>13

\* f tells the lines of the first n vouchers of an export.
WrittenUpTo(book, f, n) ==
  f = [k \in 0..n |-> IF k = 0 THEN <<>> ELSE f[k - 1] \o ExportedVoucher(k, book[k])]

\* There are exports of every beginning of a journal.
LEMMA WrittenExist ==
  ASSUME NEW book, NEW last \in Nat
  PROVE  \E f : WrittenUpTo(book, f, last)
<1> DEFINE T == {n \in 0..last : ~\E f : WrittenUpTo(book, f, n)}
<1> SUFFICES ASSUME last \in T PROVE FALSE
  OBVIOUS
<1>1. T \in SUBSET Nat /\ T # {}
  OBVIOUS
<1> HIDE DEF T
<1>2. PICK n \in T : \A k \in T : n <= k
  BY <1>1, LeastNumber
<1>3. n \in 0..last /\ ~\E f : WrittenUpTo(book, f, n)
  BY <1>2 DEF T
<1>4. n # 0
  <2> PICK f : f = [k \in 0..0 |-> <<>>]
    OBVIOUS
  <2>1. WrittenUpTo(book, f, 0)
    BY DEF WrittenUpTo
  <2> QED BY <1>3, <2>1
<1>5. n - 1 \in 0..last /\ n - 1 \notin T
  BY <1>1, <1>2, <1>3, <1>4
<1>6. PICK f : WrittenUpTo(book, f, n - 1)
  BY <1>5 DEF T
<1> PICK more : more = f[n - 1] \o ExportedVoucher(n, book[n])
  OBVIOUS
<1> PICK g : g = [k \in 0..n |-> IF k = n THEN more ELSE f[k]]
  OBVIOUS
<1>7. ASSUME NEW k \in 0..n
      PROVE  g[k] = IF k = 0 THEN <<>> ELSE g[k - 1] \o ExportedVoucher(k, book[k])
  <2>1. CASE k = n
    <3>1. g[n] = more /\ g[n - 1] = f[n - 1]
      BY <1>3, <1>4
    <3> QED BY <1>3, <1>4, <2>1, <3>1
  <2>2. CASE k # n
    <3>1. k \in 0..(n - 1) /\ g[k] = f[k]
      BY <1>3, <2>2
    <3>2. f[k] = IF k = 0 THEN <<>> ELSE f[k - 1] \o ExportedVoucher(k, book[k])
      BY <1>6, <3>1 DEF WrittenUpTo
    <3>3. k # 0 => g[k - 1] = f[k - 1]
      BY <1>3, <2>2
    <3> QED BY <3>1, <3>2, <3>3
  <2> QED BY <2>1, <2>2
<1>8. WrittenUpTo(book, g, n)
  BY <1>7 DEF WrittenUpTo
<1> QED BY <1>3, <1>8

\* The export of a journal is the last of those of its beginnings.
LEMMA ExportUnfolds ==
  ASSUME NEW book, Len(book) \in Nat
  PROVE  \E f : WrittenUpTo(book, f, Len(book)) /\ SieExport(book) = f[Len(book)]
<1> PICK f : f = CHOOSE g : WrittenUpTo(book, g, Len(book))
  OBVIOUS
<1>1. WrittenUpTo(book, f, Len(book))
  BY WrittenExist
<1>2. SieExport(book) = f[Len(book)]
  BY DEF SieExport, WrittenUpTo
<1> QED BY <1>1, <1>2

\* The vouchers that the first n entries of a journal come back as.
CameBack(book, n) == [i \in 1..n |-> ReadBack(i, book[i], Len(book[i].lines))]

\* An export is read back voucher by voucher.
LEMMA ExportIsRead ==
  ASSUME NEW n \in Nat, NEW book, Len(book) = n, \A i \in 1..n : Booked(book[i])
  PROVE  ParseSie(SieExport(book)) = CameBack(book, n)
<1>1. PICK f : WrittenUpTo(book, f, n) /\ SieExport(book) = f[n]
  BY ExportUnfolds
<1>2. \A k \in 0..n : f[k] = IF k = 0 THEN <<>> ELSE f[k - 1] \o ExportedVoucher(k, book[k])
  BY <1>1 DEF WrittenUpTo
<1> DEFINE Good(k) == \E c \in Nat : ListOf(f[k], c) /\ Reads(Done(<<>>), f[k], c, Done(CameBack(book, k)))
           T == {k \in 0..n : ~Good(k)}
<1>3. Good(0)
  <2>1. f[0] = <<>>
    BY <1>2
  <2>2. ListOf(<<>>, 0)
    BY DEF ListOf
  <2>3. CameBack(book, 0) = <<>>
    BY EmptyList DEF CameBack, ListOf
  <2>4. Reads(Done(<<>>), <<>>, 0, Done(<<>>))
    BY ReadsNothing
  <2> QED BY <2>1, <2>2, <2>3, <2>4
<1>4. ASSUME NEW k \in 1..n, Good(k - 1)
      PROVE  Good(k)
  <2>1. PICK a \in Nat : ListOf(f[k - 1], a) /\ Reads(Done(<<>>), f[k - 1], a, Done(CameBack(book, k - 1)))
    BY <1>4
  <2> PICK size \in Nat : ListOf(book[k].lines, size)
    BY DEF Booked
  <2>2. Len(book[k].lines) = size
    BY LengthOf
  <2> PICK before : before = CameBack(book, k - 1)
    OBVIOUS
  <2> PICK v : v = ReadBack(k, book[k], size)
    OBVIOUS
  <2>3. PICK b \in Nat : /\ ListOf(ExportedVoucher(k, book[k]), b)
                         /\ Reads(Done(before), ExportedVoucher(k, book[k]), b, Done(before \o <<v>>))
    BY EntryComesBack
  <2>4. before \o <<v>> = CameBack(book, k)
    <3> PICK j \in Nat : j = k - 1
      OBVIOUS
    <3> PICK after : after = CameBack(book, k)
      OBVIOUS
    <3>1. before = [i \in 1..j |-> ReadBack(i, book[i], Len(book[i].lines))]
      BY DEF CameBack
    <3>2. after = [i \in 1..j + 1 |-> ReadBack(i, book[i], Len(book[i].lines))]
      <4>1. j + 1 = k
        OBVIOUS
      <4> QED BY <4>1 DEF CameBack
    <3>3. ListOf(before, j) /\ ListOf(after, j + 1)
      BY ONLY <3>1, <3>2 DEF ListOf
    <3>4. j + 1 \in 1..j + 1 /\ \A i \in 1..j : i \in 1..j + 1
      BY ONLY j \in Nat
    <3>5. Agree(before, after, j)
      BY ONLY <3>1, <3>2, <3>4 DEF Agree
    <3>6. after = before \o <<after[j + 1]>>
      BY ONLY <3>3, <3>5, j \in Nat, OneMoreElement
    <3>7. after[j + 1] = ReadBack(k, book[k], Len(book[k].lines))
      <4>1. j + 1 = k
        OBVIOUS
      <4> QED BY ONLY <3>2, <3>4, <4>1
    <3>8. after[j + 1] = v
      BY <2>2, <3>7
    <3> QED BY <3>6, <3>8
  <2>5. /\ ListOf(f[k - 1] \o ExportedVoucher(k, book[k]), a + b)
        /\ Reads(Done(<<>>), f[k - 1] \o ExportedVoucher(k, book[k]), a + b, Done(before \o <<v>>))
    BY <2>1, <2>3, ReadsOn
  <2>6. f[k] = f[k - 1] \o ExportedVoucher(k, book[k])
    <3>1. k \in 0..n /\ k # 0
      OBVIOUS
    <3> QED BY ONLY <1>2, <3>1
  <2>7. a + b \in Nat
    OBVIOUS
  <2> QED BY <2>4, <2>5, <2>6, <2>7
<1> HIDE DEF Good
<1>5. T = {}
  <2> SUFFICES ASSUME T # {} PROVE FALSE
    OBVIOUS
  <2>1. T \in SUBSET Nat
    OBVIOUS
  <2> HIDE DEF T
  <2>2. PICK k \in T : \A j \in T : k <= j
    BY <2>1, LeastNumber
  <2>3. k \in 0..n /\ ~Good(k)
    BY <2>2 DEF T
  <2>4. k # 0
    BY <1>3, <2>3
  <2>5. k \in 1..n /\ k - 1 \in 0..n /\ k - 1 \notin T
    BY <2>1, <2>2, <2>3, <2>4
  <2>6. Good(k - 1)
    BY <2>5 DEF T
  <2> QED BY <1>4, <2>3, <2>5, <2>6
<1>6. Good(n)
  BY <1>5
<1>7. PICK c \in Nat : ListOf(f[n], c) /\ Reads(Done(<<>>), f[n], c, Done(CameBack(book, n)))
  BY <1>6 DEF Good
<1>8. Done(<<>>) = StartOfFile
  BY DEF Done, StartOfFile
<1>9. Len(f[n]) = c
  BY <1>7, LengthOf
<1>10. ParseSie(f[n]) = EndOfFile(Done(CameBack(book, n)))
  BY <1>7, <1>8, <1>9, ParsedIs
<1>11. EndOfFile(Done(CameBack(book, n))) = CameBack(book, n)
  BY DEF EndOfFile, Interrupt, Done
<1> QED BY <1>1, <1>10, <1>11

\* A side of an exported amount is the side it was.
LEMMA SideComesBack ==
  ASSUME NEW d \in Nat, NEW c \in Nat, d = 0 \/ c = 0
  PROVE  SideOre(10 * (d - c)) = d /\ SideOre(-(10 * (d - c))) = c
BY DEF SideOre

\* A voucher that comes back has the lines it had, and can be imported.
LEMMA ComesBackWhole ==
  ASSUME NEW entry, Booked(entry), NEW number
  PROVE  /\ JournalLines(ReadBack(number, entry, Len(entry.lines))) = entry.lines
         /\ Importable(ReadBack(number, entry, Len(entry.lines)))
         /\ ~(Len(ReadBack(number, entry, Len(entry.lines)).transactions) > MaxSieLines)
<1>1. PICK n \in Nat \ {0} :
        ListOf(entry.lines, n) /\ n <= MaxSieLines /\ \A i \in 1..n : OneSided(entry.lines[i])
  BY DEF Booked
<1> PICK lines : lines = entry.lines
  OBVIOUS
<1> PICK day : day = entry.day
  OBVIOUS
<1>2. Len(lines) = n /\ lines = [i \in 1..n |-> lines[i]]
  BY <1>1, LengthOf DEF ListOf
<1> PICK list : list = ReadBackLines(entry, n)
  OBVIOUS
<1>3. list = [i \in 1..n |-> ReadBackLine(lines[i])]
  BY DEF ReadBackLines
<1> PICK v : v = ReadBack(number, entry, n)
  OBVIOUS
<1>4. v = [number |-> number, day |-> day, transactions |-> list]
  BY DEF ReadBack
<1>5. v.transactions = list /\ v.day = day
  BY ONLY <1>4
<1>6. DOMAIN list = 1..n
  BY ONLY <1>3
<1>7. \A i \in 1..n : /\ list[i] = [account |-> lines[i].account, amount |-> 10 * (lines[i].debit - lines[i].credit)]
                      /\ lines[i].debit \in Nat /\ lines[i].credit \in Nat
                      /\ lines[i].debit = 0 \/ lines[i].credit = 0
  BY <1>1, <1>3 DEF ReadBackLine, AmountOf, OneSided
<1>8. \A i \in 1..n : JournalLine(list[i]) = lines[i]
  <2> SUFFICES ASSUME NEW i \in 1..n PROVE JournalLine(list[i]) = lines[i]
    OBVIOUS
  <2> PICK account : account = lines[i].account
    OBVIOUS
  <2> PICK d \in Nat : d = lines[i].debit
    BY <1>7
  <2> PICK c \in Nat : c = lines[i].credit
    BY <1>7
  <2>1. d = 0 \/ c = 0
    BY <1>7
  <2>2. list[i] = [account |-> account, amount |-> 10 * (d - c)]
    BY <1>7
  <2>3. list[i].account = account /\ list[i].amount = 10 * (d - c)
    BY ONLY <2>2
  <2>4. SideOre(10 * (d - c)) = d /\ SideOre(-(10 * (d - c))) = c
    BY <2>1, SideComesBack
  <2>5. JournalLine(list[i]) = [account |-> account, debit |-> d, credit |-> c]
    BY <2>3, <2>4 DEF JournalLine
  <2>6. lines[i] = [account |-> account, debit |-> d, credit |-> c]
    BY <1>1 DEF OneSided
  <2> QED BY <2>5, <2>6
<1>9. JournalLines(v) = lines
  <2>1. JournalLines(v) = [i \in 1..n |-> JournalLine(list[i])]
    BY <1>5, <1>6 DEF JournalLines
  <2> QED BY ONLY <1>2, <1>8, <2>1
<1>10. RawSum(v) = 0
  <2> PICK a : a = [i \in 1..n |-> lines[i].debit - lines[i].credit]
    OBVIOUS
  <2> PICK b : b = [i \in 1..n |-> list[i].amount]
    OBVIOUS
  <2>8. \A i \in 1..n : lines[i].debit - lines[i].credit \in Int
    <3> SUFFICES ASSUME NEW i \in 1..n PROVE lines[i].debit - lines[i].credit \in Int
      OBVIOUS
    <3>1. lines[i].debit \in Nat /\ lines[i].credit \in Nat
      BY <1>7
    <3> QED BY ONLY <3>1
  <2>1. a \in [1..n -> Int]
    BY <2>8
  <2>2. \A i \in 1..n : list[i].amount = 10 * (lines[i].debit - lines[i].credit)
    <3> SUFFICES ASSUME NEW i \in 1..n
                 PROVE  list[i].amount = 10 * (lines[i].debit - lines[i].credit)
      OBVIOUS
    <3> PICK account, amount : account = lines[i].account /\ amount = 10 * (lines[i].debit - lines[i].credit)
      OBVIOUS
    <3>1. list[i] = [account |-> account, amount |-> amount]
      BY <1>7
    <3> QED BY <3>1
  <2>9. \A i \in 1..n : b[i] = 10 * a[i] /\ b[i] \in Int
    <3> SUFFICES ASSUME NEW i \in 1..n PROVE b[i] = 10 * a[i] /\ b[i] \in Int
      OBVIOUS
    <3>1. b[i] = 10 * (lines[i].debit - lines[i].credit) /\ a[i] = lines[i].debit - lines[i].credit
      BY <2>2
    <3>2. a[i] \in Int
      BY <2>1
    <3> QED BY ONLY <3>1, <3>2
  <2>3. b \in [1..n -> Int] /\ \A i \in 1..n : b[i] = 10 * a[i]
    <3>1. b = [i \in 1..n |-> b[i]]
      OBVIOUS
    <3> QED BY ONLY <3>1, <2>9
  <2>4. Total(b) = 10 * Total(a) /\ Total(a) \in Int
    BY <2>1, <2>3, TotalTenfold
  <2>5. DOMAIN lines = 1..n
    BY ONLY <1>2
  <2>6. Total(a) = 0
    BY <2>5 DEF Booked, LinesImbalance
  <2>7. RawSum(v) = Total(b)
    BY <1>5, <1>6 DEF RawSum
  <2> QED BY <2>4, <2>6, <2>7
<1>11. Balanced(v)
  BY <1>9, <1>10 DEF Balanced, WithinTolerance, Booked
<1>12. NotANumber \notin SieAmounts(v)
  <2>1. \A i \in 1..n : list[i].amount \in Int
    <3> SUFFICES ASSUME NEW i \in 1..n PROVE list[i].amount \in Int
      OBVIOUS
    <3> PICK account, amount : account = lines[i].account /\ amount = 10 * (lines[i].debit - lines[i].credit)
      OBVIOUS
    <3>1. amount \in Int
      BY <1>7
    <3>2. list[i] = [account |-> account, amount |-> amount]
      BY <1>7
    <3> QED BY <3>1, <3>2
  <2> QED BY <1>5, <1>6, <2>1, SieConstants DEF SieAmounts
<1>13. list # <<>>
  <2>1. 1 \in 1..n /\ DOMAIN <<>> = 1..0
    OBVIOUS
  <2> QED BY <1>6, <2>1
<1>14. Importable(v)
  BY <1>5, <1>11, <1>12, <1>13 DEF Importable, Booked
<1>15. ~(Len(v.transactions) > MaxSieLines)
  <2>1. ListOf(list, n)
    BY ONLY <1>3 DEF ListOf
  <2>2. Len(list) = n
    BY <2>1, LengthOf
  <2> QED BY <1>1, <1>5, <2>2, SieConstants
<1> QED BY <1>2, <1>9, <1>14, <1>15

\* An export is within the bounds of an import when it has no more vouchers
\* than a file may have.
LEMMA ExportBounds ==
  ASSUME NEW n \in Nat, NEW book, Len(book) = n, \A i \in 1..n : Booked(book[i]),
         NEW vouchers, vouchers = CameBack(book, n)
  PROVE  BeyondBounds(vouchers) <=> n > MaxSieVouchers
<1>1. vouchers = [i \in 1..n |-> ReadBack(i, book[i], Len(book[i].lines))]
  BY DEF CameBack
<1>2. ListOf(vouchers, n)
  BY ONLY <1>1 DEF ListOf
<1>3. Len(vouchers) = n /\ DOMAIN vouchers = 1..n
  BY <1>2, LengthOf
<1>4. \A i \in 1..n : ~(Len(vouchers[i].transactions) > MaxSieLines)
  BY <1>1, ComesBackWhole
<1> QED BY <1>3, <1>4 DEF BeyondBounds

\* Every voucher of an export within the bounds is planned, under its own number.
LEMMA AllPlanned ==
  ASSUME NEW n \in Nat, NEW book, Len(book) = n, \A i \in 1..n : Booked(book[i]),
         ~(n > MaxSieVouchers),
         NEW vouchers, vouchers = CameBack(book, n)
  PROVE  PlanSieImport(vouchers) = 1..n
<1>1. vouchers = [i \in 1..n |-> ReadBack(i, book[i], Len(book[i].lines))]
  BY DEF CameBack
<1>2. DOMAIN vouchers = 1..n
  BY ONLY <1>1
<1>3. \A i \in 1..n : Importable(vouchers[i])
  BY <1>1, ComesBackWhole
<1>4. \A i \in 1..n : vouchers[i].number = i
  <2> SUFFICES ASSUME NEW i \in 1..n PROVE vouchers[i].number = i
    OBVIOUS
  <2>1. vouchers[i] = ReadBack(i, book[i], Len(book[i].lines))
    BY <1>1
  <2> QED BY <2>1 DEF ReadBack
<1>5. \A i \in 1..n : AggregateId(vouchers, i) = <<"number", i>>
  <2>1. \A i \in 1..n : i # NoNumber
    BY SieConstants
  <2> QED BY <1>4, <2>1 DEF AggregateId
<1>6. \A i \in 1..n : ~Repeats(vouchers, i)
  <2> SUFFICES ASSUME NEW i \in 1..n, NEW j \in 1..i - 1,
                      AggregateId(vouchers, j) = AggregateId(vouchers, i)
               PROVE  FALSE
    BY DEF Repeats
  <2>1. j \in 1..n /\ j # i
    OBVIOUS
  <2>2. <<"number", j>> = <<"number", i>>
    BY <1>5, <2>1
  <2> QED BY <2>1, <2>2
<1>7. ~BeyondBounds(vouchers)
  BY ExportBounds
<1> QED BY <1>2, <1>3, <1>6, <1>7 DEF PlanSieImport

\* What is planned of an export are the entries it was made of.
LEMMA PlannedAgain ==
  ASSUME NEW n \in Nat, NEW book, Len(book) = n, \A i \in 1..n : Booked(book[i]),
         ~(n > MaxSieVouchers)
  PROVE  LET again == PlannedEntries(ParseSie(SieExport(book)))
         IN  /\ Len(again) = n
             /\ \A i \in 1..n : again[i].day = book[i].day /\ again[i].lines = book[i].lines
<1> PICK vouchers : vouchers = CameBack(book, n)
  OBVIOUS
<1>1. ParseSie(SieExport(book)) = vouchers
  BY ExportIsRead
<1>2. PlanSieImport(vouchers) = 1..n
  BY AllPlanned
<1> PICK again : again = PlannedEntries(vouchers)
  OBVIOUS
<1>3. again = [i \in 1..n |-> SieEntry(vouchers, i)]
  <2>1. again = [i \in 1..Cardinality(1..n) |-> SieEntry(vouchers, Nth(1..n, i))]
    BY <1>2 DEF PlannedEntries, EntriesAt
  <2> QED BY <2>1, AllPlaces
<1>4. Len(again) = n
  <2>1. ListOf(again, n)
    BY ONLY <1>3 DEF ListOf
  <2> QED BY <2>1, LengthOf
<1>5. \A i \in 1..n : again[i].day = book[i].day /\ again[i].lines = book[i].lines
  <2> SUFFICES ASSUME NEW i \in 1..n
               PROVE  again[i].day = book[i].day /\ again[i].lines = book[i].lines
    OBVIOUS
  <2> PICK v : v = ReadBack(i, book[i], Len(book[i].lines))
    OBVIOUS
  <2>1. vouchers[i] = v
    BY DEF CameBack
  <2>2. JournalLines(v) = book[i].lines
    BY ComesBackWhole
  <2>3. v.day = book[i].day
    BY DEF ReadBack
  <2>4. again[i] = SieEntry(vouchers, i)
    BY <1>3
  <2>5. SieEntry(vouchers, i).day = v.day /\ SieEntry(vouchers, i).lines = JournalLines(v)
    BY <2>1 DEF SieEntry
  <2> QED BY <2>2, <2>3, <2>4, <2>5
<1> QED BY <1>1, <1>4, <1>5

\* The invariant gives the parts of the property.
LEMMA FilesAreKept == SieInv => FilesSurvive
<1> SUFFICES ASSUME SieInv PROVE FilesSurvive
  OBVIOUS
<1> PICK n \in Nat : n = Len(journal)
  BY DEF SieInv
<1> PICK book : book = journal
  OBVIOUS
<1>1. ListOf(book, n) /\ Len(book) = n
  BY DEF SieInv
<1>2. DOMAIN book = 1..n
  BY <1>1, LengthOf
<1>3. \A i \in 1..n : Booked(book[i])
  BY DEF SieInv, Places
<1>4. ReadAsWritten
  BY ReadingIsAsWritten DEF SieInv, ReadAsWritten
<1>5. ImportedToTheOre
  BY <1>2, <1>3 DEF ImportedToTheOre, Booked
<1>6. SentAgainAddsNothing
  <2>1. Cardinality(KnownIds(book)) = n
    <3> PICK ids : ids = [i \in 1..n |-> book[i].id]
      OBVIOUS
    <3>1. \A i, j \in 1..n : ids[i] = ids[j] => i = j
      BY DEF SieInv, Places
    <3>2. KnownIds(book) = {ids[i] : i \in 1..n}
      BY <1>2 DEF KnownIds
    <3>3. Cardinality({ids[i] : i \in 1..n}) = n
      BY ONLY <3>1, n \in Nat, DifferentValues
    <3> QED BY ONLY <3>2, <3>3
  <2>2. answer # <<>> => NewEntries(EndOfFile(parser), journal) = <<>>
    <3> SUFFICES ASSUME answer # <<>>
                 PROVE  NewEntries(EndOfFile(parser), journal) = <<>>
      OBVIOUS
    <3>1. NewPlaces(EndOfFile(parser), journal) = {}
      BY DEF SieInv
    <3> PICK vouchers : vouchers = EndOfFile(parser)
      OBVIOUS
    <3>2. EntriesAt(vouchers, {}) = <<>>
      BY FS_EmptySet, EmptyList DEF EntriesAt, ListOf
    <3> QED BY <3>1, <3>2 DEF NewEntries
  <2> QED BY <1>1, <2>1, <2>2 DEF SentAgainAddsNothing
<1>7. ExportComesBack
  <2> PICK vouchers : vouchers = ParseSie(SieExport(book))
    OBVIOUS
  <2>1. vouchers = CameBack(book, n)
    BY <1>1, <1>3, ExportIsRead
  <2>2. BeyondBounds(vouchers) <=> n > MaxSieVouchers
    BY <1>1, <1>3, <2>1, ExportBounds
  <2>3. CASE n > MaxSieVouchers
    BY <1>1, <2>2, <2>3 DEF ExportComesBack
  <2>4. CASE ~(n > MaxSieVouchers)
    <3>1. LET again == PlannedEntries(vouchers)
          IN  /\ Len(again) = n
              /\ \A i \in 1..n : again[i].day = book[i].day /\ again[i].lines = book[i].lines
      BY <1>1, <1>3, <2>4, PlannedAgain
    <3> QED BY <1>1, <1>2, <2>2, <2>4, <3>1 DEF ExportComesBack
  <2> QED BY <2>3, <2>4
<1>8. LossesAreTold
  BY DEF SieInv
<1> QED BY <1>4, <1>5, <1>6, <1>7, <1>8 DEF FilesSurvive

\* parseSie makes one voucher of every #VER line with exactly the #TRANS lines
\* of its block, wherever a file is damaged or cut off; what planSieImport and
\* importSie let into the journal, of any number of files, balances to the ore
\* and is there once, and what they do not let in as it is written they report;
\* and buildSieExport, read and planned again, gives every entry back as long as
\* the journal has no more vouchers than planSieImport takes, and is refused
\* whole from there on: for files, journals and bounds of any length and size.
THEOREM FilesKept == SieSpec => []FilesSurvive
<1>1. SieInit => SieInv
  BY SieStart
<1>2. SieInv /\ [SieNext]_sieVars => SieInv'
  BY SieStep
<1>3. SieInv => FilesSurvive
  BY FilesAreKept
<1> QED BY <1>1, <1>2, <1>3, PTL DEF SieSpec

-----------------------------------------------------------------------------
(* Days and months.                                                        *)

\* A month has 28 to 31 days.
LEMMA MonthLengths ==
  ASSUME NEW index \in Int
  PROVE  MonthLength(index) \in 28..31
BY DEF MonthLength, DaysInMonth

\* The parts of a day's number.
LEMMA DayParts ==
  ASSUME NEW y \in Int, NEW m \in 1..12, NEW d \in 1..31
  PROVE  /\ DayNumber(y, m, d) \in Int /\ YearOf(DayNumber(y, m, d)) = y
         /\ MonthOf(DayNumber(y, m, d)) = m /\ DayOf(DayNumber(y, m, d)) = d
<1> PICK x \in Int : x = 10000 * y + 100 * m + d
  OBVIOUS
<1>1. x \div 10000 = y
  OBVIOUS
<1>2. x \div 100 = 100 * y + m
  OBVIOUS
<1>3. (x \div 100) % 100 = m
  BY <1>2
<1>4. x % 100 = d
  OBVIOUS
<1>5. DayNumber(y, m, d) = x
  BY DEF DayNumber
<1> QED BY ONLY <1>1, <1>3, <1>4, <1>5, x \in Int DEF YearOf, MonthOf, DayOf

\* The parts of a month's index.
LEMMA IndexParts ==
  ASSUME NEW index \in Int
  PROVE  /\ index \div 12 \in Int /\ (index % 12) + 1 \in 1..12
         /\ 12 * (index \div 12) + (index % 12) = index
OBVIOUS

\* A day of a month has the index of the month.
LEMMA InMonthParts ==
  ASSUME NEW index \in Int, NEW d \in 1..31
  PROVE  /\ InMonth(index, d) \in Int
         /\ MonthIndex(InMonth(index, d)) = index /\ DayOf(InMonth(index, d)) = d
         /\ YearOf(InMonth(index, d)) = index \div 12
         /\ MonthOf(InMonth(index, d)) = (index % 12) + 1
<1> PICK y \in Int, m \in Int : y = index \div 12 /\ m = (index % 12) + 1
  BY IndexParts
<1>1. m \in 1..12 /\ 12 * y + m - 1 = index
  BY IndexParts
<1>2. InMonth(index, d) = DayNumber(y, m, d)
  BY DEF InMonth
<1>3. /\ YearOf(InMonth(index, d)) = y /\ MonthOf(InMonth(index, d)) = m
      /\ DayOf(InMonth(index, d)) = d /\ InMonth(index, d) \in Int
  <2>1. y \in Int /\ m \in 1..12 /\ d \in 1..31
    BY <1>1
  <2>2. /\ DayNumber(y, m, d) \in Int /\ YearOf(DayNumber(y, m, d)) = y
        /\ MonthOf(DayNumber(y, m, d)) = m /\ DayOf(DayNumber(y, m, d)) = d
    BY ONLY <2>1, DayParts
  <2> QED BY ONLY <1>2, <2>2
<1>4. MonthIndex(InMonth(index, d)) = 12 * y + m - 1
  BY <1>3 DEF MonthIndex
<1> QED BY <1>1, <1>3, <1>4

\* Days are in the order of their months.
LEMMA DaysInOrder ==
  ASSUME NEW i \in Int, NEW j \in Int, NEW d \in 1..31, NEW e \in 1..31
  PROVE  InMonth(i, d) < InMonth(j, e) <=> i < j \/ (i = j /\ d < e)
<1> PICK y \in Int, m \in Int : y = i \div 12 /\ m = i % 12
  BY IndexParts
<1> PICK z \in Int, n \in Int : z = j \div 12 /\ n = j % 12
  BY IndexParts
<1>1. m \in 0..11 /\ n \in 0..11 /\ i = 12 * y + m /\ j = 12 * z + n
  BY IndexParts
<1>2. /\ InMonth(i, d) = 10000 * y + 100 * (m + 1) + d
      /\ InMonth(j, e) = 10000 * z + 100 * (n + 1) + e
  BY DEF InMonth, DayNumber
<1>3. 10000 * y + 100 * (m + 1) + d < 10000 * z + 100 * (n + 1) + e
        <=> 12 * y + m < 12 * z + n \/ (12 * y + m = 12 * z + n /\ d < e)
  BY ONLY <1>1, y \in Int, z \in Int, d \in 1..31, e \in 1..31
<1> QED BY ONLY <1>1, <1>2, <1>3

Real(day) == day \in Int /\ RealDay(day)

\* A real day is one of the days of its month.
LEMMA RealDays ==
  ASSUME NEW day, Real(day)
  PROVE  /\ MonthIndex(day) \in Int /\ DayOf(day) \in 1..MonthLength(MonthIndex(day))
         /\ DayOf(day) \in 1..31 /\ day = InMonth(MonthIndex(day), DayOf(day))
         /\ YearOf(day) = MonthIndex(day) \div 12 /\ MonthOf(day) = (MonthIndex(day) % 12) + 1
<1> PICK y \in Int, m \in Int, d \in Int : y = YearOf(day) /\ m = MonthOf(day) /\ d = DayOf(day)
  BY DEF Real, YearOf, MonthOf, DayOf
<1>1. m \in 1..12 /\ d \in 1..DaysInMonth(y, m)
  BY DEF Real, RealDay
<1>2. DaysInMonth(y, m) \in 28..31
  BY DEF DaysInMonth
<1>3. day = 10000 * y + 100 * m + d
  BY DEF Real, YearOf, MonthOf, DayOf
<1> PICK index \in Int : index = 12 * y + m - 1
  OBVIOUS
<1>4. index \div 12 = y /\ index % 12 = m - 1
  BY <1>1
<1>5. MonthIndex(day) = index
  BY DEF MonthIndex
<1>6. (index % 12) + 1 = m
  BY <1>1, <1>4
<1>7. InMonth(index, d) = day
  BY <1>3, <1>4, <1>6 DEF InMonth, DayNumber
<1>8. MonthLength(index) = DaysInMonth(y, m)
  BY <1>4, <1>6 DEF MonthLength
<1> PICK length \in 28..31 : length = DaysInMonth(y, m)
  BY <1>2
<1>9. d \in 1..length /\ d \in 1..31
  BY <1>1
<1> QED BY <1>4, <1>5, <1>6, <1>7, <1>8, <1>9

\* And each of them is real.
LEMMA DaysAreReal ==
  ASSUME NEW index \in Int, NEW d \in 1..MonthLength(index)
  PROVE  Real(InMonth(index, d)) /\ d \in 1..31
<1>1. d \in 1..31
  BY MonthLengths
<1>2. /\ YearOf(InMonth(index, d)) = index \div 12 /\ MonthOf(InMonth(index, d)) = (index % 12) + 1
      /\ DayOf(InMonth(index, d)) = d /\ InMonth(index, d) \in Int
  BY <1>1, InMonthParts
<1> QED BY <1>1, <1>2, IndexParts DEF Real, RealDay, MonthLength

\* The last day of a month, and a day clamped to it.
LEMMA ClampedDays ==
  ASSUME NEW index \in Int, NEW d \in 1..31
  PROVE  /\ ClampedInMonth(index, d) = InMonth(index, IF d < MonthLength(index) THEN d ELSE MonthLength(index))
         /\ MonthEnd(index) = InMonth(index, MonthLength(index))
         /\ DayOf(MonthEnd(index)) = MonthLength(index)
         /\ Real(MonthEnd(index)) /\ Real(ClampedInMonth(index, d))
<1>1. MonthLength(index) \in 28..31
  BY MonthLengths
<1>2. ASSUME NEW e \in 1..31
      PROVE  ClampedInMonth(index, e)
               = InMonth(index, IF e < MonthLength(index) THEN e ELSE MonthLength(index))
  BY DEF ClampedInMonth, Clamped, InMonth, MonthLength
<1>3. MonthEnd(index) = InMonth(index, MonthLength(index))
  BY <1>1, <1>2 DEF MonthEnd
<1>4. Real(InMonth(index, MonthLength(index))) /\ DayOf(InMonth(index, MonthLength(index))) = MonthLength(index)
  <2> PICK length \in 1..31 : length = MonthLength(index)
    BY <1>1
  <2>1. length \in 1..MonthLength(index)
    OBVIOUS
  <2> QED BY <2>1, DaysAreReal, InMonthParts
<1>5. Real(ClampedInMonth(index, d))
  <2> PICK e : e = IF d < MonthLength(index) THEN d ELSE MonthLength(index)
    OBVIOUS
  <2>1. e \in 1..MonthLength(index)
    BY <1>1
  <2> QED BY <1>2, <2>1, DaysAreReal
<1> QED BY <1>2, <1>3, <1>4, <1>5

-----------------------------------------------------------------------------
(* Days go by.                                                             *)

\* The day after a day.
NextDay(day) ==
  IF DayOf(day) < MonthLength(MonthIndex(day)) THEN InMonth(MonthIndex(day), DayOf(day) + 1)
  ELSE InMonth(MonthIndex(day) + 1, 1)

\* f carries every surplus of up to most days from month to month.
Carries(most, f) ==
  f = [d \in 1..most |-> [index \in Int |->
         IF d <= MonthLength(index) THEN InMonth(index, d)
         ELSE f[d - MonthLength(index)][index + 1]]]

\* There is such a function for any surplus.
LEMMA CarryExists ==
  ASSUME NEW most \in Nat
  PROVE  \E f : Carries(most, f)
<1> DEFINE T == {k \in Nat : ~\E f : Carries(k, f)}
<1> SUFFICES ASSUME T # {} PROVE FALSE
  OBVIOUS
<1>1. T \in SUBSET Nat
  OBVIOUS
<1> HIDE DEF T
<1>2. PICK k \in T : \A j \in T : k <= j
  BY <1>1, LeastNumber
<1>3. k \in Nat /\ ~\E f : Carries(k, f)
  BY <1>2 DEF T
<1>4. k # 0
  <2> SUFFICES ASSUME k = 0 PROVE FALSE
    OBVIOUS
  <2> PICK f : f = [d \in {} |-> d]
    OBVIOUS
  <2>1. 1..0 = {}
    OBVIOUS
  <2>2. Carries(0, f)
    BY <2>1 DEF Carries
  <2> QED BY <1>3, <2>2
<1>5. k - 1 \in Nat /\ k - 1 \notin T
  BY <1>1, <1>2, <1>3, <1>4
<1>6. PICK f : Carries(k - 1, f)
  BY <1>5 DEF T
<1> PICK row : row = [index \in Int |-> IF k <= MonthLength(index) THEN InMonth(index, k)
                                       ELSE f[k - MonthLength(index)][index + 1]]
  OBVIOUS
<1> PICK g : g = [d \in 1..k |-> IF d = k THEN row ELSE f[d]]
  OBVIOUS
<1>7. ASSUME NEW d \in 1..k
      PROVE  g[d] = [index \in Int |-> IF d <= MonthLength(index) THEN InMonth(index, d)
                                      ELSE g[d - MonthLength(index)][index + 1]]
  <2>1. \A index \in Int : ~(d <= MonthLength(index)) => g[d - MonthLength(index)] = f[d - MonthLength(index)]
    <3> TAKE index \in Int
    <3> HAVE ~(d <= MonthLength(index))
    <3> PICK e \in Int : e = d - MonthLength(index)
      BY MonthLengths
    <3>1. e \in 1..k /\ e # k
      BY <1>3, MonthLengths
    <3> QED BY <3>1
  <2>2. g[d] = [index \in Int |-> IF d <= MonthLength(index) THEN InMonth(index, d)
                                 ELSE f[d - MonthLength(index)][index + 1]]
    <3>1. CASE d = k
      BY <3>1
    <3>2. CASE d # k
      <4>1. d \in 1..(k - 1) /\ g[d] = f[d]
        BY <1>3, <3>2
      <4> QED BY <1>6, <4>1 DEF Carries
    <3> QED BY <3>1, <3>2
  <2> QED BY <2>1, <2>2
<1>8. Carries(k, g)
  BY <1>7 DEF Carries
<1> QED BY <1>3, <1>8

\* What it does to one surplus, from one month on.
LEMMA CarryOnce ==
  ASSUME NEW most, NEW f, Carries(most, f), NEW d \in 1..most, NEW index \in Int
  PROVE  f[d][index] = IF d <= MonthLength(index) THEN InMonth(index, d)
                       ELSE f[d - MonthLength(index)][index + 1]
<1>1. f[d] = [i \in Int |-> IF d <= MonthLength(i) THEN InMonth(i, d)
                            ELSE f[d - MonthLength(i)][i + 1]]
  BY DEF Carries
<1> QED BY <1>1

\* What is carried lands on a real day, and one day more lands on the day after.
LEMMA CarriedDays ==
  ASSUME NEW most \in Nat, NEW f, Carries(most, f), NEW more \in Nat, NEW g, Carries(more, g)
  PROVE  \A d \in 1..most : \A index \in Int :
           Real(f[d][index]) /\ (d + 1 <= more => g[d + 1][index] = NextDay(f[d][index]))
<1> DEFINE Good(d) == \A index \in Int :
                        Real(f[d][index]) /\ (d + 1 <= more => g[d + 1][index] = NextDay(f[d][index]))
           T == {d \in 1..most : ~Good(d)}
<1> SUFFICES ASSUME T # {} PROVE FALSE
  OBVIOUS
<1>1. T \in SUBSET Nat
  OBVIOUS
<1> HIDE DEF T
<1>2. PICK d \in T : \A j \in T : d <= j
  BY <1>1, LeastNumber
<1>3. d \in 1..most /\ ~Good(d)
  BY <1>2 DEF T
<1>4. PICK index \in Int :
        ~(Real(f[d][index]) /\ (d + 1 <= more => g[d + 1][index] = NextDay(f[d][index])))
  BY <1>3
<1> PICK length, next : length = MonthLength(index) /\ next = index + 1
  OBVIOUS
<1>5. length \in 28..31 /\ next \in Int /\ MonthLength(next) \in 28..31
  BY MonthLengths
<1>6. f[d][index] = IF d <= length THEN InMonth(index, d) ELSE f[d - length][next]
  BY <1>3, CarryOnce
<1>7. d + 1 <= more => g[d + 1][index] = IF d + 1 <= length THEN InMonth(index, d + 1)
                                         ELSE g[(d + 1) - length][next]
  <2> SUFFICES ASSUME d + 1 <= more PROVE g[d + 1][index] = IF d + 1 <= length THEN InMonth(index, d + 1)
                                                            ELSE g[(d + 1) - length][next]
    OBVIOUS
  <2> PICK e \in Int : e = d + 1
    BY <1>3
  <2>1. e \in 1..more
    BY <1>3
  <2>2. g[e][index] = IF e <= length THEN InMonth(index, e) ELSE g[e - length][next]
    BY <2>1, CarryOnce
  <2> QED BY <2>2
<1>8. CASE d <= length
  <2>1. d \in 1..MonthLength(index) /\ d \in 1..31 /\ f[d][index] = InMonth(index, d)
    BY <1>3, <1>5, <1>6, <1>8
  <2>2. Real(f[d][index])
    <3>1. Real(InMonth(index, d))
      BY <2>1, DaysAreReal
    <3> QED BY <2>1, <3>1
  <2>3. MonthIndex(f[d][index]) = index /\ DayOf(f[d][index]) = d
    <3>1. MonthIndex(InMonth(index, d)) = index /\ DayOf(InMonth(index, d)) = d
      BY <2>1, InMonthParts
    <3> QED BY <2>1, <3>1
  <2>4. d + 1 <= more => g[d + 1][index] = NextDay(f[d][index])
    <3> HAVE d + 1 <= more
    <3>1. CASE d + 1 <= length
      <4>1. d < MonthLength(index)
        BY <1>3, <1>5, <3>1
      <4> QED BY <1>7, <2>3, <3>1, <4>1 DEF NextDay
    <3>2. CASE ~(d + 1 <= length)
      <4>1. d = length /\ (d + 1) - length = 1 /\ ~(d < MonthLength(index))
        BY <1>3, <1>5, <1>8, <3>2
      <4>2. g[d + 1][index] = g[1][next]
        BY <1>7, <3>2, <4>1
      <4>3. 1 \in 1..more /\ 1 <= MonthLength(next)
        BY <1>3, <1>5
      <4>4. g[1][next] = InMonth(next, 1)
        BY <1>5, <4>3, CarryOnce
      <4> QED BY <2>3, <4>1, <4>2, <4>4 DEF NextDay
    <3> QED BY <3>1, <3>2
  <2> QED BY <1>4, <2>2, <2>4
<1>9. CASE ~(d <= length)
  <2> PICK e \in Int : e = d - length
    BY <1>3, <1>5
  <2>1. e \in 1..most /\ e < d /\ ~(d + 1 <= length) /\ (d + 1) - length = e + 1
    BY <1>3, <1>5, <1>9
  <2>2. e \notin T
    BY <1>2, <1>3, <2>1
  <2>3. Good(e)
    BY <2>1, <2>2 DEF T
  <2>4. Real(f[e][next]) /\ (e + 1 <= more => g[e + 1][next] = NextDay(f[e][next]))
    BY <1>5, <2>3
  <2>5. d + 1 <= more => e + 1 <= more
    BY <1>3, <2>1
  <2> QED BY <1>4, <1>6, <1>7, <1>9, <2>1, <2>4, <2>5
<1> QED BY <1>3, <1>5, <1>8, <1>9

\* addDays carries the days to come and the days gone of the month.
LEMMA AddDaysCarries ==
  ASSUME NEW day, Real(day), NEW n \in Nat
  PROVE  \E f : Carries(DayOf(day) + n, f) /\ AddDays(day, n) = f[DayOf(day) + n][MonthIndex(day)]
<1>1. DayOf(day) + n \in Nat
  BY RealDays
<1> PICK f : f = CHOOSE carried : carried =
                   [d \in 1 .. DayOf(day) + n |-> [index \in Int |->
                      IF d <= MonthLength(index) THEN InMonth(index, d)
                      ELSE carried[d - MonthLength(index)][index + 1]]]
  OBVIOUS
<1>2. Carries(DayOf(day) + n, f)
  BY <1>1, CarryExists DEF Carries
<1>3. AddDays(day, n) = f[DayOf(day) + n][MonthIndex(day)]
  BY DEF AddDays
<1> QED BY <1>2, <1>3

\* No days after a day is that day.
LEMMA AddNoDays ==
  ASSUME NEW day, Real(day)
  PROVE  AddDays(day, 0) = day
<1> PICK i, d : i = MonthIndex(day) /\ d = DayOf(day)
  OBVIOUS
<1>1. i \in Int /\ d \in 1..MonthLength(i) /\ d \in 1..31 /\ day = InMonth(i, d) /\ d + 0 = d
  BY RealDays
<1>2. PICK f : Carries(d + 0, f) /\ AddDays(day, 0) = f[d + 0][i]
  BY AddDaysCarries
<1>3. d \in 1..d /\ d <= MonthLength(i)
  BY <1>1, MonthLengths
<1>4. f[d][i] = InMonth(i, d)
  BY <1>1, <1>2, <1>3, CarryOnce
<1> QED BY <1>1, <1>2, <1>4

\* One day more is the day after.
LEMMA AddOneMore ==
  ASSUME NEW day, Real(day), NEW n \in Nat
  PROVE  Real(AddDays(day, n)) /\ AddDays(day, n + 1) = NextDay(AddDays(day, n))
<1> PICK i, d : i = MonthIndex(day) /\ d = DayOf(day) + n
  OBVIOUS
<1>1. i \in Int /\ d \in Nat /\ d \in 1..d /\ n + 1 \in Nat /\ DayOf(day) + (n + 1) = d + 1 /\ d + 1 \in Nat
  BY RealDays
<1>2. PICK f : Carries(d, f) /\ AddDays(day, n) = f[d][i]
  BY AddDaysCarries
<1>3. PICK g : Carries(d + 1, g) /\ AddDays(day, n + 1) = g[d + 1][i]
  BY <1>1, AddDaysCarries
<1>4. Real(f[d][i]) /\ (d + 1 <= d + 1 => g[d + 1][i] = NextDay(f[d][i]))
  BY <1>1, <1>2, <1>3, CarriedDays
<1> QED BY <1>1, <1>2, <1>3, <1>4

\* The day after is the next real day.
LEMMA DayAfter ==
  ASSUME NEW day, Real(day)
  PROVE  /\ Real(NextDay(day)) /\ day < NextDay(day)
         /\ \A x : Real(x) => (x > day <=> x >= NextDay(day))
<1> PICK i, d : i = MonthIndex(day) /\ d = DayOf(day)
  OBVIOUS
<1>1. i \in Int /\ d \in 1..MonthLength(i) /\ d \in 1..31 /\ day = InMonth(i, d)
  BY RealDays
<1>2. MonthLength(i) \in 28..31 /\ MonthLength(i + 1) \in 28..31
  BY <1>1, MonthLengths
<1>3. CASE d < MonthLength(i)
  <2>1. NextDay(day) = InMonth(i, d + 1) /\ d + 1 \in 1..MonthLength(i) /\ d + 1 \in 1..31
    BY <1>1, <1>2, <1>3 DEF NextDay
  <2>2. Real(NextDay(day)) /\ NextDay(day) \in Int
    <3>1. Real(InMonth(i, d + 1))
      BY <1>1, <2>1, DaysAreReal
    <3> QED BY <2>1, <3>1 DEF Real
  <2>3. day < NextDay(day)
    <3> PICK e \in Int : e = d + 1
      BY <1>1
    <3>0. i \in Int /\ d \in 1..31 /\ e \in 1..31 /\ d < e
      BY <1>1, <2>1
    <3>1. InMonth(i, d) < InMonth(i, e)
      BY ONLY <3>0, DaysInOrder
    <3> QED BY <1>1, <2>1, <3>1
  <2>4. ASSUME NEW x, Real(x)
        PROVE  x > day <=> x >= NextDay(day)
    <3> PICK j, e : j = MonthIndex(x) /\ e = DayOf(x)
      OBVIOUS
    <3>1. j \in Int /\ e \in 1..31 /\ x = InMonth(j, e) /\ x \in Int /\ day \in Int
      BY <2>4, RealDays DEF Real
    <3>2. InMonth(i, d) < InMonth(j, e) <=> i < j \/ (i = j /\ d < e)
      BY <1>1, <3>1, DaysInOrder
    <3>3. InMonth(j, e) < InMonth(i, d + 1) <=> j < i \/ (j = i /\ e < d + 1)
      BY <1>1, <2>1, <3>1, DaysInOrder
    <3> QED BY ONLY <1>1, <2>1, <2>2, <3>1, <3>2, <3>3
  <2> QED BY <2>2, <2>3, <2>4
<1>4. CASE ~(d < MonthLength(i))
  <2> PICK next \in Int : next = i + 1
    BY <1>1
  <2>1. NextDay(day) = InMonth(next, 1) /\ 1 \in 1..MonthLength(next) /\ 1 \in 1..31 /\ i < next
    BY <1>1, <1>2, <1>4 DEF NextDay
  <2>2. Real(NextDay(day)) /\ NextDay(day) \in Int
    <3>1. Real(InMonth(next, 1))
      BY <2>1, DaysAreReal
    <3> QED BY <2>1, <3>1 DEF Real
  <2>3. day < NextDay(day)
    <3>1. InMonth(i, d) < InMonth(next, 1)
      BY <1>1, <2>1, DaysInOrder
    <3> QED BY <1>1, <2>1, <3>1
  <2>4. ASSUME NEW x, Real(x)
        PROVE  x > day <=> x >= NextDay(day)
    <3> PICK j, e : j = MonthIndex(x) /\ e = DayOf(x)
      OBVIOUS
    <3>1. /\ j \in Int /\ e \in 1..31 /\ x = InMonth(j, e) /\ x \in Int /\ day \in Int
          /\ e <= MonthLength(j)
      BY <2>4, RealDays, MonthLengths DEF Real
    <3>2. InMonth(i, d) < InMonth(j, e) <=> i < j \/ (i = j /\ d < e)
      BY <1>1, <3>1, DaysInOrder
    <3>3. InMonth(j, e) < InMonth(next, 1) <=> j < next \/ (j = next /\ e < 1)
      BY <2>1, <3>1, DaysInOrder
    <3>4. i = j => e <= d
      BY <1>1, <1>2, <1>4, <3>1
    <3> QED BY ONLY next = i + 1, next \in Int, <1>1, <2>1, <2>2, <3>1, <3>2, <3>3, <3>4
  <2> QED BY <2>2, <2>3, <2>4
<1> QED BY <1>3, <1>4

\* The day before a day is the one it comes after.
LEMMA DayBefore ==
  ASSUME NEW day, Real(day)
  PROVE  /\ Real(PreviousDay(day)) /\ NextDay(PreviousDay(day)) = day
         /\ \A x : Real(x) => (x < day <=> x <= PreviousDay(day))
<1> PICK i, d : i = MonthIndex(day) /\ d = DayOf(day)
  OBVIOUS
<1>1. i \in Int /\ d \in 1..MonthLength(i) /\ d \in 1..31 /\ day = InMonth(i, d) /\ day \in Int
  BY RealDays DEF Real
<1>2. MonthLength(i) \in 28..31 /\ MonthLength(i - 1) \in 28..31 /\ i - 1 \in Int
  BY <1>1, MonthLengths
<1>3. Real(PreviousDay(day)) /\ NextDay(PreviousDay(day)) = day
  <2>1. CASE d > 1
    <3>1. PreviousDay(day) = InMonth(i, d - 1)
      <4>1. InMonth(i, d) = DayNumber(i \div 12, (i % 12) + 1, d) /\ i \div 12 \in Int /\ (i % 12) + 1 \in 1..12
        BY <1>1, IndexParts DEF InMonth
      <4>2. InMonth(i, d - 1) = DayNumber(i \div 12, (i % 12) + 1, d - 1)
        BY DEF InMonth
      <4>3. PreviousDay(day) = day - 1
        BY <2>1 DEF PreviousDay
      <4> QED BY <1>1, <4>1, <4>2, <4>3 DEF DayNumber
    <3>2. d - 1 \in 1..MonthLength(i) /\ d - 1 \in 1..31 /\ (d - 1) + 1 = d /\ d - 1 < MonthLength(i)
      BY <1>1, <1>2, <2>1
    <3>3. /\ Real(InMonth(i, d - 1)) /\ MonthIndex(InMonth(i, d - 1)) = i
          /\ DayOf(InMonth(i, d - 1)) = d - 1
      BY <1>1, <3>2, DaysAreReal, InMonthParts
    <3> QED BY <1>1, <3>1, <3>2, <3>3 DEF NextDay
  <2>2. CASE ~(d > 1)
    <3>1. d = 1
      BY <1>1, <2>2
    <3>2. PreviousDay(day) = MonthEnd(i - 1)
      BY <3>1 DEF PreviousDay
    <3> PICK length \in 1..31 : length = MonthLength(i - 1)
      BY <1>2
    <3>3. MonthEnd(i - 1) = InMonth(i - 1, length) /\ length \in 1..MonthLength(i - 1)
      BY <1>2, ClampedDays
    <3>4. /\ Real(InMonth(i - 1, length)) /\ MonthIndex(InMonth(i - 1, length)) = i - 1
          /\ DayOf(InMonth(i - 1, length)) = length
      BY <1>2, <3>3, DaysAreReal, InMonthParts
    <3>5. ~(length < length) /\ (i - 1) + 1 = i
      BY <1>1
    <3>6. NextDay(InMonth(i - 1, length)) = InMonth(i, 1)
      BY <3>4, <3>5 DEF NextDay
    <3> QED BY <1>1, <3>1, <3>2, <3>3, <3>4, <3>6
  <2> QED BY <2>1, <2>2
<1> PICK before : before = PreviousDay(day)
  OBVIOUS
<1>4. \A x : Real(x) => (x > before <=> x >= day)
  BY <1>3, DayAfter
<1>5. ASSUME NEW x, Real(x)
      PROVE  x < day <=> x <= before
  BY <1>1, <1>3, <1>4, <1>5 DEF Real
<1> QED BY <1>3, <1>5

\* How far n days go: a month is at least 28 of them.
LEMMA DaysGoOn ==
  ASSUME NEW day, Real(day), NEW n \in Nat
  PROVE  /\ Real(AddDays(day, n)) /\ day <= AddDays(day, n)
         /\ 28 * (MonthIndex(AddDays(day, n)) - MonthIndex(day)) + DayOf(AddDays(day, n)) <= DayOf(day) + n
<1> DEFINE Good(k) ==
      /\ Real(AddDays(day, k)) /\ day <= AddDays(day, k)
      /\ 28 * (MonthIndex(AddDays(day, k)) - MonthIndex(day)) + DayOf(AddDays(day, k)) <= DayOf(day) + k
    T == {k \in Nat : ~Good(k)}
<1> SUFFICES ASSUME T # {} PROVE FALSE
  OBVIOUS
<1>1. T \in SUBSET Nat
  OBVIOUS
<1> HIDE DEF T
<1>2. PICK k \in T : \A j \in T : k <= j
  BY <1>1, LeastNumber
<1>3. k \in Nat /\ ~Good(k)
  BY <1>2 DEF T
<1>4. day \in Int /\ MonthIndex(day) \in Int /\ DayOf(day) \in Int
  BY RealDays DEF Real
<1>5. k # 0
  <2> SUFFICES ASSUME k = 0 PROVE FALSE
    OBVIOUS
  <2>1. AddDays(day, k) = day
    BY AddNoDays
  <2> QED BY <1>3, <1>4, <2>1
<1>6. k - 1 \in Nat /\ k - 1 \notin T /\ (k - 1) + 1 = k
  BY <1>1, <1>2, <1>3, <1>5
<1>7. Good(k - 1)
  BY <1>6 DEF T
<1> PICK x : x = AddDays(day, k - 1)
  OBVIOUS
<1>8. Real(x) /\ day <= x /\ 28 * (MonthIndex(x) - MonthIndex(day)) + DayOf(x) <= DayOf(day) + (k - 1)
  BY <1>7
<1>9. AddDays(day, k) = NextDay(x)
  BY <1>6, AddOneMore
<1>10. Real(NextDay(x)) /\ x < NextDay(x)
  BY <1>8, DayAfter
<1>11. day <= NextDay(x)
  BY <1>4, <1>8, <1>10 DEF Real
<1>12. 28 * (MonthIndex(NextDay(x)) - MonthIndex(day)) + DayOf(NextDay(x)) <= DayOf(day) + k
  <2> PICK i, d : i = MonthIndex(x) /\ d = DayOf(x)
    OBVIOUS
  <2>1. i \in Int /\ d \in 1..MonthLength(i) /\ d \in 1..31 /\ MonthLength(i) \in 28..31
    BY <1>8, RealDays, MonthLengths
  <2> PICK next \in Int : next = i + 1
    BY <2>1
  <2>2. MonthIndex(InMonth(next, 1)) = next /\ DayOf(InMonth(next, 1)) = 1
    <3>1. 1 \in 1..31
      OBVIOUS
    <3> QED BY <3>1, InMonthParts
  <2>3. CASE d < MonthLength(i)
    <3> PICK e : e = d + 1
      OBVIOUS
    <3>1. e \in 1..31 /\ NextDay(x) = InMonth(i, e)
      BY <2>1, <2>3 DEF NextDay
    <3>2. MonthIndex(NextDay(x)) = i /\ DayOf(NextDay(x)) = d + 1
      <4>1. MonthIndex(InMonth(i, e)) = i /\ DayOf(InMonth(i, e)) = e
        BY ONLY <2>1, <3>1, InMonthParts
      <4> QED BY <3>1, <4>1
    <3>3. 28 * (i - MonthIndex(day)) + d <= DayOf(day) + (k - 1)
      BY <1>8
    <3>4. ASSUME NEW a \in Int, NEW b \in Int, 28 * (i - a) + d <= b + (k - 1)
          PROVE  28 * (i - a) + (d + 1) <= b + k
      <4>1. i \in Int /\ d \in Int /\ k \in Int
        BY <1>3, <2>1
      <4> QED BY ONLY <3>4, <4>1
    <3> QED BY <1>4, <3>2, <3>3, <3>4
  <2>4. CASE ~(d < MonthLength(i))
    <3>1. NextDay(x) = InMonth(next, 1)
      BY <2>4 DEF NextDay
    <3>2. d >= 28
      BY <2>1, <2>4
    <3>3. MonthIndex(NextDay(x)) = next /\ DayOf(NextDay(x)) = 1
      BY <2>2, <3>1
    <3>4. next \in Int /\ next = i + 1 /\ 28 * (i - MonthIndex(day)) + d <= DayOf(day) + (k - 1)
      BY <1>8
    <3>5. ASSUME NEW a \in Int, NEW b \in Int, 28 * (i - a) + d <= b + (k - 1)
          PROVE  28 * (next - a) + 1 <= b + k
      <4>1. i \in Int /\ d \in Int /\ k \in Int
        BY <1>3, <2>1
      <4> QED BY ONLY <3>2, <3>4, <3>5, <4>1
    <3> QED BY <1>4, <3>3, <3>4, <3>5
  <2> QED BY <2>3, <2>4
<1> QED BY <1>3, <1>9, <1>10, <1>11, <1>12

\* Tomorrow's horizon is the day after today's.
LEMMA HorizonMoves ==
  ASSUME NEW day, Real(day), NEW n \in Nat
  PROVE  /\ AddDays(day, 1) = NextDay(day)
         /\ AddDays(NextDay(day), n) = NextDay(AddDays(day, n))
<1>1. AddDays(day, 1) = NextDay(day)
  <2>1. 0 \in Nat /\ 0 + 1 = 1
    OBVIOUS
  <2>2. AddDays(day, 0 + 1) = NextDay(AddDays(day, 0))
    BY <2>1, AddOneMore
  <2> QED BY <2>1, <2>2, AddNoDays
<1> PICK next : next = NextDay(day)
  OBVIOUS
<1>2. Real(next)
  BY DayAfter
<1> DEFINE T == {k \in Nat : AddDays(next, k) # NextDay(AddDays(day, k))}
<1> SUFFICES ASSUME T # {} PROVE FALSE
  BY <1>1
<1>3. T \in SUBSET Nat
  OBVIOUS
<1> HIDE DEF T
<1>4. PICK k \in T : \A j \in T : k <= j
  BY <1>3, LeastNumber
<1>5. k \in Nat /\ AddDays(next, k) # NextDay(AddDays(day, k))
  BY <1>4 DEF T
<1>6. k # 0
  BY <1>2, <1>5, AddNoDays
<1>7. k - 1 \in Nat /\ k - 1 \notin T /\ (k - 1) + 1 = k
  BY <1>3, <1>4, <1>5, <1>6
<1>8. AddDays(next, k - 1) = NextDay(AddDays(day, k - 1))
  BY <1>7 DEF T
<1>9. AddDays(next, k) = NextDay(AddDays(next, k - 1)) /\ AddDays(day, k) = NextDay(AddDays(day, k - 1))
  BY <1>2, <1>7, AddOneMore
<1> QED BY <1>5, <1>8, <1>9

-----------------------------------------------------------------------------
(* Periods.                                                                *)

\* A real day in an earlier month is an earlier day.
LEMMA MonthsInOrder ==
  ASSUME NEW x, Real(x), NEW y, Real(y)
  PROVE  /\ MonthIndex(x) < MonthIndex(y) => x < y
         /\ x <= y => MonthIndex(x) <= MonthIndex(y)
<1> PICK i, d : i = MonthIndex(x) /\ d = DayOf(x)
  OBVIOUS
<1> PICK j, e : j = MonthIndex(y) /\ e = DayOf(y)
  OBVIOUS
<1>1. /\ i \in Int /\ d \in 1..31 /\ x = InMonth(i, d) /\ x \in Int
      /\ j \in Int /\ e \in 1..31 /\ y = InMonth(j, e) /\ y \in Int
  BY RealDays DEF Real
<1>2. InMonth(i, d) < InMonth(j, e) <=> i < j \/ (i = j /\ d < e)
  BY ONLY <1>1, DaysInOrder
<1>3. InMonth(j, e) < InMonth(i, d) <=> j < i \/ (j = i /\ e < d)
  BY ONLY <1>1, DaysInOrder
<1> QED BY <1>1, <1>2, <1>3

IsStart(start) == start \in Nat /\ start \div 100 \in 1..12 /\ start % 100 \in 1..31

\* The month of the n-th anchor of a fiscal year.
AnchorIndex(fy, start, n) == 12 * fy + (start \div 100) - 1 + n

\* An anchor is a real day of its month, on the start's day of the month or the last.
LEMMA Anchors ==
  ASSUME NEW fy \in Int, NEW n \in Int, NEW start, IsStart(start)
  PROVE  /\ AnchorIndex(fy, start, n) \in Int /\ Real(Anchor(fy, start, n))
         /\ MonthIndex(Anchor(fy, start, n)) = AnchorIndex(fy, start, n)
         /\ DayOf(Anchor(fy, start, n)) =
              IF start % 100 < MonthLength(AnchorIndex(fy, start, n)) THEN start % 100
              ELSE MonthLength(AnchorIndex(fy, start, n))
         /\ Anchor(fy, start, n) = ClampedInMonth(AnchorIndex(fy, start, n), start % 100)
<1> PICK i \in Int, d \in 1..31 : i = AnchorIndex(fy, start, n) /\ d = start % 100
  BY DEF AnchorIndex, IsStart
<1>1. Anchor(fy, start, n) = ClampedInMonth(i, d)
  BY DEF Anchor, AnchorIndex
<1> PICK e : e = IF d < MonthLength(i) THEN d ELSE MonthLength(i)
  OBVIOUS
<1>2. ClampedInMonth(i, d) = InMonth(i, e) /\ Real(ClampedInMonth(i, d))
  BY ClampedDays
<1>3. e \in 1..31
  BY MonthLengths
<1>4. MonthIndex(InMonth(i, e)) = i /\ DayOf(InMonth(i, e)) = e
  BY <1>3, InMonthParts
<1> QED BY <1>1, <1>2, <1>4

\* The window from one day to the day before another.
LEMMA WindowBetween ==
  ASSUME NEW a, Real(a), NEW b, Real(b), a < b
  PROVE  Real(PreviousDay(b)) /\ a <= PreviousDay(b) /\ AddDays(PreviousDay(b), 1) = b
<1>1. Real(PreviousDay(b)) /\ NextDay(PreviousDay(b)) = b /\ a <= PreviousDay(b)
  BY DayBefore
<1> QED BY <1>1, HorizonMoves, 0 \in Nat

\* Every window ends the day before the next one begins.
Begins(token, start) ==
  CASE token.kind = "month" -> InMonth(token.n, 1)
    [] token.kind = "quarter" -> ClampedInMonth((start \div 100) - 1 + 3 * token.n, start % 100)
    [] token.kind = "fiscal-year" -> Anchor(token.n, start, 0)

TokenKinds == {"month", "quarter", "fiscal-year"}

\* A period's window, and the window of the period before it.
LEMMA PeriodWindows ==
  ASSUME NEW kind \in TokenKinds, NEW n \in Int, NEW start, IsStart(start)
  PROVE  LET token == [kind |-> kind, n |-> n]
             next == [kind |-> kind, n |-> n + 1]
         IN  /\ Resolve(token, start) = [from |-> Begins(token, start), to |-> PreviousDay(Begins(next, start))]
             /\ Real(Begins(token, start)) /\ Real(Begins(next, start))
             /\ Begins(token, start) < Begins(next, start)
<1> PICK token, next : token = [kind |-> kind, n |-> n] /\ next = [kind |-> kind, n |-> n + 1]
  OBVIOUS
<1>1. token.kind = kind /\ token.n = n /\ next.kind = kind /\ next.n = n + 1
  OBVIOUS
<1> SUFFICES /\ Resolve(token, start) = [from |-> Begins(token, start), to |-> PreviousDay(Begins(next, start))]
             /\ Real(Begins(token, start)) /\ Real(Begins(next, start))
             /\ Begins(token, start) < Begins(next, start)
  OBVIOUS
<1>2. CASE kind = "month"
  <2> PICK k \in Int : k = n + 1
    OBVIOUS
  <2>1. Begins(token, start) = InMonth(n, 1) /\ Begins(next, start) = InMonth(k, 1)
    BY <1>1, <1>2 DEF Begins
  <2>2. 1 \in 1..31 /\ 1 \in 1..MonthLength(n) /\ 1 \in 1..MonthLength(k)
    BY MonthLengths
  <2>3. Real(InMonth(n, 1)) /\ Real(InMonth(k, 1)) /\ InMonth(n, 1) < InMonth(k, 1)
    BY <2>2, DaysAreReal, DaysInOrder
  <2>4. MonthIndex(InMonth(k, 1)) = k /\ DayOf(InMonth(k, 1)) = 1
    BY <2>2, InMonthParts
  <2>5. PreviousDay(InMonth(k, 1)) = MonthEnd(k - 1) /\ k - 1 = n
    BY <2>4 DEF PreviousDay
  <2>6. Resolve(token, start) = [from |-> InMonth(n, 1), to |-> MonthEnd(n)]
    BY <1>1, <1>2 DEF Resolve, MonthWindow
  <2> QED BY <2>1, <2>3, <2>5, <2>6
<1>3. CASE kind = "quarter"
  <2> PICK fy \in Int, q \in 0..3 : fy = n \div 4 /\ q = n % 4
    OBVIOUS
  <2>1. n = 4 * fy + q
    OBVIOUS
  <2> PICK base \in Int, a \in Int, b \in Int, d \in 1..31 :
        base = (start \div 100) - 1 /\ a = base + 3 * n /\ b = base + 3 * (n + 1) /\ d = start % 100
    BY DEF IsStart
  <2>2. Begins(token, start) = ClampedInMonth(a, d) /\ Begins(next, start) = ClampedInMonth(b, d)
    BY <1>1, <1>3 DEF Begins
  <2>3. /\ 12 * fy + (start \div 100) - 1 + 3 * ((q + 1) - 1) = a
        /\ 12 * fy + (start \div 100) - 1 + 3 * (q + 1) = b
    BY <2>1 DEF IsStart
  <2>4. Resolve(token, start) = QuarterWindow(fy, q + 1, start)
    BY <1>1, <1>3 DEF Resolve
  <2>5. QuarterWindow(fy, q + 1, start) = [from |-> ClampedInMonth(a, d), to |-> PreviousDay(ClampedInMonth(b, d))]
    BY <2>3 DEF QuarterWindow, Anchor
  <2>6. Real(ClampedInMonth(a, d)) /\ Real(ClampedInMonth(b, d))
    BY ClampedDays
  <2>7. ClampedInMonth(a, d) < ClampedInMonth(b, d)
    <3> PICK e, f : /\ e = IF d < MonthLength(a) THEN d ELSE MonthLength(a)
                    /\ f = IF d < MonthLength(b) THEN d ELSE MonthLength(b)
      OBVIOUS
    <3>1. e \in 1..31 /\ f \in 1..31
      BY MonthLengths
    <3>2. a \in Int /\ b \in Int /\ a < b
      OBVIOUS
    <3>3. InMonth(a, e) < InMonth(b, f)
      BY ONLY <3>1, <3>2, DaysInOrder
    <3> QED BY <3>3, ClampedDays
  <2> QED BY <2>2, <2>4, <2>5, <2>6, <2>7
<1>4. CASE kind = "fiscal-year"
  <2> PICK k \in Int : k = n + 1
    OBVIOUS
  <2>1. Begins(token, start) = Anchor(n, start, 0) /\ Begins(next, start) = Anchor(k, start, 0)
    BY <1>1, <1>4 DEF Begins
  <2>2. Resolve(token, start) = [from |-> Anchor(n, start, 0), to |-> PreviousDay(Anchor(k, start, 0))]
    BY <1>1, <1>4 DEF Resolve, FiscalYearWindow
  <2>3. /\ Real(Anchor(n, start, 0)) /\ Real(Anchor(k, start, 0))
        /\ MonthIndex(Anchor(n, start, 0)) = AnchorIndex(n, start, 0)
        /\ MonthIndex(Anchor(k, start, 0)) = AnchorIndex(k, start, 0)
    BY Anchors
  <2>4. AnchorIndex(n, start, 0) < AnchorIndex(k, start, 0)
    BY DEF AnchorIndex, IsStart
  <2> QED BY <2>1, <2>2, <2>3, <2>4, MonthsInOrder
<1> QED BY <1>2, <1>3, <1>4 DEF TokenKinds

ProfileOK == profile \in [start : FiscalStarts, cadence : Cadences]

\* The settings' starts and cadences.
LEMMA Profiles ==
  ASSUME ProfileOK
  PROVE  IsStart(profile.start) /\ profile.cadence \in {"monthly", "quarterly", "yearly"}
BY TaxYearConstants DEF ProfileOK, IsStart

\* Months, quarters and fiscal years tile the calendar.
LEMMA Tiling ==
  ASSUME ProfileOK, Real(today)
  PROVE  PeriodsTile
<1> SUFFICES ASSUME NEW token \in TokensAround(today)
             PROVE  LET window == Resolve(token, profile.start)
                        before == Previous(token, profile.start)
                    IN /\ RealDay(window.from) /\ RealDay(window.to) /\ window.from <= window.to
                       /\ AddDays(before.to, 1) = window.from
  BY DEF PeriodsTile
<1> PICK start : start = profile.start
  OBVIOUS
<1>1. IsStart(start)
  BY Profiles
<1>2. MonthIndex(today) \in Int /\ YearOf(today) \in Int
  BY RealDays, IndexParts
<1>3. \E kind \in TokenKinds, n \in Int : token = Token(kind, n)
  <2>1. CASE token \in {Token("month", MonthIndex(today) + k) : k \in -1..1}
    BY <1>2, <2>1 DEF TokenKinds
  <2>2. CASE token \in {Token("quarter", 4 * YearOf(today) + k) : k \in -4..3}
    BY <1>2, <2>2 DEF TokenKinds
  <2>3. CASE token \in {Token("fiscal-year", YearOf(today) + k) : k \in -1..1}
    BY <1>2, <2>3 DEF TokenKinds
  <2> QED BY <2>1, <2>2, <2>3 DEF TokensAround
<1> PICK kind \in TokenKinds, n \in Int : token = Token(kind, n)
  BY <1>3
<1> PICK m \in Int : m = n - 1
  OBVIOUS
<1> PICK before, next : before = [kind |-> kind, n |-> m] /\ next = [kind |-> kind, n |-> n + 1]
  OBVIOUS
<1>4. token = [kind |-> kind, n |-> n] /\ m + 1 = n
  BY DEF Token
<1>5. /\ Resolve(token, start) = [from |-> Begins(token, start), to |-> PreviousDay(Begins(next, start))]
      /\ Real(Begins(token, start)) /\ Real(Begins(next, start))
      /\ Begins(token, start) < Begins(next, start)
  BY <1>1, <1>4, PeriodWindows
<1>6. /\ Resolve(before, start) = [from |-> Begins(before, start), to |-> PreviousDay(Begins(token, start))]
      /\ Real(Begins(before, start))
      /\ Begins(before, start) < Begins(token, start)
  BY <1>1, <1>4, PeriodWindows
<1>7. Previous(token, start) = Resolve(before, start)
  BY <1>4 DEF Previous
<1>8. /\ Real(PreviousDay(Begins(next, start)))
      /\ Begins(token, start) <= PreviousDay(Begins(next, start))
  BY <1>5, WindowBetween
<1>9. AddDays(PreviousDay(Begins(token, start)), 1) = Begins(token, start)
  BY <1>5, <1>6, WindowBetween
<1> QED BY <1>5, <1>6, <1>7, <1>8, <1>9 DEF Real

\* A month and the same month of the year before have the same length, but February.
LEMMA YearBefore ==
  ASSUME NEW i \in Int
  PROVE  /\ (i - 12) \div 12 = (i \div 12) - 1 /\ (i - 12) % 12 = i % 12
         /\ i % 12 # 1 => MonthLength(i - 12) = MonthLength(i)
<1>1. (i - 12) \div 12 = (i \div 12) - 1 /\ (i - 12) % 12 = i % 12
  OBVIOUS
<1>2. ASSUME NEW y, NEW z, NEW m \in Int, m # 2
      PROVE  DaysInMonth(y, m) = DaysInMonth(z, m)
  BY <1>2 DEF DaysInMonth
<1> QED BY <1>1, <1>2 DEF MonthLength

\* The fiscal year a day is in has begun, and the next one has not.
LEMMA FiscalYears ==
  ASSUME NEW day, Real(day), NEW start, IsStart(start)
  PROVE  LET fy == FiscalYearContaining(day, start)
         IN  /\ fy \in Int /\ Anchor(fy, start, 0) <= day /\ day < Anchor(fy + 1, start, 0)
             /\ \/ fy = YearOf(day)
                \/ fy = YearOf(day) - 1 /\ day < Anchor(YearOf(day), start, 0)
<1> PICK y \in Int, i \in Int : y = YearOf(day) /\ i = MonthIndex(day)
  BY RealDays, IndexParts
<1>1. y = i \div 12 /\ 12 * y <= i /\ i <= 12 * y + 11
  <2>1. y = i \div 12
    BY RealDays
  <2> QED BY <2>1
<1> PICK next \in Int, last \in Int : next = y + 1 /\ last = y - 1
  OBVIOUS
<1>2. /\ Real(Anchor(y, start, 0)) /\ Real(Anchor(next, start, 0)) /\ Real(Anchor(last, start, 0))
      /\ MonthIndex(Anchor(next, start, 0)) = AnchorIndex(next, start, 0)
      /\ MonthIndex(Anchor(last, start, 0)) = AnchorIndex(last, start, 0)
  BY Anchors
<1>3. AnchorIndex(last, start, 0) < i /\ i < AnchorIndex(next, start, 0)
  BY <1>1 DEF AnchorIndex, IsStart
<1>4. Anchor(last, start, 0) < day /\ day < Anchor(next, start, 0)
  BY <1>2, <1>3, MonthsInOrder
<1>5. day \in Int /\ Anchor(y, start, 0) \in Int /\ Anchor(last, start, 0) \in Int /\ last + 1 = y
  BY <1>2 DEF Real
<1>6. CASE day >= Anchor(y, start, 0)
  <2>1. FiscalYearContaining(day, start) = y
    BY <1>6 DEF FiscalYearContaining
  <2> QED BY <1>4, <1>5, <1>6, <2>1
<1>7. CASE ~(day >= Anchor(y, start, 0))
  <2>1. FiscalYearContaining(day, start) = last
    BY <1>7 DEF FiscalYearContaining
  <2> QED BY <1>4, <1>5, <1>7, <2>1
<1> QED BY <1>6, <1>7

\* Year to date is compared with a span of the year before that comes before it.
LEMMA Comparison ==
  ASSUME ProfileOK, Real(today)
  PROVE  YearToDateComparesBackwards
<1> PICK start : start = profile.start
  OBVIOUS
<1> SUFFICES ASSUME start \notin {229, 230, 231}
             PROVE  LET now == YearToDate(today, start)
                        before == YearToDateBefore(today, start)
                    IN /\ RealDay(before.from) /\ RealDay(before.to)
                       /\ now.from <= now.to /\ before.from <= before.to /\ before.to < now.from
  BY DEF YearToDateComparesBackwards
<1>1. IsStart(start)
  BY Profiles
<1> PICK fy : fy = FiscalYearContaining(today, start)
  OBVIOUS
<1>2. fy \in Int /\ Anchor(fy, start, 0) <= today /\ today < Anchor(fy + 1, start, 0)
  BY <1>1, FiscalYears
<1> PICK i, d, s : i = MonthIndex(today) /\ d = DayOf(today) /\ s = start % 100
  OBVIOUS
<1>3. /\ i \in Int /\ d \in 1..MonthLength(i) /\ d \in 1..31 /\ s \in 1..31 /\ today = InMonth(i, d)
      /\ YearOf(today) = i \div 12 /\ MonthOf(today) = (i % 12) + 1
  BY <1>1, RealDays DEF IsStart
<1> PICK a \in Int : a = AnchorIndex(fy, start, 0)
  BY <1>1, <1>2, Anchors, 0 \in Int
<1> PICK b \in Int, z \in Int, j \in Int : b = a + 12 /\ z = a - 12 /\ j = i - 12
  BY <1>3
<1> PICK last \in Int, following \in Int : last = fy - 1 /\ following = fy + 1
  BY <1>2
<1>4. AnchorIndex(last, start, 0) = z /\ AnchorIndex(following, start, 0) = b
  BY <1>1, <1>2 DEF AnchorIndex, IsStart
<1> PICK la, lb, lz, li, lj : /\ la = MonthLength(a) /\ lb = MonthLength(b) /\ lz = MonthLength(z)
                              /\ li = MonthLength(i) /\ lj = MonthLength(j)
  OBVIOUS
<1>5. la \in 28..31 /\ lb \in 28..31 /\ lz \in 28..31 /\ li \in 28..31 /\ lj \in 28..31
  BY <1>3, MonthLengths
<1> PICK da, db, dz, dj : /\ da = IF s < la THEN s ELSE la
                          /\ db = IF s < lb THEN s ELSE lb
                          /\ dz = IF s < lz THEN s ELSE lz
                          /\ dj = IF d < lj THEN d ELSE lj
  OBVIOUS
<1>6. da \in 1..31 /\ db \in 1..31 /\ dz \in 1..31 /\ dj \in 1..31
  BY <1>3, <1>5
<1>7. /\ Anchor(fy, start, 0) = InMonth(a, da) /\ Real(Anchor(fy, start, 0))
      /\ Anchor(following, start, 0) = InMonth(b, db)
      /\ Anchor(last, start, 0) = InMonth(z, dz) /\ Real(Anchor(last, start, 0))
  <2>1. /\ Anchor(fy, start, 0) = ClampedInMonth(a, s) /\ Real(Anchor(fy, start, 0))
        /\ Anchor(following, start, 0) = ClampedInMonth(b, s)
        /\ Anchor(last, start, 0) = ClampedInMonth(z, s) /\ Real(Anchor(last, start, 0))
    BY <1>1, <1>2, <1>4, Anchors, 0 \in Int
  <2> QED BY <1>3, <2>1, ClampedDays
<1>8. /\ Clamped(YearOf(today) - 1, MonthOf(today), d) = InMonth(j, dj)
      /\ Real(InMonth(j, dj))
  <2>1. j \div 12 = YearOf(today) - 1 /\ (j % 12) + 1 = MonthOf(today)
    BY <1>3, YearBefore
  <2>2. ClampedInMonth(j, d) = Clamped(YearOf(today) - 1, MonthOf(today), d)
    BY <2>1 DEF ClampedInMonth
  <2> QED BY <1>3, <2>2, ClampedDays
<1>9. /\ i % 12 # 1 => lj = li
      /\ a % 12 # 1 => lz = la /\ lb = la
      /\ a % 12 = 1 => s <= 28
  <2>1. /\ i % 12 # 1 => lj = li
        /\ a % 12 # 1 => lz = la
    BY <1>3, YearBefore
  <2>2. b - 12 = a /\ b % 12 = a % 12
    OBVIOUS
  <2>3. a % 12 # 1 => lb = la
    BY <2>2, YearBefore
  <2>4. a % 12 = (start \div 100) - 1
    <3> PICK m \in 1..12 : m = start \div 100
      BY <1>1 DEF IsStart
    <3>1. a = 12 * fy + m - 1 + 0
      BY DEF AnchorIndex
    <3>2. a % 12 = m - 1
      BY ONLY <1>2, <3>1, m \in 1..12
    <3> QED BY <3>2
  <2>5. start = 100 * (start \div 100) + s
    BY <1>1 DEF IsStart
  <2>6. a % 12 = 1 => s <= 28
    <3> SUFFICES ASSUME a % 12 = 1 PROVE s <= 28
      OBVIOUS
    <3> PICK m \in Int : m = start \div 100
      BY <1>1 DEF IsStart
    <3>1. m = 2
      BY <2>4
    <3>2. start = 200 + s
      BY ONLY <2>5, <3>1, m = start \div 100
    <3> QED BY ONLY <1>3, <3>2, start \notin {229, 230, 231}
  <2> QED BY <2>1, <2>3, <2>6
<1>10. InMonth(a, da) < InMonth(i, d) \/ InMonth(a, da) = InMonth(i, d)
  BY <1>2, <1>3, <1>7 DEF Real
<1>11. a < i \/ (a = i /\ da <= d)
  <2>1. InMonth(a, da) < InMonth(i, d) <=> a < i \/ (a = i /\ da < d)
    BY ONLY <1>3, <1>6, a \in Int, DaysInOrder
  <2>2. /\ MonthIndex(InMonth(a, da)) = a /\ DayOf(InMonth(a, da)) = da
        /\ MonthIndex(InMonth(i, d)) = i /\ DayOf(InMonth(i, d)) = d
    BY ONLY <1>3, <1>6, a \in Int, InMonthParts
  <2>3. InMonth(a, da) = InMonth(i, d) => a = i /\ da = d
    BY <2>2
  <2> QED BY <1>3, <1>6, <1>10, <2>1, <2>3
<1>12. i < b \/ (i = b /\ d < db)
  <2>1. InMonth(i, d) < InMonth(b, db) <=> i < b \/ (i = b /\ d < db)
    BY ONLY <1>3, <1>6, b \in Int, DaysInOrder
  <2> QED BY <1>2, <1>3, <1>7, <2>1
<1>13. z < j \/ (z = j /\ dz <= dj)
  <2>1. CASE a < i
    BY <1>3, <2>1
  <2>2. CASE a = i /\ da <= d
    <3>1. CASE a % 12 = 1
      <4>1. s <= 28
        BY <1>9, <3>1
      <4>2. da = s /\ dz = s /\ dj >= s
        BY <1>3, <1>5, <2>2, <4>1
      <4> QED BY <1>3, <1>5, <1>6, <2>2, <4>2
    <3>2. CASE a % 12 # 1
      BY <1>3, <1>5, <1>9, <2>2, <3>2
    <3> QED BY <3>1, <3>2
  <2> QED BY <1>11, <2>1, <2>2
<1>14. j < a \/ (j = a /\ dj < da)
  <2>1. CASE i < b
    BY <1>3, <2>1
  <2>2. CASE i = b /\ d < db
    <3>1. j = a
      BY <1>3, <2>2
    <3>2. CASE a % 12 = 1
      BY <1>3, <1>5, <1>9, <2>2, <3>1, <3>2
    <3>3. CASE a % 12 # 1
      BY <1>3, <1>5, <1>9, <2>2, <3>1, <3>3
    <3> QED BY <3>1, <3>2, <3>3
  <2> QED BY <1>12, <2>1, <2>2
<1>15. InMonth(z, dz) <= InMonth(j, dj)
  <2>1. InMonth(j, dj) < InMonth(z, dz) <=> j < z \/ (j = z /\ dj < dz)
    BY ONLY <1>6, z \in Int, j \in Int, DaysInOrder
  <2>2. InMonth(z, dz) \in Int /\ InMonth(j, dj) \in Int
    BY <1>7, <1>8 DEF Real
  <2> QED BY <1>6, <1>13, <2>1, <2>2
<1>16. InMonth(j, dj) < InMonth(a, da)
  <2>1. InMonth(j, dj) < InMonth(a, da) <=> j < a \/ (j = a /\ dj < da)
    BY ONLY <1>6, a \in Int, j \in Int, DaysInOrder
  <2> QED BY <1>14, <2>1
<1>17. /\ YearToDate(today, start) = [from |-> InMonth(a, da), to |-> today]
       /\ YearToDateBefore(today, start) = [from |-> InMonth(z, dz), to |-> InMonth(j, dj)]
  BY <1>7, <1>8 DEF YearToDate, YearToDateBefore
<1>18. InMonth(a, da) <= today
  BY <1>2, <1>7
<1> QED BY <1>7, <1>8, <1>15, <1>16, <1>17, <1>18 DEF Real

-----------------------------------------------------------------------------
(* The VAT periods.                                                        *)

\* A day is in its month and in its calendar quarter.
LEMMA MonthsAndQuarters ==
  ASSUME NEW day, Real(day)
  PROVE  /\ MonthWindow(MonthIndex(day)).from <= day /\ day <= MonthWindow(MonthIndex(day)).to
         /\ LET quarter == CalendarQuarter(MonthIndex(day) \div 3)
            IN  quarter.from <= day /\ day <= quarter.to
<1> PICK i, d : i = MonthIndex(day) /\ d = DayOf(day)
  OBVIOUS
<1>1. i \in Int /\ d \in 1..MonthLength(i) /\ d \in 1..31 /\ day = InMonth(i, d) /\ day \in Int
  BY RealDays DEF Real
<1> PICK n \in Int : n = i \div 3
  BY <1>1
<1> PICK a \in Int, b \in Int : a = 3 * n /\ b = 3 * n + 2
  OBVIOUS
<1>2. a <= i /\ i <= b
  BY ONLY <1>1, n = i \div 3, a = 3 * n, b = 3 * n + 2
<1>3. ASSUME NEW k \in Int, k <= i
      PROVE  InMonth(k, 1) <= day
  <2>1. 1 \in 1..31 /\ 1 \in 1..MonthLength(k)
    BY MonthLengths
  <2>2. InMonth(i, d) < InMonth(k, 1) <=> i < k \/ (i = k /\ d < 1)
    <3> PICK e \in 1..31 : e = 1
      OBVIOUS
    <3>1. InMonth(i, d) < InMonth(k, e) <=> i < k \/ (i = k /\ d < e)
      BY ONLY <1>1, e \in 1..31, k \in Int, DaysInOrder
    <3> QED BY <3>1
  <2>3. InMonth(k, 1) \in Int
    BY <2>1, DaysAreReal DEF Real
  <2> QED BY <1>1, <1>3, <2>2, <2>3
<1>4. ASSUME NEW k \in Int, i <= k
      PROVE  day <= MonthEnd(k)
  <2> PICK e : e = MonthLength(k)
    OBVIOUS
  <2>1. e \in 1..31 /\ MonthEnd(k) = InMonth(k, e) /\ MonthEnd(k) \in Int
    BY MonthLengths, ClampedDays, 1 \in 1..31 DEF Real
  <2>2. InMonth(k, e) < InMonth(i, d) <=> k < i \/ (k = i /\ e < d)
    BY ONLY <1>1, <2>1, k \in Int, DaysInOrder
  <2> QED BY <1>1, <1>4, <2>1, <2>2
<1>5. /\ MonthWindow(i) = [from |-> InMonth(i, 1), to |-> MonthEnd(i)]
      /\ CalendarQuarter(n) = [from |-> InMonth(a, 1), to |-> MonthEnd(b)]
  BY DEF MonthWindow, CalendarQuarter
<1>6. InMonth(i, 1) <= day /\ day <= MonthEnd(i) /\ InMonth(a, 1) <= day /\ day <= MonthEnd(b)
  BY <1>1, <1>2, <1>3, <1>4
<1> QED BY <1>5, <1>6

\* The token of a calendar quarter, if there is one, resolves to that quarter.
LEMMA QuarterTokens ==
  ASSUME NEW n \in Int, NEW start, CalendarQuarterToken(n, start) # NoToken
  PROVE  Resolve(CalendarQuarterToken(n, start), start) = CalendarQuarter(n)
<1> PICK year \in Int, a \in Int, b \in Int :
      year = n \div 4 /\ a = 4 * (year - 1) /\ b = 4 * year + 3
  OBVIOUS
<1> PICK S : S = {q \in 4 * (year - 1) .. 4 * year + 3 :
                    Resolve(Token("quarter", q), start) = CalendarQuarter(n)}
  OBVIOUS
<1>1. CalendarQuarterToken(n, start)
        = IF S = {} THEN NoToken
          ELSE Token("quarter", CHOOSE q \in S : \A other \in S : other <= q)
  BY DEF CalendarQuarterToken
<1>2. S # {}
  BY <1>1
<1>3. S \in SUBSET (a..b)
  OBVIOUS
<1>4. \E q \in S : \A other \in S : other <= q
  <2> DEFINE T == {b - q : q \in S}
  <2>1. T \in SUBSET Nat /\ T # {}
    BY <1>2, <1>3
  <2> HIDE DEF T
  <2>2. PICK k \in T : \A j \in T : k <= j
    BY <2>1, LeastNumber
  <2>3. PICK q \in S : k = b - q
    BY <2>2 DEF T
  <2>4. ASSUME NEW other \in S
        PROVE  other <= q
    <3>1. b - other \in T
      BY DEF T
    <3>2. k <= b - other /\ other \in Int /\ q \in Int
      BY <1>3, <2>2, <3>1
    <3> QED BY <2>3, <3>2
  <2> QED BY <2>4
<1> PICK latest : latest = CHOOSE q \in S : \A other \in S : other <= q
  OBVIOUS
<1>5. latest \in S
  BY <1>4
<1>6. CalendarQuarterToken(n, start) = Token("quarter", latest)
  BY <1>1, <1>2
<1> QED BY <1>5, <1>6

\* The VAT period shown as current is.
LEMMA CurrentPeriod ==
  ASSUME ProfileOK, Real(today)
  PROVE  VatPeriodIsCurrent
<1> PICK start : start = profile.start
  OBVIOUS
<1> SUFFICES ASSUME start % 100 <= 28
             PROVE  LET window == Resolve(CurrentVatPeriod(profile, today), start)
                    IN window.from <= today /\ today <= window.to
  BY DEF VatPeriodIsCurrent
<1>1. IsStart(start) /\ profile.cadence \in {"monthly", "quarterly", "yearly"}
  BY Profiles
<1> PICK i, y : i = MonthIndex(today) /\ y = YearOf(today)
  OBVIOUS
<1>2. i \in Int /\ y \in Int /\ today \in Int
  BY RealDays, IndexParts DEF Real
<1>3. Resolve(Token("month", i), start) = MonthWindow(i)
  BY DEF Resolve, Token
<1>4. CASE profile.cadence = "monthly"
  <2>1. CurrentVatPeriod(profile, today) = Token("month", i)
    BY <1>4 DEF CurrentVatPeriod
  <2> QED BY <1>3, <2>1, MonthsAndQuarters
<1>5. CASE profile.cadence = "quarterly"
  <2>1. CurrentVatPeriod(profile, today) = IF CalendarQuarterToken(i \div 3, start) = NoToken THEN Token("month", i)
                                           ELSE CalendarQuarterToken(i \div 3, start)
    BY <1>5 DEF CurrentVatPeriod
  <2>2. CASE CalendarQuarterToken(i \div 3, start) = NoToken
    BY <1>3, <2>1, <2>2, MonthsAndQuarters
  <2>3. CASE CalendarQuarterToken(i \div 3, start) # NoToken
    <3>1. i \div 3 \in Int
      BY <1>2
    <3>2. Resolve(CalendarQuarterToken(i \div 3, start), start) = CalendarQuarter(i \div 3)
      BY <2>3, <3>1, QuarterTokens
    <3> QED BY <2>1, <2>3, <3>2, MonthsAndQuarters
  <2> QED BY <2>2, <2>3
<1>6. CASE profile.cadence = "yearly"
  <2> PICK a, s : a = AnchorIndex(y, start, 0) /\ s = start % 100
    OBVIOUS
  <2>1. a \in Int /\ s \in 1..31 /\ s <= 28 /\ Anchor(y, start, 0) = ClampedInMonth(a, s)
    BY <1>1, <1>2, Anchors DEF IsStart
  <2>2. ClampedInMonth(a, s) = InMonth(a, s)
    BY <2>1, ClampedDays, MonthLengths
  <2>3. a \div 12 = y /\ a % 12 = (start \div 100) - 1
    <3> PICK m \in 1..12 : m = start \div 100
      BY <1>1 DEF IsStart
    <3>1. a = 12 * y + m - 1 + 0
      BY DEF AnchorIndex
    <3>2. a \div 12 = y /\ a % 12 = m - 1
      BY ONLY <1>2, <3>1, m \in 1..12
    <3> QED BY <3>2
  <2>4. InMonth(a, s) = 10000 * y + start
    <3>1. start = 100 * (start \div 100) + s /\ start \div 100 \in Int
      BY <1>1 DEF IsStart
    <3>2. InMonth(a, s) = 10000 * y + 100 * (((start \div 100) - 1) + 1) + s
      BY <2>3 DEF InMonth, DayNumber
    <3> QED BY <1>2, <2>1, <3>1, <3>2
  <2>5. VatYear(today, start) = FiscalYearContaining(today, start)
    BY <2>1, <2>2, <2>4 DEF VatYear, FiscalYearContaining
  <2> PICK fy : fy = FiscalYearContaining(today, start)
    OBVIOUS
  <2>6. fy \in Int /\ Anchor(fy, start, 0) <= today /\ today < Anchor(fy + 1, start, 0)
    BY <1>1, FiscalYears
  <2>7. Real(Anchor(fy + 1, start, 0))
    <3> PICK following \in Int : following = fy + 1
      BY <2>6
    <3>1. Real(Anchor(following, start, 0))
      BY <1>1, Anchors, 0 \in Int
    <3> QED BY <3>1
  <2>8. today <= PreviousDay(Anchor(fy + 1, start, 0))
    BY <2>6, <2>7, DayBefore
  <2>9. CurrentVatPeriod(profile, today) = Token("fiscal-year", fy)
    BY <1>6, <2>5 DEF CurrentVatPeriod
  <2>10. Resolve(Token("fiscal-year", fy), start)
           = [from |-> Anchor(fy, start, 0), to |-> PreviousDay(Anchor(fy + 1, start, 0))]
    BY DEF Resolve, Token, FiscalYearWindow
  <2> QED BY <2>6, <2>8, <2>9, <2>10
<1> QED BY <1>1, <1>4, <1>5, <1>6

\* The days of a month follow each other in the week.
LEMMA Weekdays ==
  ASSUME NEW index \in Int
  PROVE  \E c \in Int : \A d \in 1..31 : Weekday(InMonth(index, d)) = (c + d) % 7
<1> PICK y \in Int, m \in 1..12 : y = index \div 12 /\ m = (index % 12) + 1
  BY IndexParts
<1> PICK z \in Int : z = IF m < 3 THEN y - 1 ELSE y
  OBVIOUS
<1> PICK shift \in Int : shift = <<0, 3, 2, 5, 0, 3, 5, 1, 4, 6, 2, 4>>[m]
  OBVIOUS
<1> PICK c \in Int : c = z + (z \div 4) - (z \div 100) + (z \div 400) + shift
  OBVIOUS
<1>1. ASSUME NEW d \in 1..31
      PROVE  Weekday(InMonth(index, d)) = (c + d) % 7
  <2>1. /\ YearOf(InMonth(index, d)) = y /\ MonthOf(InMonth(index, d)) = m
        /\ DayOf(InMonth(index, d)) = d
    BY InMonthParts
  <2>2. Weekday(InMonth(index, d)) = (z + (z \div 4) - (z \div 100) + (z \div 400) + shift + d) % 7
    BY <2>1 DEF Weekday
  <2> QED BY <2>2
<1> QED BY <1>1

\* A deadline moved off the weekend is a weekday of the same month, at most two days on.
LEMMA MovedOffTheWeekend ==
  ASSUME NEW index \in Int, NEW d \in 1..29, d + 2 <= MonthLength(index)
  PROVE  \E e \in d..d + 2 : /\ ShiftWeekendToMonday(InMonth(index, d)) = InMonth(index, e)
                             /\ e \in 1..MonthLength(index) /\ e \in 1..31
                             /\ Weekday(InMonth(index, e)) \in 1..5
<1>1. MonthLength(index) \in 28..31
  BY MonthLengths
<1> PICK f \in Int, g \in Int : f = d + 1 /\ g = d + 2
  OBVIOUS
<1>2. /\ d \in 1..31 /\ f \in 1..31 /\ g \in 1..31 /\ d < MonthLength(index) /\ f < MonthLength(index)
      /\ d \in 1..MonthLength(index) /\ f \in 1..MonthLength(index) /\ g \in 1..MonthLength(index)
  BY <1>1
<1>3. PICK c \in Int : \A day \in 1..31 : Weekday(InMonth(index, day)) = (c + day) % 7
  BY Weekdays
<1>4. AddDays(InMonth(index, d), 1) = InMonth(index, f) /\ AddDays(InMonth(index, d), 2) = InMonth(index, g)
  <2>1. Real(InMonth(index, d)) /\ Real(InMonth(index, f))
    BY <1>2, DaysAreReal
  <2>2. /\ MonthIndex(InMonth(index, d)) = index /\ DayOf(InMonth(index, d)) = d
        /\ MonthIndex(InMonth(index, f)) = index /\ DayOf(InMonth(index, f)) = f
    BY <1>2, InMonthParts
  <2>3. NextDay(InMonth(index, d)) = InMonth(index, f) /\ NextDay(InMonth(index, f)) = InMonth(index, g)
    BY <1>2, <2>2 DEF NextDay
  <2>4. AddDays(InMonth(index, d), 1) = InMonth(index, f)
    BY <2>1, <2>3, HorizonMoves, 0 \in Nat
  <2>5. AddDays(InMonth(index, d), 2) = NextDay(AddDays(InMonth(index, d), 1))
    <3> PICK n \in Nat : n = 1
      OBVIOUS
    <3>1. n + 1 = 2
      OBVIOUS
    <3>2. AddDays(InMonth(index, d), n + 1) = NextDay(AddDays(InMonth(index, d), n))
      BY ONLY <2>1, n \in Nat, AddOneMore
    <3> QED BY <3>1, <3>2
  <2> QED BY <2>3, <2>4, <2>5
<1> PICK w \in 0..6 : w = (c + d) % 7
  OBVIOUS
<1>5. Weekday(InMonth(index, d)) = w
  BY <1>2, <1>3
<1>6. CASE w = 6
  <2>1. ShiftWeekendToMonday(InMonth(index, d)) = InMonth(index, g)
    BY <1>4, <1>5, <1>6 DEF ShiftWeekendToMonday
  <2>2. (c + g) % 7 = 1
    BY ONLY <1>6, w = (c + d) % 7, g = d + 2, c \in Int, d \in 1..29
  <2>3. Weekday(InMonth(index, g)) \in 1..5 /\ g \in d..d + 2
    BY <1>2, <1>3, <2>2
  <2> QED BY <1>2, <2>1, <2>3
<1>7. CASE w = 0
  <2>1. ShiftWeekendToMonday(InMonth(index, d)) = InMonth(index, f)
    BY <1>4, <1>5, <1>7 DEF ShiftWeekendToMonday
  <2>2. (c + f) % 7 = 1
    BY ONLY <1>7, w = (c + d) % 7, f = d + 1, c \in Int, d \in 1..29
  <2>3. Weekday(InMonth(index, f)) \in 1..5 /\ f \in d..d + 2
    BY <1>2, <1>3, <2>2
  <2> QED BY <1>2, <2>1, <2>3
<1>8. CASE w \in 1..5
  <2>1. ShiftWeekendToMonday(InMonth(index, d)) = InMonth(index, d)
    BY <1>5, <1>8 DEF ShiftWeekendToMonday
  <2> QED BY <1>2, <1>5, <1>8, <2>1
<1> QED BY <1>6, <1>7, <1>8

\* A real day of a month, on a weekday.
DueIn(due, index) ==
  Real(due) /\ MonthIndex(due) = index /\ Weekday(due) \in 1..5

\* What is due by the rule of the 12th, or the 26th, is due in the month on a weekday.
LEMMA RuleDays ==
  ASSUME NEW index \in Int
  PROVE  /\ DueIn(TwelfthRule(index), index) /\ DueIn(TwentySixthRule(index), index)
         /\ DayOf(TwentySixthRule(index)) >= 26
<1>1. MonthLength(index) \in 28..31
  BY MonthLengths
<1>2. ASSUME NEW d \in 1..29, d + 2 <= MonthLength(index)
      PROVE  /\ DueIn(ShiftWeekendToMonday(InMonth(index, d)), index)
             /\ DayOf(ShiftWeekendToMonday(InMonth(index, d))) >= d
  <2> PICK e \in d..d + 2 : /\ ShiftWeekendToMonday(InMonth(index, d)) = InMonth(index, e)
                            /\ e \in 1..MonthLength(index) /\ e \in 1..31
                            /\ Weekday(InMonth(index, e)) \in 1..5
    BY <1>2, MovedOffTheWeekend
  <2>1. Real(InMonth(index, e)) /\ MonthIndex(InMonth(index, e)) = index /\ DayOf(InMonth(index, e)) = e
    BY DaysAreReal, InMonthParts
  <2>2. e >= d
    OBVIOUS
  <2> QED BY <2>1, <2>2 DEF DueIn
<1>3. DueIn(TwelfthRule(index), index)
  <2> PICK d : d = IF index % 12 \in {0, 7} THEN 17 ELSE 12
    OBVIOUS
  <2>1. d \in 1..29 /\ d + 2 <= MonthLength(index)
    BY <1>1
  <2> QED BY <1>2, <2>1 DEF TwelfthRule
<1>4. DueIn(TwentySixthRule(index), index) /\ DayOf(TwentySixthRule(index)) >= 26
  <2> PICK d : d = IF index % 12 = 11 THEN 27 ELSE 26
    OBVIOUS
  <2>1. d \in 1..29 /\ d >= 26 /\ d + 2 <= MonthLength(index)
    <3>1. CASE index % 12 = 11
      <4>1. (index % 12) + 1 = 12
        BY <3>1
      <4>2. MonthLength(index) = 31
        BY <4>1 DEF MonthLength, DaysInMonth
      <4> QED BY <3>1, <4>2
    <3>2. CASE index % 12 # 11
      BY <1>1, <3>2
    <3> QED BY <3>1, <3>2
  <2>2. /\ DueIn(ShiftWeekendToMonday(InMonth(index, d)), index)
        /\ DayOf(ShiftWeekendToMonday(InMonth(index, d))) >= d
    BY <1>2, <2>1
  <2>3. DayOf(ShiftWeekendToMonday(InMonth(index, d))) \in Int
    BY <2>2, RealDays DEF DueIn
  <2>4. TwentySixthRule(index) = ShiftWeekendToMonday(InMonth(index, d))
    BY DEF TwentySixthRule
  <2> QED BY <2>1, <2>2, <2>3, <2>4
<1> QED BY <1>3, <1>4

\* What is due, of one kind and number.
AnnualDue(p, fy) ==
  LET end == FiscalYearWindow(fy, p.start).to
      due == MonthIndex(end) + 7
  IN  IF end = MonthEnd(MonthIndex(end)) THEN MonthEnd(due) ELSE ClampedInMonth(due, DayOf(end))

Annual(p, fy) == Deadline("annual-report", fy, AnnualDue(p, fy), NoToken)
Employer(n) == Deadline("employer-declaration", n, TwelfthRule(n + 1), NoToken)
FSkatt(n) == Deadline("f-skatt", n, TwelfthRule(n), NoToken)
MonthlyVat(n) == Deadline("vat-return", n, TwelfthRule(n + 2), Token("month", n))
YearlyVat(p, fy) ==
  Deadline("vat-return", fy, TwentySixthRule(MonthIndex(FiscalYearWindow(fy, p.start).to) + 2),
           Token("fiscal-year", fy))

\* The rows looked at on a day, by their kinds.
Candidates(p, day) ==
  {Employer(index - 1) : index \in CandidateMonths(day)}
  \cup {FSkatt(index) : index \in CandidateMonths(day)}
  \cup {MonthlyVat(index) : index \in {i \in CandidateMonths(day) : p.cadence = "monthly"}}
  \cup {QuarterlyRow(p, n) :
          n \in {i \in 4 * (YearOf(day) - 1) .. 4 * YearOf(AddDays(day, HorizonDays)) + 3 : p.cadence = "quarterly"}}
  \cup {Annual(p, fy) : fy \in YearOf(day) - 2 .. YearOf(day) + 1}
  \cup {YearlyVat(p, fy) : fy \in {i \in YearOf(day) - 2 .. YearOf(day) + 1 : p.cadence = "yearly"}}

\* The timeline is of these rows.
LEMMA UpcomingRows ==
  ASSUME NEW p, NEW day, Real(day)
  PROVE  Upcoming(p, day) = {row \in Candidates(p, day) : row.due >= day /\ row.due <= AddDays(day, HorizonDays)}
<1> DEFINE months == CandidateMonths(day)
           quarters == 4 * (YearOf(day) - 1) .. 4 * YearOf(AddDays(day, HorizonDays)) + 3
           years == YearOf(day) - 2 .. YearOf(day) + 1
<1>1. months \in SUBSET Int
  BY RealDays DEF CandidateMonths
<1>2. (UNION {MonthlyRows(p, index) : index \in months})
        = {Employer(index - 1) : index \in months} \cup {FSkatt(index) : index \in months}
          \cup {MonthlyVat(index) : index \in {i \in months : p.cadence = "monthly"}}
  <2>1. ASSUME NEW index \in months
        PROVE  MonthlyRows(p, index)
                 = {Employer(index - 1), FSkatt(index)} \cup (IF p.cadence = "monthly" THEN {MonthlyVat(index)} ELSE {})
    <3>1. (index - 1) + 1 = index
      BY <1>1
    <3>2. Employer(index - 1) = Deadline("employer-declaration", index - 1, TwelfthRule(index), NoToken)
      BY <3>1 DEF Employer
    <3> QED BY <3>2 DEF MonthlyRows, FSkatt, MonthlyVat
  <2> QED BY <2>1
<1>3. (UNION {YearlyRows(p, fy) : fy \in years})
        = {Annual(p, fy) : fy \in years} \cup {YearlyVat(p, fy) : fy \in {i \in years : p.cadence = "yearly"}}
  <2>1. ASSUME NEW fy \in years
        PROVE  YearlyRows(p, fy) = {Annual(p, fy)} \cup (IF p.cadence = "yearly" THEN {YearlyVat(p, fy)} ELSE {})
    BY DEF YearlyRows, Annual, AnnualDue, YearlyVat
  <2> QED BY <2>1
<1>4. (IF p.cadence = "quarterly" THEN {QuarterlyRow(p, n) : n \in quarters} ELSE {})
        = {QuarterlyRow(p, n) : n \in {i \in quarters : p.cadence = "quarterly"}}
  OBVIOUS
<1> PICK a, b, c :
      /\ a = UNION {MonthlyRows(p, index) : index \in months}
      /\ b = (IF p.cadence = "quarterly" THEN {QuarterlyRow(p, n) : n \in quarters} ELSE {})
      /\ c = UNION {YearlyRows(p, fy) : fy \in years}
  OBVIOUS
<1>5. a \cup b \cup c = Candidates(p, day)
  <2> PICK a1, a2, a3, c1, c2 :
        /\ a1 = {Employer(index - 1) : index \in months} /\ a2 = {FSkatt(index) : index \in months}
        /\ a3 = {MonthlyVat(index) : index \in {i \in months : p.cadence = "monthly"}}
        /\ c1 = {Annual(p, fy) : fy \in years}
        /\ c2 = {YearlyVat(p, fy) : fy \in {i \in years : p.cadence = "yearly"}}
    OBVIOUS
  <2>1. a = a1 \cup a2 \cup a3 /\ c = c1 \cup c2
    BY <1>2, <1>3
  <2>2. b = {QuarterlyRow(p, n) : n \in {i \in quarters : p.cadence = "quarterly"}}
    BY <1>4
  <2>3. Candidates(p, day) = a1 \cup a2 \cup a3 \cup b \cup c1 \cup c2
    BY <2>2 DEF Candidates
  <2>4. a \cup b \cup c = a1 \cup a2 \cup a3 \cup b \cup c1 \cup c2
    BY ONLY <2>1
  <2> QED BY <2>3, <2>4
<1> PICK rows : rows = (UNION {MonthlyRows(p, index) : index \in months})
                       \cup (IF p.cadence = "quarterly" THEN {QuarterlyRow(p, n) : n \in quarters} ELSE {})
                       \cup (UNION {YearlyRows(p, fy) : fy \in years})
  OBVIOUS
<1>6. rows = a \cup b \cup c
  OBVIOUS
<1>7. Upcoming(p, day) = {row \in rows : row.due >= day /\ row.due <= AddDays(day, HorizonDays)}
  BY DEF Upcoming
<1> QED BY <1>5, <1>6, <1>7

\* A fiscal year ends in the month of the next one's start or the month before.
LEMMA FiscalYearEnds ==
  ASSUME NEW fy \in Int, NEW start, IsStart(start)
  PROVE  LET end == FiscalYearWindow(fy, start).to
         IN  /\ Real(end) /\ MonthIndex(end) \in Int
             /\ 12 * fy + 11 <= MonthIndex(end) /\ MonthIndex(end) <= 12 * fy + 23
<1> PICK following \in Int : following = fy + 1
  OBVIOUS
<1> PICK a \in Int : a = AnchorIndex(following, start, 0)
  BY Anchors, 0 \in Int
<1> PICK anchor : anchor = Anchor(following, start, 0)
  OBVIOUS
<1>1. Real(anchor) /\ MonthIndex(anchor) = a
  BY Anchors, 0 \in Int
<1>2. 12 * fy + 12 <= a /\ a <= 12 * fy + 23
  BY DEF AnchorIndex, IsStart
<1>3. Real(PreviousDay(anchor)) /\ \A x : Real(x) => (x < anchor <=> x <= PreviousDay(anchor))
  BY <1>1, DayBefore
<1> PICK end : end = PreviousDay(anchor)
  OBVIOUS
<1>4. FiscalYearWindow(fy, start).to = end
  BY DEF FiscalYearWindow
<1>5. MonthIndex(end) \in Int /\ end \in Int /\ anchor \in Int
  BY <1>1, <1>3, RealDays DEF Real
<1>6. MonthIndex(end) <= a
  <2>1. end < anchor
    BY <1>3, <1>5
  <2> QED BY <1>1, <1>3, <1>5, <2>1, MonthsInOrder
<1>7. a - 1 <= MonthIndex(end)
  <2> PICK i \in Int : i = a - 1
    OBVIOUS
  <2>1. 1 \in 1..31 /\ 1 \in 1..MonthLength(i)
    BY MonthLengths
  <2> PICK x : x = InMonth(i, 1)
    OBVIOUS
  <2>2. Real(x) /\ MonthIndex(x) = i
    BY <2>1, DaysAreReal, InMonthParts
  <2>3. x < anchor
    BY <1>1, <2>2, MonthsInOrder
  <2>4. x <= end
    BY <1>3, <2>2, <2>3
  <2> QED BY <1>3, <2>2, <2>4, MonthsInOrder
<1> QED BY <1>2, <1>3, <1>4, <1>5, <1>6, <1>7

\* The annual report is due in the seventh month after.
LEMMA AnnualReports ==
  ASSUME NEW fy \in Int, NEW p, IsStart(p.start)
  PROVE  /\ Real(AnnualDue(p, fy))
         /\ MonthIndex(AnnualDue(p, fy)) = MonthIndex(FiscalYearWindow(fy, p.start).to) + 7
<1> PICK end : end = FiscalYearWindow(fy, p.start).to
  OBVIOUS
<1>1. Real(end) /\ MonthIndex(end) \in Int
  BY FiscalYearEnds
<1> PICK due \in Int, d \in 1..31 : due = MonthIndex(end) + 7 /\ d = DayOf(end)
  BY <1>1, RealDays
<1> PICK e, length : e = (IF d < MonthLength(due) THEN d ELSE MonthLength(due)) /\ length = MonthLength(due)
  OBVIOUS
<1>2. e \in 1..31 /\ length \in 1..31
  BY MonthLengths
<1>3. /\ MonthEnd(due) = InMonth(due, length) /\ Real(MonthEnd(due))
      /\ ClampedInMonth(due, d) = InMonth(due, e) /\ Real(ClampedInMonth(due, d))
  BY ClampedDays
<1>4. MonthIndex(MonthEnd(due)) = due /\ MonthIndex(ClampedInMonth(due, d)) = due
  <2>1. MonthIndex(InMonth(due, length)) = due /\ MonthIndex(InMonth(due, e)) = due
    BY ONLY <1>2, due \in Int, InMonthParts
  <2> QED BY <1>3, <2>1
<1>5. AnnualDue(p, fy) = IF end = MonthEnd(MonthIndex(end)) THEN MonthEnd(due) ELSE ClampedInMonth(due, d)
  BY DEF AnnualDue
<1> QED BY <1>3, <1>4, <1>5

-----------------------------------------------------------------------------
(* The timeline.                                                           *)

\* Every deadline there is, of every period.
Deadlines(p) ==
  {Employer(n) : n \in Int} \cup {FSkatt(n) : n \in Int}
  \cup {MonthlyVat(n) : n \in {i \in Int : p.cadence = "monthly"}}
  \cup {QuarterlyRow(p, n) : n \in {i \in Int : p.cadence = "quarterly"}}
  \cup {Annual(p, fy) : fy \in Int}
  \cup {YearlyVat(p, fy) : fy \in {i \in Int : p.cadence = "yearly"}}

\* The deadline of a kind and a number, and when it is due.
RowOf(p, kind, n) ==
  CASE kind = "annual-report" -> Annual(p, n)
    [] kind = "employer-declaration" -> Employer(n)
    [] kind = "f-skatt" -> FSkatt(n)
    [] kind = "vat-return" /\ p.cadence = "monthly" -> MonthlyVat(n)
    [] kind = "vat-return" /\ p.cadence = "quarterly" -> QuarterlyRow(p, n)
    [] kind = "vat-return" /\ p.cadence = "yearly" -> YearlyVat(p, n)

RowKinds == {"annual-report", "employer-declaration", "f-skatt", "vat-return"}

\* A deadline has one kind and number, and is due on a real day: on a weekday, but
\* for the annual report.
LEMMA RowsOfAKind ==
  ASSUME NEW p, IsStart(p.start), NEW row \in Deadlines(p)
  PROVE  /\ row.kind \in RowKinds /\ row.n \in Int /\ row = RowOf(p, row.kind, row.n)
         /\ Real(row.due) /\ row.due \in Int
         /\ row.kind # "annual-report" => Weekday(row.due) \in 1..5
<1>1. \A n \in Int : /\ DueIn(TwelfthRule(n), n) /\ DueIn(TwelfthRule(n + 1), n + 1)
                     /\ DueIn(TwelfthRule(n + 2), n + 2) /\ DueIn(TwelfthRule(3 * n + 4), 3 * n + 4)
  <2> TAKE n \in Int
  <2> PICK a \in Int, b \in Int, c \in Int : a = n + 1 /\ b = n + 2 /\ c = 3 * n + 4
    OBVIOUS
  <2>1. DueIn(TwelfthRule(n), n) /\ DueIn(TwelfthRule(a), a) /\ DueIn(TwelfthRule(b), b) /\ DueIn(TwelfthRule(c), c)
    BY RuleDays
  <2> QED BY <2>1
<1>2. CASE \E n \in Int : row = Employer(n)
  <2> PICK n \in Int : row = Employer(n)
    BY <1>2
  <2>1. row.kind = "employer-declaration" /\ row.n = n /\ row.due = TwelfthRule(n + 1)
    BY DEF Employer, Deadline
  <2> QED BY <1>1, <2>1 DEF RowOf, RowKinds, DueIn, Real
<1>3. CASE \E n \in Int : row = FSkatt(n)
  <2> PICK n \in Int : row = FSkatt(n)
    BY <1>3
  <2>1. row.kind = "f-skatt" /\ row.n = n /\ row.due = TwelfthRule(n)
    BY DEF FSkatt, Deadline
  <2> QED BY <1>1, <2>1 DEF RowOf, RowKinds, DueIn, Real
<1>4. CASE p.cadence = "monthly" /\ \E n \in Int : row = MonthlyVat(n)
  <2> PICK n \in Int : row = MonthlyVat(n)
    BY <1>4
  <2>1. row.kind = "vat-return" /\ row.n = n /\ row.due = TwelfthRule(n + 2)
    BY DEF MonthlyVat, Deadline
  <2> QED BY <1>1, <1>4, <2>1 DEF RowOf, RowKinds, DueIn, Real
<1>5. CASE p.cadence = "quarterly" /\ \E n \in Int : row = QuarterlyRow(p, n)
  <2> PICK n \in Int : row = QuarterlyRow(p, n)
    BY <1>5
  <2>1. row.kind = "vat-return" /\ row.n = n /\ row.due = TwelfthRule(3 * n + 4)
    BY DEF QuarterlyRow, Deadline
  <2> QED BY <1>1, <1>5, <2>1 DEF RowOf, RowKinds, DueIn, Real
<1>6. CASE \E fy \in Int : row = Annual(p, fy)
  <2> PICK fy \in Int : row = Annual(p, fy)
    BY <1>6
  <2>1. row.kind = "annual-report" /\ row.n = fy /\ row.due = AnnualDue(p, fy)
    BY DEF Annual, Deadline
  <2>2. Real(AnnualDue(p, fy))
    BY AnnualReports
  <2> QED BY <2>1, <2>2 DEF RowOf, RowKinds, Real
<1>7. CASE p.cadence = "yearly" /\ \E fy \in Int : row = YearlyVat(p, fy)
  <2> PICK fy \in Int : row = YearlyVat(p, fy)
    BY <1>7
  <2> PICK i \in Int : i = MonthIndex(FiscalYearWindow(fy, p.start).to) + 2
    BY FiscalYearEnds
  <2>1. row.kind = "vat-return" /\ row.n = fy /\ row.due = TwentySixthRule(i)
    BY DEF YearlyVat, Deadline
  <2>2. DueIn(TwentySixthRule(i), i)
    BY RuleDays
  <2> QED BY <1>7, <2>1, <2>2 DEF RowOf, RowKinds, DueIn, Real
<1> QED BY <1>2, <1>3, <1>4, <1>5, <1>6, <1>7 DEF Deadlines

\* How far ahead the horizon is, in months.
LEMMA HorizonMonths ==
  ASSUME NEW day, Real(day)
  PROVE  LET end == AddDays(day, HorizonDays)
         IN  /\ Real(end) /\ day <= end
             /\ MonthIndex(end) <= MonthIndex(day) + ((HorizonDays + 27) \div 28) + 1
             /\ 28 * (MonthIndex(end) - MonthIndex(day)) + DayOf(end) <= 731
<1>1. HorizonDays \in 0..700 /\ HorizonDays \in Nat
  BY TaxYearConstants
<1> PICK end : end = AddDays(day, HorizonDays)
  OBVIOUS
<1>2. /\ Real(end) /\ day <= end
      /\ 28 * (MonthIndex(end) - MonthIndex(day)) + DayOf(end) <= DayOf(day) + HorizonDays
  BY <1>1, DaysGoOn
<1>3. /\ MonthIndex(end) \in Int /\ DayOf(end) \in 1..31
      /\ MonthIndex(day) \in Int /\ DayOf(day) \in 1..31
  BY <1>2, RealDays
<1> PICK months \in Int : months = (HorizonDays + 27) \div 28
  BY <1>1
<1>4. 28 * months >= HorizonDays
  BY ONLY <1>1, months = (HorizonDays + 27) \div 28
<1>5. MonthIndex(end) <= MonthIndex(day) + months + 1
  BY ONLY <1>1, <1>2, <1>3, <1>4, months \in Int
<1> QED BY <1>1, <1>2, <1>3, <1>5

\* A deadline within the horizon is among the candidates: the months, quarters and
\* years looked at are enough.
LEMMA NothingMissed ==
  ASSUME NEW p, IsStart(p.start), NEW day, Real(day), NEW row \in Deadlines(p),
         day <= row.due, row.due <= AddDays(day, HorizonDays)
  PROVE  row \in Candidates(p, day)
<1> PICK end : end = AddDays(day, HorizonDays)
  OBVIOUS
<1> PICK first, last, y, z, months : /\ first = MonthIndex(day) /\ last = MonthIndex(end)
                                     /\ y = YearOf(day) /\ z = YearOf(end)
                                     /\ months = (HorizonDays + 27) \div 28
  OBVIOUS
<1>1. /\ Real(end) /\ last <= first + months + 1
      /\ 28 * (last - first) + DayOf(end) <= 731
  BY HorizonMonths
<1>2. first \in Int /\ last \in Int /\ DayOf(end) \in 1..31 /\ y = first \div 12 /\ z = last \div 12
  BY <1>1, RealDays
<1>3. /\ y \in Int /\ z \in Int
      /\ 12 * y <= first /\ first <= 12 * y + 11 /\ 12 * z <= last /\ last <= 12 * z + 11
  BY ONLY <1>2
<1>4. months \in Nat /\ months <= 25
  BY TaxYearConstants
<1>5. Real(row.due)
  BY RowsOfAKind
<1>5a. row.due <= end /\ row.due \in Int /\ end \in Int
  BY <1>1, <1>5 DEF Real
<1> PICK due : due = MonthIndex(row.due)
  OBVIOUS
<1>6. due \in Int /\ first <= due /\ due <= last
  BY <1>1, <1>2, <1>5, MonthsInOrder, RealDays
<1>7. CandidateMonths(day) = first - 4 .. first + months + 2
  BY DEF CandidateMonths
<1>8. CASE \E n \in Int : row = Employer(n)
  <2> PICK n \in Int : row = Employer(n)
    BY <1>8
  <2> PICK index \in Int : index = n + 1
    OBVIOUS
  <2>1. row.due = TwelfthRule(index) /\ index - 1 = n
    BY DEF Employer, Deadline
  <2>2. due = index
    BY <2>1, RuleDays DEF DueIn
  <2>3. index \in CandidateMonths(day)
    <3>1. index \in first - 4 .. first + months + 2
      BY ONLY <1>1, <1>2, <1>4, <1>6, <2>2
    <3> QED BY <1>7, <3>1
  <2>4. row = Employer(index - 1)
    BY <2>1
  <2> QED BY <2>3, <2>4 DEF Candidates
<1>9. CASE \E n \in Int : row = FSkatt(n)
  <2> PICK n \in Int : row = FSkatt(n)
    BY <1>9
  <2>1. row.due = TwelfthRule(n)
    BY DEF FSkatt, Deadline
  <2>2. due = n
    BY <2>1, RuleDays DEF DueIn
  <2>3. n \in CandidateMonths(day)
    <3>1. n \in first - 4 .. first + months + 2
      BY ONLY <1>1, <1>2, <1>4, <1>6, <2>2
    <3> QED BY <1>7, <3>1
  <2> QED BY <2>3 DEF Candidates
<1>10. CASE p.cadence = "monthly" /\ \E n \in Int : row = MonthlyVat(n)
  <2> PICK n \in Int : row = MonthlyVat(n)
    BY <1>10
  <2> PICK index \in Int : index = n + 2
    OBVIOUS
  <2>1. row.due = TwelfthRule(index)
    BY DEF MonthlyVat, Deadline
  <2>2. due = index
    BY <2>1, RuleDays DEF DueIn
  <2>3. n \in CandidateMonths(day)
    <3>1. n \in first - 4 .. first + months + 2
      BY ONLY <1>1, <1>2, <1>4, <1>6, <2>2, n \in Int, index \in Int, index = n + 2
    <3> QED BY <1>7, <3>1
  <2> QED BY <1>10, <2>3 DEF Candidates
<1>11. CASE p.cadence = "quarterly" /\ \E n \in Int : row = QuarterlyRow(p, n)
  <2> PICK n \in Int : row = QuarterlyRow(p, n)
    BY <1>11
  <2> PICK index \in Int : index = 3 * n + 4
    OBVIOUS
  <2>1. row.due = TwelfthRule(index)
    BY DEF QuarterlyRow, Deadline
  <2>2. due = index
    BY <2>1, RuleDays DEF DueIn
  <2>3. n \in 4 * (y - 1) .. 4 * z + 3
    BY ONLY <1>3, <1>2, <1>6, <2>2, n \in Int, index = 3 * n + 4
  <2>4. n \in {i \in 4 * (YearOf(day) - 1) .. 4 * YearOf(AddDays(day, HorizonDays)) + 3 : p.cadence = "quarterly"}
    BY <1>11, <2>3
  <2> QED BY <2>4 DEF Candidates
<1>12. CASE \E fy \in Int : row = Annual(p, fy)
  <2> PICK fy \in Int : row = Annual(p, fy)
    BY <1>12
  <2> PICK index \in Int : index = MonthIndex(FiscalYearWindow(fy, p.start).to)
    BY FiscalYearEnds
  <2>1. 12 * fy + 11 <= index /\ index <= 12 * fy + 23
    BY FiscalYearEnds
  <2>2. row.due = AnnualDue(p, fy)
    BY DEF Annual, Deadline
  <2>3. due = index + 7
    BY <2>2, AnnualReports
  <2>4. fy \in y - 2 .. y + 1
    BY ONLY <1>1, <1>2, <1>3, <1>4, <1>6, <2>1, <2>3, fy \in Int, index \in Int
  <2> QED BY <2>4 DEF Candidates
<1>13. CASE p.cadence = "yearly" /\ \E fy \in Int : row = YearlyVat(p, fy)
  <2> PICK fy \in Int : row = YearlyVat(p, fy)
    BY <1>13
  <2> PICK index \in Int : index = MonthIndex(FiscalYearWindow(fy, p.start).to)
    BY FiscalYearEnds
  <2>1. 12 * fy + 11 <= index /\ index <= 12 * fy + 23
    BY FiscalYearEnds
  <2> PICK k \in Int : k = index + 2
    OBVIOUS
  <2>2. row.due = TwentySixthRule(k)
    BY DEF YearlyVat, Deadline
  <2>3. due = k /\ DayOf(row.due) >= 26 /\ DayOf(row.due) \in 1..31
    BY <1>5, <2>2, RuleDays, RealDays DEF DueIn
  <2>4. due = last => DayOf(row.due) <= DayOf(end)
    <3> PICK d, e : d = DayOf(row.due) /\ e = DayOf(end)
      OBVIOUS
    <3>1. d \in 1..31 /\ e \in 1..31 /\ row.due = InMonth(due, d) /\ end = InMonth(last, e) /\ row.due \in Int /\ end \in Int
      BY <1>1, <1>5, RealDays DEF Real
    <3>2. InMonth(last, e) < InMonth(due, d) <=> last < due \/ (last = due /\ e < d)
      BY ONLY <1>2, <1>6, <3>1, DaysInOrder
    <3> SUFFICES ASSUME due = last PROVE d <= e
      OBVIOUS
    <3>3. ~(end < row.due)
      BY ONLY <1>5a
    <3>4. ~(InMonth(last, e) < InMonth(due, d))
      BY <3>1, <3>3
    <3>5. ~(e < d)
      BY ONLY <3>2, <3>4, due = last
    <3> QED BY ONLY <3>1, <3>5
  <2>5. fy \in y - 2 .. y + 1
    <3> PICK d, e : d = DayOf(row.due) /\ e = DayOf(end)
      OBVIOUS
    <3>1. /\ d \in 1..31 /\ e \in 1..31 /\ d >= 26 /\ (due = last => d <= e)
          /\ 28 * (last - first) + e <= 731
      BY <1>1, <1>2, <2>3, <2>4
    <3>2. due \in Int /\ due = index + 2
      BY <1>6, <2>3
    <3>3. fy >= y - 2
      BY ONLY <1>2, <1>3, <1>6, <2>1, <3>2, fy \in Int, index \in Int
    <3>4. last - first <= 26 /\ (last - first = 26 => due < last)
      BY ONLY <1>2, <1>6, <3>1
    <3>5. due <= first + 25
      BY ONLY <1>2, <1>6, <3>4
    <3>6. fy <= y + 1
      BY ONLY <1>2, <1>3, <1>6, <2>1, <3>2, <3>5, fy \in Int, index \in Int
    <3> QED BY <1>3, <3>3, <3>6
  <2>6. fy \in {i \in YearOf(day) - 2 .. YearOf(day) + 1 : p.cadence = "yearly"}
    BY <1>13, <2>5
  <2> QED BY <2>6 DEF Candidates
<1> QED BY <1>8, <1>9, <1>10, <1>11, <1>12, <1>13 DEF Deadlines

\* The candidates are deadlines.
LEMMA CandidatesAreDeadlines ==
  ASSUME NEW p, NEW day, Real(day)
  PROVE  Candidates(p, day) \in SUBSET Deadlines(p)
<1> PICK first \in Int, y \in Int : first = MonthIndex(day) /\ y = YearOf(day)
  BY RealDays, IndexParts
<1>1. CandidateMonths(day) \in SUBSET Int /\ \A index \in CandidateMonths(day) : index - 1 \in Int
  BY DEF CandidateMonths
<1>2. (4 * (YearOf(day) - 1) .. 4 * YearOf(AddDays(day, HorizonDays)) + 3) \in SUBSET Int
  OBVIOUS
<1>3. (YearOf(day) - 2 .. YearOf(day) + 1) \in SUBSET Int
  OBVIOUS
<1> SUFFICES ASSUME NEW row \in Candidates(p, day) PROVE row \in Deadlines(p)
  OBVIOUS
<1> QED BY <1>1, <1>2, <1>3 DEF Candidates, Deadlines

\* What is upcoming is every deadline from the day to its horizon.
LEMMA UpcomingDeadlines ==
  ASSUME NEW p, IsStart(p.start), NEW day, Real(day)
  PROVE  Upcoming(p, day) = {row \in Deadlines(p) : row.due >= day /\ row.due <= AddDays(day, HorizonDays)}
BY UpcomingRows, NothingMissed, CandidatesAreDeadlines

\* From one day to the next a deadline comes at the horizon or goes when it is past.
LEMMA SteadyDeadlines ==
  ASSUME NEW p, IsStart(p.start), NEW day, Real(day)
  PROVE  {row \in Upcoming(p, day) : row.due >= NextDay(day)}
           = {row \in Upcoming(p, NextDay(day)) : row.due <= AddDays(day, HorizonDays)}
<1> PICK next, end : next = NextDay(day) /\ end = AddDays(day, HorizonDays)
  OBVIOUS
<1>1. Real(next) /\ day < next /\ HorizonDays \in Nat
  BY DayAfter, TaxYearConstants
<1>2. Real(end) /\ end < AddDays(next, HorizonDays) /\ Real(AddDays(next, HorizonDays))
  <2>1. AddDays(next, HorizonDays) = NextDay(end)
    BY <1>1, HorizonMoves
  <2>2. Real(end)
    BY <1>1, DaysGoOn
  <2> QED BY <2>1, <2>2, DayAfter
<1>3. Upcoming(p, day) = {row \in Deadlines(p) : row.due >= day /\ row.due <= end}
  BY UpcomingDeadlines
<1>4. Upcoming(p, next) = {row \in Deadlines(p) : row.due >= next /\ row.due <= AddDays(next, HorizonDays)}
  BY <1>1, UpcomingDeadlines
<1>5. \A row \in Deadlines(p) : row.due \in Int
  BY RowsOfAKind
<1>6. \A row \in Deadlines(p) :
        /\ row.due >= next => row.due >= day
        /\ row.due <= end => row.due <= AddDays(next, HorizonDays)
  <2>1. day \in Int /\ next \in Int /\ end \in Int /\ AddDays(next, HorizonDays) \in Int
    BY <1>1, <1>2 DEF Real
  <2> QED BY <1>1, <1>2, <1>5, <2>1
<1>7. {row \in Upcoming(p, day) : row.due >= next} = {row \in Deadlines(p) : row.due >= next /\ row.due <= end}
  BY <1>3, <1>6
<1>8. {row \in Upcoming(p, next) : row.due <= end} = {row \in Deadlines(p) : row.due >= next /\ row.due <= end}
  BY <1>4, <1>6
<1> QED BY <1>7, <1>8

\* A VAT figure is joined to the deadline of its own period.
LEMMA VatFigures ==
  ASSUME ProfileOK, Real(today)
  PROVE  VatFigureIsOfItsPeriod
<1> PICK p, start : p = profile /\ start = profile.start
  OBVIOUS
<1>1. IsStart(start) /\ p.cadence \in {"monthly", "quarterly", "yearly"}
  BY Profiles
<1> SUFFICES ASSUME NEW row \in Upcoming(p, today), row.token # NoToken
             PROVE  LET window == Resolve(row.token, start)
                    IN CASE p.cadence = "monthly" -> window = MonthWindow(row.n)
                         [] p.cadence = "quarterly" -> window = CalendarQuarter(row.n)
                         [] p.cadence = "yearly" ->
                              /\ window = FiscalYearWindow(row.n, start)
                              /\ MonthIndex(row.due) = MonthIndex(window.to) + 2
  BY DEF VatFigureIsOfItsPeriod
<1>2. row \in Deadlines(p)
  BY <1>1, UpcomingDeadlines
<1>3. CASE \E n \in Int : row = Employer(n) \/ row = FSkatt(n) \/ row = Annual(p, n)
  BY <1>3 DEF Employer, FSkatt, Annual, Deadline
<1>4. CASE p.cadence = "monthly" /\ \E n \in Int : row = MonthlyVat(n)
  <2> PICK n \in Int : row = MonthlyVat(n)
    BY <1>4
  <2>1. row.token = Token("month", n) /\ row.n = n
    BY DEF MonthlyVat, Deadline
  <2>2. Resolve(Token("month", n), start) = MonthWindow(n)
    BY DEF Resolve, Token
  <2> QED BY <1>4, <2>1, <2>2
<1>5. CASE p.cadence = "quarterly" /\ \E n \in Int : row = QuarterlyRow(p, n)
  <2> PICK n \in Int : row = QuarterlyRow(p, n)
    BY <1>5
  <2>1. row.token = CalendarQuarterToken(n, start) /\ row.n = n
    BY DEF QuarterlyRow, Deadline
  <2>2. Resolve(CalendarQuarterToken(n, start), start) = CalendarQuarter(n)
    BY <2>1, QuarterTokens
  <2> QED BY <1>5, <2>1, <2>2
<1>6. CASE p.cadence = "yearly" /\ \E fy \in Int : row = YearlyVat(p, fy)
  <2> PICK fy \in Int : row = YearlyVat(p, fy)
    BY <1>6
  <2> PICK index \in Int, i \in Int : index = MonthIndex(FiscalYearWindow(fy, start).to) /\ i = index + 2
    BY <1>1, FiscalYearEnds
  <2>1. row.token = Token("fiscal-year", fy) /\ row.n = fy /\ row.due = TwentySixthRule(i)
    BY DEF YearlyVat, Deadline
  <2>2. Resolve(Token("fiscal-year", fy), start) = FiscalYearWindow(fy, start)
    BY DEF Resolve, Token
  <2>3. MonthIndex(TwentySixthRule(i)) = i
    BY RuleDays DEF DueIn
  <2> QED BY <1>6, <2>1, <2>2, <2>3
<1> QED BY <1>1, <1>2, <1>3, <1>4, <1>5, <1>6 DEF Deadlines

\* B orders the elements of S, any two of them.
TotalOrder(S, B) ==
  /\ \A x \in S : <<x, x>> \notin B
  /\ \A x, y \in S : x # y => <<x, y>> \in B \/ <<y, x>> \in B
  /\ \A x, y, z \in S : <<x, y>> \in B /\ <<y, z>> \in B => <<x, z>> \in B

\* The place of each element of a set, by the order B: one more than how many come before.
PlacesBy(S, B) == [x \in S |-> 1 + Cardinality({y \in S : <<y, x>> \in B})]

\* A finite set in a total order has an element at each place.
LEMMA PlacesInOrder ==
  ASSUME NEW S, IsFiniteSet(S), NEW B, TotalOrder(S, B)
  PROVE  /\ Cardinality(S) \in Nat
         /\ \A x \in S : PlacesBy(S, B)[x] \in 1..Cardinality(S)
         /\ \A x, y \in S : PlacesBy(S, B)[x] < PlacesBy(S, B)[y] => <<x, y>> \in B
         /\ \A n \in 1..Cardinality(S) : \E x \in S : PlacesBy(S, B)[x] = n
<1> PICK place : place = PlacesBy(S, B)
  OBVIOUS
<1> USE DEF TotalOrder
<1> DEFINE Below(x) == {y \in S : <<y, x>> \in B}
<1>1. Cardinality(S) \in Nat
  BY FS_CardinalityType
<1>2. \A x \in S : /\ IsFiniteSet(Below(x)) /\ Cardinality(Below(x)) \in Nat
                   /\ Cardinality(Below(x)) < Cardinality(S)
  <2> TAKE x \in S
  <2>1. Below(x) \in SUBSET S /\ Below(x) # S
    OBVIOUS
  <2>2. /\ IsFiniteSet(Below(x)) /\ Cardinality(Below(x)) <= Cardinality(S)
        /\ Cardinality(Below(x)) # Cardinality(S)
    BY <2>1, FS_Subset
  <2>3. Cardinality(Below(x)) \in Nat
    BY <2>2, FS_CardinalityType
  <2> HIDE DEF Below
  <2> QED BY <1>1, <2>2, <2>3
<1>3. place = [x \in S |-> 1 + Cardinality(Below(x))] /\ \A x \in S : place[x] = 1 + Cardinality(Below(x))
  BY DEF PlacesBy
<1>4. \A x, y \in S : <<x, y>> \in B => place[x] < place[y]
  <2> SUFFICES ASSUME NEW x \in S, NEW y \in S, <<x, y>> \in B PROVE place[x] < place[y]
    OBVIOUS
  <2>1. Below(x) \in SUBSET Below(y)
    <3>1. \A z \in S : <<z, x>> \in B => <<z, y>> \in B
      OBVIOUS
    <3> QED BY <3>1
  <2>2. x \in Below(y) /\ x \notin Below(x)
    OBVIOUS
  <2>3. Below(x) # Below(y)
    BY <2>2
  <2>4. /\ Cardinality(Below(x)) <= Cardinality(Below(y))
        /\ Cardinality(Below(x)) # Cardinality(Below(y))
    BY <1>2, <2>1, <2>3, FS_Subset
  <2> HIDE DEF Below
  <2>5. /\ Cardinality(Below(x)) \in Nat /\ Cardinality(Below(y)) \in Nat
        /\ place[x] = 1 + Cardinality(Below(x)) /\ place[y] = 1 + Cardinality(Below(y))
    BY <1>2, <1>3
  <2> QED BY ONLY <2>4, <2>5
<1> HIDE DEF Below
<1>5. \A x \in S : place[x] \in 1..Cardinality(S)
  BY <1>1, <1>2, <1>3
<1>6. \A x, y \in S : place[x] < place[y] => <<x, y>> \in B
  <2> SUFFICES ASSUME NEW x \in S, NEW y \in S, place[x] < place[y] PROVE <<x, y>> \in B
    OBVIOUS
  <2>1. place[x] \in Int /\ place[y] \in Int
    BY <1>5
  <2>2. x # y
    BY ONLY <2>1, place[x] < place[y]
  <2>3. ~(<<y, x>> \in B)
    <3>1. <<y, x>> \in B => place[y] < place[x]
      BY <1>4
    <3> QED BY ONLY <2>1, <3>1, place[x] < place[y]
  <2> QED BY <2>2, <2>3
<1>7. \A x, y \in S : place[x] = place[y] => x = y
  <2> SUFFICES ASSUME NEW x \in S, NEW y \in S, x # y PROVE place[x] # place[y]
    OBVIOUS
  <2>1. place[x] \in Int /\ place[y] \in Int
    BY <1>5
  <2>2. place[x] < place[y] \/ place[y] < place[x]
    BY <1>4
  <2> QED BY <2>1, <2>2
<1>8. \A n \in 1..Cardinality(S) : \E x \in S : place[x] = n
  <2>1. IsFiniteSet(1..Cardinality(S)) /\ Cardinality(1..Cardinality(S)) = Cardinality(S)
    BY <1>1, FS_Interval
  <2>2. place \in [S -> 1..Cardinality(S)]
    BY <1>3, <1>5
  <2>3. place \in Injection(S, 1..Cardinality(S))
    BY <1>7, <2>2 DEF Injection, IsInjective
  <2>4. place \in Surjection(S, 1..Cardinality(S))
    BY <2>1, <2>3, FS_Injection
  <2> QED BY <2>4 DEF Surjection
<1> QED BY <1>1, <1>5, <1>6, <1>8

\* The values of a function on a finite set are finitely many.
LEMMA FiniteValues ==
  ASSUME NEW S, IsFiniteSet(S), NEW f
  PROVE  IsFiniteSet({f[x] : x \in S})
<1> PICK T, g : T = {f[x] : x \in S} /\ g = [x \in S |-> f[x]]
  OBVIOUS
<1>1. g \in Surjection(S, T)
  BY DEF Surjection
<1> QED BY <1>1, FS_Surjection

\* A timeline is of finitely many deadlines.
LEMMA FewUpcoming ==
  ASSUME NEW p, IsStart(p.start), NEW day, Real(day)
  PROVE  IsFiniteSet(Upcoming(p, day))
<1> PICK first \in Int, y \in Int : first = MonthIndex(day) /\ y = YearOf(day)
  BY RealDays, IndexParts
<1> PICK z \in Int : z = YearOf(AddDays(day, HorizonDays))
  BY HorizonMonths, RealDays, IndexParts
<1> PICK months \in Int : months = (HorizonDays + 27) \div 28
  BY TaxYearConstants
<1> PICK I, J, K : I = first - 4 .. first + months + 2 /\ J = 4 * (y - 1) .. 4 * z + 3 /\ K = y - 2 .. y + 1
  OBVIOUS
<1>1. IsFiniteSet(I) /\ IsFiniteSet(J) /\ IsFiniteSet(K)
  <2>1. /\ first - 4 \in Int /\ first + months + 2 \in Int /\ 4 * (y - 1) \in Int /\ 4 * z + 3 \in Int
        /\ y - 2 \in Int /\ y + 1 \in Int
    BY ONLY first \in Int, months \in Int, y \in Int, z \in Int
  <2> QED BY <2>1, FS_Interval
<1>2. CandidateMonths(day) = I
  BY DEF CandidateMonths
<1> PICK f1, f2, f3, f4, f5, f6 :
      /\ f1 = [n \in I |-> Employer(n - 1)] /\ f2 = [n \in I |-> FSkatt(n)] /\ f3 = [n \in I |-> MonthlyVat(n)]
      /\ f4 = [n \in J |-> QuarterlyRow(p, n)] /\ f5 = [n \in K |-> Annual(p, n)] /\ f6 = [n \in K |-> YearlyVat(p, n)]
  OBVIOUS
<1> PICK v1, v2, v3, v4, v5, v6 :
      /\ v1 = {f1[n] : n \in I} /\ v2 = {f2[n] : n \in I} /\ v3 = {f3[n] : n \in I}
      /\ v4 = {f4[n] : n \in J} /\ v5 = {f5[n] : n \in K} /\ v6 = {f6[n] : n \in K}
  OBVIOUS
<1>3. /\ IsFiniteSet(v1) /\ IsFiniteSet(v2) /\ IsFiniteSet(v3)
      /\ IsFiniteSet(v4) /\ IsFiniteSet(v5) /\ IsFiniteSet(v6)
  <2>1. IsFiniteSet({f1[n] : n \in I}) /\ IsFiniteSet({f2[n] : n \in I}) /\ IsFiniteSet({f3[n] : n \in I})
    BY ONLY <1>1, FiniteValues
  <2>2. IsFiniteSet({f4[n] : n \in J}) /\ IsFiniteSet({f5[n] : n \in K}) /\ IsFiniteSet({f6[n] : n \in K})
    BY ONLY <1>1, FiniteValues
  <2> QED BY <2>1, <2>2
<1> PICK V, w, u : V = w \cup u /\ w = v1 \cup v2 \cup v3 /\ u = v4 \cup v5 \cup v6
  OBVIOUS
<1>4. IsFiniteSet(V)
  <2>1. IsFiniteSet(v1 \cup v2) /\ IsFiniteSet(v4 \cup v5)
    BY ONLY <1>3, FS_Union
  <2>2. IsFiniteSet((v1 \cup v2) \cup v3) /\ IsFiniteSet((v4 \cup v5) \cup v6)
    BY ONLY <1>3, <2>1, FS_Union
  <2>3. IsFiniteSet(w) /\ IsFiniteSet(u)
    BY <2>2
  <2> QED BY <2>3, FS_Union
<1>5. \A row \in Candidates(p, day) : row \in V
  <2> TAKE row \in Candidates(p, day)
  <2>1. \/ row \in {Employer(index - 1) : index \in CandidateMonths(day)}
        \/ row \in {FSkatt(index) : index \in CandidateMonths(day)}
        \/ row \in {MonthlyVat(index) : index \in {i \in CandidateMonths(day) : p.cadence = "monthly"}}
        \/ row \in {QuarterlyRow(p, n) :
             n \in {i \in 4 * (YearOf(day) - 1) .. 4 * YearOf(AddDays(day, HorizonDays)) + 3 : p.cadence = "quarterly"}}
        \/ row \in {Annual(p, fy) : fy \in YearOf(day) - 2 .. YearOf(day) + 1}
        \/ row \in {YearlyVat(p, fy) : fy \in {i \in YearOf(day) - 2 .. YearOf(day) + 1 : p.cadence = "yearly"}}
    BY DEF Candidates
  <2>2. row \in v1 \/ row \in v2 \/ row \in v3 \/ row \in v4 \/ row \in v5 \/ row \in v6
    BY <1>2, <2>1
  <2> QED BY <2>2
<1>6. Upcoming(p, day) \in SUBSET V
  <2>1. \A row \in Upcoming(p, day) : row \in Candidates(p, day)
    BY UpcomingRows
  <2> QED BY ONLY <1>5, <2>1
<1> QED BY ONLY <1>4, <1>6, FS_Subset

\* The order of the timeline: by the due day, then by the id.
Ranks == [k \in {"annual-report", "employer-declaration", "f-skatt", "vat-return"} |->
            CASE k = "annual-report" -> 1 [] k = "employer-declaration" -> 2
              [] k = "f-skatt" -> 3 [] OTHER -> 4]

Earlier(a, b) ==
  \/ a.due < b.due
  \/ a.due = b.due /\ Ranks[a.kind] < Ranks[b.kind]
  \/ a.due = b.due /\ a.kind = b.kind /\ a.n < b.n

PlaceIn(rows) == [row \in rows |-> 1 + Cardinality({other \in rows : Earlier(other, row)})]

\* The timeline holds each row at its place.
LEMMA TimelinePlaces ==
  ASSUME NEW p, NEW day
  PROVE  Timeline(p, day)
           = [i \in 1..(IF Cardinality(Upcoming(p, day)) < TimelineLimit
                        THEN Cardinality(Upcoming(p, day)) ELSE TimelineLimit) |->
                CHOOSE row \in Upcoming(p, day) : PlaceIn(Upcoming(p, day))[row] = i]
BY DEF Timeline, PlaceIn, Earlier, Ranks

\* The timeline is in order, without doubles, and no tax is due on a weekend.
LEMMA TimelineInOrder ==
  ASSUME ProfileOK, Real(today)
  PROVE  TimelineIsOrdered
<1> PICK p : p = profile
  OBVIOUS
<1>1. IsStart(p.start)
  BY Profiles
<1> PICK S : S = Upcoming(p, today)
  OBVIOUS
<1>2. IsFiniteSet(S)
  BY <1>1, FewUpcoming
<1>3. \A row \in S : /\ row.kind \in RowKinds /\ row.n \in Int /\ row = RowOf(p, row.kind, row.n)
                     /\ row.due \in Int /\ (row.kind # "annual-report" => Weekday(row.due) \in 1..5)
  BY <1>1, UpcomingDeadlines, RowsOfAKind
<1>4. \A k \in RowKinds : Ranks[k] \in Int
  BY DEF Ranks, RowKinds
<1>5. \A k, l \in RowKinds : Ranks[k] = Ranks[l] => k = l
  BY DEF Ranks, RowKinds
<1>6. \A a, b \in S : a.kind = b.kind /\ a.n = b.n => a = b
  BY <1>3
<1> PICK B : B = {pair \in S \X S : Earlier(pair[1], pair[2])}
  OBVIOUS
<1>7. \A a, b \in S : <<a, b>> \in B <=> Earlier(a, b)
  OBVIOUS
<1>8. \A a \in S : <<a, a>> \notin B
  BY <1>3, <1>4, <1>7 DEF Earlier
<1>9. \A a, b \in S : a # b => <<a, b>> \in B \/ <<b, a>> \in B
  <2> SUFFICES ASSUME NEW a \in S, NEW b \in S, ~Earlier(a, b), ~Earlier(b, a) PROVE a = b
    BY <1>7
  <2>1. /\ a.due \in Int /\ b.due \in Int /\ a.n \in Int /\ b.n \in Int
        /\ a.kind \in RowKinds /\ b.kind \in RowKinds
        /\ Ranks[a.kind] \in Int /\ Ranks[b.kind] \in Int
    BY <1>3, <1>4
  <2>2. a.due = b.due
    BY <2>1 DEF Earlier
  <2>3. a.kind = b.kind
    BY <1>5, <2>1, <2>2 DEF Earlier
  <2>4. a.n = b.n
    BY <2>1, <2>2, <2>3 DEF Earlier
  <2> QED BY <1>6, <2>3, <2>4
<1>10. \A a, b, c \in S : <<a, b>> \in B /\ <<b, c>> \in B => <<a, c>> \in B
  <2> SUFFICES ASSUME NEW a \in S, NEW b \in S, NEW c \in S, Earlier(a, b), Earlier(b, c)
               PROVE  Earlier(a, c)
    BY <1>7
  <2>1. /\ a.due \in Int /\ b.due \in Int /\ c.due \in Int /\ a.n \in Int /\ b.n \in Int /\ c.n \in Int
        /\ Ranks[a.kind] \in Int /\ Ranks[b.kind] \in Int /\ Ranks[c.kind] \in Int
    BY <1>3, <1>4
  <2> QED BY <2>1 DEF Earlier
<1> PICK place : place = PlaceIn(S)
  OBVIOUS
<1>11. place = PlacesBy(S, B)
  <2>1. \A a \in S : {b \in S : <<b, a>> \in B} = {b \in S : Earlier(b, a)}
    BY <1>7
  <2> QED BY <2>1 DEF PlaceIn, PlacesBy
<1> PICK count : count = Cardinality(S)
  OBVIOUS
<1>12. /\ count \in Nat
       /\ \A a, b \in S : place[a] < place[b] => <<a, b>> \in B
       /\ \A n \in 1..count : \E a \in S : place[a] = n
  <2>1. /\ Cardinality(S) \in Nat
        /\ \A a, b \in S : PlacesBy(S, B)[a] < PlacesBy(S, B)[b] => <<a, b>> \in B
        /\ \A n \in 1..Cardinality(S) : \E a \in S : PlacesBy(S, B)[a] = n
    <3>1. TotalOrder(S, B)
      BY ONLY <1>8, <1>9, <1>10 DEF TotalOrder
    <3> QED BY ONLY <1>2, <3>1, PlacesInOrder
  <2> QED BY <1>11, <2>1
<1> PICK t, m : t = Timeline(p, today) /\ m = IF count < TimelineLimit THEN count ELSE TimelineLimit
  OBVIOUS
<1>13. t = [i \in 1..m |-> CHOOSE row \in S : place[row] = i]
  BY TimelinePlaces
<1>14. m \in Nat /\ m <= count
  BY <1>12, TaxYearConstants
<1>15. \A i \in 1..m : t[i] \in S /\ place[t[i]] = i
  <2> TAKE i \in 1..m
  <2>1. i \in 1..count
    BY <1>12, <1>14
  <2>2. \E row \in S : place[row] = i
    BY <1>12, <2>1
  <2> QED BY <1>13, <2>2
<1>16. DOMAIN t = 1..m
  BY <1>13
<1>17. \A i, j \in 1..m : i < j => t[i].due <= t[j].due
  <2> SUFFICES ASSUME NEW i \in 1..m, NEW j \in 1..m, i < j PROVE t[i].due <= t[j].due
    OBVIOUS
  <2>1. t[i] \in S /\ t[j] \in S /\ place[t[i]] < place[t[j]]
    BY <1>15
  <2>2. Earlier(t[i], t[j])
    BY <1>7, <1>12, <2>1
  <2>3. t[i].due \in Int /\ t[j].due \in Int
    BY <1>3, <2>1
  <2> QED BY <2>2, <2>3 DEF Earlier
<1>18. \A i, j \in 1..m : <<t[i].kind, t[i].n>> = <<t[j].kind, t[j].n>> => i = j
  <2> SUFFICES ASSUME NEW i \in 1..m, NEW j \in 1..m, t[i].kind = t[j].kind, t[i].n = t[j].n PROVE i = j
    OBVIOUS
  <2>1. t[i] = t[j]
    BY <1>6, <1>15
  <2> QED BY <1>15, <2>1
<1>19. \A i \in 1..m : t[i].kind # "annual-report" => Weekday(t[i].due) \in 1..5
  BY <1>3, <1>15
<1> QED BY <1>16, <1>17, <1>18, <1>19 DEF TimelineIsOrdered

-----------------------------------------------------------------------------
(* The specification.                                                      *)

TaxInv == ProfileOK /\ Real(today)

\* The code begins on a real day, and every step leads to one.
LEMMA TaxSteps ==
  /\ TaxInit => TaxInv
  /\ TaxInv /\ [TaxNext]_taxVars => TaxInv'
<1>1. TaxInit => TaxInv
  BY TaxYearConstants, FirstDayIsReal DEF TaxInit, TaxInv, ProfileOK, Real
<1>2. ASSUME TaxInv, [TaxNext]_taxVars PROVE TaxInv'
  <2>1. CASE Tomorrow
    <3>1. today' = NextDay(today)
      BY <1>2, <2>1, HorizonMoves, 0 \in Nat DEF TaxInv, Tomorrow
    <3>2. Real(NextDay(today))
      BY <1>2, DayAfter DEF TaxInv
    <3> QED BY <1>2, <2>1, <3>1, <3>2 DEF TaxInv, ProfileOK, Tomorrow, Real
  <2>2. CASE \E settings \in [start : FiscalStarts, cadence : Cadences] : PutCompanySettings(settings)
    BY <1>2, <2>2 DEF TaxInv, ProfileOK, PutCompanySettings
  <2>3. CASE UNCHANGED taxVars
    BY <1>2, <2>3 DEF TaxInv, ProfileOK, taxVars
  <2> QED BY <1>2, <2>1, <2>2, <2>3 DEF TaxNext
<1> QED BY <1>1, <1>2

\* Every day the periods tile, compare backwards and the timeline is what it should be.
LEMMA EveryDay ==
  ASSUME TaxInv
  PROVE  /\ PeriodsTile /\ YearToDateComparesBackwards
         /\ VatPeriodIsCurrent /\ VatFigureIsOfItsPeriod /\ TimelineIsOrdered
BY Tiling, Comparison, CurrentPeriod, VatFigures, TimelineInOrder DEF TaxInv, Real

\* Every step keeps the timeline steady.
LEMMA TimelineMovesOns ==
  ASSUME TaxInv, [TaxNext]_taxVars
  PROVE  TimelineMovesOn
<1> SUFFICES ASSUME profile' = profile
             PROVE  {row \in Upcoming(profile, today) : row.due >= today'}
                      = {row \in Upcoming(profile, today') : row.due <= AddDays(today, HorizonDays)}
  BY DEF TimelineMovesOn
<1> PICK p, day, next : p = profile /\ day = today /\ next = today'
  OBVIOUS
<1>1. IsStart(p.start) /\ Real(day)
  BY Profiles DEF TaxInv
<1>2. next = NextDay(day) \/ next = day
  <2>1. Tomorrow => today' = NextDay(today)
    BY <1>1, HorizonMoves, 0 \in Nat DEF Tomorrow
  <2> QED BY <2>1 DEF TaxNext, PutCompanySettings, taxVars
<1>3. CASE next = NextDay(day)
  BY <1>1, <1>3, SteadyDeadlines
<1>4. CASE next = day
  <2>1. {row \in Upcoming(p, day) : row.due >= day} = {row \in Upcoming(p, day) : row.due <= AddDays(day, HorizonDays)}
    BY <1>1, UpcomingDeadlines
  <2> QED BY <1>4, <2>1
<1> QED BY <1>2, <1>3, <1>4

\* Whatever day it is and whatever the settings are, they are what the code expects.
LEMMA TaxInvariant == TaxSpec => []TaxInv
<1>1. TaxInit => TaxInv
  BY TaxSteps
<1>2. TaxInv /\ [TaxNext]_taxVars => TaxInv'
  BY TaxSteps
<1> QED BY <1>1, <1>2, PTL DEF TaxSpec

\* The code begins on a real day and is never asked of any other (addDays).
THEOREM EveryTodayIsReal == TaxSpec => []RealDay(today)
<1>1. TaxInv => RealDay(today)
  BY DEF TaxInv, Real
<1> QED
  BY <1>1, TaxInvariant, PTL

\* From any day on, with any settings the company may put: the periods tile the
\* calendar and are compared backwards (resolvePeriodToken), and no deadline of the
\* timeline is missed, late or joined to another period's figure (buildTaxTimeline).
THEOREM DeadlinesFollow == TaxSpec => DeadlinesFollowPeriods
<1>1. TaxSpec => []TaxInv
  BY TaxInvariant
<1>2. TaxInv => /\ PeriodsTile /\ YearToDateComparesBackwards
                /\ VatPeriodIsCurrent /\ VatFigureIsOfItsPeriod /\ TimelineIsOrdered
  BY EveryDay
<1>3. TaxInv /\ [TaxNext]_taxVars => [TimelineMovesOn]_taxVars
  BY TimelineMovesOns
<1>4. TaxSpec => [][TimelineMovesOn]_taxVars
  BY <1>1, <1>3, PTL DEF TaxSpec
<1>5. TaxSpec => DeadlinesAreSteady
  BY <1>4 DEF DeadlinesAreSteady
<1> QED BY <1>1, <1>2, <1>5, PTL DEF DeadlinesFollowPeriods
=============================================================================
