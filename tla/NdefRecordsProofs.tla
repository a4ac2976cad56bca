-------------------------- MODULE NdefRecordsProofs --------------------------
(***************************************************************************)
(* Theorems of NdefRecords, for all messages in any layout: the records     *)
(* printed are those of the message, no byte behind it is touched but the   *)
(* one that a text is cut off with, and every step leaves less to be done.  *)
(*                                                                          *)
(* The positions of records and fields are recursive functions; that they   *)
(* satisfy their equations, and grow, follows from the least-number         *)
(* principle, stated for sets.                                              *)
(***************************************************************************)
EXTENDS NdefRecords, Integers, WellFoundedInduction, TLAPS

-----------------------------------------------------------------------------
(* Sums *)

LEMMA Least ==
  ASSUME NEW T \in SUBSET Nat, T # {}
  PROVE  \E m \in T : \A k \in T : m <= k
PROOF
<1> DEFINE R == OpToRel(<, Nat)
<1>1. IsWellFoundedOn(R, Nat)
  BY NatLessThanWellFounded
<1>2. \A x, y \in Nat : <<y, x>> \in R <=> y < x
  BY DEF OpToRel
<1> HIDE DEF R
<1>3. PICK m \in T : \A k \in T : ~(<<k, m>> \in R)
  BY <1>1, WFMin
<1>4. ASSUME NEW k \in T
      PROVE  m <= k
  <2>1. k \in Nat /\ m \in Nat
    OBVIOUS
  <2>2. ~(k < m)
    BY <1>2, <1>3, <2>1
  <2> QED
    BY <2>1, <2>2
<1> QED
  BY <1>4

(* f sums up the first n of the numbers in L.                                *)
Sums(f, L, n) ==
  /\ f \in [1 .. n + 1 -> Nat]
  /\ f[1] = 0
  /\ \A j \in 1 .. n : f[j + 1] = f[j] + L[j]

LEMMA SumsExist ==
  ASSUME NEW n \in Nat, NEW L \in [1 .. n -> Nat]
  PROVE  \E f : Sums(f, L, n)
PROOF
<1> DEFINE T == {k \in 0 .. n : ~ \E f : Sums(f, L, k)}
<1>1. SUFFICES ASSUME T # {}
               PROVE  FALSE
  <2>1. n \in 0 .. n
    OBVIOUS
  <2> QED
    BY <2>1
<1>2. PICK m \in T : \A k \in T : m <= k
  <2>1. T \in SUBSET Nat
    OBVIOUS
  <2> HIDE DEF T
  <2> QED
    BY <1>1, <2>1, Least
<1>3. m \in 0 .. n /\ ~ \E f : Sums(f, L, m)
  BY <1>2
<1>4. m # 0
  <2>1. Sums([j \in 1 .. 1 |-> 0], L, 0)
    BY DEF Sums
  <2> QED
    BY <1>3, <2>1
<1>5. m - 1 \in 0 .. n /\ m - 1 \notin T
  <2>1. m - 1 \in 0 .. n /\ ~(m <= m - 1)
    BY <1>3, <1>4
  <2> HIDE DEF T
  <2> QED
    BY <1>2, <2>1
<1>6. PICK f : Sums(f, L, m - 1)
  BY <1>5
<1>7. Sums([j \in 1 .. m + 1 |-> IF j <= m THEN f[j] ELSE f[m] + L[m]], L, m)
  <2> DEFINE g == [j \in 1 .. m + 1 |-> IF j <= m THEN f[j] ELSE f[m] + L[m]]
  <2>1. m \in Nat /\ 1 <= m /\ m <= n /\ (m - 1) + 1 = m
    BY <1>3, <1>4
  <2>2. f \in [1 .. m -> Nat] /\ f[1] = 0 /\ \A j \in 1 .. m - 1 : f[j + 1] = f[j] + L[j]
    BY <1>6, <2>1 DEF Sums
  <2>3. L[m] \in Nat /\ f[m] \in Nat
    BY <2>1, <2>2
  <2>4. g \in [1 .. m + 1 -> Nat] /\ g[1] = 0
    BY <2>1, <2>2, <2>3
  <2>5. ASSUME NEW j \in 1 .. m
        PROVE  g[j + 1] = g[j] + L[j]
    <3>1. CASE j = m
      BY <3>1, <2>1
    <3>2. CASE j # m
      BY <3>2, <2>1, <2>2
    <3> QED
      BY <3>1, <3>2
  <2> HIDE DEF g
  <2>6. Sums(g, L, m)
    BY <2>4, <2>5 DEF Sums
  <2> QED
    BY <2>6 DEF g
<1> QED
  BY <1>3, <1>7

(* Sums grow.                                                                *)
LEMMA SumsGrow ==
  ASSUME NEW n \in Nat, NEW L \in [1 .. n -> Nat], NEW f, Sums(f, L, n),
         NEW i \in 1 .. n + 1, NEW k \in i .. n + 1
  PROVE  f[i] <= f[k]
PROOF
<1> DEFINE T == {j \in i .. n + 1 : ~(f[i] <= f[j])}
<1>1. SUFFICES ASSUME T # {}
               PROVE  FALSE
  OBVIOUS
<1>2. PICK m \in T : \A j \in T : m <= j
  <2>1. T \in SUBSET Nat
    OBVIOUS
  <2> HIDE DEF T
  <2> QED
    BY <1>1, <2>1, Least
<1>3. m \in i .. n + 1 /\ ~(f[i] <= f[m])
  BY <1>2
<1>4. m # i
  BY <1>3 DEF Sums
<1>5. m - 1 \in i .. n + 1 /\ m - 1 \notin T
  <2>1. m - 1 \in i .. n + 1 /\ ~(m <= m - 1)
    BY <1>3, <1>4
  <2> HIDE DEF T
  <2> QED
    BY <1>2, <2>1
<1>6. f[i] <= f[m - 1]
  BY <1>5
<1>7. m - 1 \in 1 .. n /\ f[(m - 1) + 1] = f[m - 1] + L[m - 1] /\ L[m - 1] \in Nat
  BY <1>3, <1>4 DEF Sums
<1>8. f[m] \in Nat /\ f[m - 1] \in Nat /\ f[i] \in Nat /\ (m - 1) + 1 = m
  BY <1>3, <1>5 DEF Sums
<1> QED
  BY <1>3, <1>6, <1>7, <1>8

(* What a recursive definition of a sum defines.                             *)
LEMMA SumsDefined ==
  ASSUME NEW n \in Nat, NEW L \in [1 .. n -> Nat], NEW f,
         f = [j \in 1 .. n + 1 |-> IF j = 1 THEN 0 ELSE f[j - 1] + L[j - 1]]
  PROVE  Sums(f, L, n)
PROOF
<1>1. f[1] = 0
  OBVIOUS
<1>2. ASSUME NEW j \in 1 .. n
      PROVE  f[j + 1] = f[j] + L[j]
  <2>1. j + 1 \in 1 .. n + 1 /\ j + 1 # 1 /\ (j + 1) - 1 = j
    OBVIOUS
  <2> QED
    BY <2>1
<1> DEFINE T == {j \in 1 .. n + 1 : f[j] \notin Nat}
<1>3. T = {}
  <2> SUFFICES ASSUME T # {}
               PROVE  FALSE
    OBVIOUS
  <2>1. PICK m \in T : \A k \in T : m <= k
    <3>1. T \in SUBSET Nat
      OBVIOUS
    <3> HIDE DEF T
    <3> QED
      BY <3>1, Least
  <2>2. m \in 1 .. n + 1 /\ f[m] \notin Nat
    BY <2>1
  <2>3. m # 1
    BY <1>1, <2>2
  <2>4. m - 1 \in 1 .. n /\ (m - 1) + 1 = m /\ m - 1 \notin T
    <3>1. m - 1 \in 1 .. n /\ (m - 1) + 1 = m /\ ~(m <= m - 1)
      BY <2>2, <2>3
    <3> HIDE DEF T
    <3> QED
      BY <2>1, <3>1
  <2>5. f[m - 1] \in Nat
    BY <2>4
  <2>6. f[m] = f[m - 1] + L[m - 1] /\ L[m - 1] \in Nat
    BY <1>2, <2>4
  <2> QED
    BY <2>2, <2>5, <2>6
<1>4. f \in [1 .. n + 1 -> Nat]
  <2>1. \A j \in 1 .. n + 1 : f[j] \in Nat
    BY <1>3
  <2> QED
    BY <2>1
<1> QED
  BY <1>1, <1>2, <1>4 DEF Sums

LEMMA BeginsSums ==
  ASSUME NEW L \in Seq(Nat)
  PROVE  Sums(Begins(L), L, Len(L))
PROOF
<1> DEFINE n == Len(L)
           Defines(f) == f = [j \in 1 .. Len(L) + 1 |-> IF j = 1 THEN 0 ELSE f[j - 1] + L[j - 1]]
<1>1. n \in Nat /\ L \in [1 .. n -> Nat]
  OBVIOUS
<1>2. PICK f : Sums(f, L, n)
  <2> HIDE DEF n
  <2> QED
    BY <1>1, SumsExist
<1>3. Defines(f)
  <2>1. ASSUME NEW j \in 1 .. n + 1
        PROVE  f[j] = IF j = 1 THEN 0 ELSE f[j - 1] + L[j - 1]
    <3>1. CASE j = 1
      BY <1>2, <3>1 DEF Sums
    <3>2. CASE j # 1
      <4>1. j - 1 \in 1 .. n /\ (j - 1) + 1 = j
        BY <1>1, <3>2
      <4>2. f[j] = f[j - 1] + L[j - 1]
        BY <1>2, <4>1 DEF Sums
      <4> QED
        BY <3>2, <4>2
    <3> QED
      BY <3>1, <3>2
  <2>2. f = [j \in 1 .. n + 1 |-> f[j]]
    BY <1>2 DEF Sums
  <2> QED
    BY <2>1, <2>2
<1>4. Begins(L) = [j \in 1 .. n + 1 |-> IF j = 1 THEN 0 ELSE Begins(L)[j - 1] + L[j - 1]]
  BY <1>3 DEF Begins
<1> QED
  <2> DEFINE b == Begins(L)
  <2>1. b = [j \in 1 .. n + 1 |-> IF j = 1 THEN 0 ELSE b[j - 1] + L[j - 1]]
    BY <1>4
  <2> HIDE DEF n, b
  <2>2. Sums(b, L, n)
    BY <1>1, <2>1, SumsDefined
  <2> QED
    BY <2>2 DEF n, b

-----------------------------------------------------------------------------
(* The positions of records and fields *)

Records == Seq(Record)

TokenFields == [tag : Fields, len : Nat]

LEMMA RecordFacts ==
  ASSUME NEW r \in Record
  PROVE  /\ r.sr \in BOOLEAN /\ r.il \in BOOLEAN /\ r.tlen \in Nat /\ r.idlen \in Nat /\ r.plen \in Nat
         /\ TypeStart(r) \in Nat /\ Length(r) \in Nat /\ Length(r) >= 3
         /\ r.plen <= Length(r)
         /\ r.fields \in Seq(TokenFields)
PROOF
<1>1. r.sr \in BOOLEAN /\ r.il \in BOOLEAN /\ r.tlen \in Nat /\ r.idlen \in Nat /\ r.plen \in Nat
  BY DEF Record
<1>2. TypeStart(r) \in Nat /\ TypeStart(r) >= 3
  BY <1>1 DEF TypeStart
<1>3. Length(r) \in Nat /\ Length(r) >= 3 /\ r.plen <= Length(r)
  BY <1>1, <1>2 DEF Length
<1> QED
  BY <1>1, <1>2, <1>3 DEF Record, TokenFields

LEMMA StatusByte ==
  ASSUME NEW r \in Record
  PROVE  r.status \in Nat
PROOF
<1>1. r.status \in 0 .. 255
  BY DEF Record
<1> QED
  BY <1>1

(* The records of a message lie one behind the other.                       *)
LEMMA Layout ==
  ASSUME NEW recs \in Records
  PROVE  /\ \A i \in 1 .. Len(recs) + 1 : Start(recs, i) \in Nat
         /\ Start(recs, 1) = 0
         /\ \A i \in 1 .. Len(recs) : Start(recs, i + 1) = Start(recs, i) + Length(recs[i])
         /\ \A i \in 1 .. Len(recs) + 1 : \A k \in i .. Len(recs) + 1 : Start(recs, i) <= Start(recs, k)
         /\ \A i, k \in 1 .. Len(recs) + 1 : Start(recs, i) = Start(recs, k) => i = k
PROOF
<1> DEFINE n == Len(recs)
           L == [i \in 1 .. Len(recs) |-> Length(recs[i])]
           b == Begins(L)
<1>1. n \in Nat /\ L \in Seq(Nat) /\ L \in [1 .. n -> Nat] /\ Len(L) = n
  BY RecordFacts DEF Records
<1>2. \A i : Start(recs, i) = b[i]
  BY DEF Start
<1>3. \A i \in 1 .. n : L[i] = Length(recs[i]) /\ L[i] >= 3
  BY RecordFacts DEF Records
<1> HIDE DEF n, L
<1>4. Sums(b, L, n)
  BY <1>1, BeginsSums
<1> HIDE DEF b
<1>5. \A i \in 1 .. n + 1 : \A k \in i .. n + 1 : b[i] <= b[k]
  BY <1>1, <1>4, SumsGrow
<1>6. b \in [1 .. n + 1 -> Nat] /\ b[1] = 0 /\ \A i \in 1 .. n : b[i + 1] = b[i] + L[i]
  BY <1>4 DEF Sums
<1>7. ASSUME NEW i \in 1 .. n + 1, NEW k \in 1 .. n + 1, i < k
      PROVE  b[i] # b[k]
  <2>1. i \in 1 .. n /\ i + 1 \in 1 .. n + 1 /\ k \in i + 1 .. n + 1
    BY <1>1, <1>7
  <2>2. b[i + 1] = b[i] + L[i] /\ L[i] >= 3 /\ L[i] \in Nat
    BY <1>1, <1>3, <1>6, <2>1
  <2>3. b[i + 1] <= b[k]
    BY <1>5, <2>1
  <2>4. b[i] \in Nat /\ b[k] \in Nat /\ b[i + 1] \in Nat
    BY <1>6, <2>1
  <2> QED
    BY <2>2, <2>3, <2>4
<1>8. \A i, k \in 1 .. n + 1 : b[i] = b[k] => i = k
  <2> SUFFICES ASSUME NEW i \in 1 .. n + 1, NEW k \in 1 .. n + 1, i # k
               PROVE  b[i] # b[k]
    OBVIOUS
  <2>1. i < k \/ k < i
    BY <1>1
  <2> QED
    BY <1>7, <2>1
<1> QED
  <2>1. \A i \in 1 .. n : b[i + 1] = b[i] + Length(recs[i])
    BY <1>3, <1>6
  <2>2. b[1] = 0 /\ \A i \in 1 .. n + 1 : b[i] \in Nat
    BY <1>6
  <2>3. /\ \A i \in 1 .. n + 1 : Start(recs, i) \in Nat
        /\ Start(recs, 1) = 0
        /\ \A i \in 1 .. n : Start(recs, i + 1) = Start(recs, i) + Length(recs[i])
    BY <1>2, <2>1, <2>2
  <2>4. /\ \A i \in 1 .. n + 1 : \A k \in i .. n + 1 : Start(recs, i) <= Start(recs, k)
        /\ \A i, k \in 1 .. n + 1 : Start(recs, i) = Start(recs, k) => i = k
    BY <1>2, <1>5, <1>8
  <2> QED
    BY <2>3, <2>4 DEF n

LEMMA FieldLengthType ==
  ASSUME NEW f \in TokenFields
  PROVE  FieldLength(f) \in Nat
PROOF
<1>1. f.len \in Nat
  BY DEF TokenFields
<1>2. CASE f.tag = "wrapper"
  BY <1>2 DEF FieldLength
<1>3. CASE f.tag = "junk"
  BY <1>3 DEF FieldLength
<1>4. CASE f.tag \notin {"wrapper", "junk"}
  BY <1>1, <1>4 DEF FieldLength
<1> QED
  BY <1>2, <1>3, <1>4

(* The fields of a token lie one behind the other.                           *)
LEMMA FieldLayout ==
  ASSUME NEW fs \in Seq(TokenFields)
  PROVE  /\ \A i \in 1 .. Len(fs) + 1 : FieldStart(fs, i) \in Nat
         /\ FieldStart(fs, 1) = 0
         /\ \A i \in 1 .. Len(fs) : FieldStart(fs, i + 1) = FieldStart(fs, i) + FieldLength(fs[i])
         /\ \A i \in 1 .. Len(fs) + 1 : \A k \in i .. Len(fs) + 1 : FieldStart(fs, i) <= FieldStart(fs, k)
PROOF
<1> DEFINE n == Len(fs)
           L == [i \in 1 .. Len(fs) |-> FieldLength(fs[i])]
           b == Begins(L)
<1>1. ASSUME NEW i \in 1 .. n
      PROVE  FieldLength(fs[i]) \in Nat
  <2>1. fs[i] \in TokenFields
    OBVIOUS
  <2> QED
    BY <2>1, FieldLengthType
<1>2. n \in Nat /\ L \in Seq(Nat) /\ L \in [1 .. n -> Nat] /\ Len(L) = n
  BY <1>1
<1>3. \A i : FieldStart(fs, i) = b[i]
  BY DEF FieldStart
<1>4. \A i \in 1 .. n : L[i] = FieldLength(fs[i])
  OBVIOUS
<1> HIDE DEF n, L
<1>5. Sums(b, L, n)
  BY <1>2, BeginsSums
<1> HIDE DEF b
<1>6. \A i \in 1 .. n + 1 : \A k \in i .. n + 1 : b[i] <= b[k]
  BY <1>2, <1>5, SumsGrow
<1>7. b \in [1 .. n + 1 -> Nat] /\ b[1] = 0 /\ \A i \in 1 .. n : b[i + 1] = b[i] + L[i]
  BY <1>5 DEF Sums
<1>8. \A i \in 1 .. n : b[i + 1] = b[i] + FieldLength(fs[i])
  BY <1>4, <1>7
<1> QED
  BY <1>3, <1>6, <1>7, <1>8 DEF n

(* A field of a token ends before the next one.                              *)
LEMMA FieldInside ==
  ASSUME NEW fs \in Seq(TokenFields), NEW k \in 1 .. Len(fs)
  PROVE  /\ FieldStart(fs, k) \in Nat
         /\ FieldStart(fs, Len(fs) + 1) \in Nat
         /\ FieldStart(fs, k) + FieldLength(fs[k]) <= FieldStart(fs, Len(fs) + 1)
PROOF
<1>1. Len(fs) \in Nat
  OBVIOUS
<1>2. k \in 1 .. Len(fs) + 1 /\ k + 1 \in 1 .. Len(fs) + 1 /\ Len(fs) + 1 \in k + 1 .. Len(fs) + 1
  BY <1>1
<1>3. Len(fs) + 1 \in 1 .. Len(fs) + 1
  BY <1>1
<1> QED
  BY <1>2, <1>3, FieldLayout

-----------------------------------------------------------------------------
(* Types of records *)

LEMMA Table ==
  /\ DOMAIN MediaLength = {"xvcard", "vcard", "wifi", "bt", "ble", "secure"}
  /\ MediaLength["xvcard"] = 12 /\ MediaLength["vcard"] = 10 /\ MediaLength["wifi"] = 23
  /\ MediaLength["bt"] = 32 /\ MediaLength["ble"] = 32 /\ MediaLength["secure"] = 39
  /\ DOMAIN WellKnown = {"T", "U", "Sp", "Hs", "Hr", "ac", "cr"}
  /\ DOMAIN Compared = 1 .. 6 /\ DOMAIN Compared \in SUBSET Nat
  /\ Compared[1] = "xvcard" /\ Compared[2] = "vcard" /\ Compared[3] = "wifi"
  /\ Compared[4] = "bt" /\ Compared[5] = "ble" /\ Compared[6] = "secure"
PROOF
<1>1. DOMAIN MediaLength = {"xvcard", "vcard", "wifi", "bt", "ble", "secure"}
  BY DEF MediaLength
<1>2. /\ MediaLength["xvcard"] = 12 /\ MediaLength["vcard"] = 10 /\ MediaLength["wifi"] = 23
      /\ MediaLength["bt"] = 32 /\ MediaLength["ble"] = 32 /\ MediaLength["secure"] = 39
  BY DEF MediaLength
<1>3. DOMAIN WellKnown = {"T", "U", "Sp", "Hs", "Hr", "ac", "cr"}
  BY DEF WellKnown
<1>4. DOMAIN Compared = 1 .. 6 /\ DOMAIN Compared \in SUBSET Nat
  BY DEF Compared
<1>5. /\ Compared[1] = "xvcard" /\ Compared[2] = "vcard" /\ Compared[3] = "wifi"
      /\ Compared[4] = "bt" /\ Compared[5] = "ble" /\ Compared[6] = "secure"
  BY DEF Compared
<1> QED
  BY <1>1, <1>2, <1>3, <1>4, <1>5

(* Two of the strings differ before the end of the first.                    *)
LEMMA AgreeLess ==
  ASSUME NEW a \in DOMAIN MediaLength, NEW b \in DOMAIN MediaLength
  PROVE  /\ Agree(a, b) \in Nat /\ MediaLength[a] \in Nat \ {0}
         /\ MediaLength[a] <= Agree(a, b) <=> a = b
PROOF
<1>1. MediaLength[a] \in Nat \ {0}
  BY Table
<1>2. CASE a = b
  BY <1>1, <1>2 DEF Agree
<1>3. CASE a # b /\ {a, b} = {"xvcard", "vcard"}
  <2>1. Agree(a, b) = 5
    BY <1>3 DEF Agree
  <2>2. MediaLength[a] \in {12, 10}
    BY <1>3, Table
  <2> QED
    BY <1>3, <2>1, <2>2
<1>4. CASE a # b /\ {a, b} \subseteq {"bt", "ble", "secure"}
  <2>1. Agree(a, b) = 26
    BY <1>4 DEF Agree
  <2>2. MediaLength[a] \in {32, 39}
    BY <1>4, Table
  <2> QED
    BY <1>4, <2>1, <2>2
<1>5. CASE a # b /\ {a, b} \subseteq {"wifi", "bt", "ble", "secure"} /\ "wifi" \in {a, b}
  <2>1. Agree(a, b) = 16
    BY <1>5 DEF Agree
  <2>2. MediaLength[a] \in {23, 32, 39}
    BY <1>5, Table
  <2> QED
    BY <1>5, <2>1, <2>2
<1>6. CASE /\ a # b /\ {a, b} # {"xvcard", "vcard"} /\ ~({a, b} \subseteq {"bt", "ble", "secure"})
           /\ ~({a, b} \subseteq {"wifi", "bt", "ble", "secure"} /\ "wifi" \in {a, b})
  <2>1. Agree(a, b) = 0
    BY <1>6 DEF Agree
  <2> QED
    BY <1>1, <1>6, <2>1
<1> QED
  BY <1>2, <1>3, <1>4, <1>5, <1>6

LEMMA MediaTypeIs ==
  ASSUME NEW r \in Record
  PROVE  /\ MediaType(r) \in Types
         /\ r.type = "none" /\ r.tlen > 0 => MediaType(r) = "unsupported"
         /\ r.type \in DOMAIN MediaLength /\ r.tlen = MediaLength[r.type] =>
              MediaType(r) = IF r.type \in {"xvcard", "vcard"} THEN "MEDIA_VCARD" ELSE r.type
PROOF
<1> DEFINE equal == {i \in DOMAIN Compared : Matches(r, Compared[i])}
           place == CHOOSE i \in equal : \A j \in equal : i <= j
<1>1. /\ equal = {} => MediaType(r) = "unsupported"
      /\ equal # {} => MediaType(r) = IF Compared[place] \in {"xvcard", "vcard"} THEN "MEDIA_VCARD" ELSE Compared[place]
  BY DEF MediaType
<1>2. equal # {} => place \in equal
  <2>1. equal \in SUBSET Nat
    BY Table
  <2> HIDE DEF equal
  <2> SUFFICES ASSUME equal # {}
               PROVE  place \in equal
    OBVIOUS
  <2>2. \E i \in equal : \A j \in equal : i <= j
    BY <2>1, Least
  <2> QED
    BY <2>2
<1>3. equal \subseteq 1 .. 6
  BY Table
<1>4. /\ {"MEDIA_VCARD", "wifi", "bt", "ble", "secure", "unsupported"} \subseteq Types
      /\ \A i \in 1 .. 6 : /\ Compared[i] \in DOMAIN MediaLength
                           /\ Compared[i] \notin {"xvcard", "vcard"} => Compared[i] \in {"wifi", "bt", "ble", "secure"}
  <2>1. {"MEDIA_VCARD", "wifi", "bt", "ble", "secure", "unsupported"} \subseteq Types
    BY DEF Types
  <2>2. \A i \in 1 .. 6 : i = 1 \/ i = 2 \/ i = 3 \/ i = 4 \/ i = 5 \/ i = 6
    OBVIOUS
  <2> QED
    BY <2>1, <2>2, Table
<1>5. TypeField(r) = TypeStart(r) /\ r.tlen \in Nat
  BY RecordFacts DEF TypeField, TypeStart
<1>6. \A s : Matches(r, s) <=> r.tlen = 0 \/ (r.type \in DOMAIN MediaLength /\ r.tlen <= Agree(r.type, s))
  BY <1>5 DEF Matches
<1>7. MediaType(r) \in Types
  <2> HIDE DEF equal, place
  <2>1. CASE equal = {}
    BY <1>1, <1>4, <2>1
  <2>2. CASE equal # {}
    <3>1. place \in 1 .. 6
      BY <1>2, <1>3, <2>2
    <3> QED
      BY <1>1, <1>4, <2>2, <3>1
  <2> QED
    BY <2>1, <2>2
<1>8. ASSUME r.type = "none", r.tlen > 0
      PROVE  MediaType(r) = "unsupported"
  <2>1. r.type \notin DOMAIN MediaLength
    BY <1>8, Table
  <2>2. equal = {}
    BY <1>5, <1>6, <1>8, <2>1
  <2> QED
    BY <1>1, <2>2
<1>9. ASSUME r.type \in DOMAIN MediaLength, r.tlen = MediaLength[r.type]
      PROVE  MediaType(r) = IF r.type \in {"xvcard", "vcard"} THEN "MEDIA_VCARD" ELSE r.type
  <2>1. ASSUME NEW i \in 1 .. 6
        PROVE  i \in equal <=> Compared[i] = r.type
    <3>1. Compared[i] \in DOMAIN MediaLength /\ i \in DOMAIN Compared
      BY <1>4, Table
    <3>2. r.tlen # 0 /\ (r.tlen <= Agree(r.type, Compared[i]) <=> r.type = Compared[i])
      BY <1>9, <3>1, AgreeLess
    <3> QED
      BY <1>6, <1>9, <3>1, <3>2
  <2>2. \E i \in 1 .. 6 : Compared[i] = r.type
    BY <1>9, Table
  <2> HIDE DEF equal, place
  <2>3. equal # {} /\ Compared[place] = r.type
    BY <1>2, <1>3, <2>1, <2>2
  <2> QED
    BY <1>1, <2>3
<1> QED
  BY <1>7, <1>8, <1>9

(* What the code takes a record for: one of the types, the right one if the  *)
(* type cannot be mistaken.                                                  *)
LEMMA DetectedIs ==
  ASSUME NEW r \in Record
  PROVE  /\ Detected(r) \subseteq Types
         /\ PlainType(r) => Detected(r) = {TypeOf(r)}
PROOF
<1>1. TypeField(r) = TypeStart(r) /\ r.tlen \in Nat
  BY RecordFacts DEF TypeField, TypeStart
<1>2. r.tnf \in {"well_known", "media", "absolute", "other"}
  BY DEF Record
<1>3. DOMAIN WellKnown \cup {"unsupported", "ABSOLUTE_URI"} \subseteq Types
  BY DEF Types
<1>4. CASE r.tnf = "well_known"
  <2>1. CASE r.tlen \in {1, 2}
    <3>1. Detected(r) = {IF r.type \in DOMAIN WellKnown THEN r.type ELSE "unsupported"}
      BY <1>1, <1>4, <2>1 DEF Detected
    <3>2. TypeOf(r) = IF r.type \in DOMAIN WellKnown THEN r.type ELSE "unsupported"
      BY <1>4 DEF TypeOf
    <3> QED
      BY <1>3, <3>1, <3>2
  <2>2. CASE r.tlen \notin {1, 2}
    <3>1. Detected(r) = Types /\ ~PlainType(r)
      BY <1>4, <2>2 DEF Detected, PlainType
    <3> QED
      BY <3>1
  <2> QED
    BY <2>1, <2>2
<1>5. CASE r.tnf = "media"
  <2>1. Detected(r) = {MediaType(r)}
    BY <1>5 DEF Detected
  <2>2. ASSUME PlainType(r)
        PROVE  MediaType(r) = TypeOf(r)
    <3>1. CASE r.type = "none" /\ r.tlen > 0
      <4>1. TypeOf(r) = "unsupported"
        BY <1>5, <3>1 DEF TypeOf
      <4> QED
        BY <3>1, <4>1, MediaTypeIs
    <3>2. CASE TypeOf(r) # "unsupported"
      <4>1. r.type \in {"xvcard", "vcard", "wifi", "bt", "ble", "secure"} /\ r.tlen = MediaLength[r.type]
        BY <1>5, <3>2 DEF TypeOf
      <4>2. TypeOf(r) = IF r.type \in {"xvcard", "vcard"} THEN "MEDIA_VCARD" ELSE r.type
        BY <1>5, <4>1 DEF TypeOf
      <4> QED
        BY <4>1, <4>2, MediaTypeIs, Table
    <3> QED
      BY <1>5, <2>2, <3>1, <3>2 DEF PlainType
  <2> QED
    BY <2>1, <2>2, MediaTypeIs
<1>6. CASE r.tnf = "absolute"
  <2>1. Detected(r) = {"ABSOLUTE_URI"} /\ TypeOf(r) = "ABSOLUTE_URI"
    BY <1>6 DEF Detected, TypeOf
  <2> QED
    BY <1>3, <2>1
<1>7. CASE r.tnf = "other"
  <2>1. Detected(r) = {"unsupported"} /\ TypeOf(r) = "unsupported"
    BY <1>7 DEF Detected, TypeOf
  <2> QED
    BY <1>3, <2>1
<1> QED
  BY <1>2, <1>4, <1>5, <1>6, <1>7

-----------------------------------------------------------------------------
(* The walk *)

Shown == [type : Types, payload : Nat, size : Nat]

(* Where the walk is, and what it has printed.                               *)
Walk ==
  /\ shown \in Seq(Shown) /\ Len(shown) <= Len(message.records)
  /\ pc = "idle" => message = NoMessage /\ far = 0
  /\ pc = "record" => /\ at = Start(message.records, Len(shown) + 1)
                      /\ ~message.open => Len(shown) < Len(message.records)
  /\ pc \in {"wifi", "next"} => Len(shown) >= 1 /\ at = Start(message.records, Len(shown))
  /\ pc = "wifi" => shown[Len(shown)].type = "wifi"
  /\ pc = "done" => Len(shown) = Len(message.records)
  /\ \A i \in 1 .. Len(shown) :
       /\ shown[i].payload = PayloadStart(message.records, i)
       /\ shown[i].size = message.records[i].plen

Inside == Proper(message) /\ Complete(message) => far <= Size(message)

IInv == TypeOK /\ Walk /\ TypesRight /\ Inside

LEMMA MessageShape ==
  ASSUME message \in Messages \cup {NoMessage}
  PROVE  /\ message.records \in Records /\ message.open \in BOOLEAN
         /\ Len(message.records) \in Nat /\ DOMAIN message.records = 1 .. Len(message.records)
         /\ \A i \in 1 .. Len(message.records) :
              message.records[i] \in Record /\ Encoded(message.records[i])
PROOF
<1>1. CASE message = NoMessage
  BY <1>1 DEF NoMessage, Records
<1>2. CASE message \in Messages
  BY <1>2, RecordsAssumption DEF Records
<1> QED
  BY <1>1, <1>2

LEMMA CurIs ==
  ASSUME TypeOK, NEW i \in 1 .. Len(message.records), at = Start(message.records, i)
  PROVE  /\ Here = {i} /\ Cur = message.records[i] /\ Cur \in Record /\ Encoded(Cur)
         /\ Length(Cur) \in Nat
         /\ Start(message.records, i + 1) = at + Length(Cur)
         /\ Start(message.records, i + 1) <= Size(message) /\ Size(message) \in Nat
PROOF
<1> DEFINE recs == message.records
<1>1. /\ recs \in Records /\ Len(recs) \in Nat /\ DOMAIN recs = 1 .. Len(recs)
      /\ \A j \in 1 .. Len(recs) : recs[j] \in Record /\ Encoded(recs[j])
  BY MessageShape DEF TypeOK
<1>2. i \in 1 .. Len(recs) + 1 /\ i + 1 \in 1 .. Len(recs) + 1 /\ Len(recs) + 1 \in i + 1 .. Len(recs) + 1
      /\ Len(recs) + 1 \in 1 .. Len(recs) + 1
  BY <1>1
<1>3. \A j \in 1 .. Len(recs) : Start(recs, j) = at <=> j = i
  <2>1. \A j \in 1 .. Len(recs) : j \in 1 .. Len(recs) + 1
    BY <1>1
  <2>2. at = Start(recs, i)
    OBVIOUS
  <2> HIDE DEF recs
  <2> QED
    BY <1>1, <1>2, <2>1, <2>2, Layout
<1>4. Here = {i}
  BY <1>1, <1>3 DEF Here
<1>5. Cur = recs[i]
  BY <1>4 DEF Cur
<1>6. Start(recs, i + 1) = at + Length(recs[i])
  BY <1>1, Layout
<1>7. Start(recs, i + 1) <= Start(recs, Len(recs) + 1) /\ Start(recs, Len(recs) + 1) \in Nat
  <2> HIDE DEF recs
  <2> QED
    BY <1>1, <1>2, Layout
<1> QED
  BY <1>1, <1>4, <1>5, <1>6, <1>7, RecordFacts DEF Size

(* The code's position of the payload is that of the layout, and the next    *)
(* record is where the code looks for it.                                    *)
LEMMA PlacesAgree ==
  ASSUME TypeOK, NEW r \in Record, Encoded(r)
  PROVE  /\ RecordPayload(r) = at + Length(r) - r.plen /\ RecordPayload(r) \in Nat
         /\ NextRecord(r) = at + Length(r) /\ NextRecord(r) \in Nat
PROOF
<1>1. at \in Nat
  BY DEF TypeOK
<1>2. r.sr \in BOOLEAN /\ r.il \in BOOLEAN /\ r.tlen \in Nat /\ r.idlen \in Nat /\ r.plen \in Nat
  BY RecordFacts
<1>3. r.idlen = 0 \/ r.il
  BY DEF Encoded
<1>4. Length(r) = (IF r.sr THEN 3 ELSE 6) + (IF r.il THEN 1 + r.idlen ELSE 0) + r.tlen + r.plen
  BY <1>2, <1>3 DEF Length, TypeStart
<1> QED
  BY <1>1, <1>2, <1>4 DEF RecordPayload, NextRecord

LEMMA InitInv == Init => IInv
PROOF
<1> SUFFICES ASSUME Init
             PROVE  IInv
  OBVIOUS
<1>1. /\ pc = "idle" /\ message = NoMessage /\ at = 0 /\ index = 0 /\ shown = <<>> /\ far = 0
      /\ message.records = <<>>
  BY DEF Init, NoMessage
<1>2. TypeOK
  BY <1>1 DEF TypeOK
<1>3. Walk
  BY <1>1 DEF Walk
<1>4. TypesRight
  BY <1>1 DEF TypesRight
<1>5. Inside
  <2>1. message.records \in Records /\ Len(message.records) = 0
    BY <1>1 DEF Records
  <2>2. Size(message) \in Nat
    BY <2>1, Layout DEF Size
  <2> QED
    BY <1>1, <2>2 DEF Inside
<1> QED
  BY <1>2, <1>3, <1>4, <1>5 DEF IInv

LEMMA CallKeeps ==
  ASSUME IInv, NEW m \in Messages, Call(m)
  PROVE  IInv'
PROOF
<1>1. /\ pc = "idle" /\ pc' = "record" /\ message' = m /\ at' = 0
      /\ index' = index /\ shown' = shown /\ far' = far
  BY DEF Call
<1>2. m.records \in Records /\ m.records # <<>> /\ Len(m.records) \in Nat \ {0}
  BY RecordsAssumption DEF Records
<1>3. shown = <<>> /\ far = 0
  BY <1>1 DEF IInv, Walk, NoMessage
<1>4. TypeOK'
  BY <1>1 DEF IInv, TypeOK
<1>5. Walk'
  BY <1>1, <1>2, <1>3, Layout DEF Walk
<1>6. TypesRight'
  BY <1>1, <1>3 DEF TypesRight
<1>7. Inside'
  <2>1. Size(m) \in Nat
    BY <1>2, Layout DEF Size
  <2> QED
    BY <1>1, <1>3, <2>1 DEF Inside
<1> QED
  BY <1>4, <1>5, <1>6, <1>7 DEF IInv

(* What an action that prints nothing and stays in the message leaves alone. *)
LEMMA OthersKeep ==
  ASSUME IInv, message' = message, shown' = shown,
         far' \in Nat, Proper(message) /\ Complete(message) => far' <= Size(message)
  PROVE  /\ TypesRight' /\ Inside'
         /\ shown' \in Seq(Shown) /\ Len(shown') <= Len(message'.records)
         /\ \A i \in 1 .. Len(shown') :
              /\ shown'[i].payload = PayloadStart(message'.records, i)
              /\ shown'[i].size = message'.records[i].plen
PROOF
<1>1. TypesRight'
  BY DEF IInv, TypesRight
<1>2. Inside'
  BY DEF Inside
<1> QED
  BY <1>1, <1>2 DEF IInv, Walk

(* The record that is about to be looked at.                                 *)
LEMMA NextAtHand ==
  ASSUME IInv, pc = "record", Here # {}
  PROVE  LET n == Len(shown) IN
         /\ n \in Nat /\ n + 1 \in 1 .. Len(message.records)
         /\ Cur = message.records[n + 1] /\ Cur \in Record /\ Encoded(Cur) /\ Length(Cur) \in Nat
         /\ at + Length(Cur) <= Size(message) /\ Size(message) \in Nat
PROOF
<1> DEFINE recs == message.records
           n == Len(shown)
<1>1. /\ n \in Nat /\ n <= Len(recs) /\ at = Start(recs, n + 1) /\ TypeOK
      /\ recs \in Records /\ Len(recs) \in Nat /\ DOMAIN recs = 1 .. Len(recs)
  BY MessageShape DEF IInv, Walk, TypeOK
<1>2. n + 1 \in 1 .. Len(recs)
  <2>1. PICK j \in 1 .. Len(recs) : Start(recs, j) = at
    BY <1>1 DEF Here
  <2>2. j \in 1 .. Len(recs) + 1 /\ n + 1 \in 1 .. Len(recs) + 1
    BY <1>1
  <2>3. j = n + 1
    <3> HIDE DEF recs, n
    <3> QED
      BY <1>1, <2>1, <2>2, Layout
  <2> QED
    BY <2>3
<1> QED
  BY <1>1, <1>2, CurIs

LEMMA ShowRecordKeeps ==
  ASSUME IInv, ShowRecord
  PROVE  IInv'
PROOF
<1> DEFINE recs == message.records
           n == Len(shown)
<1>1. PICK type \in Detected(Cur) :
        /\ shown' = Append(shown, [type |-> type, payload |-> RecordPayload(Cur), size |-> Cur.plen])
        /\ Touch(LastTouched(type, Cur))
        /\ pc' = IF type = "wifi" THEN "wifi" ELSE "next"
        /\ index' = IF type = "wifi" /\ Cur.fields # <<>> /\ Cur.fields[1].tag = "wrapper" THEN 4 ELSE 0
  BY DEF ShowRecord
<1>2. pc = "record" /\ Here # {} /\ message' = message /\ at' = at
  BY DEF ShowRecord
<1>3. /\ shown \in Seq(Shown) /\ n \in Nat /\ n <= Len(recs) /\ at = Start(recs, n + 1)
      /\ recs \in Records /\ Len(recs) \in Nat /\ DOMAIN recs = 1 .. Len(recs)
  BY <1>2, MessageShape DEF IInv, Walk, TypeOK
<1>4. n + 1 \in 1 .. Len(recs)
  BY <1>2, NextAtHand
<1>5. /\ Cur = recs[n + 1] /\ Cur \in Record /\ Encoded(Cur) /\ Length(Cur) \in Nat
      /\ at + Length(Cur) <= Size(message) /\ Size(message) \in Nat /\ TypeOK
  BY <1>2, NextAtHand DEF IInv
<1>6. /\ RecordPayload(Cur) = at + Length(Cur) - Cur.plen /\ RecordPayload(Cur) \in Nat
      /\ Cur.plen \in Nat /\ at \in Nat
  BY <1>5, PlacesAgree, RecordFacts DEF TypeOK
<1>7. type \in Types /\ (PlainType(Cur) => type = TypeOf(Cur))
  BY <1>1, <1>5, DetectedIs
<1>8. /\ LastTouched(type, Cur) \in Nat
      /\ Proper(message) /\ Complete(message) => LastTouched(type, Cur) <= at + Length(Cur)
  <2>1. RecordPayload(Cur) + Cur.plen = at + Length(Cur)
    BY <1>5, <1>6
  <2>2. CASE type \in {"MEDIA_VCARD", "T", "U"}
    <3> DEFINE from == PrintedFrom(type, Cur)
    <3>1. from \in Nat
      <4>1. Cur.status \in Nat
        BY <1>5, StatusByte
      <4> QED
        BY <2>2, <4>1 DEF PrintedFrom
    <3>2. Proper(message) /\ Complete(message) => from <= Cur.plen
      <4> SUFFICES ASSUME Proper(message), Complete(message)
                   PROVE  from <= Cur.plen
        OBVIOUS
      <4>1. type = TypeOf(Cur) /\ n + 1 \in DOMAIN recs
        BY <1>3, <1>4, <1>5, <1>7 DEF Proper
      <4>2. /\ type = "T" => Cur.status < Cur.plen
            /\ type = "U" => Cur.plen > 0
        BY <1>5, <4>1 DEF Complete
      <4>3. Cur.status \in Nat
        BY <1>5, StatusByte
      <4> QED
        BY <1>6, <2>2, <4>2, <4>3 DEF PrintedFrom
    <3>3. LastTouched(type, Cur) = RecordPayload(Cur) + (IF from > Cur.plen THEN from ELSE Cur.plen)
      BY <2>2 DEF LastTouched
    <3> HIDE DEF from
    <3> QED
      BY <1>6, <2>1, <3>1, <3>2, <3>3
  <2>3. CASE type \notin {"MEDIA_VCARD", "T", "U"} /\ type \in {"bt", "ble", "secure"} /\ Cur.plen > 0
    BY <1>6, <2>1, <2>3 DEF LastTouched
  <2>4. CASE type \notin {"MEDIA_VCARD", "T", "U"} /\ ~(type \in {"bt", "ble", "secure"} /\ Cur.plen > 0)
    <3>1. LastTouched(type, Cur) = RecordPayload(Cur) + 0
      BY <2>4 DEF LastTouched
    <3> QED
      BY <1>6, <2>1, <3>1
  <2> QED
    BY <2>2, <2>3, <2>4
<1>9. far' \in Nat /\ (Proper(message) /\ Complete(message) => far' <= Size(message))
  <2>1. far' = IF LastTouched(type, Cur) > far THEN LastTouched(type, Cur) ELSE far
    BY <1>1 DEF Touch
  <2>2. far \in Nat /\ (Proper(message) /\ Complete(message) => far <= Size(message))
    BY DEF IInv, TypeOK, Inside
  <2> QED
    BY <1>5, <1>6, <1>8, <2>1, <2>2
<1> DEFINE new == [type |-> type, payload |-> RecordPayload(Cur), size |-> Cur.plen]
<1>10. new \in Shown
  BY <1>6, <1>7 DEF Shown
<1>11. /\ shown' \in Seq(Shown) /\ Len(shown') = n + 1 /\ shown'[n + 1] = new
       /\ \A i \in 1 .. n : shown'[i] = shown[i]
       /\ DOMAIN shown' = 1 .. n + 1 /\ DOMAIN shown = 1 .. n
  <2> HIDE DEF new
  <2>1. shown' = Append(shown, new)
    BY <1>1 DEF new
  <2> QED
    BY <1>3, <1>10, <2>1
<1>12. new.payload = PayloadStart(recs, n + 1) /\ new.size = recs[n + 1].plen /\ new.type = type
  BY <1>3, <1>5, <1>6 DEF PayloadStart
<1> HIDE DEF new
<1>13. ASSUME NEW i \in 1 .. n + 1
       PROVE  /\ shown'[i].payload = PayloadStart(recs, i) /\ shown'[i].size = recs[i].plen
              /\ shown'[i].type \in Types
              /\ Proper(message) => shown'[i].type = TypeOf(recs[i])
  <2>1. CASE i = n + 1
    <3>1. Proper(message) => PlainType(recs[n + 1])
      BY <1>3, <1>4 DEF Proper
    <3> QED
      BY <1>5, <1>7, <1>11, <1>12, <2>1, <3>1
  <2>2. CASE i \in 1 .. n
    <3>1. shown'[i] = shown[i] /\ i \in DOMAIN shown
      BY <1>11, <2>2
    <3>2. shown[i].payload = PayloadStart(recs, i) /\ shown[i].size = recs[i].plen
      BY <2>2 DEF IInv, Walk
    <3>3. shown[i].type \in Types /\ (Proper(message) => shown[i].type = TypeOf(recs[i]))
      BY <3>1 DEF IInv, TypeOK, TypesRight
    <3> QED
      BY <3>1, <3>2, <3>3
  <2> QED
    BY <1>3, <2>1, <2>2
<1>14. pc' \in {"wifi", "next"} /\ index' \in 0 .. 255 /\ (pc' = "wifi" => type = "wifi")
  BY <1>1
<1>15. TypeOK'
  BY <1>2, <1>5, <1>9, <1>11, <1>13, <1>14 DEF TypeOK
<1>16. Walk'
  BY <1>2, <1>3, <1>4, <1>11, <1>12, <1>13, <1>14 DEF Walk
<1>17. TypesRight'
  BY <1>2, <1>11, <1>13 DEF TypesRight
<1>18. Inside'
  BY <1>2, <1>9 DEF Inside
<1> QED
  BY <1>15, <1>16, <1>17, <1>18 DEF IInv

(* The record at hand while it is looked at.                                 *)
LEMMA AtHand ==
  ASSUME IInv, pc \in {"wifi", "next"}
  PROVE  LET n == Len(shown) IN
         /\ n \in 1 .. Len(message.records) /\ at = Start(message.records, n)
         /\ Here = {n} /\ Cur = message.records[n] /\ Cur \in Record /\ Encoded(Cur)
         /\ Length(Cur) \in Nat
         /\ Start(message.records, n + 1) = at + Length(Cur)
         /\ at + Length(Cur) <= Size(message) /\ Size(message) \in Nat
         /\ pc = "wifi" /\ Proper(message) => SoundToken(Cur)
PROOF
<1> DEFINE n == Len(shown)
<1>1. n \in 1 .. Len(message.records) /\ at = Start(message.records, n) /\ TypeOK
  BY MessageShape DEF IInv, Walk, TypeOK
<1>2. /\ Here = {n} /\ Cur = message.records[n] /\ Cur \in Record /\ Encoded(Cur)
      /\ Length(Cur) \in Nat
      /\ Start(message.records, n + 1) = at + Length(Cur)
      /\ at + Length(Cur) <= Size(message) /\ Size(message) \in Nat
  <2> HIDE DEF n
  <2> QED
    BY <1>1, CurIs
<1>3. ASSUME pc = "wifi", Proper(message)
      PROVE  SoundToken(Cur)
  <2>1. n \in DOMAIN message.records /\ n \in DOMAIN shown
    BY <1>1, MessageShape DEF IInv, Walk, TypeOK
  <2>2. shown[n].type = "wifi" /\ shown[n].type = TypeOf(message.records[n])
    BY <1>3, <2>1 DEF IInv, Walk, TypesRight
  <2> QED
    BY <1>2, <1>3, <2>1, <2>2 DEF Proper
<1> QED
  BY <1>1, <1>2, <1>3

LEMMA OneByte ==
  ASSUME NEW x \in Nat
  PROVE  x % 256 \in 0 .. 255 /\ x % 256 \in Nat /\ x % 256 <= x
  OBVIOUS

LEMMA WifiFieldKeeps ==
  ASSUME IInv, WifiField
  PROVE  IInv'
PROOF
<1> DEFINE n == Len(shown)
<1>1. /\ pc = "wifi" /\ FieldsHere # {} /\ Field.tag # "junk"
      /\ index' = Advance(Field) /\ pc' = pc /\ message' = message /\ at' = at /\ shown' = shown
  BY DEF WifiField
<1> DEFINE more == CASE Field.tag = "ssid" -> Field.len % 256
                     [] Field.tag \in {"auth", "enc"} -> 2
                     [] OTHER -> 0
<1>2. Touch(RecordPayload(Cur) + index + 3 + more)
  BY DEF WifiField
<1>3. /\ Cur \in Record /\ Encoded(Cur) /\ Length(Cur) \in Nat /\ TypeOK
      /\ at + Length(Cur) <= Size(message) /\ Size(message) \in Nat
      /\ Proper(message) => SoundToken(Cur)
  BY <1>1, AtHand DEF IInv
<1>4. /\ RecordPayload(Cur) = at + Length(Cur) - Cur.plen /\ RecordPayload(Cur) \in Nat
      /\ Cur.plen \in Nat /\ at \in Nat /\ index \in Nat /\ far \in Nat
      /\ Cur.fields \in Seq(TokenFields)
  <2>1. at \in Nat /\ index \in Nat /\ far \in Nat
    BY <1>3 DEF TypeOK
  <2> QED
    BY <1>3, <2>1, PlacesAgree, RecordFacts
<1>5. PICK k \in 1 .. Len(Cur.fields) : FieldStart(Cur.fields, k) = index /\ Field = Cur.fields[k]
  <2>1. (CHOOSE k \in FieldsHere : TRUE) \in FieldsHere
    BY <1>1
  <2>2. DOMAIN Cur.fields = 1 .. Len(Cur.fields)
    BY <1>4
  <2> QED
    BY <2>1, <2>2 DEF FieldsHere, Field
<1>6. Field \in TokenFields /\ Field.len \in Nat
  <2>1. Field \in TokenFields
    BY <1>4, <1>5
  <2> QED
    BY <2>1 DEF TokenFields
<1>7. Field.len % 256 \in Nat /\ Field.len % 256 <= Field.len
  BY <1>6, OneByte
<1>8. more \in Nat
  <2>1. more \in {Field.len % 256, 2, 0}
    OBVIOUS
  <2> HIDE DEF more
  <2> QED
    BY <1>7, <2>1
<1>9. ASSUME Proper(message)
      PROVE  RecordPayload(Cur) + index + 3 + more <= Size(message)
  <2>1. /\ FieldStart(Cur.fields, Len(Cur.fields) + 1) \in Nat
        /\ index + FieldLength(Field) <= FieldStart(Cur.fields, Len(Cur.fields) + 1)
    BY <1>4, <1>5, FieldInside
  <2>2. Cur.plen = FieldStart(Cur.fields, Len(Cur.fields) + 1)
    BY <1>3, <1>9 DEF SoundToken
  <2>3. Field.tag \in {"auth", "enc"} => Field.len >= 2
    BY <1>3, <1>4, <1>5, <1>9 DEF SoundToken
  <2>4. more <= Field.len
    BY <1>6, <1>7, <2>3
  <2>5. 3 + more <= FieldLength(Field) /\ FieldLength(Field) \in Nat
    <3>1. CASE Field.tag = "wrapper"
      <4>1. FieldLength(Field) = 4 /\ more = 0
        BY <3>1 DEF FieldLength
      <4> HIDE DEF more
      <4> QED
        BY <4>1
    <3>2. CASE Field.tag # "wrapper"
      <4>1. FieldLength(Field) = 4 + Field.len
        BY <1>1, <3>2 DEF FieldLength
      <4> HIDE DEF more
      <4> QED
        BY <1>6, <1>8, <2>4, <4>1
    <3> QED
      BY <3>1, <3>2
  <2>6. Length(Cur) \in Nat /\ RecordPayload(Cur) + Cur.plen = at + Length(Cur)
    BY <1>3, <1>4
  <2>7. index + FieldLength(Field) <= Cur.plen
    BY <2>1, <2>2
  <2> HIDE DEF more
  <2>8. index + 3 + more <= Cur.plen
    <3>1. index \in Nat /\ Cur.plen \in Nat
      BY <1>4
    <3> QED
      BY <1>8, <2>5, <2>7, <3>1
  <2>9. RecordPayload(Cur) + index + 3 + more <= at + Length(Cur)
    <3>1. index \in Nat /\ Cur.plen \in Nat /\ at \in Nat /\ RecordPayload(Cur) \in Nat
      BY <1>4
    <3> QED
      BY <1>8, <2>6, <2>8, <3>1
  <2>10. RecordPayload(Cur) + index + 3 + more \in Nat /\ at + Length(Cur) \in Nat
    <3>1. index \in Nat /\ at \in Nat /\ RecordPayload(Cur) \in Nat
      BY <1>4
    <3> QED
      BY <1>8, <2>6, <3>1
  <2> QED
    BY <1>3, <2>9, <2>10
<1>10. far' \in Nat /\ (Proper(message) /\ Complete(message) => far' <= Size(message))
  <2> DEFINE last == RecordPayload(Cur) + index + 3 + more
  <2>1. far' = IF last > far THEN last ELSE far
    BY <1>2 DEF Touch
  <2>2. last \in Nat /\ (Proper(message) => last <= Size(message))
    <3>1. index \in Nat /\ RecordPayload(Cur) \in Nat
      BY <1>4
    <3> HIDE DEF more
    <3>2. last \in Nat
      BY <1>8, <3>1
    <3> QED
      BY <1>9, <3>2
  <2>3. far \in Nat /\ (Proper(message) /\ Complete(message) => far <= Size(message))
    BY DEF IInv, TypeOK, Inside
  <2> HIDE DEF last
  <2> QED
    BY <2>1, <2>2, <2>3
<1>11. /\ TypesRight' /\ Inside'
       /\ shown' \in Seq(Shown) /\ Len(shown') <= Len(message'.records)
       /\ \A i \in 1 .. Len(shown') :
            /\ shown'[i].payload = PayloadStart(message'.records, i)
            /\ shown'[i].size = message'.records[i].plen
  BY <1>1, <1>10, OthersKeep
<1>12. index' \in 0 .. 255
  <2>1. index' = (index + 4 + (Field.len % 256)) % 256
    BY <1>1 DEF Advance
  <2>2. index \in Nat
    BY <1>4
  <2>3. index + 4 + (Field.len % 256) \in Nat
    BY <1>7, <2>2
  <2> QED
    BY <2>1, <2>3, OneByte
<1>13. TypeOK'
  BY <1>1, <1>3, <1>10, <1>12 DEF TypeOK
<1>14. Walk'
  BY <1>1, <1>11 DEF IInv, Walk
<1> QED
  BY <1>11, <1>13, <1>14 DEF IInv

(* Actions that print and touch nothing.                                     *)
LEMMA StillKeeps ==
  ASSUME IInv, message' = message, shown' = shown, far' = far, index' = index,
         TypeOK => pc' \in {"record", "wifi", "next", "done", "lost"} /\ at' \in Nat,
         pc' = "record" => /\ at' = Start(message.records, Len(shown) + 1)
                           /\ ~message.open => Len(shown) < Len(message.records),
         pc' \in {"wifi", "next"} => pc \in {"wifi", "next"} /\ at' = at,
         pc' = "wifi" => pc = "wifi",
         pc' = "done" => Len(shown) = Len(message.records)
  PROVE  IInv'
PROOF
<1>1. far' \in Nat /\ (Proper(message) /\ Complete(message) => far' <= Size(message)) /\ TypeOK
  BY DEF IInv, TypeOK, Inside
<1>2. /\ TypesRight' /\ Inside'
      /\ shown' \in Seq(Shown) /\ Len(shown') <= Len(message'.records)
      /\ \A i \in 1 .. Len(shown') :
           /\ shown'[i].payload = PayloadStart(message'.records, i)
           /\ shown'[i].size = message'.records[i].plen
  BY <1>1, OthersKeep
<1>3. TypeOK'
  BY <1>1 DEF TypeOK
<1>4. Walk'
  BY <1>1, <1>2 DEF IInv, Walk
<1> QED
  BY <1>2, <1>3, <1>4 DEF IInv

LEMMA StepKeeps ==
  ASSUME IInv, Step
  PROVE  IInv'
PROOF
<1> DEFINE n == Len(shown)
<1>1. /\ pc = "next" /\ message' = message /\ index' = index /\ shown' = shown /\ far' = far
  BY DEF Step
<1>2. /\ n \in 1 .. Len(message.records) /\ at = Start(message.records, n)
      /\ Cur \in Record /\ Encoded(Cur) /\ TypeOK
      /\ Start(message.records, n + 1) = at + Length(Cur)
  BY <1>1, AtHand DEF IInv
<1>3. message.records \in Records /\ Len(message.records) \in Nat
  BY <1>2, MessageShape DEF TypeOK
<1>4. n = Len(message.records) <=> at = Start(message.records, Len(message.records))
  <2>1. n \in 1 .. Len(message.records) + 1 /\ Len(message.records) \in 1 .. Len(message.records) + 1
    BY <1>2, <1>3
  <2> HIDE DEF n
  <2> QED
    BY <1>2, <1>3, <2>1, Layout
<1>5. CASE MessageEnd /\ pc' = "done" /\ at' = at
  <2>1. at \in Nat /\ n = Len(message.records)
    BY <1>2, <1>4, <1>5 DEF MessageEnd, TypeOK
  <2> QED
    BY <1>1, <1>5, <2>1, StillKeeps
<1>6. CASE ~MessageEnd /\ pc' = "record" /\ at' = NextRecord(Cur)
  <2>1. NextRecord(Cur) = Start(message.records, n + 1) /\ NextRecord(Cur) \in Nat
    BY <1>2, PlacesAgree
  <2>2. ~message.open => n < Len(message.records)
    BY <1>2, <1>3, <1>4, <1>6 DEF MessageEnd
  <2> QED
    BY <1>1, <1>6, <2>1, <2>2, StillKeeps
<1> QED
  BY <1>5, <1>6 DEF Step

LEMMA NextInv == IInv /\ [Next]_vars => IInv'
PROOF
<1> SUFFICES ASSUME IInv, [Next]_vars
             PROVE  IInv'
  OBVIOUS
<1>1. TypeOK
  BY DEF IInv
<1>2. CASE UNCHANGED vars
  BY <1>2 DEF vars, IInv, TypeOK, Walk, TypesRight, Inside
<1>3. CASE WifiJunk
  BY <1>3 DEF WifiJunk, vars, IInv, TypeOK, Walk, TypesRight, Inside
<1>4. CASE WifiAstray
  <2>1. /\ pc' = "lost" /\ at' = at /\ message' = message /\ shown' = shown
        /\ far' = far /\ index' = index
    BY <1>4 DEF WifiAstray
  <2> QED
    BY <1>1, <2>1, StillKeeps DEF TypeOK
<1>5. CASE Stray
  <2>1. /\ pc' = "lost" /\ at' = at /\ message' = message /\ shown' = shown
        /\ far' = far /\ index' = index
    BY <1>5 DEF Stray
  <2> QED
    BY <1>1, <2>1, StillKeeps DEF TypeOK
<1>6. CASE WifiEnd
  <2>1. /\ pc = "wifi" /\ pc' = "next" /\ at' = at /\ message' = message /\ shown' = shown
        /\ far' = far /\ index' = index
    BY <1>6 DEF WifiEnd
  <2> QED
    BY <1>1, <2>1, StillKeeps DEF TypeOK
<1>7. CASE Return
  <2>1. Init'
    BY <1>7 DEF Return, Init
  <2> QED
    BY <2>1, InitInv, PTL
<1>8. CASE \E m \in Messages : Call(m)
  BY <1>8, CallKeeps
<1> QED
  BY <1>2, <1>3, <1>4, <1>5, <1>6, <1>7, <1>8, ShowRecordKeeps, WifiFieldKeeps, StepKeeps DEF Next, Callback

LEMMA Invariance == Spec => []IInv
  BY InitInv, NextInv, PTL DEF Spec

(* The records printed by the pull callback are those of the message, in     *)
(* order, each where its payload lies, of the size it has and as what it is. *)
THEOREM PrintedCorrect == Spec => []PrintedRight
PROOF
<1>1. IInv => PrintedRight
  <2> SUFFICES ASSUME IInv
               PROVE  PrintedRight
    OBVIOUS
  <2>1. DOMAIN shown = 1 .. Len(shown) /\ Len(message.records) \in Nat /\ Len(shown) \in Nat
    BY MessageShape DEF IInv, Walk, TypeOK
  <2>2. ASSUME pc = "record", ~message.open
        PROVE  Here # {}
    <3>1. Len(shown) + 1 \in 1 .. Len(message.records) /\ at = Start(message.records, Len(shown) + 1)
      BY <2>1, <2>2 DEF IInv, Walk
    <3> QED
      BY <3>1, CurIs DEF IInv
  <2> QED
    BY <2>1, <2>2 DEF IInv, Walk, PrintedRight, WalkIsMessage
<1> QED
  BY <1>1, Invariance, PTL

(* Unless a text or a URI is cut short of its own head, the callback touches *)
(* no byte behind the message but the one that a text at its end is cut off  *)
(* with, and stays inside NdefBuffer unless the message fills it.            *)
THEOREM InsideCorrect == Spec => []StaysInside
PROOF
<1>1. IInv => StaysInside
  <2> SUFFICES ASSUME IInv, Proper(message), Complete(message)
               PROVE  far <= Size(message) /\ (Size(message) < BufferSize => far < BufferSize)
    BY DEF StaysInside
  <2>1. far <= Size(message) /\ far \in Nat /\ BufferSize \in Nat
    BY RecordsAssumption DEF IInv, TypeOK, Inside
  <2>2. Size(message) \in Nat
    <3>1. message.records \in Records /\ Len(message.records) \in Nat
      BY MessageShape DEF IInv, TypeOK
    <3>2. Len(message.records) + 1 \in 1 .. Len(message.records) + 1
      BY <3>1
    <3> QED
      BY <3>1, <3>2, Layout DEF Size
  <2> QED
    BY <2>1, <2>2
<1> QED
  BY <1>1, Invariance, PTL

-----------------------------------------------------------------------------
(* Progress *)

(* While a token is walked over, the index is where one of its fields begins, *)
(* or where the last one ends; a wrapper has been left behind.               *)
AtField ==
  pc = "wifi" /\ Proper(message) =>
    \E k \in 1 .. Len(Cur.fields) + 1 :
      /\ index = FieldStart(Cur.fields, k)
      /\ Cur.fields # <<>> /\ Cur.fields[1].tag = "wrapper" => k # 1

(* The callback knows how to go on: a record begins where it looks for one, *)
(* a field where it looks for one, and it is no byte that "continue" would   *)
(* have it look at for ever.                                                 *)
FindsWay ==
  Proper(message) =>
    /\ pc # "lost"
    /\ pc = "record" => Here # {} /\ Detected(Cur) # {}
    /\ pc = "wifi" /\ index < Cur.plen => FieldsHere # {} /\ Field.tag # "junk"

(* What is left to do: records to print, the stages of the loop that follow  *)
(* the printing of one, bytes of a token.                                    *)
RecordsLeft == Len(message.records) - Len(shown)
Stage       == CASE pc = "wifi" -> 2 [] pc = "next" -> 1 [] OTHER -> 0
BytesLeft   == IF pc = "wifi" THEN Cur.plen - index ELSE 0

Measured == Proper(message) => RecordsLeft \in Nat /\ Stage \in Nat /\ BytesLeft \in Nat

(* Less is left, in the order of the dictionary.                             *)
Nearer ==
  \/ RecordsLeft' < RecordsLeft
  \/ RecordsLeft' = RecordsLeft /\ Stage' < Stage
  \/ RecordsLeft' = RecordsLeft /\ Stage' = Stage /\ BytesLeft' < BytesLeft

GoesOn == pc \in {"record", "wifi", "next"} /\ Proper(message) => Nearer

(* A field of a sound token is one that the code can step over.              *)
LEMMA FieldAtHand ==
  ASSUME IInv, AtField, pc = "wifi", Proper(message), index < Cur.plen
  PROVE  /\ FieldsHere # {} /\ Field.tag \notin {"junk", "wrapper"}
         /\ Advance(Field) \in Nat /\ index < Advance(Field) /\ Advance(Field) <= Cur.plen
         /\ \E k \in 2 .. Len(Cur.fields) + 1 : Advance(Field) = FieldStart(Cur.fields, k)
PROOF
<1> DEFINE fs == Cur.fields
           n == Len(Cur.fields)
<1>1. Cur \in Record /\ SoundToken(Cur)
  BY AtHand
<1>2. fs \in Seq(TokenFields) /\ Cur.plen \in Nat /\ n \in Nat /\ DOMAIN fs = 1 .. n
  BY <1>1, RecordFacts
<1>3. /\ Cur.plen <= 255 /\ Cur.plen = FieldStart(fs, n + 1)
      /\ \A k \in 1 .. n : fs[k].tag # "junk" /\ (k # 1 => fs[k].tag # "wrapper")
  <2>1. \A k \in DOMAIN fs : fs[k].tag \notin {"junk"} \cup (IF k = 1 THEN {} ELSE {"wrapper"})
    BY <1>1 DEF SoundToken
  <2> QED
    BY <1>1, <1>2, <2>1 DEF SoundToken
<1>4. PICK k \in 1 .. n + 1 : /\ index = FieldStart(fs, k)
                              /\ fs # <<>> /\ fs[1].tag = "wrapper" => k # 1
  BY DEF AtField
<1>5. k \in 1 .. n /\ index \in Nat
  <2>1. index \in Nat
    BY DEF IInv, TypeOK
  <2>2. k # n + 1
    BY <1>2, <1>3, <1>4, <2>1
  <2> QED
    BY <1>2, <2>1, <2>2
<1>6. FieldsHere # {}
  BY <1>2, <1>4, <1>5 DEF FieldsHere
<1>7. PICK j \in 1 .. n : FieldStart(fs, j) = index /\ Field = fs[j]
  <2>1. (CHOOSE j \in FieldsHere : TRUE) \in FieldsHere
    BY <1>6
  <2> QED
    BY <1>2, <2>1 DEF FieldsHere, Field
<1> HIDE DEF n, fs
<1>8. Field \in TokenFields /\ Field.len \in Nat
  <2>1. Field \in TokenFields
    BY <1>2, <1>7 DEF n
  <2> QED
    BY <2>1 DEF TokenFields
<1>9. Field.tag # "wrapper"
  <2> SUFFICES ASSUME Field.tag = "wrapper"
               PROVE  FALSE
    OBVIOUS
  <2>1. j = 1 /\ n >= 1 /\ fs # <<>> /\ fs[1].tag = "wrapper"
    BY <1>2, <1>3, <1>7 DEF n
  <2>2. k # 1 /\ k \in 2 .. n + 1 /\ 2 \in 1 .. n + 1 /\ 1 \in 1 .. n
    BY <1>2, <1>4, <1>5, <2>1
  <2>3. FieldStart(fs, 1) = 0 /\ FieldStart(fs, 2) = 0 + 4 /\ FieldStart(fs, 2) <= FieldStart(fs, k)
    <3>1. FieldLength(fs[1]) = 4
      BY <2>1 DEF FieldLength
    <3>2. FieldStart(fs, 1 + 1) = FieldStart(fs, 1) + FieldLength(fs[1]) /\ FieldStart(fs, 1) = 0
      BY <1>2, <2>2, FieldLayout DEF n
    <3>3. FieldStart(fs, 2) <= FieldStart(fs, k)
      BY <1>2, <2>2, FieldLayout DEF n
    <3> QED
      BY <3>1, <3>2, <3>3
  <2> QED
    BY <1>4, <1>5, <1>7, <2>1, <2>3
<1>10. Field.tag # "junk"
  BY <1>3, <1>7
<1>11. /\ FieldStart(fs, j + 1) = index + 4 + Field.len
       /\ FieldStart(fs, j + 1) <= Cur.plen
       /\ j + 1 \in 2 .. n + 1
  <2>1. FieldLength(fs[j]) = 4 + Field.len
    BY <1>7, <1>9, <1>10 DEF FieldLength
  <2>2. j + 1 \in 2 .. n + 1 /\ j + 1 \in 1 .. n + 1 /\ n + 1 \in j + 1 .. n + 1
    BY <1>2, <1>7
  <2>3. FieldStart(fs, j + 1) = index + FieldLength(fs[j])
    BY <1>2, <1>7, FieldLayout DEF n
  <2>4. FieldStart(fs, j + 1) <= FieldStart(fs, n + 1)
    BY <1>2, <2>2, FieldLayout DEF n
  <2> QED
    BY <1>3, <1>5, <1>8, <2>1, <2>2, <2>3, <2>4
<1>12. Advance(Field) = index + 4 + Field.len
  <2>1. index + 4 + Field.len <= 255
    BY <1>2, <1>3, <1>5, <1>8, <1>11
  <2>2. Field.len % 256 = Field.len
    BY <1>5, <1>8, <2>1
  <2>3. (index + 4 + Field.len) % 256 = index + 4 + Field.len
    BY <1>5, <1>8, <2>1
  <2> QED
    BY <2>2, <2>3 DEF Advance
<1> QED
  <2>1. Advance(Field) \in Nat /\ index < Advance(Field) /\ Advance(Field) <= Cur.plen
    BY <1>2, <1>5, <1>8, <1>11, <1>12
  <2> QED
    BY <1>6, <1>9, <1>10, <1>11, <1>12, <2>1 DEF fs, n

(* On a proper message the callback finds its way.                           *)
LEMMA WayFound ==
  ASSUME IInv, AtField, Proper(message), pc # "lost"
  PROVE  FindsWay
PROOF
<1>1. ASSUME pc = "record"
      PROVE  Here # {} /\ Detected(Cur) # {}
  <2>1. Len(shown) + 1 \in 1 .. Len(message.records) /\ at = Start(message.records, Len(shown) + 1)
    BY <1>1, MessageShape DEF IInv, Walk, TypeOK, Proper
  <2>2. Here # {} /\ Cur = message.records[Len(shown) + 1] /\ Cur \in Record
    BY <2>1, CurIs DEF IInv
  <2>3. PlainType(Cur)
    BY <2>1, <2>2, MessageShape DEF IInv, TypeOK, Proper
  <2> QED
    BY <2>2, <2>3, DetectedIs
<1> QED
  BY <1>1, FieldAtHand DEF FindsWay

(* The invariant of progress.                                                *)
PInv == IInv /\ AtField /\ (Proper(message) => pc # "lost")

LEMMA ProgressInit == Init => PInv
  BY InitInv DEF PInv, Init, AtField

(* A token is entered at its first field, behind a wrapper.                  *)
LEMMA EntersField ==
  ASSUME IInv, ShowRecord
  PROVE  AtField'
PROOF
<1>1. /\ pc = "record" /\ Here # {} /\ message' = message /\ at' = at
      /\ \E type \in Detected(Cur) :
           /\ pc' = IF type = "wifi" THEN "wifi" ELSE "next"
           /\ index' = IF type = "wifi" /\ Cur.fields # <<>> /\ Cur.fields[1].tag = "wrapper" THEN 4 ELSE 0
  BY DEF ShowRecord
<1>2. Cur' = Cur
  BY <1>1 DEF Cur, Here
<1> SUFFICES ASSUME pc' = "wifi"
             PROVE  \E k \in 1 .. Len(Cur.fields) + 1 :
                      /\ index' = FieldStart(Cur.fields, k)
                      /\ Cur.fields # <<>> /\ Cur.fields[1].tag = "wrapper" => k # 1
  BY <1>1, <1>2 DEF AtField
<1>3. index' = IF Cur.fields # <<>> /\ Cur.fields[1].tag = "wrapper" THEN 4 ELSE 0
  BY <1>1
<1>4. Cur.fields \in Seq(TokenFields) /\ Len(Cur.fields) \in Nat
  <2>1. Cur \in Record
    BY <1>1, NextAtHand
  <2> QED
    BY <2>1, RecordFacts
<1>5. CASE Cur.fields # <<>> /\ Cur.fields[1].tag = "wrapper"
  <2>1. 1 \in 1 .. Len(Cur.fields) /\ 2 \in 1 .. Len(Cur.fields) + 1
    BY <1>4, <1>5
  <2>2. FieldLength(Cur.fields[1]) = 4
    BY <1>5 DEF FieldLength
  <2>3. FieldStart(Cur.fields, 1) = 0
        /\ FieldStart(Cur.fields, 1 + 1) = FieldStart(Cur.fields, 1) + FieldLength(Cur.fields[1])
    BY <1>4, <2>1, FieldLayout
  <2>4. FieldStart(Cur.fields, 2) = 4
    BY <2>2, <2>3
  <2> QED
    BY <1>3, <1>5, <2>1, <2>4
<1>6. CASE ~(Cur.fields # <<>> /\ Cur.fields[1].tag = "wrapper")
  <2>1. 1 \in 1 .. Len(Cur.fields) + 1 /\ FieldStart(Cur.fields, 1) = 0
    BY <1>4, FieldLayout
  <2> QED
    BY <1>3, <1>6, <2>1
<1> QED
  BY <1>5, <1>6

(* From one field to the next.                                               *)
LEMMA StepsField ==
  ASSUME IInv, AtField, WifiField
  PROVE  AtField'
PROOF
<1>1. /\ pc = "wifi" /\ index < Cur.plen /\ index' = Advance(Field)
      /\ message' = message /\ at' = at
  BY DEF WifiField
<1>2. Cur' = Cur
  BY <1>1 DEF Cur, Here
<1> SUFFICES ASSUME Proper(message)
             PROVE  \E k \in 1 .. Len(Cur.fields) + 1 :
                      /\ index' = FieldStart(Cur.fields, k)
                      /\ Cur.fields # <<>> /\ Cur.fields[1].tag = "wrapper" => k # 1
  BY <1>1, <1>2 DEF AtField
<1>3. PICK k \in 2 .. Len(Cur.fields) + 1 : Advance(Field) = FieldStart(Cur.fields, k)
  BY <1>1, FieldAtHand
<1> QED
  BY <1>1, <1>3

LEMMA ProgressNext == PInv /\ [Next]_vars => PInv'
PROOF
<1> SUFFICES ASSUME PInv, [Next]_vars
             PROVE  PInv'
  OBVIOUS
<1>1. IInv /\ AtField /\ IInv'
  BY NextInv DEF PInv
<1>2. Proper(message) /\ pc # "lost" => FindsWay
  BY <1>1, WayFound
<1>3. CASE UNCHANGED vars
  BY <1>1, <1>3 DEF vars, PInv, AtField, Proper, Cur, Here
<1>4. CASE WifiJunk
  BY <1>1, <1>4 DEF WifiJunk, vars, PInv, AtField, Proper, Cur, Here
<1>5. CASE ShowRecord
  <2>1. pc' # "lost"
    BY <1>5 DEF ShowRecord
  <2> QED
    BY <1>1, <1>5, <2>1, EntersField DEF PInv
<1>6. CASE WifiField
  <2>1. pc' # "lost"
    BY <1>6 DEF WifiField
  <2> QED
    BY <1>1, <1>6, <2>1, StepsField DEF PInv
<1>7. CASE WifiAstray \/ Stray
  <2>1. ~Proper(message)
    BY <1>2, <1>7 DEF WifiAstray, Stray, FindsWay
  <2>2. pc' = "lost" /\ message' = message
    BY <1>7 DEF WifiAstray, Stray
  <2> QED
    BY <1>1, <2>1, <2>2 DEF PInv, AtField
<1>8. CASE WifiEnd \/ Step \/ Return \/ \E m \in Messages : Call(m)
  <2>1. pc' \notin {"wifi", "lost"}
    BY <1>8 DEF WifiEnd, Step, Return, Call
  <2> QED
    BY <1>1, <2>1 DEF PInv, AtField
<1> QED
  BY <1>3, <1>4, <1>5, <1>6, <1>7, <1>8 DEF Next, Callback

(* What is left is a number.                                                 *)
LEMMA LeftIsNat ==
  ASSUME IInv, AtField
  PROVE  Measured
PROOF
<1> SUFFICES ASSUME Proper(message)
             PROVE  RecordsLeft \in Nat /\ Stage \in Nat /\ BytesLeft \in Nat
  BY DEF Measured
<1>1. RecordsLeft \in Nat
  BY MessageShape DEF RecordsLeft, IInv, Walk, TypeOK
<1>2. Stage \in Nat
  BY DEF Stage
<1>3. BytesLeft \in Nat
  <2>1. CASE pc = "wifi"
    <3>1. Cur \in Record /\ SoundToken(Cur)
      BY <2>1, AtHand
    <3>2. Cur.fields \in Seq(TokenFields) /\ Cur.plen \in Nat /\ Len(Cur.fields) \in Nat
      BY <3>1, RecordFacts
    <3>3. PICK k \in 1 .. Len(Cur.fields) + 1 : index = FieldStart(Cur.fields, k)
      BY <2>1 DEF AtField
    <3>4. Len(Cur.fields) + 1 \in k .. Len(Cur.fields) + 1
      BY <3>2
    <3>5. index <= FieldStart(Cur.fields, Len(Cur.fields) + 1)
      BY <3>2, <3>3, <3>4, FieldLayout
    <3>6. Cur.plen = FieldStart(Cur.fields, Len(Cur.fields) + 1) /\ index \in Nat
      BY <3>1 DEF SoundToken, IInv, TypeOK
    <3> QED
      BY <2>1, <3>2, <3>5, <3>6 DEF BytesLeft
  <2>2. CASE pc # "wifi"
    BY <2>2 DEF BytesLeft
  <2> QED
    BY <2>1, <2>2
<1> QED
  BY <1>1, <1>2, <1>3

(* Each step leaves less to do.                                              *)
LEMMA StepNearer ==
  ASSUME PInv, [Next]_vars
  PROVE  [GoesOn]_vars
PROOF
<1> SUFFICES ASSUME Next, vars' # vars, pc \in {"record", "wifi", "next"}, Proper(message)
             PROVE  Nearer
  BY DEF GoesOn
<1>1. IInv /\ AtField /\ FindsWay
  BY WayFound DEF PInv
<1>2. Len(shown) \in Nat /\ Len(message.records) \in Nat
  BY <1>1, MessageShape DEF IInv, Walk, TypeOK
<1>3. CASE ShowRecord
  <2>1. /\ message' = message
        /\ \E type \in Detected(Cur) :
             shown' = Append(shown, [type |-> type, payload |-> RecordPayload(Cur), size |-> Cur.plen])
    BY <1>3 DEF ShowRecord
  <2>2. shown \in Seq(Shown)
    BY <1>1 DEF IInv, Walk
  <2>3. Len(shown') = Len(shown) + 1
    BY <2>1, <2>2
  <2>4. RecordsLeft' = Len(message.records) - (Len(shown) + 1)
    BY <2>1, <2>3 DEF RecordsLeft
  <2>5. RecordsLeft' < RecordsLeft
    BY <1>2, <2>4 DEF RecordsLeft
  <2> QED
    BY <2>5 DEF Nearer
<1>4. CASE WifiField
  <2>1. /\ pc = "wifi" /\ pc' = pc /\ index < Cur.plen /\ index' = Advance(Field)
        /\ message' = message /\ at' = at /\ shown' = shown
    BY <1>4 DEF WifiField
  <2>2. Cur' = Cur
    BY <2>1 DEF Cur, Here
  <2>3. Advance(Field) \in Nat /\ index < Advance(Field) /\ index \in Nat
    BY <1>1, <2>1, FieldAtHand DEF IInv, TypeOK
  <2>4. Cur.plen \in Nat
    BY <1>1, <2>1, AtHand, RecordFacts
  <2>5. BytesLeft' < BytesLeft
    BY <2>1, <2>2, <2>3, <2>4 DEF BytesLeft
  <2> QED
    BY <2>1, <2>5 DEF Nearer, RecordsLeft, Stage
<1>5. CASE WifiEnd
  <2>1. pc = "wifi" /\ pc' = "next" /\ message' = message /\ shown' = shown
    BY <1>5 DEF WifiEnd
  <2> QED
    BY <2>1 DEF Nearer, RecordsLeft, Stage
<1>6. CASE Step
  <2>1. pc = "next" /\ pc' \in {"done", "record"} /\ message' = message /\ shown' = shown
    BY <1>6 DEF Step
  <2> QED
    BY <2>1 DEF Nearer, RecordsLeft, Stage
<1>7. CASE WifiAstray \/ WifiJunk \/ Stray
  BY <1>1, <1>7 DEF WifiAstray, WifiJunk, Stray, FindsWay
<1>8. CASE Return \/ \E m \in Messages : Call(m)
  BY <1>8 DEF Return, Call
<1> QED
  BY <1>3, <1>4, <1>5, <1>6, <1>7, <1>8 DEF Next, Callback

(* On a message that ends with an ME flag, of records whose type cannot be   *)
(* mistaken and of sound tokens, the loops of NdefPull_Cb cannot run for     *)
(* ever: the callback always finds the next thing to look at, and each of    *)
(* its steps leaves fewer records, or as many and a later stage of the loop,  *)
(* or fewer bytes of the token at hand.                                      *)
THEOREM ProgressCorrect == Spec => [](FindsWay /\ Measured) /\ [][GoesOn]_vars
PROOF
<1>1. Spec => []PInv
  BY ProgressInit, ProgressNext, PTL DEF Spec
<1>2. PInv => FindsWay /\ Measured
  <2> SUFFICES ASSUME PInv
               PROVE  FindsWay /\ Measured
    OBVIOUS
  <2>1. CASE Proper(message)
    BY <2>1, WayFound, LeftIsNat DEF PInv
  <2>2. CASE ~Proper(message)
    BY <2>2 DEF FindsWay, Measured
  <2> QED
    BY <2>1, <2>2
<1>3. PInv /\ [Next]_vars => [GoesOn]_vars
  BY StepNearer
<1> QED
  BY <1>1, <1>2, <1>3, PTL DEF Spec
=============================================================================
