-------------------------- MODULE BootstrapProofs ---------------------------
(***************************************************************************)
(* Proofs about Bootstrap: for flash of any size, any pages, words and     *)
(* windows, any commands, faults, bounds and hosts.                        *)
(***************************************************************************)
EXTENDS Bootstrap, SequenceTheorems, TLAPS

-----------------------------------------------------------------------------
(* Division.                                                               *)

LEMMA Division ==
  ASSUME NEW x \in Nat, NEW w \in Nat \ {0}
  PROVE  /\ x \div w \in Nat /\ (x \div w) * w <= x /\ x < (x \div w + 1) * w
         /\ x % w \in 0 .. w - 1 /\ x = (x \div w) * w + (x % w)
OBVIOUS

LEMMA Quotient ==
  ASSUME NEW x \in Int, NEW w \in Nat \ {0}, NEW q \in Int, q * w <= x, x < (q + 1) * w
  PROVE  x \div w = q
OBVIOUS

LEMMA Multiples ==
  ASSUME NEW p \in Int, NEW q \in Int, NEW w \in Nat \ {0}
  PROVE  /\ p * w \in Int /\ (p \in Nat => p * w \in Nat)
         /\ p <= q => p * w <= q * w
         /\ p < q => (p + 1) * w <= q * w
         /\ (p + 1) * w = p * w + w
OBVIOUS

LEMMA GeometryFacts ==
  /\ Sector \in Nat \ {0} /\ ProgPage \in Nat \ {0} /\ Word \in Nat \ {0}
  /\ Window \in Nat \ {0} /\ Page \in Nat \ {0} /\ Bytes \in Nat
  /\ Sector = 2 * Page /\ ProgPage % Word = 0
  /\ Bank \in Nat /\ Bytes = Bank + Bank
BY GeometryAssumption DEF Bank

(* The transactions of W program n bytes from address a, each once, with   *)
(* the payload from offset skip.                                           *)
Programs(W, a, n, skip) ==
  /\ W \in Seq(Transactions)
  /\ \A i \in 1 .. Len(W) :
       ~W[i].erase /\ \A x \in Int : W[i].skip + x - W[i].at = skip + x - a
  /\ \A x \in Int : x \in Span(a, n) => \E i \in 1 .. Len(W) : Touches(W[i], x)
  /\ \A x \in Int, i \in 1 .. Len(W) : Touches(W[i], x) => x \in Span(a, n)
  /\ \A x \in Int, i \in 1 .. Len(W), j \in 1 .. Len(W) :
       Touches(W[i], x) /\ Touches(W[j], x) => i = j

(* A transaction for each window that the data touches.                    *)
LEMMA WriteFacts ==
  ASSUME NEW part \in {1, 2}, NEW a \in Nat, NEW n \in Nat, NEW skip \in Nat
  PROVE  Programs(Write(part, a, n, skip), a, n, skip)
<1> DEFINE q == a \div Window
           count == IF n = 0 THEN 0 ELSE (a + n - 1) \div Window - a \div Window + 1
           From(i) == IF i = 1 THEN a ELSE (q + i - 1) * Window
           To(i) == Least(a + n, (q + i) * Window)
           T(i) == [part |-> part, erase |-> FALSE, at |-> From(i),
                    n |-> To(i) - From(i), skip |-> skip + From(i) - a]
           W == Write(part, a, n, skip)
<1>1. Window \in Nat \ {0}
  BY GeometryFacts
<1>2. q \in Nat /\ q * Window <= a /\ a < (q + 1) * Window
  BY <1>1, Division
<1>3. n # 0 => /\ a + n - 1 \in Nat /\ (a + n - 1) \div Window \in Nat
               /\ ((a + n - 1) \div Window) * Window <= a + n - 1
               /\ a + n - 1 < ((a + n - 1) \div Window + 1) * Window
  <2> SUFFICES ASSUME n # 0
               PROVE  /\ a + n - 1 \in Nat /\ (a + n - 1) \div Window \in Nat
                      /\ ((a + n - 1) \div Window) * Window <= a + n - 1
                      /\ a + n - 1 < ((a + n - 1) \div Window + 1) * Window
    OBVIOUS
  <2>1. a + n - 1 \in Nat
    OBVIOUS
  <2> QED
    BY <1>1, <2>1, Division, Zenon
<1> DEFINE last == (a + n - 1) \div Window
<1> HIDE DEF q, last
<1>4. n # 0 => q <= last
  <2> SUFFICES ASSUME n # 0, last < q PROVE FALSE
    BY <1>2, <1>3 DEF last
  <2>1. last \in Int /\ q \in Int /\ a + n - 1 < (last + 1) * Window
    BY <1>2, <1>3 DEF last
  <2>2. (last + 1) * Window <= q * Window
    BY <1>1, <2>1, Multiples
  <2>3. (last + 1) * Window \in Int /\ q * Window \in Int
    BY <1>1, <2>1, Multiples
  <2> QED
    BY <1>2, <2>1, <2>2, <2>3
<1>5. count \in Nat /\ (n # 0 => count = last - q + 1) /\ (n = 0 => count = 0)
  <2>1. count = IF n = 0 THEN 0 ELSE last - q + 1
    BY Zenon DEF last, q
  <2>2. n # 0 => last \in Nat /\ q \in Nat
    BY <1>2, <1>3 DEF last
  <2> HIDE DEF count
  <2> QED
    BY <1>4, <2>1, <2>2
<1>6. W = [i \in 1 .. count |-> T(i)]
  BY DEF Write, q
<1> HIDE DEF count, W
<1>7. ASSUME NEW i \in 1 .. count
      PROVE  /\ (q + i) * Window \in Nat /\ (q + i - 1) * Window \in Nat
             /\ (q + i) * Window = (q + i - 1) * Window + Window
             /\ From(i) \in Nat /\ To(i) \in Nat
             /\ a <= From(i) /\ From(i) <= To(i) /\ To(i) <= a + n
             /\ (q + i - 1) * Window <= From(i) /\ To(i) <= (q + i) * Window
  <2>1. n # 0 /\ q + i - 1 <= last
    BY <1>2, <1>3, <1>5 DEF last
  <2>2. /\ (q + i) * Window \in Nat /\ (q + i - 1) * Window \in Nat
        /\ (q + i) * Window = (q + i - 1) * Window + Window
    BY <1>1, <1>2, Multiples
  <2>3. (q + i - 1) * Window <= last * Window /\ last * Window <= a + n - 1
        /\ last * Window \in Int
    BY <1>1, <1>2, <1>3, <2>1, Multiples DEF last
  <2>4. i # 1 => (q + 1) * Window <= (q + i - 1) * Window /\ (q + 1) * Window \in Int
    BY <1>1, <1>2, Multiples
  <2>5. From(i) \in Nat /\ a <= From(i) /\ From(i) <= a + n /\ (q + i - 1) * Window <= From(i)
    BY <1>2, <2>1, <2>2, <2>3, <2>4
  <2>6. From(i) <= (q + i) * Window
    BY <1>1, <1>2, <2>2, <2>5
  <2> HIDE DEF From
  <2>7. To(i) \in Nat /\ From(i) <= To(i) /\ To(i) <= a + n /\ To(i) <= (q + i) * Window
    BY <2>2, <2>5, <2>6 DEF Least
  <2> QED
    BY <2>2, <2>5, <2>7
<1> HIDE DEF From, To
<1>8. ASSUME NEW i \in 1 .. count PROVE T(i) \in Transactions
  BY <1>7 DEF Transactions
<1>9. W \in Seq(Transactions) /\ Len(W) = count /\ DOMAIN W = 1 .. count
      /\ \A i \in 1 .. count : W[i] = T(i)
  BY <1>5, <1>6, <1>8
<1>10. ASSUME NEW i \in 1 .. count
       PROVE  ~W[i].erase /\ \A x \in Int : W[i].skip + x - W[i].at = skip + x - a
  BY <1>7, <1>9
<1>11. ASSUME NEW i \in 1 .. count, NEW x \in Int
       PROVE  Touches(W[i], x) <=> From(i) <= x /\ x < To(i)
  BY <1>7, <1>9 DEF Touches, Span
<1>12. ASSUME NEW x \in Int, x \in Span(a, n)
       PROVE  \E i \in 1 .. count : Touches(W[i], x)
  <2> DEFINE k == x \div Window
  <2>1. x \in Nat /\ a <= x /\ x <= a + n - 1 /\ n # 0
    BY <1>12 DEF Span
  <2>2. k \in Nat /\ k * Window <= x /\ x < (k + 1) * Window
    BY <1>1, <2>1, Division
  <2> HIDE DEF k
  <2>3. q <= k
    <3> SUFFICES ASSUME k < q PROVE FALSE
      BY <1>2, <2>2
    <3>1. (k + 1) * Window <= q * Window /\ (k + 1) * Window \in Int /\ q * Window \in Int
      BY <1>1, <1>2, <2>2, Multiples
    <3> QED
      BY <1>2, <2>1, <2>2, <3>1
  <2>4. k <= last
    <3> SUFFICES ASSUME last < k PROVE FALSE
      BY <1>3, <2>1, <2>2 DEF last
    <3>1. (last + 1) * Window <= k * Window /\ (last + 1) * Window \in Int /\ k * Window \in Int
      BY <1>1, <1>3, <2>1, <2>2, Multiples DEF last
    <3> QED
      BY <1>3, <2>1, <2>2, <3>1 DEF last
  <2> DEFINE i == k - q + 1
  <2>5. i \in 1 .. count /\ q + i - 1 = k /\ q + i = k + 1
    BY <1>2, <1>3, <1>5, <2>1, <2>2, <2>3, <2>4 DEF last
  <2> HIDE DEF i
  <2>6. From(i) <= x
    BY <1>2, <2>1, <2>2, <2>5 DEF From
  <2>7. x < To(i)
    BY <1>7, <2>1, <2>2, <2>5 DEF To, Least
  <2> QED
    BY <1>11, <2>5, <2>6, <2>7
<1>13. ASSUME NEW x \in Int, NEW i \in 1 .. count, Touches(W[i], x)
       PROVE  x \in Span(a, n)
  BY <1>7, <1>11, <1>13 DEF Span
<1>14. ASSUME NEW x \in Int, NEW i \in 1 .. count, NEW j \in 1 .. count, i < j,
              Touches(W[i], x), Touches(W[j], x)
       PROVE  FALSE
  <2>1. x < (q + i) * Window /\ (q + j - 1) * Window <= x
    BY <1>7, <1>11, <1>14
  <2>2. (q + i) * Window <= (q + j - 1) * Window
        /\ (q + i) * Window \in Int /\ (q + j - 1) * Window \in Int
    BY <1>1, <1>2, <1>14, Multiples
  <2> QED
    BY <2>1, <2>2
<1>15. ASSUME NEW x \in Int, NEW i \in 1 .. count, NEW j \in 1 .. count,
              Touches(W[i], x), Touches(W[j], x)
       PROVE  i = j
  <2>1. ~(i < j) /\ ~(j < i)
    BY <1>14, <1>15
  <2> QED
    BY <2>1
<1> QED
  BY <1>9, <1>10, <1>12, <1>13, <1>15 DEF W, Programs

(* Padding to flash words stays within a page.                             *)
LEMMA PaddedFacts ==
  ASSUME NEW len \in 0 .. ProgPage
  PROVE  LET padded == ((len + Word - 1) \div Word) * Word
         IN  padded \in len .. ProgPage
<1> DEFINE k == (len + Word - 1) \div Word
           pages == ProgPage \div Word
<1>1. Word \in Nat \ {0} /\ ProgPage \in Nat \ {0} /\ ProgPage % Word = 0 /\ len \in Nat
      /\ len <= ProgPage
  BY GeometryFacts
<1>2. len + Word - 1 \in Nat
  BY <1>1
<1>3. k \in Nat /\ k * Word <= len + Word - 1 /\ len + Word - 1 < (k + 1) * Word
  BY <1>1, <1>2, Division
<1>4. pages \in Nat /\ ProgPage = pages * Word
  BY <1>1, Division
<1> HIDE DEF k, pages
<1>5. (k + 1) * Word = k * Word + Word /\ k * Word \in Nat
  BY <1>1, <1>3, Multiples
<1>6. len <= k * Word
  BY <1>1, <1>3, <1>5
<1>7. k <= pages
  <2> SUFFICES ASSUME pages < k PROVE FALSE
    BY <1>3, <1>4
  <2>1. (pages + 1) * Word <= k * Word /\ (pages + 1) * Word = pages * Word + Word
    BY <1>1, <1>3, <1>4, Multiples
  <2> QED
    BY <1>1, <1>3, <1>4, <1>5, <2>1
<1>8. k * Word <= ProgPage
  BY <1>1, <1>3, <1>4, <1>7, Multiples
<1> QED
  BY <1>1, <1>5, <1>6, <1>8 DEF k

(* The position in a payload that a byte of the page takes.                *)
LEMMA Wrap ==
  ASSUME NEW addr \in Nat
  PROVE  LET misaligned == addr % ProgPage
             start == addr - (addr % ProgPage)
         IN  /\ misaligned \in 0 .. ProgPage - 1 /\ start \in Nat /\ start + misaligned = addr
             /\ \A x \in start .. start + ProgPage - 1 :
                  (x - addr) % ProgPage = IF x >= addr THEN x - addr ELSE x - addr + ProgPage
<1> DEFINE misaligned == addr % ProgPage
           start == addr - (addr % ProgPage)
<1>1. ProgPage \in Nat \ {0}
  BY GeometryFacts
<1>2. misaligned \in 0 .. ProgPage - 1 /\ start \in Nat /\ start + misaligned = addr
  <2>1. addr % ProgPage \in 0 .. ProgPage - 1 /\ (addr \div ProgPage) * ProgPage \in Nat
        /\ addr = (addr \div ProgPage) * ProgPage + (addr % ProgPage)
    <3>1. addr \div ProgPage \in Nat
      BY <1>1, Division
    <3> QED
      BY <1>1, <3>1, Division, Multiples
  <2> QED
    BY <1>1, <2>1
<1> HIDE DEF misaligned, start
<1>3. ASSUME NEW x \in start .. start + ProgPage - 1
      PROVE  (x - addr) % ProgPage = IF x >= addr THEN x - addr ELSE x - addr + ProgPage
  <2> DEFINE y == x - addr
  <2>1. y \in Int /\ (x >= addr => y \in 0 .. ProgPage - 1)
        /\ (x < addr => y + ProgPage \in 0 .. ProgPage - 1)
    BY <1>1, <1>2
  <2> HIDE DEF y
  <2>2. y \in 0 .. ProgPage - 1 => y % ProgPage = y
    BY <1>1
  <2>3. y + ProgPage \in 0 .. ProgPage - 1 => y % ProgPage = y + ProgPage
    BY <1>1, <2>1
  <2>4. x \in Int /\ addr \in Int
    BY <1>2
  <2>5. y % ProgPage = IF x >= addr THEN y ELSE y + ProgPage
    BY <2>1, <2>2, <2>3, <2>4
  <2> QED
    BY <2>5 DEF y
<1> QED
  BY <1>2, <1>3 DEF misaligned, start

(* PAGE_PROGRAM, padded, wrapped and split, programs each byte of the page *)
(* with its byte of the payload, and once.                                 *)
LEMMA PageProgramFacts ==
  ASSUME NEW addr \in Nat, NEW len \in 0 .. ProgPage
  PROVE  LET W == PageProgram(addr, len)
             start == addr - (addr % ProgPage)
             Offset(x) == (x - addr) % ProgPage
         IN  /\ W \in Seq(Transactions)
             /\ \A i \in 1 .. Len(W) : ~W[i].erase
             /\ \A x \in Int, i \in 1 .. Len(W) : Touches(W[i], x) =>
                  /\ x \in start .. start + ProgPage - 1
                  /\ W[i].skip + x - W[i].at = Offset(x)
             /\ \A x \in start .. start + ProgPage - 1 :
                  Offset(x) < len => \E i \in 1 .. Len(W) : Touches(W[i], x)
             /\ \A x \in Int, i \in 1 .. Len(W), j \in 1 .. Len(W) :
                  Touches(W[i], x) /\ Touches(W[j], x) => i = j
<1> DEFINE padded == ((len + Word - 1) \div Word) * Word
           misaligned == addr % ProgPage
           start == addr - (addr % ProgPage)
           Offset(x) == (x - addr) % ProgPage
           first == IF misaligned > 0 THEN Least(ProgPage - misaligned, padded) ELSE 0
           rest == padded - first
           U == Write(1, addr, first, 0)
           V == Write(2, start, rest, first)
           W == PageProgram(addr, len)
<1>1. ProgPage \in Nat \ {0} /\ len \in Nat /\ len <= ProgPage
  BY GeometryFacts
<1>2. padded \in Nat /\ len <= padded /\ padded <= ProgPage
  BY <1>1, PaddedFacts
<1>3. /\ misaligned \in 0 .. ProgPage - 1 /\ start \in Nat /\ start + misaligned = addr
      /\ \A x \in start .. start + ProgPage - 1 :
           Offset(x) = IF x >= addr THEN x - addr ELSE x - addr + ProgPage
  BY Wrap
<1>4. W = U \o V
  BY Zenon DEF PageProgram
<1> HIDE DEF padded, misaligned, start, Offset, W
<1>5. /\ first \in Nat /\ rest \in Nat /\ padded = first + rest
      /\ misaligned = 0 => first = 0
      /\ misaligned > 0 => first <= ProgPage - misaligned
      /\ misaligned > 0 /\ rest > 0 => first = ProgPage - misaligned
  BY <1>1, <1>2, <1>3 DEF Least
<1> HIDE DEF first, rest
<1>6. Programs(U, addr, first, 0)
  BY <1>5, WriteFacts
<1>7. Programs(V, start, rest, first)
  BY <1>3, <1>5, WriteFacts
<1> USE DEF Programs
<1> HIDE DEF U, V
<1>8. /\ W \in Seq(Transactions) /\ Len(W) = Len(U) + Len(V)
      /\ \A i \in 1 .. Len(W) : W[i] = IF i <= Len(U) THEN U[i] ELSE V[i - Len(U)]
      /\ Len(U) \in Nat /\ Len(V) \in Nat
  BY <1>4, <1>6, <1>7, ConcatProperties, LenProperties
(* Where the two parts are.                                                *)
<1>9. ASSUME NEW x \in Int, x \in Span(addr, first)
      PROVE  x \in start .. start + ProgPage - 1 /\ x >= addr /\ 0 + x - addr = Offset(x)
  <2>1. x \in start .. start + ProgPage - 1 /\ x >= addr
    BY <1>1, <1>3, <1>5, <1>9 DEF Span
  <2> QED
    BY <1>3, <2>1
<1>10. ASSUME NEW x \in Int, x \in Span(start, rest)
       PROVE  x \in start .. start + ProgPage - 1 /\ (misaligned > 0 => x < addr)
              /\ first + x - start = Offset(x)
  <2>1. x \in start .. start + ProgPage - 1 /\ (misaligned > 0 => x < addr)
    BY <1>1, <1>2, <1>3, <1>5, <1>10 DEF Span
  <2>2. Offset(x) = IF x >= addr THEN x - addr ELSE x - addr + ProgPage
    BY <1>3, <2>1
  <2>3. rest > 0
    BY <1>3, <1>5, <1>10 DEF Span
  <2> QED
    BY <1>1, <1>3, <1>5, <2>1, <2>2, <2>3
<1>11. ASSUME NEW i \in 1 .. Len(W)
       PROVE  \/ i \in 1 .. Len(U) /\ W[i] = U[i]
              \/ i - Len(U) \in 1 .. Len(V) /\ W[i] = V[i - Len(U)] /\ i > Len(U)
  BY <1>8
<1>12. ASSUME NEW i \in 1 .. Len(W) PROVE ~W[i].erase
  BY <1>6, <1>7, <1>11
<1>13. ASSUME NEW x \in Int, NEW i \in 1 .. Len(W), Touches(W[i], x)
       PROVE  x \in start .. start + ProgPage - 1 /\ W[i].skip + x - W[i].at = Offset(x)
  <2>1. CASE i \in 1 .. Len(U) /\ W[i] = U[i]
    BY <1>6, <1>9, <1>13, <2>1
  <2>2. CASE i - Len(U) \in 1 .. Len(V) /\ W[i] = V[i - Len(U)]
    BY <1>7, <1>10, <1>13, <2>2
  <2> QED
    BY <1>11, <2>1, <2>2
<1>14. ASSUME NEW x \in start .. start + ProgPage - 1, Offset(x) < len
       PROVE  \E i \in 1 .. Len(W) : Touches(W[i], x)
  <2>1. Offset(x) = (IF x >= addr THEN x - addr ELSE x - addr + ProgPage) /\ x \in Int
    BY <1>1, <1>3
  <2>2. x \in Span(addr, first) \/ x \in Span(start, rest)
    BY <1>1, <1>2, <1>3, <1>5, <1>14, <2>1 DEF Span
  <2>3. CASE x \in Span(addr, first)
    <3>1. PICK i \in 1 .. Len(U) : Touches(U[i], x)
      BY <1>6, <2>1, <2>3
    <3>2. i \in 1 .. Len(W) /\ W[i] = U[i]
      BY <1>8
    <3> QED
      BY <3>1, <3>2
  <2>4. CASE x \in Span(start, rest)
    <3>1. PICK i \in 1 .. Len(V) : Touches(V[i], x)
      BY <1>7, <2>1, <2>4
    <3>2. i + Len(U) \in 1 .. Len(W) /\ ~(i + Len(U) <= Len(U)) /\ i + Len(U) - Len(U) = i
      BY <1>8
    <3>3. W[i + Len(U)] = V[i]
      BY <1>8, <3>2
    <3> QED
      BY <3>1, <3>2, <3>3
  <2> QED
    BY <2>2, <2>3, <2>4
<1>15. ASSUME NEW x \in Int, NEW i \in 1 .. Len(W), NEW j \in 1 .. Len(W),
              Touches(W[i], x), Touches(W[j], x)
       PROVE  i = j
  <2>1. ASSUME NEW k \in 1 .. Len(U), NEW l \in 1 .. Len(V), Touches(U[k], x), Touches(V[l], x)
        PROVE  FALSE
    <3>1. x \in Span(addr, first) /\ x \in Span(start, rest)
      BY <1>6, <1>7, <2>1
    <3>2. x >= addr /\ (misaligned > 0 => x < addr)
      BY <1>9, <1>10, <3>1
    <3>3. misaligned > 0
      BY <1>3, <1>5, <3>1 DEF Span
    <3> QED
      BY <1>3, <3>2, <3>3
  <2>2. CASE i \in 1 .. Len(U) /\ W[i] = U[i] /\ j \in 1 .. Len(U) /\ W[j] = U[j]
    BY <1>6, <1>15, <2>2
  <2>3. CASE /\ i - Len(U) \in 1 .. Len(V) /\ W[i] = V[i - Len(U)]
             /\ j - Len(U) \in 1 .. Len(V) /\ W[j] = V[j - Len(U)]
    <3>1. i - Len(U) = j - Len(U)
      BY <1>7, <1>15, <2>3
    <3> QED
      BY <1>8, <3>1
  <2> QED
    BY <1>11, <1>15, <2>1, <2>2, <2>3
<1> QED
  BY <1>8, <1>12, <1>13, <1>14, <1>15 DEF start, Offset, W

(* The transactions of W erase the bytes of S, each once.                  *)
Erases(W, S) ==
  /\ W \in Seq(Transactions)
  /\ \A i \in 1 .. Len(W) : W[i].erase
  /\ \A x \in S : \E i \in 1 .. Len(W) : Touches(W[i], x)
  /\ \A x \in Int, i \in 1 .. Len(W) : Touches(W[i], x) => x \in S
  /\ \A x \in Int, i \in 1 .. Len(W), j \in 1 .. Len(W) :
       Touches(W[i], x) /\ Touches(W[j], x) => i = j

LEMMA TwoErasures ==
  ASSUME NEW a \in Nat, NEW n \in Nat
  PROVE  Erases(<<Erasure(1, a, n), Erasure(2, a + n, n)>>, Span(a, n + n))
<1> DEFINE u == Erasure(1, a, n)
           v == Erasure(2, a + n, n)
           W == <<u, v>>
<1>1. u \in Transactions /\ v \in Transactions
  BY DEF Erasure, Transactions
<1>2. /\ u.at = a /\ u.n = n /\ u.erase = TRUE
      /\ v.at = a + n /\ v.n = n /\ v.erase = TRUE
  BY DEF Erasure
<1> HIDE DEF u, v
<1>3. W \in Seq(Transactions) /\ Len(W) = 2 /\ W[1] = u /\ W[2] = v
  BY <1>1
<1> HIDE DEF W
<1>4. \A i \in 1 .. Len(W) : (i = 1 /\ W[i] = u) \/ (i = 2 /\ W[i] = v)
  BY <1>3
<1>5. ASSUME NEW x \in Int
      PROVE  /\ Touches(u, x) <=> a <= x /\ x < a + n
             /\ Touches(v, x) <=> a + n <= x /\ x < a + n + n
             /\ x \in Span(a, n + n) <=> a <= x /\ x < a + n + n
  BY <1>2 DEF Touches, Span
<1>6. ASSUME NEW x \in Span(a, n + n) PROVE \E i \in 1 .. Len(W) : Touches(W[i], x)
  <2>1. x \in Int
    BY DEF Span
  <2>2. Touches(u, x) \/ Touches(v, x)
    BY <1>5, <2>1
  <2> QED
    BY <1>3, <2>2
<1>7. ASSUME NEW x \in Int, NEW i \in 1 .. Len(W), Touches(W[i], x) PROVE x \in Span(a, n + n)
  BY <1>4, <1>5, <1>7
<1>8. ASSUME NEW x \in Int PROVE ~(Touches(u, x) /\ Touches(v, x))
  BY <1>5
<1>9. ASSUME NEW x \in Int, NEW i \in 1 .. Len(W), NEW j \in 1 .. Len(W),
             Touches(W[i], x), Touches(W[j], x)
      PROVE  i = j
  BY <1>4, <1>8, <1>9
<1>10. \A i \in 1 .. Len(W) : W[i].erase
  BY <1>2, <1>4
<1> QED
  BY <1>3, <1>6, <1>7, <1>9, <1>10 DEF Erases, W, u, v

LEMMA ChipEraseFacts == Erases(ChipErase, Address)
<1>1. Bank \in Nat /\ Bytes = Bank + Bank /\ 0 + Bank = Bank
  BY GeometryFacts
<1>2. Erases(<<Erasure(1, 0, Bank), Erasure(2, 0 + Bank, Bank)>>, Span(0, Bank + Bank))
  BY <1>1, TwoErasures
<1>3. Span(0, Bank + Bank) = Address
  BY <1>1 DEF Span, Address
<1> QED
  BY <1>1, <1>2, <1>3 DEF ChipErase

LEMMA SectorEraseFacts ==
  ASSUME NEW addr \in Nat
  PROVE  LET start == addr - (addr % Sector)
         IN  start \in Nat /\ Erases(SectorErase(addr), start .. start + Sector - 1)
<1> DEFINE start == addr - (addr % Sector)
<1>1. Sector \in Nat \ {0} /\ Page \in Nat /\ Sector = Page + Page
  BY GeometryFacts
<1>2. start \in Nat
  BY <1>1, Division
<1>3. SectorErase(addr) = <<Erasure(1, start, Page), Erasure(2, start + Page, Page)>>
  BY DEF SectorErase
<1> HIDE DEF start
<1>4. Erases(<<Erasure(1, start, Page), Erasure(2, start + Page, Page)>>, Span(start, Page + Page))
  BY <1>1, <1>2, TwoErasures
<1>5. Span(start, Page + Page) = start .. start + Sector - 1
  BY <1>1 DEF Span
<1> QED
  BY <1>2, <1>3, <1>4, <1>5 DEF start

(* What each command comes to.                                             *)
LEMMA WorkTypes ==
  ASSUME NEW c, c.op \in Opcodes \ {"Reset", "Other"}, c.addr \in Nat, c.len \in 0 .. ProgPage
  PROVE  /\ Work(c) \in Seq(Transactions)
         /\ c.op = "ChipErase" => Work(c) = ChipErase
         /\ c.op = "SectorErase" => Work(c) = SectorErase(c.addr)
         /\ c.op = "Program" => Work(c) = PageProgram(c.addr, c.len)
<1>1. CASE c.op = "ChipErase"
  <2>1. Work(c) = ChipErase
    BY <1>1 DEF Work
  <2> QED
    BY <1>1, <2>1, ChipEraseFacts DEF Erases
<1>2. CASE c.op = "SectorErase"
  <2>1. Work(c) = SectorErase(c.addr)
    BY <1>2 DEF Work
  <2> QED
    BY <1>2, <2>1, SectorEraseFacts DEF Erases
<1>3. CASE c.op = "Program"
  <2>1. Work(c) = PageProgram(c.addr, c.len)
    BY <1>3 DEF Work
  <2> QED
    BY <1>3, <2>1, PageProgramFacts
<1> QED
  BY <1>1, <1>2, <1>3 DEF Opcodes

-----------------------------------------------------------------------------
(* The loop and the host, whatever the host sends and when.                *)

LEMMA FreshTypes ==
  /\ FreshSpi \in Registers /\ FreshDev \in LoopStates
  /\ \A p \in BOOLEAN : FreshHost(p) \in HostStates /\ FreshHost(p).patient = p
<1>1. <<>> \in Seq(Opcodes) /\ <<>> \in Seq(Nat) /\ <<>> \in Seq(Transactions)
  OBVIOUS
<1>2. 0 \in 0 .. ProgPage
  BY GeometryFacts
<1>3. FreshSpi \in Registers
  BY <1>1, <1>2 DEF FreshSpi, Registers
<1>4. NoCmd \in [op : Opcodes \cup {"none"}, addr : Nat, len : 0 .. ProgPage]
  BY <1>2 DEF NoCmd
<1>5. FreshDev \in LoopStates
  BY <1>1, <1>4 DEF FreshDev, LoopStates
<1>6. ASSUME NEW p \in BOOLEAN
      PROVE  FreshHost(p) \in HostStates /\ FreshHost(p).patient = p
  BY DEF FreshHost, HostStates
<1> QED
  BY <1>3, <1>5, <1>6

LEMMA InitInv == Init => IInv
<1> SUFFICES ASSUME Init PROVE IInv
  OBVIOUS
<1> USE DEF Init
<1>1. flash \in [Address -> SUBSET Bits] /\ (\A a \in Address : flash[a] \subseteq {OldBit})
      /\ before \in [Address -> SUBSET Bits]
  BY DEF Bits
<1>2. host \in HostStates /\ host.sent = 0
  <2>1. PICK p \in Patience : host = FreshHost(p)
    OBVIOUS
  <2>2. p \in BOOLEAN
    BY HostAssumption
  <2>3. FreshHost(p).sent = 0
    BY DEF FreshHost
  <2> QED
    BY <2>1, <2>2, <2>3, FreshTypes
<1>3. /\ spi.cmds = <<>> /\ spi.addrs = <<>> /\ spi.intr = FALSE
      /\ dev.pc = "Poll" /\ dev.stage = "Erase" /\ dev.to = "Erase" /\ dev.perms = "none"
  BY DEF FreshSpi, FreshDev
<1>4. TypeOK
  BY <1>1, <1>2, <1>3, FreshTypes DEF TypeOK
<1>5. OpcodeWaits /\ EraseComesFirst /\ PermsAtWork
  BY <1>1, <1>3 DEF OpcodeWaits, EraseComesFirst, PermsAtWork
<1> QED
  BY <1>4, <1>5 DEF IInv

LEMMA LatchInv == IInv /\ (WriteEnable \/ WriteDisable) => IInv'
<1> SUFFICES ASSUME IInv, WriteEnable \/ WriteDisable PROVE IInv'
  OBVIOUS
<1>1. PICK on \in BOOLEAN :
        spi' = [spi EXCEPT !.wel = on] /\ UNCHANGED <<flash, dev, host, before, sessions>>
  BY DEF WriteEnable, WriteDisable
<1>2. /\ spi' \in Registers /\ spi'.cmds = spi.cmds /\ spi'.addrs = spi.addrs
      /\ spi'.intr = spi.intr
  BY <1>1 DEF IInv, TypeOK, Registers
<1>3. TypeOK'
  BY <1>1, <1>2 DEF IInv, TypeOK
<1>4. (OpcodeWaits /\ EraseComesFirst /\ PermsAtWork)'
  BY <1>1, <1>2 DEF IInv, OpcodeWaits, EraseComesFirst, PermsAtWork
<1> QED
  BY <1>3, <1>4 DEF IInv

LEMMA UploadFacts ==
  ASSUME IInv, NEW c \in Commands, Upload(c)
  PROVE  /\ c.op \in Opcodes /\ c.addr \in Nat /\ c.len \in Nat
         /\ spi' \in Registers /\ spi'.cmds = Append(spi.cmds, c.op)
         /\ spi'.addrs = (IF Addressed(c) THEN Append(spi.addrs, c.addr) ELSE spi.addrs)
         /\ spi'.intr /\ spi'.busy /\ spi'.wel = spi.wel
         /\ spi'.depth = Least(c.len, ProgPage)
         /\ spi'.over = (spi.over \/ c.len > ProgPage)
         /\ host' \in HostStates /\ host'.sent = host.sent + 1 /\ host'.patient = host.patient
         /\ ~host'.ready /\ host'.last = c /\ host'.started = host.started
         /\ before' = flash /\ UNCHANGED <<flash, dev, sessions>>
<1>1. c.op \in Opcodes /\ c.addr \in Nat /\ c.len \in Nat
  BY HostAssumption
<1>2. spi \in Registers /\ host \in HostStates
  BY DEF IInv, TypeOK
<1> DEFINE cmds == Append(spi.cmds, c.op)
           addrs == IF Addressed(c) THEN Append(spi.addrs, c.addr) ELSE spi.addrs
           depth == Least(c.len, ProgPage)
           over == spi.over \/ c.len > ProgPage
<1>3. cmds \in Seq(Opcodes) /\ addrs \in Seq(Nat) /\ over \in BOOLEAN
  BY <1>1, <1>2 DEF Registers
<1>4. depth \in 0 .. ProgPage
  BY <1>1, GeometryFacts DEF Least
<1>5. spi' = [spi EXCEPT !.busy = TRUE, !.intr = TRUE, !.cmds = cmds, !.addrs = addrs,
                         !.depth = depth, !.over = over]
  BY DEF Upload, Addressed
<1> HIDE DEF cmds, addrs, depth, over
<1>6. /\ spi' \in Registers /\ spi'.cmds = cmds /\ spi'.addrs = addrs
      /\ spi'.intr /\ spi'.busy /\ spi'.wel = spi.wel /\ spi'.depth = depth /\ spi'.over = over
  BY <1>2, <1>3, <1>4, <1>5 DEF Registers
<1>7. host' = [host EXCEPT !.ready = FALSE, !.sent = @ + 1, !.last = c]
      /\ before' = flash /\ UNCHANGED <<flash, dev, sessions>>
  BY DEF Upload
<1>8. /\ host' \in HostStates /\ host'.sent = host.sent + 1 /\ host'.patient = host.patient
      /\ ~host'.ready /\ host'.last = c /\ host'.started = host.started
  <2>1. host.sent + 1 \in Nat /\ c \in Commands \cup {NoCmd}
    BY <1>2 DEF HostStates
  <2>2. host' = [host EXCEPT !.ready = FALSE, !.sent = host.sent + 1, !.last = c]
    BY <1>7
  <2> QED
    BY <1>2, <2>1, <2>2 DEF HostStates
<1> QED
  BY <1>1, <1>6, <1>7, <1>8 DEF cmds, addrs, depth, over

LEMMA UploadInv == ASSUME NEW c \in Commands PROVE IInv /\ Upload(c) => IInv'
<1> SUFFICES ASSUME IInv, Upload(c) PROVE IInv'
  OBVIOUS
<1>1. /\ c.op \in Opcodes /\ c.addr \in Nat
      /\ spi' \in Registers /\ spi'.cmds = Append(spi.cmds, c.op)
      /\ spi'.addrs = (IF Addressed(c) THEN Append(spi.addrs, c.addr) ELSE spi.addrs)
      /\ host' \in HostStates /\ host'.sent = host.sent + 1
      /\ before' = flash /\ UNCHANGED <<flash, dev>>
  BY UploadFacts
<1>2. spi.cmds \in Seq(Opcodes) /\ spi.addrs \in Seq(Nat) /\ host.sent \in Nat
      /\ Len(spi.cmds) <= host.sent /\ Len(spi.addrs) <= Len(spi.cmds)
  BY DEF IInv, TypeOK, Registers, HostStates
<1>3. Len(spi'.cmds) = Len(spi.cmds) + 1 /\ spi'.cmds # <<>>
      /\ Len(spi'.addrs) <= Len(spi.addrs) + 1
      /\ Len(spi.cmds) \in Nat /\ Len(spi.addrs) \in Nat
  BY <1>1, <1>2
<1>4. dev.pc = "Fetch" => Len(spi'.cmds) > 1
  BY <1>2, <1>3 DEF IInv, OpcodeWaits
<1>5. Len(spi'.cmds) <= host'.sent /\ Len(spi'.addrs) <= Len(spi'.cmds)
  <2>1. Len(spi'.addrs) \in Nat
    BY <1>1 DEF Registers
  <2> QED
    BY <1>1, <1>2, <1>3, <2>1
<1>6. TypeOK'
  BY <1>1, <1>3, <1>5 DEF IInv, TypeOK
<1>7. OpcodeWaits'
  BY <1>1, <1>3, <1>4 DEF IInv, OpcodeWaits
<1>8. EraseComesFirst' /\ PermsAtWork'
  BY <1>1 DEF IInv, EraseComesFirst, PermsAtWork
<1> QED
  BY <1>6, <1>7, <1>8 DEF IInv

LEMMA ReadStatusInv == IInv /\ ReadStatus => IInv'
<1> SUFFICES ASSUME IInv, ReadStatus PROVE IInv'
  OBVIOUS
<1>1. /\ host' = [host EXCEPT !.ready = TRUE,
                  !.started = @ \/ host.last.op \in {"ChipErase", "SectorErase"}]
      /\ UNCHANGED <<flash, spi, dev, before, sessions>>
  BY DEF ReadStatus
<1>2. host' \in HostStates /\ host'.sent = host.sent
  BY <1>1 DEF IInv, TypeOK, HostStates
<1>3. TypeOK'
  BY <1>1, <1>2 DEF IInv, TypeOK
<1>4. (OpcodeWaits /\ EraseComesFirst /\ PermsAtWork)'
  BY <1>1 DEF IInv, OpcodeWaits, EraseComesFirst, PermsAtWork
<1> QED
  BY <1>3, <1>4 DEF IInv

(* Steps of the loop that only move it, outside Work and Verify.           *)
LEMMA GoInv ==
  ASSUME IInv, NEW pc, Go(pc), pc \in {"Poll", "Fetch", "Status", "Ended"},
         dev.pc \in {"Check", "ClearIntr"}, pc = "Fetch" => spi'.cmds # <<>> /\ ~spi'.intr,
         spi' \in Registers, spi'.cmds = spi.cmds, spi'.addrs = spi.addrs,
         spi'.intr => spi.intr, UNCHANGED <<flash, host, before>>
  PROVE  IInv'
<1>1. dev' = [dev EXCEPT !.pc = pc]
  BY DEF Go
<1>2. /\ dev' \in LoopStates /\ dev'.pc = pc /\ dev'.stage = dev.stage /\ dev'.to = dev.to
      /\ dev'.perms = dev.perms
  BY <1>1 DEF IInv, TypeOK, LoopStates
<1>3. TypeOK'
  BY <1>2 DEF IInv, TypeOK
<1>4. OpcodeWaits' /\ PermsAtWork'
  BY <1>2 DEF IInv, OpcodeWaits, PermsAtWork
<1>5. EraseComesFirst'
  BY <1>2 DEF IInv, EraseComesFirst
<1> QED
  BY <1>3, <1>4, <1>5 DEF IInv

LEMMA PollIntrInv == IInv /\ PollIntr => IInv'
<1> SUFFICES ASSUME IInv, PollIntr PROVE IInv'
  OBVIOUS
<1>1. /\ dev.pc = "Poll" /\ spi.intr /\ dev' = [dev EXCEPT !.pc = "ClearIntr", !.over = spi.over]
      /\ UNCHANGED <<flash, spi, host, before, sessions>>
  BY DEF PollIntr
<1>2. /\ dev' \in LoopStates /\ dev'.pc = "ClearIntr" /\ dev'.stage = dev.stage
      /\ dev'.to = dev.to /\ dev'.perms = dev.perms
  BY <1>1 DEF IInv, TypeOK, LoopStates, Registers
<1>3. TypeOK'
  BY <1>1, <1>2 DEF IInv, TypeOK
<1>4. (OpcodeWaits /\ EraseComesFirst /\ PermsAtWork)'
  BY <1>1, <1>2 DEF IInv, OpcodeWaits, EraseComesFirst, PermsAtWork
<1> QED
  BY <1>3, <1>4 DEF IInv

LEMMA ClearIntrInv == IInv /\ ClearIntr => IInv'
<1> SUFFICES ASSUME IInv, ClearIntr PROVE IInv'
  OBVIOUS
<1>1. /\ dev.pc = "ClearIntr" /\ spi' = [spi EXCEPT !.intr = FALSE, !.over = FALSE]
      /\ Go(IF dev.over THEN "Ended" ELSE "Fetch")
      /\ UNCHANGED <<flash, host, before, sessions>>
  BY DEF ClearIntr
<1>2. spi' \in Registers /\ spi'.cmds = spi.cmds /\ spi'.addrs = spi.addrs /\ ~spi'.intr
  BY <1>1 DEF IInv, TypeOK, Registers
<1>3. spi'.cmds # <<>>
  BY <1>1, <1>2 DEF IInv, OpcodeWaits
<1>4. CASE dev.over
  <2>1. Go("Ended")
    BY <1>1, <1>4
  <2> QED
    BY <1>1, <1>2, <1>3, <2>1, GoInv
<1>5. CASE ~dev.over
  <2>1. Go("Fetch")
    BY <1>1, <1>5
  <2> QED
    BY <1>1, <1>2, <1>3, <2>1, GoInv
<1> QED
  BY <1>4, <1>5

LEMMA FetchFacts ==
  ASSUME IInv, Fetch
  PROVE  LET addressed == spi.addrs # <<>>
         IN  /\ dev.pc = "Fetch" /\ spi.cmds # <<>> /\ Head(spi.cmds) \in Opcodes
             /\ spi' \in Registers /\ spi'.cmds = Tail(spi.cmds)
             /\ spi'.addrs = (IF addressed THEN Tail(spi.addrs) ELSE spi.addrs)
             /\ spi'.intr = spi.intr /\ spi'.over = spi.over /\ spi'.busy = spi.busy
             /\ spi'.wel = spi.wel /\ spi'.depth = spi.depth
             /\ dev' \in LoopStates /\ dev'.pc = "Payload" /\ dev'.stage = dev.stage
             /\ dev'.to = dev.to /\ dev'.perms = dev.perms
             /\ dev'.cmd.op = Head(spi.cmds)
             /\ dev'.cmd.addr = (IF addressed THEN Head(spi.addrs) ELSE Bytes)
             /\ UNCHANGED <<flash, host, before>>
<1> DEFINE addressed == spi.addrs # <<>>
           cmd == [op |-> Head(spi.cmds), len |-> 0,
                   addr |-> IF addressed THEN Head(spi.addrs) ELSE Bytes]
           addrs == IF addressed THEN Tail(spi.addrs) ELSE spi.addrs
<1>1. /\ dev.pc = "Fetch" /\ spi' = [spi EXCEPT !.cmds = Tail(@), !.addrs = addrs]
      /\ dev' = [dev EXCEPT !.pc = "Payload", !.cmd = cmd]
      /\ UNCHANGED <<flash, host, before>>
  BY DEF Fetch
<1>2. spi \in Registers /\ dev \in LoopStates /\ spi.cmds # <<>>
  BY <1>1 DEF IInv, TypeOK
<1>3. /\ Head(spi.cmds) \in Opcodes /\ Tail(spi.cmds) \in Seq(Opcodes)
      /\ addressed => Head(spi.addrs) \in Nat /\ Tail(spi.addrs) \in Seq(Nat)
  BY <1>2, HeadTailProperties DEF Registers
<1>4. addrs \in Seq(Nat)
  BY <1>2, <1>3 DEF Registers
<1>5. /\ cmd \in [op : Opcodes \cup {"none"}, addr : Nat, len : 0 .. ProgPage]
      /\ cmd.op = Head(spi.cmds)
      /\ cmd.addr = IF addressed THEN Head(spi.addrs) ELSE Bytes
  <2>1. 0 \in 0 .. ProgPage /\ Bytes \in Nat
    BY GeometryFacts
  <2>2. (IF addressed THEN Head(spi.addrs) ELSE Bytes) \in Nat
    BY <1>3, <2>1
  <2> QED
    BY <1>3, <2>1, <2>2
<1> HIDE DEF addressed, cmd, addrs
<1>6. /\ spi' \in Registers /\ spi'.cmds = Tail(spi.cmds) /\ spi'.addrs = addrs
      /\ spi'.intr = spi.intr /\ spi'.over = spi.over /\ spi'.busy = spi.busy
      /\ spi'.wel = spi.wel /\ spi'.depth = spi.depth
  BY <1>1, <1>2, <1>3, <1>4 DEF Registers
<1>7. /\ dev' \in LoopStates /\ dev'.pc = "Payload" /\ dev'.stage = dev.stage
      /\ dev'.to = dev.to /\ dev'.perms = dev.perms /\ dev'.cmd = cmd
  BY <1>1, <1>2, <1>5 DEF LoopStates
<1> QED
  BY <1>1, <1>2, <1>3, <1>5, <1>6, <1>7 DEF addressed, addrs

LEMMA FetchInv == IInv /\ Fetch => IInv'
<1> SUFFICES ASSUME IInv, Fetch PROVE IInv'
  OBVIOUS
<1>1. /\ dev.pc = "Fetch" /\ spi.cmds # <<>> /\ Head(spi.cmds) \in Opcodes
      /\ spi' \in Registers /\ spi'.cmds = Tail(spi.cmds)
      /\ spi'.addrs = (IF spi.addrs # <<>> THEN Tail(spi.addrs) ELSE spi.addrs)
      /\ spi'.intr = spi.intr
      /\ dev' \in LoopStates /\ dev'.pc = "Payload" /\ dev'.stage = dev.stage
      /\ dev'.to = dev.to /\ dev'.perms = dev.perms /\ dev'.cmd.op = Head(spi.cmds)
      /\ UNCHANGED <<flash, host, before>>
  BY FetchFacts
<1>2. spi.cmds \in Seq(Opcodes) /\ spi.addrs \in Seq(Nat)
      /\ Len(spi.cmds) <= host.sent /\ Len(spi.addrs) <= Len(spi.cmds) /\ host.sent \in Nat
  BY DEF IInv, TypeOK, Registers, HostStates
<1>3. Len(Tail(spi.cmds)) = Len(spi.cmds) - 1 /\ Len(spi.cmds) \in Nat /\ Len(spi.cmds) > 0
      /\ Len(spi.addrs) \in Nat
      /\ (spi.addrs # <<>> => Len(Tail(spi.addrs)) = Len(spi.addrs) - 1)
      /\ (spi.addrs = <<>> => Len(spi.addrs) = 0)
  BY <1>1, <1>2, HeadTailProperties, EmptySeq, LenProperties
<1>4. Len(spi'.cmds) <= host'.sent /\ Len(spi'.addrs) <= Len(spi'.cmds)
  BY <1>1, <1>2, <1>3
<1>5. TypeOK'
  BY <1>1, <1>4 DEF IInv, TypeOK
<1>6. spi'.intr => spi'.cmds # <<>>
  <2>1. spi'.intr => Len(spi'.cmds) > 0
    BY <1>1, <1>2, <1>3 DEF IInv, OpcodeWaits
  <2> QED
    BY <2>1, EmptySeq
<1>7. OpcodeWaits' /\ PermsAtWork'
  BY <1>1, <1>6 DEF IInv, OpcodeWaits, PermsAtWork
<1>8. EraseComesFirst'
  BY <1>1 DEF IInv, EraseComesFirst
<1> QED
  BY <1>5, <1>7, <1>8 DEF IInv

LEMMA PayloadFacts ==
  ASSUME IInv, Payload
  PROVE  /\ dev.pc = "Payload" /\ dev' \in LoopStates /\ dev'.pc = "Check"
         /\ dev'.stage = dev.stage /\ dev'.to = dev.to /\ dev'.perms = dev.perms
         /\ dev'.cmd.op = dev.cmd.op /\ dev'.cmd.addr = dev.cmd.addr
         /\ dev'.cmd.len = spi.depth
         /\ UNCHANGED <<flash, spi, host, before>>
<1>1. /\ dev.pc = "Payload" /\ dev' = [dev EXCEPT !.pc = "Check", !.cmd.len = spi.depth]
      /\ UNCHANGED <<flash, spi, host, before>>
  BY DEF Payload
<1>2. spi.depth \in 0 .. ProgPage /\ dev \in LoopStates
  BY DEF IInv, TypeOK, Registers
<1> DEFINE cmd == [dev.cmd EXCEPT !.len = spi.depth]
<1>3. /\ cmd \in [op : Opcodes \cup {"none"}, addr : Nat, len : 0 .. ProgPage]
      /\ cmd.op = dev.cmd.op /\ cmd.addr = dev.cmd.addr /\ cmd.len = spi.depth
  BY <1>2 DEF LoopStates
<1>4. dev' = [dev EXCEPT !.pc = "Check", !.cmd = cmd]
  BY <1>1, <1>2 DEF LoopStates
<1> HIDE DEF cmd
<1>5. /\ dev' \in LoopStates /\ dev'.pc = "Check" /\ dev'.stage = dev.stage
      /\ dev'.to = dev.to /\ dev'.perms = dev.perms /\ dev'.cmd = cmd
  BY <1>2, <1>3, <1>4 DEF LoopStates
<1> QED
  BY <1>1, <1>3, <1>5

LEMMA PayloadInv == IInv /\ Payload => IInv'
<1> SUFFICES ASSUME IInv, Payload PROVE IInv'
  OBVIOUS
<1>1. /\ dev.pc = "Payload" /\ dev' \in LoopStates /\ dev'.pc = "Check"
      /\ dev'.stage = dev.stage /\ dev'.to = dev.to /\ dev'.perms = dev.perms
      /\ dev'.cmd.op = dev.cmd.op /\ UNCHANGED <<flash, spi, host, before>>
  BY PayloadFacts
<1>2. TypeOK'
  BY <1>1 DEF IInv, TypeOK
<1>3. (OpcodeWaits /\ EraseComesFirst /\ PermsAtWork)'
  BY <1>1 DEF IInv, OpcodeWaits, EraseComesFirst, PermsAtWork
<1> QED
  BY <1>2, <1>3 DEF IInv

LEMMA BeginFacts ==
  ASSUME dev \in LoopStates, NEW c, c.op \in Opcodes \ {"Reset", "Other"}, c.addr \in Nat,
         c.len \in 0 .. ProgPage, Begin(c)
  PROVE  /\ dev' \in LoopStates /\ dev'.pc = "Work" /\ dev'.work = Work(c) /\ ~dev'.err
         /\ dev'.stage = dev.stage /\ dev'.to = dev.to /\ dev'.cmd = dev.cmd
<1>1. Work(c) \in Seq(Transactions)
  BY WorkTypes
<1>2. PermsFor(c) \in {"none", "bank", "erase", "write"}
  BY DEF PermsFor
<1>3. dev' = [dev EXCEPT !.pc = "Work", !.work = Work(c), !.perms = PermsFor(c), !.err = FALSE]
  BY DEF Begin
<1> QED
  BY <1>1, <1>2, <1>3 DEF LoopStates

LEMMA CheckedCommand ==
  ASSUME IInv, dev.pc = "Check"
  PROVE  /\ dev \in LoopStates /\ dev.cmd.op \in Opcodes /\ dev.cmd.addr \in Nat
         /\ dev.cmd.len \in 0 .. ProgPage
         /\ dev.cmd \in [op : Opcodes \cup {"none"}, addr : Nat, len : 0 .. ProgPage]
BY DEF IInv, TypeOK, OpcodeWaits, LoopStates

(* What a step that begins a command leaves; before the first erase, a     *)
(* command that erases all.                                                *)
LEMMA BeginInv ==
  ASSUME IInv, dev.pc = "Check", NEW c, c.op \in Opcodes \ {"Reset", "Other"}, c.addr \in Nat,
         c.len \in 0 .. ProgPage, dev.stage = "Erase" => c.op = "ChipErase",
         Begin(c), UNCHANGED <<flash, spi, host, before>>
  PROVE  IInv'
<1>1. /\ dev' \in LoopStates /\ dev'.pc = "Work" /\ dev'.work = Work(c)
      /\ dev'.stage = dev.stage /\ dev'.to = dev.to
  BY BeginFacts DEF IInv, TypeOK
<1>2. TypeOK'
  BY <1>1 DEF IInv, TypeOK
<1>3. OpcodeWaits' /\ PermsAtWork'
  BY <1>1 DEF IInv, OpcodeWaits, PermsAtWork
<1>4. dev.stage = "Erase" => \A i \in DOMAIN dev'.work : dev'.work[i].erase
  <2> SUFFICES ASSUME dev.stage = "Erase", NEW i \in DOMAIN dev'.work PROVE dev'.work[i].erase
    OBVIOUS
  <2>1. Erases(dev'.work, Address)
    BY <1>1, WorkTypes, ChipEraseFacts
  <2> QED
    BY <2>1, LenProperties DEF Erases
<1>5. EraseComesFirst'
  BY <1>1, <1>4 DEF IInv, EraseComesFirst
<1> QED
  BY <1>2, <1>3, <1>5 DEF IInv

LEMMA StartEraseInv == IInv /\ StartErase => IInv'
<1> SUFFICES ASSUME IInv, StartErase PROVE IInv'
  OBVIOUS
<1> DEFINE c == [dev.cmd EXCEPT !.op = "ChipErase"]
<1>1. /\ dev.pc = "Check" /\ dev.stage = "Erase" /\ UNCHANGED <<flash, spi, host, before, sessions>>
      /\ Go("Poll") \/ Go("Status") \/ Begin(c)
  BY DEF StartErase
<1>2. CASE Go("Poll") \/ Go("Status")
  BY <1>1, <1>2, GoInv DEF IInv, TypeOK
<1>3. CASE Begin(c)
  <2>1. c.op = "ChipErase" /\ c.addr \in Nat /\ c.len \in 0 .. ProgPage
    BY <1>1, CheckedCommand
  <2>2. c.op \in Opcodes \ {"Reset", "Other"}
    BY <2>1 DEF Opcodes
  <2> HIDE DEF c
  <2> QED
    BY <1>1, <1>3, <2>1, <2>2, BeginInv
<1> QED
  BY <1>1, <1>2, <1>3

LEMMA StartProgramInv == IInv /\ StartProgram => IInv'
<1> SUFFICES ASSUME IInv, StartProgram PROVE IInv'
  OBVIOUS
<1>1. /\ dev.pc = "Check" /\ dev.stage = "Program"
      /\ UNCHANGED <<flash, spi, host, before, sessions>>
      /\ \/ Go("Ended") \/ Go("Poll") \/ Go("Status")
         \/ dev.cmd.op \notin {"Reset", "Other"} /\ Begin(dev.cmd)
  BY DEF StartProgram
<1>2. CASE Go("Poll") \/ Go("Ended") \/ Go("Status")
  BY <1>1, <1>2, GoInv DEF IInv, TypeOK
<1>3. CASE dev.cmd.op \notin {"Reset", "Other"} /\ Begin(dev.cmd)
  <2>1. dev.cmd.op \in Opcodes \ {"Reset", "Other"} /\ dev.cmd.addr \in Nat /\ dev.cmd.len \in 0 .. ProgPage
    BY <1>1, <1>3, CheckedCommand
  <2> QED
    BY <1>1, <1>3, <2>1, BeginInv
<1> QED
  BY <1>1, <1>2, <1>3

(* One transaction, or half of it, empties bytes or adds bits of a payload *)
(* and never one that was there before bootstrap.                          *)
LEMMA WorkedFacts ==
  ASSUME NEW w \in Transactions, NEW n \in Nat, n <= w.n, flash \in [Address -> SUBSET Bits],
         dev \in LoopStates
  PROVE  /\ Worked(w, n) \in [Address -> SUBSET Bits]
         /\ \A a \in Address : w.erase => Worked(w, n)[a] \subseteq flash[a]
         /\ \A a \in Address : OldBit \in Worked(w, n)[a] => OldBit \in flash[a]
<1>1. /\ w.at \in Nat /\ w.n \in Nat /\ w.skip \in Nat /\ w.erase \in BOOLEAN
      /\ ProgPage \in Nat \ {0} /\ Bytes \in Nat /\ dev.cmd.len \in 0 .. ProgPage
  BY GeometryFacts DEF Transactions, LoopStates
<1>2. ASSUME NEW a \in Address, a \in Span(w.at, n)
      PROVE  Data(w, a) \in SUBSET Bits /\ OldBit \notin Data(w, a)
  <2> DEFINE i == w.skip + a - w.at
  <2>1. i \in Nat
    BY <1>1, <1>2 DEF Span, Address
  <2>2. Data(w, a) = IF i < dev.cmd.len THEN {i} ELSE {}
    BY DEF Data
  <2> HIDE DEF i
  <2>3. i < dev.cmd.len => i \in 0 .. ProgPage - 1
    BY <1>1, <2>1
  <2>4. i # OldBit
    BY <2>1 DEF OldBit
  <2> QED
    BY <2>2, <2>3, <2>4 DEF Bits
<1>3. ASSUME NEW a \in Address
      PROVE  /\ Worked(w, n)[a] \in SUBSET Bits
             /\ w.erase => Worked(w, n)[a] \subseteq flash[a]
             /\ OldBit \in Worked(w, n)[a] => OldBit \in flash[a]
  <2>1. CASE a \notin Span(w.at, n)
    BY <2>1 DEF Worked
  <2>2. CASE a \in Span(w.at, n) /\ w.erase
    BY <2>2 DEF Worked
  <2>3. CASE a \in Span(w.at, n) /\ ~w.erase
    <3>1. Worked(w, n)[a] = flash[a] \cup Data(w, a)
      BY <2>3 DEF Worked
    <3> QED
      BY <1>2, <2>3, <3>1
  <2> QED
    BY <2>1, <2>2, <2>3
<1>4. Worked(w, n) = [a \in Address |-> Worked(w, n)[a]]
  BY DEF Worked
<1> QED
  BY <1>3, <1>4

LEMMA HalfFacts ==
  ASSUME NEW w \in Transactions
  PROVE  w.n \in Nat /\ w.n \div 2 \in Nat /\ w.n \div 2 <= w.n
BY DEF Transactions

(* A step of the work: flash after all or half of the first transaction,   *)
(* and fewer transactions to do.                                           *)
LEMMA TransactFacts ==
  ASSUME IInv, Transact
  PROVE  LET w == Head(dev.work)
         IN  /\ dev.pc = "Work" /\ dev.work \in Seq(Transactions) /\ dev.work # <<>>
             /\ w \in Transactions /\ w = dev.work[1]
             /\ flash' = Worked(w, w.n) \/ flash' = Half(w)
             /\ dev' \in LoopStates /\ dev'.pc = "Work" /\ dev'.stage = dev.stage
             /\ dev'.to = dev.to /\ dev'.cmd = dev.cmd
             /\ \A i \in DOMAIN dev'.work : \E j \in DOMAIN dev.work : dev'.work[i] = dev.work[j]
             /\ \/ flash' = Worked(w, w.n) /\ dev'.work = Tail(dev.work) /\ dev'.err = dev.err
                \/ dev.stage = "Erase"
                \/ dev'.err
             /\ UNCHANGED <<spi, host, before, sessions>>
<1> DEFINE w == Head(dev.work)
           n == Len(dev.work)
<1>1. dev \in LoopStates /\ dev.pc = "Work" /\ dev.work \in Seq(Transactions) /\ dev.work # <<>>
      /\ UNCHANGED <<spi, host, before, sessions>>
  BY DEF Transact, IInv, TypeOK, LoopStates
<1>2. /\ w \in Transactions /\ w = dev.work[1] /\ n \in Nat \ {0}
      /\ DOMAIN dev.work = 1 .. n
  BY <1>1, HeadTailProperties, EmptySeq, LenProperties
<1>3. ASSUME dev' = [dev EXCEPT !.work = Tail(@)]
      PROVE  /\ dev' \in LoopStates /\ dev'.pc = "Work" /\ dev'.stage = dev.stage
             /\ dev'.to = dev.to /\ dev'.cmd = dev.cmd
             /\ dev'.work = Tail(dev.work) /\ dev'.err = dev.err
             /\ \A i \in DOMAIN dev'.work : \E j \in DOMAIN dev.work : dev'.work[i] = dev.work[j]
  <2>1. /\ Tail(dev.work) \in Seq(Transactions) /\ Len(Tail(dev.work)) = n - 1
        /\ \A i \in 1 .. Len(Tail(dev.work)) : Tail(dev.work)[i] = dev.work[i + 1]
    BY <1>1, HeadTailProperties
  <2>2. /\ dev' \in LoopStates /\ dev'.pc = "Work" /\ dev'.stage = dev.stage
        /\ dev'.to = dev.to /\ dev'.cmd = dev.cmd
        /\ dev'.work = Tail(dev.work) /\ dev'.err = dev.err
    BY <1>1, <1>3, <2>1 DEF LoopStates
  <2>3. ASSUME NEW i \in DOMAIN dev'.work
        PROVE  \E j \in DOMAIN dev.work : dev'.work[i] = dev.work[j]
    <3>1. i \in 1 .. n - 1 /\ dev'.work[i] = dev.work[i + 1]
      BY <2>1, <2>2, LenProperties
    <3>2. i + 1 \in DOMAIN dev.work
      BY <1>2, <3>1
    <3> QED
      BY <3>1, <3>2
  <2> QED
    BY <2>2, <2>3
<1>4. ASSUME NEW k \in 2 .. n + 1,
             dev' = [dev EXCEPT !.err = TRUE, !.work = SubSeq(@, k, Len(@))]
      PROVE  /\ dev' \in LoopStates /\ dev'.pc = "Work" /\ dev'.stage = dev.stage
             /\ dev'.to = dev.to /\ dev'.cmd = dev.cmd /\ dev'.err
             /\ \A i \in DOMAIN dev'.work : \E j \in DOMAIN dev.work : dev'.work[i] = dev.work[j]
  <2> DEFINE rest == SubSeq(dev.work, k, n)
  <2>1. \A i \in k .. n : dev.work[i] \in Transactions
    BY <1>1, <1>2, ElementOfSeq
  <2>2. /\ rest \in Seq(Transactions) /\ Len(rest) = (IF k <= n THEN n - k + 1 ELSE 0)
        /\ \A i \in 1 .. n - k + 1 : rest[i] = dev.work[k + i - 1]
    BY <1>2, <2>1, SubSeqProperties
  <2>3. dev' = [dev EXCEPT !.err = TRUE, !.work = rest]
    BY <1>4
  <2> HIDE DEF rest
  <2>4. /\ dev' \in LoopStates /\ dev'.pc = "Work" /\ dev'.stage = dev.stage
        /\ dev'.to = dev.to /\ dev'.cmd = dev.cmd /\ dev'.err /\ dev'.work = rest
    BY <1>1, <2>2, <2>3 DEF LoopStates
  <2>5. ASSUME NEW i \in DOMAIN rest PROVE \E j \in DOMAIN dev.work : rest[i] = dev.work[j]
    <3>1. i \in 1 .. n - k + 1
      BY <1>2, <2>2, LenProperties
    <3> HIDE DEF n
    <3>2. k + i - 1 \in 1 .. n
      BY <1>2, <3>1
    <3>3. rest[i] = dev.work[k + i - 1]
      BY <2>2, <3>1
    <3> QED
      BY <1>2, <3>2, <3>3
  <2> QED
    BY <2>4, <2>5
<1>5. CASE flash' = Worked(w, w.n) /\ dev' = [dev EXCEPT !.work = Tail(@)]
  BY <1>1, <1>2, <1>3, <1>5
<1>6. CASE dev.stage = "Erase" /\ flash' = Half(w) /\ dev' = [dev EXCEPT !.work = Tail(@)]
  BY <1>1, <1>2, <1>3, <1>6
<1>7. CASE /\ flash' = Half(w)
           /\ \E k \in 2 .. n + 1 : dev' = [dev EXCEPT !.err = TRUE, !.work = SubSeq(@, k, Len(@))]
  <2>1. PICK k \in 2 .. n + 1 : dev' = [dev EXCEPT !.err = TRUE, !.work = SubSeq(@, k, Len(@))]
    BY <1>7
  <2> QED
    BY <1>1, <1>2, <1>4, <1>7, <2>1
<1> QED
  BY <1>5, <1>6, <1>7 DEF Transact

LEMMA TransactInv == IInv /\ Transact => IInv'
<1> SUFFICES ASSUME IInv, Transact PROVE IInv'
  OBVIOUS
<1> DEFINE w == Head(dev.work)
<1>1. /\ dev.pc = "Work" /\ dev.work \in Seq(Transactions) /\ dev.work # <<>>
      /\ w \in Transactions /\ w = dev.work[1]
      /\ flash' = Worked(w, w.n) \/ flash' = Half(w)
      /\ dev' \in LoopStates /\ dev'.pc = "Work" /\ dev'.stage = dev.stage /\ dev'.to = dev.to
      /\ \A i \in DOMAIN dev'.work : \E j \in DOMAIN dev.work : dev'.work[i] = dev.work[j]
      /\ UNCHANGED <<spi, host, before, sessions>>
  BY TransactFacts
<1>2. 1 \in DOMAIN dev.work
  BY <1>1, EmptySeq, LenProperties
<1> HIDE DEF w
<1>3. /\ flash' \in [Address -> SUBSET Bits]
      /\ \A a \in Address : w.erase => flash'[a] \subseteq flash[a]
      /\ \A a \in Address : OldBit \in flash'[a] => OldBit \in flash[a]
  <2>1. flash \in [Address -> SUBSET Bits] /\ dev \in LoopStates
    BY DEF IInv, TypeOK
  <2>2. w.n \in Nat /\ w.n \div 2 \in Nat /\ w.n \div 2 <= w.n /\ w.n <= w.n
    BY <1>1, HalfFacts
  <2>3. CASE flash' = Worked(w, w.n)
    BY <1>1, <2>1, <2>2, <2>3, WorkedFacts
  <2>4. CASE flash' = Half(w)
    BY <1>1, <2>1, <2>2, <2>4, WorkedFacts DEF Half
  <2> QED
    BY <1>1, <2>3, <2>4
<1>4. TypeOK'
  BY <1>1, <1>3 DEF IInv, TypeOK
<1>5. OpcodeWaits' /\ PermsAtWork'
  BY <1>1 DEF IInv, OpcodeWaits, PermsAtWork
<1>6. ASSUME dev.stage = "Erase"
      PROVE  /\ \A a \in Address : flash'[a] \subseteq {OldBit}
             /\ \A i \in DOMAIN dev'.work : dev'.work[i].erase
  BY <1>1, <1>2, <1>3, <1>6 DEF IInv, EraseComesFirst
<1>7. EraseComesFirst'
  BY <1>1, <1>3, <1>6 DEF IInv, EraseComesFirst
<1> QED
  BY <1>4, <1>5, <1>7 DEF IInv

LEMMA ClosePermsFacts ==
  ASSUME IInv, ClosePerms
  PROVE  /\ dev.pc = "Work" /\ dev.work = <<>> /\ dev' \in LoopStates
         /\ dev'.pc = (CASE dev.err -> "Ended"
                        [] ~dev.err /\ dev.stage = "Erase" -> "Verify"
                        [] OTHER -> "Status")
         /\ dev'.perms = "none" /\ dev'.stage = dev.stage /\ dev'.to = dev.to
         /\ dev'.cmd = dev.cmd /\ UNCHANGED <<flash, spi, host, before, sessions>>
<1> DEFINE pc == CASE dev.err -> "Ended"
                   [] ~dev.err /\ dev.stage = "Erase" -> "Verify"
                   [] OTHER -> "Status"
<1>1. /\ dev.pc = "Work" /\ dev.work = <<>> /\ dev' = [dev EXCEPT !.perms = "none", !.pc = pc]
      /\ UNCHANGED <<flash, spi, host, before, sessions>>
  BY DEF ClosePerms
<1>2. pc \in {"Ended", "Verify", "Status"}
  OBVIOUS
<1> HIDE DEF pc
<1>3. /\ dev' \in LoopStates /\ dev'.pc = pc /\ dev'.perms = "none" /\ dev'.stage = dev.stage
      /\ dev'.to = dev.to /\ dev'.cmd = dev.cmd
  BY <1>1, <1>2 DEF IInv, TypeOK, LoopStates
<1> QED
  BY <1>1, <1>3 DEF pc

LEMMA ClosePermsInv == IInv /\ ClosePerms => IInv'
<1> SUFFICES ASSUME IInv, ClosePerms PROVE IInv'
  OBVIOUS
<1>1. /\ dev.pc = "Work" /\ dev' \in LoopStates /\ dev'.pc \in {"Ended", "Verify", "Status"}
      /\ dev'.pc = "Verify" => dev.stage = "Erase"
      /\ dev'.perms = "none" /\ dev'.stage = dev.stage /\ dev'.to = dev.to
      /\ UNCHANGED <<flash, spi, host, before, sessions>>
  BY ClosePermsFacts
<1>2. TypeOK'
  BY <1>1 DEF IInv, TypeOK
<1>3. OpcodeWaits' /\ PermsAtWork'
  BY <1>1 DEF IInv, OpcodeWaits, PermsAtWork
<1>4. EraseComesFirst'
  BY <1>1 DEF IInv, EraseComesFirst
<1> QED
  BY <1>2, <1>3, <1>4 DEF IInv

LEMMA EraseVerifyFacts ==
  ASSUME IInv, EraseVerify
  PROVE  /\ dev.pc = "Verify" /\ dev.stage = "Erase"
         /\ dev' \in LoopStates /\ dev'.perms = dev.perms /\ dev'.stage = dev.stage
         /\ \/ /\ \A a \in Address : flash[a] = {}
               /\ dev'.pc = "Status" /\ dev'.to = "Program"
            \/ dev'.pc = "Ended" /\ dev'.to = dev.to
         /\ UNCHANGED <<flash, spi, host, before, sessions>>
<1>1. /\ dev.pc = "Verify" /\ dev \in LoopStates /\ dev.stage = "Erase"
      /\ UNCHANGED <<flash, spi, host, before, sessions>>
  BY DEF EraseVerify, IInv, TypeOK, EraseComesFirst, LoopStates
<1>2. \/ /\ \A a \in Address : flash[a] = {}
         /\ dev' = [dev EXCEPT !.pc = "Status", !.to = "Program"]
      \/ dev' = [dev EXCEPT !.pc = "Ended"]
  BY DEF EraseVerify
<1> QED
  BY <1>1, <1>2 DEF LoopStates

LEMMA EraseVerifyInv == IInv /\ EraseVerify => IInv'
<1> SUFFICES ASSUME IInv, EraseVerify PROVE IInv'
  OBVIOUS
<1>1. /\ dev.pc = "Verify" /\ dev.stage = "Erase"
      /\ dev' \in LoopStates /\ dev'.perms = dev.perms /\ dev'.stage = dev.stage
      /\ \/ /\ \A a \in Address : flash[a] = {}
            /\ dev'.pc = "Status" /\ dev'.to = "Program"
         \/ dev'.pc = "Ended" /\ dev'.to = dev.to
      /\ UNCHANGED <<flash, spi, host, before, sessions>>
  BY EraseVerifyFacts
<1>2. TypeOK'
  BY <1>1 DEF IInv, TypeOK
<1>3. OpcodeWaits' /\ PermsAtWork'
  BY <1>1 DEF IInv, OpcodeWaits, PermsAtWork
<1>4. EraseComesFirst'
  BY <1>1 DEF IInv, EraseComesFirst
<1> QED
  BY <1>2, <1>3, <1>4 DEF IInv

LEMMA StatusClearFacts ==
  ASSUME IInv, StatusClear
  PROVE  /\ dev.pc = "Status" /\ spi' \in Registers /\ ~spi'.busy /\ ~spi'.wel
         /\ spi'.cmds = spi.cmds /\ spi'.addrs = spi.addrs /\ spi'.intr = spi.intr
         /\ spi'.over = spi.over
         /\ dev' \in LoopStates /\ dev'.pc = "Poll" /\ dev'.stage = dev.to /\ dev'.to = dev.to
         /\ dev'.perms = dev.perms /\ UNCHANGED <<flash, host, before, sessions>>
<1>1. /\ dev.pc = "Status" /\ spi' = [spi EXCEPT !.busy = FALSE, !.wel = FALSE]
      /\ dev' = [dev EXCEPT !.pc = "Poll", !.cmd = NoCmd, !.stage = dev.to]
      /\ UNCHANGED <<flash, host, before, sessions>>
  BY DEF StatusClear
<1>2. spi \in Registers /\ dev \in LoopStates
  BY DEF IInv, TypeOK
<1>3. NoCmd \in [op : Opcodes \cup {"none"}, addr : Nat, len : 0 .. ProgPage]
  BY GeometryFacts DEF NoCmd
<1>4. /\ spi' \in Registers /\ ~spi'.busy /\ ~spi'.wel
      /\ spi'.cmds = spi.cmds /\ spi'.addrs = spi.addrs /\ spi'.intr = spi.intr
      /\ spi'.over = spi.over
  BY <1>1, <1>2 DEF Registers
<1>5. /\ dev' \in LoopStates /\ dev'.pc = "Poll" /\ dev'.stage = dev.to /\ dev'.to = dev.to
      /\ dev'.perms = dev.perms
  BY <1>1, <1>2, <1>3 DEF LoopStates
<1> QED
  BY <1>1, <1>4, <1>5

LEMMA StatusClearInv == IInv /\ StatusClear => IInv'
<1> SUFFICES ASSUME IInv, StatusClear PROVE IInv'
  OBVIOUS
<1>1. /\ dev.pc = "Status" /\ spi' \in Registers
      /\ spi'.cmds = spi.cmds /\ spi'.addrs = spi.addrs /\ spi'.intr = spi.intr
      /\ dev' \in LoopStates /\ dev'.pc = "Poll" /\ dev'.stage = dev.to /\ dev'.to = dev.to
      /\ dev'.perms = dev.perms /\ UNCHANGED <<flash, host, before, sessions>>
  BY StatusClearFacts
<1>2. TypeOK'
  BY <1>1 DEF IInv, TypeOK
<1>3. OpcodeWaits' /\ PermsAtWork'
  BY <1>1 DEF IInv, OpcodeWaits, PermsAtWork
<1>4. dev.to = "Erase" => dev.stage = "Erase"
  BY DEF IInv, TypeOK, LoopStates, EraseComesFirst
<1>5. EraseComesFirst'
  BY <1>1, <1>4 DEF IInv, TypeOK, LoopStates, EraseComesFirst
<1> QED
  BY <1>2, <1>3, <1>5 DEF IInv

LEMMA RestartFacts ==
  ASSUME IInv, Restart
  PROVE  /\ spi' = FreshSpi /\ dev' = FreshDev /\ host' = FreshHost(host.patient)
         /\ before' = flash'
         /\ flash' \in [Address -> {{}, {OldBit}}]
         /\ dev.pc # "Work" => \A a \in Address : flash'[a] = {} <=> flash[a] = {}
<1>1. PICK f \in {flash} \cup (IF dev.pc = "Work" /\ dev.work # <<>> THEN {Half(Head(dev.work))}
                             ELSE {}) :
        flash' = [a \in Address |-> IF f[a] = {} THEN {} ELSE {OldBit}]
  BY DEF Restart
<1>2. spi' = FreshSpi /\ dev' = FreshDev /\ host' = FreshHost(host.patient) /\ before' = flash'
  BY DEF Restart
<1>3. flash' \in [Address -> {{}, {OldBit}}]
  BY <1>1
<1>4. ASSUME dev.pc # "Work", NEW a \in Address PROVE flash'[a] = {} <=> flash[a] = {}
  BY <1>1, <1>4
<1> QED
  BY <1>2, <1>3, <1>4

LEMMA RestartInv == IInv /\ Restart => IInv'
<1> SUFFICES ASSUME IInv, Restart PROVE IInv'
  OBVIOUS
<1>1. /\ spi' = FreshSpi /\ dev' = FreshDev /\ host' = FreshHost(host.patient)
      /\ before' = flash' /\ flash' \in [Address -> {{}, {OldBit}}]
  BY RestartFacts
<1>2. /\ spi'.cmds = <<>> /\ spi'.addrs = <<>> /\ spi'.intr = FALSE
      /\ dev'.pc = "Poll" /\ dev'.stage = "Erase" /\ dev'.to = "Erase" /\ dev'.perms = "none"
      /\ host'.sent = 0
  BY <1>1 DEF FreshSpi, FreshDev, FreshHost
<1>3. spi' \in Registers /\ dev' \in LoopStates /\ host' \in HostStates
  BY <1>1, FreshTypes DEF IInv, TypeOK, HostStates
<1>4. flash' \in [Address -> SUBSET Bits] /\ \A a \in Address : flash'[a] \subseteq {OldBit}
  BY <1>1 DEF Bits
<1>5. TypeOK'
  BY <1>1, <1>2, <1>3, <1>4 DEF TypeOK
<1>6. (OpcodeWaits /\ EraseComesFirst /\ PermsAtWork)'
  BY <1>2, <1>4 DEF OpcodeWaits, EraseComesFirst, PermsAtWork
<1> QED
  BY <1>5, <1>6 DEF IInv

LEMMA StepInv == IInv /\ [Next]_vars => IInv'
<1> SUFFICES ASSUME IInv, [Next]_vars PROVE IInv'
  OBVIOUS
<1>1. CASE Device
  BY <1>1, PollIntrInv, ClearIntrInv, FetchInv, PayloadInv, StartEraseInv, StartProgramInv,
     TransactInv, ClosePermsInv, EraseVerifyInv, StatusClearInv DEF Device
<1>2. CASE Host
  BY <1>2, LatchInv, UploadInv, ReadStatusInv DEF Host
<1>3. CASE Restart
  BY <1>3, RestartInv
<1>4. CASE UNCHANGED vars
  BY <1>4 DEF vars, IInv, TypeOK, OpcodeWaits, EraseComesFirst, PermsAtWork
<1> QED
  BY <1>1, <1>2, <1>3, <1>4 DEF Next

(* Whatever a host sends and when, and whatever fails: opcodes are taken   *)
(* only when there is one, programming follows an erase that was read      *)
(* back, and permissions are closed outside the work.                      *)
THEOREM InductiveInvariant == Spec => []IInv
<1>1. Init => IInv
  BY InitInv
<1>2. IInv /\ [Next]_vars => IInv'
  BY StepInv
<1> QED
  BY <1>1, <1>2, PTL DEF Spec

(* Registers, loop and flash keep their types.                             *)
THEOREM TypeCorrect == Spec => []TypeOK
<1>1. IInv => TypeOK
  BY DEF IInv
<1> QED
  BY <1>1, InductiveInvariant, PTL

(* Old data and new data never stand together in flash.                    *)
THEOREM NeverMixed == Spec => []NoMixture
<1>1. IInv => NoMixture
  <2> SUFFICES ASSUME IInv, \E a \in Address : flash[a] \ {OldBit} # {}
               PROVE  \A a \in Address : OldBit \notin flash[a]
    BY DEF NoMixture
  <2>1. dev.stage = "Program"
    BY DEF IInv, TypeOK, LoopStates, EraseComesFirst
  <2> QED
    BY <2>1 DEF IInv, EraseComesFirst
<1> QED
  BY <1>1, InductiveInvariant, PTL

(* Flash permissions are never left enabled outside the work.              *)
THEOREM PermissionsClosed == Spec => []PermsClosed
<1>1. IInv => PermsClosed
  BY DEF IInv, PermsAtWork, PermsClosed
<1> QED
  BY <1>1, InductiveInvariant, PTL

-----------------------------------------------------------------------------
(* A patient host sees the NOR flash of SpiNor.                            *)

LEMMA EffectFacts ==
  ASSUME NEW c, c.op \in Opcodes, NEW m
  PROVE  /\ Nor!IsErase(c) <=> c.op \in {"ChipErase", "SectorErase"}
         /\ Nor!IsErase(c) => Nor!Effect(m, c, FALSE) = [a \in Address |-> {}]
         /\ c.op = "Program" => Nor!Effect(m, c, FALSE) = m
         /\ c.op = "Other" => Nor!Effect(m, c, FALSE) = m /\ Nor!Effect(m, c, TRUE) = m
         /\ c.op = "ChipErase" => Nor!Effect(m, c, TRUE) = [a \in Address |-> {}]
         /\ c.op = "SectorErase" => Nor!Effect(m, c, TRUE) = Nor!Erased(m, c)
         /\ c.op = "Program" => Nor!Effect(m, c, TRUE) = Nor!Programmed(m, c)
<1>1. Nor!Blank = [a \in Address |-> {}]
  BY DEF Nor!Blank, Nor!Address, Address
<1>2. Nor!IsErase(c) <=> c.op \in {"ChipErase", "SectorErase"}
  BY DEF Nor!IsErase
<1> QED
  BY <1>1, <1>2 DEF Nor!Effect, Opcodes

LEMMA ErasedFacts ==
  ASSUME NEW c, NEW m, NEW a \in Address
  PROVE  Nor!Erased(m, c)[a] = IF a \in (c.addr - (c.addr % Sector)) ..
                                         (c.addr - (c.addr % Sector)) + Sector - 1
                               THEN {} ELSE m[a]
BY DEF Nor!Erased, Nor!Address, Address

LEMMA ProgrammedFacts ==
  ASSUME NEW c, NEW m, NEW a \in Address
  PROVE  LET start == c.addr - (c.addr % ProgPage)
             Offset == (a - c.addr) % ProgPage
         IN  Nor!Programmed(m, c)[a] =
               IF a \in start .. start + ProgPage - 1 /\ Offset < c.len THEN m[a] \cup {Offset}
               ELSE m[a]
BY DEF Nor!Programmed, Nor!Address, Address

LEMMA SameFlash ==
  ASSUME NEW f, f = [a \in Address |-> f[a]], NEW g, g = [a \in Address |-> g[a]],
         \A a \in Address : f[a] = g[a]
  PROVE  f = g
OBVIOUS

LEMMA TargetReached ==
  ASSUME flash = [a \in Address |-> flash[a]], \A a \in Address : flash[a] = Target[a],
         NEW c, host.last = c, c.op \in {"ChipErase", "SectorErase", "Program"}
  PROVE  flash = Target
<1> DEFINE blank == [a \in Address |-> {}]
           erased == Nor!Erased(before, c)
           programmed == Nor!Programmed(before, c)
<1>1. erased = [a \in Address |-> erased[a]]
  BY DEF Nor!Erased, Nor!Address, Address
<1>2. programmed = [a \in Address |-> programmed[a]]
  BY DEF Nor!Programmed, Nor!Address, Address
<1>3. blank = [a \in Address |-> blank[a]]
  OBVIOUS
<1>4. c.op \in Opcodes
  BY DEF Opcodes
<1>5. Target \in {blank, erased, programmed}
  BY <1>4, EffectFacts DEF Target
<1> HIDE DEF blank, erased, programmed
<1> QED
  BY <1>1, <1>2, <1>3, <1>5, SameFlash

(* Transactions that erase S do what a command does that empties S.        *)
LEMMA ErasesPart ==
  ASSUME NEW W, NEW S \in SUBSET Int, Erases(W, S), dev'.work = W, flash' = before',
         \A a \in Address : Target'[a] = IF a \in S THEN {} ELSE before'[a]
  PROVE  PartDone'
<1>1. W \in Seq(Transactions) /\ DOMAIN W = 1 .. Len(W)
  BY LenProperties DEF Erases
<1>2. \A a \in Address : a \in Int
  BY GeometryFacts DEF Address
<1> DEFINE T == Target'
           b == before'
<1>3. \A a \in Address : T[a] = IF a \in S THEN {} ELSE b[a]
  OBVIOUS
<1>4. ASSUME NEW i \in DOMAIN W, NEW a \in Address, Touches(W[i], a)
      PROVE  /\ a \in S /\ W[i].erase /\ T[a] = {}
             /\ \A j \in DOMAIN W : Touches(W[j], a) => i = j
  BY <1>1, <1>2, <1>3, <1>4 DEF Erases
<1>5. ASSUME NEW a \in Address, \A i \in DOMAIN W : ~Touches(W[i], a)
      PROVE  b[a] = T[a]
  <2>1. a \notin S
    BY <1>1, <1>5 DEF Erases
  <2> QED
    BY <1>3, <2>1
<1> HIDE DEF T, b
<1>6. ASSUME NEW i \in DOMAIN W, NEW a \in Address, Touches(W[i], a)
      PROVE  /\ flash'[a] = b[a] /\ Result(W[i], a)' = T[a]
             /\ \A j \in DOMAIN W : Touches(W[j], a) => i = j
  <2>1. Result(W[i], a)' = {}
    BY <1>4, <1>6 DEF Result
  <2> QED
    BY <1>4, <1>6, <2>1 DEF b
<1> QED
  BY <1>5, <1>6 DEF PartDone, Touches, T, b

(* The transactions of PAGE_PROGRAM do what it is to do.                   *)
LEMMA ProgramsPart ==
  ASSUME NEW c, host'.last = c, c.op = "Program",
         NEW addr \in Nat, c.addr = addr, NEW len \in 0 .. ProgPage, c.len = len,
         dev'.work = PageProgram(addr, len), dev'.cmd.len = len, flash' = before'
  PROVE  PartDone'
<1> DEFINE W == PageProgram(addr, len)
           start == addr - (addr % ProgPage)
           Offset(x) == (x - addr) % ProgPage
           T == Target'
           b == before'
<1>1. /\ W \in Seq(Transactions)
      /\ \A i \in 1 .. Len(W) : ~W[i].erase
      /\ \A x \in Int, i \in 1 .. Len(W) : Touches(W[i], x) =>
           /\ x \in start .. start + ProgPage - 1
           /\ W[i].skip + x - W[i].at = Offset(x)
      /\ \A x \in start .. start + ProgPage - 1 :
           Offset(x) < len => \E i \in 1 .. Len(W) : Touches(W[i], x)
      /\ \A x \in Int, i \in 1 .. Len(W), j \in 1 .. Len(W) :
           Touches(W[i], x) /\ Touches(W[j], x) => i = j
  BY PageProgramFacts
<1>2. T = Nor!Programmed(b, c)
  <2>1. c.op \in Opcodes
    BY DEF Opcodes
  <2> QED
    BY <2>1, EffectFacts DEF Target
<1>3. \A a \in Address : T[a] = IF a \in start .. start + ProgPage - 1 /\ Offset(a) < len
                                THEN b[a] \cup {Offset(a)} ELSE b[a]
  <2> SUFFICES ASSUME NEW a \in Address
               PROVE  T[a] = IF a \in start .. start + ProgPage - 1 /\ Offset(a) < len
                             THEN b[a] \cup {Offset(a)} ELSE b[a]
    BY Zenon
  <2> HIDE DEF T, b
  <2>1. Nor!Programmed(b, c)[a] =
          IF /\ a \in (c.addr - (c.addr % ProgPage)) .. (c.addr - (c.addr % ProgPage)) + ProgPage - 1
             /\ (a - c.addr) % ProgPage < c.len
          THEN b[a] \cup {(a - c.addr) % ProgPage} ELSE b[a]
    BY ProgrammedFacts, Zenon
  <2> QED
    BY <1>2, <2>1
<1>4. dev'.work = W /\ dev'.cmd.len = len /\ flash' = b
  OBVIOUS
<1>5. DOMAIN W = 1 .. Len(W)
  BY <1>1, LenProperties
<1>6. \A a \in Address : a \in Int
  BY GeometryFacts DEF Address
<1> HIDE DEF W, start, Offset, T
<1>7. ASSUME NEW i \in DOMAIN W, NEW a \in Address, Touches(W[i], a)
      PROVE  /\ Result(W[i], a)' = T[a]
             /\ \A j \in DOMAIN W : Touches(W[j], a) => i = j
  <2>1. /\ ~W[i].erase /\ a \in start .. start + ProgPage - 1
        /\ W[i].skip + a - W[i].at = Offset(a)
    BY <1>1, <1>5, <1>6, <1>7
  <2>2. Data(W[i], a)' = IF Offset(a) < len THEN {Offset(a)} ELSE {}
    BY <1>4, <2>1 DEF Data
  <2>3. Result(W[i], a)' = b[a] \cup Data(W[i], a)'
    BY <2>1 DEF Result
  <2>4. Result(W[i], a)' = T[a]
    BY <1>3, <2>1, <2>2, <2>3
  <2> QED
    BY <1>1, <1>5, <1>6, <1>7, <2>4
<1>8. ASSUME NEW a \in Address, \A i \in DOMAIN W : ~Touches(W[i], a)
      PROVE  b[a] = T[a]
  BY <1>1, <1>3, <1>5, <1>8
<1> HIDE DEF b
<1> QED
  BY <1>4, <1>7, <1>8 DEF PartDone, Touches, T, b

(* How a command begins, after the first erase.                            *)
LEMMA BeginsPart ==
  ASSUME NEW c, host'.last = c, c.op \in Opcodes \ {"Reset", "Other"}, c.addr \in Nat,
         c.len \in 0 .. ProgPage,
         NEW d, d.op = c.op, Addressed(c) => d.addr = c.addr, d.len = c.len, d.addr \in Nat,
         dev'.work = Work(d), dev'.cmd.len = c.len, flash' = before'
  PROVE  PartDone'
<1>1. /\ Work(d) \in Seq(Transactions)
      /\ d.op = "ChipErase" => Work(d) = ChipErase
      /\ d.op = "SectorErase" => Work(d) = SectorErase(d.addr)
      /\ d.op = "Program" => Work(d) = PageProgram(d.addr, d.len)
  BY WorkTypes
<1>2. CASE c.op = "ChipErase"
  <2>1. Target' = [a \in Address |-> {}]
    BY <1>2, EffectFacts DEF Target
  <2>2. Address \in SUBSET Int /\ \A a \in Address : Target'[a] = IF a \in Address THEN {} ELSE before'[a]
    BY <2>1, GeometryFacts DEF Address
  <2>3. dev'.work = ChipErase
    BY <1>1, <1>2
  <2> QED
    BY <2>2, <2>3, ChipEraseFacts, ErasesPart
<1>3. CASE c.op = "SectorErase"
  <2> DEFINE start == c.addr - (c.addr % Sector)
             S == start .. start + Sector - 1
  <2>1. start \in Nat /\ Erases(SectorErase(c.addr), S)
    BY SectorEraseFacts
  <2>2. Target' = Nor!Erased(before', c)
    BY <1>3, EffectFacts DEF Target
  <2>3. \A a \in Address : Target'[a] = IF a \in S THEN {} ELSE before'[a]
    BY <2>2, ErasedFacts
  <2>4. dev'.work = SectorErase(c.addr)
    BY <1>1, <1>3 DEF Addressed
  <2>5. S \in SUBSET Int
    BY <2>1, GeometryFacts
  <2> HIDE DEF S
  <2> QED
    BY <2>1, <2>3, <2>4, <2>5, ErasesPart
<1>4. CASE c.op = "Program"
  <2>1. dev'.work = PageProgram(c.addr, c.len)
    BY <1>1, <1>4 DEF Addressed
  <2> QED
    BY <1>4, <2>1, ProgramsPart
<1> QED
  BY <1>2, <1>3, <1>4 DEF Opcodes

(* The two ways a step of the loop shows when a command is on its way.     *)
NorUnseen ==
  /\ UNCHANGED <<spi.busy, spi.wel, host.last, dev.stage, Running>>
  /\ IF spi.busy THEN UNCHANGED before ELSE UNCHANGED flash
NorEnds ==
  /\ Running /\ ~Running' /\ spi.busy
  /\ UNCHANGED <<spi.busy, spi.wel, host.last, dev.stage, before>>

LEMMA UnseenSteps == NorUnseen => UNCHANGED Nor!vars
BY DEF NorUnseen, Nor!vars

LEMMA EndSteps == NorEnds => Nor!Next
BY DEF NorEnds, Nor!Next, Nor!GiveUp

(* A step of a patient host or its device keeps the invariant, and is a    *)
(* step of the NOR flash or none.                                          *)
Shown == PatientInv' /\ (Nor!Next \/ UNCHANGED Nor!vars)

LEMMA PatientFacts ==
  ASSUME LoopInv, host.patient
  PROVE  /\ IInv
         /\ spi.busy => OneCommand /\ WholeCommand
         /\ ~spi.busy => Quiet
         /\ spi \in Registers /\ dev \in LoopStates /\ host \in HostStates
         /\ host.ready => ~spi.busy
         /\ dev.pc # "Poll" => spi.busy
         /\ dev.stage \in {"Erase", "Program"} /\ dev.to \in {"Erase", "Program"}
         /\ dev.stage = "Program" => dev.to = "Program"
         /\ dev.stage = "Erase" /\ dev.to = "Program" => dev.pc = "Status"
         /\ spi.busy => /\ host.last \in Commands /\ host.last.op \in Opcodes
                        /\ host.last.addr \in Nat /\ host.last.len \in Nat
<1>1. IInv /\ (spi.busy => OneCommand /\ WholeCommand) /\ (~spi.busy => Quiet)
  BY DEF LoopInv, PatientInv
<1>2. spi \in Registers /\ dev \in LoopStates /\ host \in HostStates
  BY <1>1 DEF IInv, TypeOK
<1>3. (host.ready => ~spi.busy) /\ (dev.pc # "Poll" => spi.busy)
  BY <1>1 DEF OneCommand, Quiet
<1>4. /\ dev.stage \in {"Erase", "Program"} /\ dev.to \in {"Erase", "Program"}
      /\ dev.stage = "Program" => dev.to = "Program"
      /\ dev.stage = "Erase" /\ dev.to = "Program" => dev.pc = "Status"
  BY <1>1, <1>2 DEF LoopStates, IInv, EraseComesFirst
<1>5. spi.busy => host.last \in Commands
  BY <1>1 DEF OneCommand
<1>6. spi.busy => host.last.op \in Opcodes /\ host.last.addr \in Nat /\ host.last.len \in Nat
  BY <1>5, HostAssumption
<1> QED
  BY <1>1, <1>2, <1>3, <1>4, <1>5, <1>6

LEMMA LatchShown ==
  ASSUME LoopInv, host.patient, WriteEnable \/ WriteDisable PROVE Shown
<1>1. PICK on \in BOOLEAN :
        spi' = [spi EXCEPT !.wel = on] /\ UNCHANGED <<flash, dev, host, before, sessions>>
  BY DEF WriteEnable, WriteDisable
<1>2. ~spi.busy /\ Quiet /\ Running /\ spi \in Registers
  BY PatientFacts DEF WriteEnable, WriteDisable, MayAct
<1>3. /\ spi'.cmds = spi.cmds /\ spi'.addrs = spi.addrs /\ spi'.intr = spi.intr
      /\ spi'.over = spi.over /\ spi'.busy = spi.busy /\ spi'.wel \in BOOLEAN
  BY <1>1, <1>2 DEF Registers
<1>4. Quiet'
  BY <1>1, <1>2, <1>3 DEF Quiet, NoneInFifos, Nor!IsErase
<1>5. PatientInv'
  BY <1>2, <1>3, <1>4 DEF PatientInv
<1>6. Nor!Latch
  BY <1>1, <1>2, <1>3 DEF Nor!Latch, Running
<1> QED
  BY <1>5, <1>6 DEF Shown, Nor!Next

LEMMA UploadShown ==
  ASSUME LoopInv, host.patient, NEW c \in Commands, Upload(c) PROVE Shown
<1>1. /\ ~spi.busy /\ Quiet /\ Running /\ IInv
      /\ dev.stage \in {"Erase", "Program"} /\ dev.to \in {"Erase", "Program"}
      /\ dev.stage = "Erase" /\ dev.to = "Program" => dev.pc = "Status"
      /\ IF c.op = "Reset" THEN host.started ELSE spi.wel
  BY PatientFacts DEF Upload, MayAct
<1>2. /\ c.op \in Opcodes /\ c.addr \in Nat /\ c.len \in Nat
      /\ spi' \in Registers /\ spi'.cmds = Append(spi.cmds, c.op)
      /\ spi'.addrs = (IF Addressed(c) THEN Append(spi.addrs, c.addr) ELSE spi.addrs)
      /\ spi'.intr /\ spi'.busy /\ spi'.wel = spi.wel
      /\ spi'.depth = Least(c.len, ProgPage)
      /\ spi'.over = (spi.over \/ c.len > ProgPage)
      /\ host'.patient = host.patient
      /\ ~host'.ready /\ host'.last = c /\ host'.started = host.started
      /\ before' = flash /\ UNCHANGED <<flash, dev, sessions>>
  BY <1>1, UploadFacts
<1>3. /\ dev.pc = "Poll" /\ spi.cmds = <<>> /\ spi.addrs = <<>> /\ ~spi.over
      /\ host.started => dev.stage = "Program"
  BY <1>1 DEF Quiet, NoneInFifos
<1>4. spi'.cmds = <<c.op>> /\ spi'.addrs = (IF Addressed(c) THEN <<c.addr>> ELSE <<>>)
  BY <1>2, <1>3
<1>5. InFifos(c)' /\ (spi'.over <=> c.len > ProgPage)
  BY <1>2, <1>3, <1>4 DEF InFifos
<1>6. OneCommand'
  BY <1>1, <1>2, <1>3, <1>5 DEF OneCommand, InFifos
<1>7. WholeCommand'
  BY <1>2, <1>3 DEF WholeCommand
<1>8. Nor!Accept
  BY <1>1, <1>2 DEF Nor!Accept, Running
<1> QED
  BY <1>2, <1>6, <1>7, <1>8 DEF Shown, Nor!Next, PatientInv

LEMMA ReadStatusShown ==
  ASSUME LoopInv, host.patient, ReadStatus PROVE Shown
<1>1. /\ ~spi.busy /\ Quiet /\ host \in HostStates /\ ~host.ready
      /\ host' = [host EXCEPT !.ready = TRUE,
                  !.started = @ \/ host.last.op \in {"ChipErase", "SectorErase"}]
      /\ UNCHANGED <<flash, spi, dev, before, sessions>>
  BY PatientFacts DEF ReadStatus
<1>2. /\ host'.ready /\ host'.patient = host.patient /\ host'.last = host.last
      /\ host'.started => host.started \/ Nor!IsErase(host.last)
  BY <1>1 DEF HostStates, Nor!IsErase
<1>3. Quiet'
  BY <1>1, <1>2 DEF Quiet, NoneInFifos
<1>4. NorUnseen
  BY <1>1, <1>2 DEF NorUnseen, Running
<1> QED
  BY <1>1, <1>3, <1>4, UnseenSteps DEF Shown, PatientInv

LEMMA PollIntrShown ==
  ASSUME LoopInv, host.patient, PollIntr PROVE Shown
<1>1. /\ dev.pc = "Poll" /\ spi.intr /\ dev' = [dev EXCEPT !.pc = "ClearIntr", !.over = spi.over]
      /\ UNCHANGED <<flash, spi, host, before, sessions>>
  BY DEF PollIntr
<1>2. /\ spi.busy /\ OneCommand /\ dev \in LoopStates
      /\ dev.stage = "Erase" => dev.to # "Program"
  BY <1>1, PatientFacts DEF Quiet, NoneInFifos
<1>3. /\ dev'.pc = "ClearIntr" /\ dev'.over = spi.over /\ dev'.stage = dev.stage
      /\ dev'.to = dev.to
  BY <1>1, <1>2 DEF LoopStates
<1>4. OneCommand'
  BY <1>1, <1>2, <1>3 DEF OneCommand, InFifos
<1>5. WholeCommand'
  BY <1>3 DEF WholeCommand
<1>6. NorUnseen
  BY <1>1, <1>3 DEF NorUnseen, Running
<1> QED
  BY <1>1, <1>2, <1>4, <1>5, <1>6, UnseenSteps DEF Shown, PatientInv

(* Where a step ends bootstrap before the command has been shown.          *)
LEMMA EndShown ==
  ASSUME LoopInv, host.patient, spi.busy, dev.pc # "Ended", dev'.pc = "Ended",
         dev'.stage = dev.stage, dev'.to = dev.to,
         dev.stage = "Erase" => dev.to # "Program",
         spi'.busy = spi.busy, spi'.wel = spi.wel, UNCHANGED <<host, before>>
  PROVE  Shown
<1>1. OneCommand
  BY PatientFacts
<1>2. OneCommand'
  BY <1>1 DEF OneCommand
<1>3. WholeCommand'
  BY DEF WholeCommand
<1>4. NorEnds
  BY DEF NorEnds, Running
<1> QED
  BY <1>2, <1>3, <1>4, EndSteps DEF Shown, PatientInv

LEMMA ClearIntrShown ==
  ASSUME LoopInv, host.patient, ClearIntr PROVE Shown
<1>1. /\ dev.pc = "ClearIntr" /\ spi' = [spi EXCEPT !.intr = FALSE, !.over = FALSE]
      /\ Go(IF dev.over THEN "Ended" ELSE "Fetch")
      /\ UNCHANGED <<flash, host, before, sessions>>
  BY DEF ClearIntr
<1>2. /\ spi.busy /\ OneCommand /\ dev \in LoopStates /\ spi \in Registers
      /\ dev.stage = "Erase" => dev.to # "Program"
  BY <1>1, PatientFacts
<1>3. /\ spi'.cmds = spi.cmds /\ spi'.addrs = spi.addrs /\ ~spi'.intr /\ ~spi'.over
      /\ spi'.busy = spi.busy /\ spi'.wel = spi.wel /\ spi'.depth = spi.depth
  BY <1>1, <1>2 DEF Registers
<1>4. /\ dev'.pc = (IF dev.over THEN "Ended" ELSE "Fetch") /\ dev'.stage = dev.stage
      /\ dev'.to = dev.to
  BY <1>1, <1>2 DEF LoopStates, Go
<1>5. CASE dev.over
  BY <1>1, <1>2, <1>3, <1>4, <1>5, EndShown
<1>6. CASE ~dev.over
  <2>1. host.last.len \in Nat /\ ProgPage \in Nat
    BY <1>2, PatientFacts, GeometryFacts
  <2>2. OneCommand'
    BY <1>1, <1>2, <1>3, <1>4, <1>6, <2>1 DEF OneCommand, InFifos
  <2>3. WholeCommand'
    BY <1>4, <1>6 DEF WholeCommand
  <2>4. NorUnseen
    BY <1>1, <1>2, <1>3, <1>4, <1>6 DEF NorUnseen, Running
  <2> QED
    BY <1>1, <1>2, <1>3, <2>2, <2>3, <2>4, UnseenSteps DEF Shown, PatientInv
<1> QED
  BY <1>5, <1>6

LEMMA FetchShown ==
  ASSUME LoopInv, host.patient, Fetch PROVE Shown
<1> DEFINE c == host.last
<1>1. dev.pc = "Fetch"
  BY DEF Fetch
<1>2. /\ spi.busy /\ OneCommand /\ IInv
      /\ c.op \in Opcodes /\ c.addr \in Nat /\ c.len \in Nat
      /\ dev.stage = "Erase" => dev.to # "Program"
  BY <1>1, PatientFacts
<1>3. /\ spi'.cmds = Tail(spi.cmds)
      /\ spi'.addrs = (IF spi.addrs # <<>> THEN Tail(spi.addrs) ELSE spi.addrs)
      /\ spi'.intr = spi.intr /\ spi'.over = spi.over /\ spi'.busy = spi.busy
      /\ spi'.wel = spi.wel /\ spi'.depth = spi.depth
      /\ dev'.pc = "Payload" /\ dev'.stage = dev.stage
      /\ dev'.to = dev.to /\ dev'.cmd.op = Head(spi.cmds)
      /\ dev'.cmd.addr = (IF spi.addrs # <<>> THEN Head(spi.addrs) ELSE Bytes)
      /\ UNCHANGED <<flash, host, before>>
  BY <1>2, FetchFacts
<1>4. InFifos(c) /\ c.len <= ProgPage /\ ~spi.intr /\ ~spi.over
  BY <1>1, <1>2 DEF OneCommand
<1>5. /\ Head(spi.cmds) = c.op /\ Tail(spi.cmds) = <<>>
      /\ IF Addressed(c) THEN /\ spi.addrs # <<>> /\ Head(spi.addrs) = c.addr
                              /\ Tail(spi.addrs) = <<>>
                         ELSE spi.addrs = <<>>
      /\ spi.depth = Least(c.len, ProgPage)
  <2>1. ASSUME NEW e PROVE <<e>> # <<>> /\ Head(<<e>>) = e /\ Tail(<<e>>) = <<>>
    OBVIOUS
  <2>2. /\ spi.cmds = <<c.op>> /\ spi.depth = Least(c.len, ProgPage)
        /\ spi.addrs = (IF Addressed(c) THEN <<c.addr>> ELSE <<>>)
    BY <1>4 DEF InFifos
  <2>3. Head(spi.cmds) = c.op /\ Tail(spi.cmds) = <<>>
    BY <2>1, <2>2, Zenon
  <2>4. CASE Addressed(c)
    <3>1. spi.addrs = <<c.addr>>
      BY <2>2, <2>4
    <3>2. spi.addrs # <<>> /\ Head(spi.addrs) = c.addr /\ Tail(spi.addrs) = <<>>
      BY <2>1, <3>1, Zenon
    <3> QED
      BY <2>2, <2>3, <2>4, <3>2
  <2>5. CASE ~Addressed(c)
    BY <2>2, <2>3, <2>5
  <2> QED
    BY <2>4, <2>5
<1>6. spi.depth = c.len
  BY <1>2, <1>4, <1>5, GeometryFacts DEF Least
<1>7. Fetched(c)'
  BY <1>3, <1>4, <1>5 DEF Fetched, Addressed
<1>8. NoneInFifos'
  BY <1>3, <1>4, <1>5 DEF NoneInFifos
<1>9. OneCommand'
  BY <1>1, <1>2, <1>3, <1>6, <1>7, <1>8 DEF OneCommand, Fetched
<1>10. WholeCommand'
  BY <1>3 DEF WholeCommand
<1>11. NorUnseen
  BY <1>1, <1>2, <1>3 DEF NorUnseen, Running
<1> QED
  BY <1>2, <1>3, <1>9, <1>10, <1>11, UnseenSteps DEF Shown, PatientInv

LEMMA PayloadShown ==
  ASSUME LoopInv, host.patient, Payload PROVE Shown
<1>1. dev.pc = "Payload"
  BY DEF Payload
<1>2. /\ spi.busy /\ OneCommand /\ IInv
      /\ dev.stage = "Erase" => dev.to # "Program"
  BY <1>1, PatientFacts
<1>3. /\ dev'.pc = "Check" /\ dev'.stage = dev.stage /\ dev'.to = dev.to
      /\ dev'.cmd.op = dev.cmd.op /\ dev'.cmd.addr = dev.cmd.addr
      /\ dev'.cmd.len = spi.depth /\ UNCHANGED <<flash, spi, host, before>>
  BY <1>2, PayloadFacts
<1>4. OneCommand'
  BY <1>1, <1>2, <1>3 DEF OneCommand, NoneInFifos, Fetched
<1>5. WholeCommand'
  BY <1>3 DEF WholeCommand
<1>6. NorUnseen
  BY <1>1, <1>2, <1>3 DEF NorUnseen, Running
<1> QED
  BY <1>2, <1>3, <1>4, <1>5, <1>6, UnseenSteps DEF Shown, PatientInv

LEMMA StartEraseShown ==
  ASSUME LoopInv, host.patient, StartErase PROVE Shown
<1> DEFINE c == host.last
           d == [dev.cmd EXCEPT !.op = "ChipErase"]
<1>1. dev.pc = "Check" /\ dev.stage = "Erase" /\ UNCHANGED <<flash, spi, host, before, sessions>>
  BY DEF StartErase
<1>2. /\ spi.busy /\ OneCommand /\ IInv /\ dev \in LoopStates
      /\ c.op \in Opcodes /\ dev.to # "Program"
  BY <1>1, PatientFacts
<1>3. /\ c.op # "Reset" /\ spi.wel /\ dev.cmd.op = c.op /\ flash = before
  BY <1>1, <1>2 DEF OneCommand, Fetched
<1>5. CASE c.op \in {"ChipErase", "SectorErase"}
  <2>1. Begin(d)
    BY <1>3, <1>5 DEF StartErase
  <2>2. d.op = "ChipErase" /\ d.addr \in Nat /\ d.len \in 0 .. ProgPage
    BY <1>1, <1>2, CheckedCommand
  <2>3. d.op \in Opcodes \ {"Reset", "Other"}
    BY <2>2 DEF Opcodes
  <2> HIDE DEF d
  <2>4. dev'.pc = "Work" /\ dev'.stage = dev.stage /\ dev'.to = dev.to /\ dev'.cmd = dev.cmd
    BY <1>2, <2>1, <2>2, <2>3, BeginFacts
  <2>5. OneCommand'
    BY <1>1, <1>2, <1>3, <1>5, <2>4 DEF OneCommand, NoneInFifos, Fetched, Nor!IsErase
  <2>6. WholeCommand'
    BY <1>1, <2>4 DEF WholeCommand
  <2>7. NorUnseen
    BY <1>1, <1>2, <2>4 DEF NorUnseen, Running
  <2> QED
    BY <1>1, <1>2, <2>5, <2>6, <2>7, UnseenSteps DEF Shown, PatientInv
<1>6. CASE c.op \in {"Program", "Other"}
  <2>1. Go("Status")
    BY <1>3, <1>6 DEF StartErase
  <2>2. dev'.pc = "Status" /\ dev'.stage = dev.stage /\ dev'.to = dev.to /\ dev'.cmd = dev.cmd
    BY <1>2, <2>1 DEF LoopStates, Go
  <2>3. OneCommand'
    BY <1>1, <1>2, <1>3, <1>6, <2>2 DEF OneCommand, NoneInFifos, Fetched
  <2>4. Nor!Effect(before, c, dev'.stage = "Program") = before /\ ~Nor!IsErase(c)
    BY <1>1, <1>6, <2>2 DEF Nor!Effect, Nor!IsErase
  <2>5. WholeCommand'
    BY <1>1, <1>3, <2>2, <2>4 DEF WholeCommand, Nor!IsErase
  <2>6. NorUnseen
    BY <1>1, <1>2, <2>2 DEF NorUnseen, Running
  <2> QED
    BY <1>1, <1>2, <2>3, <2>5, <2>6, UnseenSteps DEF Shown, PatientInv
<1> QED
  BY <1>2, <1>3, <1>5, <1>6 DEF Opcodes

LEMMA StartProgramShown ==
  ASSUME LoopInv, host.patient, StartProgram PROVE Shown
<1> DEFINE c == host.last
<1>1. dev.pc = "Check" /\ dev.stage = "Program" /\ UNCHANGED <<flash, spi, host, before, sessions>>
  BY DEF StartProgram
<1>2. /\ spi.busy /\ OneCommand /\ IInv /\ dev \in LoopStates
      /\ c.op \in Opcodes /\ c.addr \in Nat /\ c.len \in Nat
  BY <1>1, PatientFacts
<1>3. /\ c.op # "Reset" => spi.wel
      /\ dev.cmd.op = c.op /\ (Addressed(c) => dev.cmd.addr = c.addr)
      /\ dev.cmd.len = c.len /\ flash = before
  BY <1>1, <1>2, Zenon DEF OneCommand, Fetched
<1>4. dev.cmd.addr \in Nat /\ dev.cmd.len \in 0 .. ProgPage
  BY <1>1, <1>2, CheckedCommand
<1>5. \/ Go("Ended")
      \/ c.op = "Other" /\ Go("Status")
      \/ c.op \notin {"Reset", "Other"} /\ Begin(dev.cmd)
  BY <1>3 DEF StartProgram
<1>6. CASE Go("Ended")
  <2>1. dev'.pc = "Ended" /\ dev'.stage = dev.stage /\ dev'.to = dev.to
    BY <1>2, <1>6 DEF LoopStates, Go
  <2> QED
    BY <1>1, <1>2, <2>1, EndShown
<1>7. CASE c.op \notin {"Reset", "Other"} /\ Begin(dev.cmd)
  <2>1. c.op \in Opcodes \ {"Reset", "Other"} /\ dev.cmd.op \in Opcodes \ {"Reset", "Other"}
    BY <1>2, <1>3, <1>7
  <2>2. /\ dev'.pc = "Work" /\ dev'.work = Work(dev.cmd) /\ dev'.stage = dev.stage
        /\ dev'.to = dev.to /\ dev'.cmd = dev.cmd
    BY <1>2, <1>4, <1>7, <2>1, BeginFacts
  <2>3. OneCommand'
    BY <1>1, <1>2, <1>3, <1>7, <2>2 DEF OneCommand, NoneInFifos, Fetched
  <2>4. c.len \in 0 .. ProgPage /\ host'.last = c /\ dev'.cmd.len = c.len /\ flash' = before'
    BY <1>1, <1>3, <1>4, <2>2
  <2> HIDE DEF c
  <2>5. PartDone'
    BY <1>2, <1>3, <1>4, <2>1, <2>2, <2>4, BeginsPart
  <2>6. WholeCommand'
    BY <2>2, <2>5 DEF WholeCommand
  <2>7. NorUnseen
    BY <1>1, <1>2, <2>2 DEF NorUnseen, Running
  <2> QED
    BY <1>1, <1>2, <2>3, <2>6, <2>7, UnseenSteps DEF Shown, PatientInv
<1>8. CASE c.op = "Other" /\ Go("Status")
  <2>1. dev'.pc = "Status" /\ dev'.stage = dev.stage /\ dev'.to = dev.to /\ dev'.cmd = dev.cmd
    BY <1>2, <1>8 DEF LoopStates, Go
  <2>2. OneCommand'
    BY <1>1, <1>2, <1>3, <1>8, <2>1 DEF OneCommand, NoneInFifos, Fetched
  <2>3. Nor!Effect(before, c, dev'.stage = "Program") = before /\ ~Nor!IsErase(c)
    BY <1>1, <1>8, <2>1 DEF Nor!Effect, Nor!IsErase
  <2>4. WholeCommand'
    BY <1>1, <1>3, <2>1, <2>3 DEF WholeCommand, Nor!IsErase
  <2>5. NorUnseen
    BY <1>1, <1>2, <2>1 DEF NorUnseen, Running
  <2> QED
    BY <1>1, <1>2, <2>2, <2>4, <2>5, UnseenSteps DEF Shown, PatientInv
<1> QED
  BY <1>5, <1>6, <1>7, <1>8

(* One more transaction done, the others wait.                             *)
LEMMA NextPart ==
  ASSUME IInv, Transact, PartDone,
         flash' = Worked(Head(dev.work), Head(dev.work).n), dev'.work = Tail(dev.work)
  PROVE  PartDone'
<1> DEFINE w == Head(dev.work)
           W == dev.work
           V == Tail(dev.work)
           T == Target
<1>1. /\ W \in Seq(Transactions) /\ W # <<>> /\ w \in Transactions /\ w = W[1]
      /\ dev'.cmd = dev.cmd /\ UNCHANGED <<spi, host, before, sessions>>
  BY TransactFacts
<1>2. /\ Len(W) \in Nat \ {0} /\ DOMAIN W = 1 .. Len(W)
      /\ Len(V) = Len(W) - 1 /\ DOMAIN V = 1 .. Len(W) - 1
      /\ \A i \in 1 .. Len(W) - 1 : V[i] = W[i + 1]
  BY <1>1, HeadTailProperties, LenProperties, EmptySeq
<1>3. \A a \in Address : a \in Int
  BY GeometryFacts DEF Address
<1>4. /\ \A i \in DOMAIN W : \A a \in Address : Touches(W[i], a) =>
           /\ flash[a] = before[a] /\ Result(W[i], a) = T[a]
           /\ \A j \in DOMAIN W : Touches(W[j], a) => i = j
      /\ \A a \in Address : (\A i \in DOMAIN W : ~Touches(W[i], a)) => flash[a] = T[a]
  BY DEF PartDone
<1>5. \A a \in Address : flash'[a] = IF Touches(w, a)
                                      THEN IF w.erase THEN {} ELSE flash[a] \cup Data(w, a)
                                      ELSE flash[a]
  BY DEF Worked, Touches
<1>6. dev'.work = V /\ T' = T /\ before' = before
      /\ \A v, a : Touches(v, a)' = Touches(v, a) /\ Result(v, a)' = Result(v, a)
  BY <1>1 DEF Target, Result, Data, Touches
<1> HIDE DEF w, W, V, T
<1>7. 1 \in DOMAIN W
  BY <1>2
<1>8. ASSUME NEW a \in Address, Touches(w, a) PROVE flash'[a] = T[a]
  <2>1. flash[a] = before[a] /\ Result(w, a) = T[a]
    BY <1>1, <1>4, <1>7, <1>8
  <2>2. flash'[a] = IF w.erase THEN {} ELSE flash[a] \cup Data(w, a)
    BY <1>5, <1>8
  <2> QED
    BY <2>1, <2>2 DEF Result
<1>9. ASSUME NEW a \in Address, ~Touches(w, a) PROVE flash'[a] = flash[a]
  BY <1>5, <1>9
<1>10. ASSUME NEW i \in DOMAIN V PROVE i + 1 \in DOMAIN W /\ V[i] = W[i + 1] /\ i + 1 # 1
  BY <1>2
<1>11. ASSUME NEW i \in DOMAIN V, NEW a \in Address, Touches(V[i], a)
       PROVE  /\ flash'[a] = before[a] /\ Result(V[i], a) = T[a]
              /\ \A j \in DOMAIN V : Touches(V[j], a) => i = j
  <2>1. Touches(W[i + 1], a) /\ i + 1 \in DOMAIN W /\ i + 1 # 1
    BY <1>10, <1>11
  <2>2. ~Touches(w, a)
    BY <1>1, <1>4, <1>7, <2>1
  <2>3. ASSUME NEW j \in DOMAIN V, Touches(V[j], a) PROVE i = j
    <3>1. j + 1 \in DOMAIN W /\ Touches(W[j + 1], a)
      BY <1>10, <2>3
    <3>2. i + 1 = j + 1
      BY <1>4, <2>1, <3>1
    <3> QED
      BY <1>2, <3>2
  <2> QED
    BY <1>4, <1>9, <1>10, <2>1, <2>2, <2>3
<1>12. ASSUME NEW a \in Address, \A i \in DOMAIN V : ~Touches(V[i], a)
       PROVE  flash'[a] = T[a]
  <2>1. CASE Touches(w, a)
    BY <1>8, <2>1
  <2>2. CASE ~Touches(w, a)
    <3>1. ASSUME NEW i \in DOMAIN W PROVE ~Touches(W[i], a)
      <4>1. CASE i = 1
        BY <1>1, <2>2, <4>1
      <4>2. CASE i # 1
        <5>1. i - 1 \in DOMAIN V /\ V[i - 1] = W[i]
          BY <1>2, <4>2
        <5> QED
          BY <1>12, <5>1
      <4> QED
        BY <4>1, <4>2
    <3> QED
      BY <1>4, <1>9, <2>2, <3>1
  <2> QED
    BY <2>1, <2>2
<1> QED
  BY <1>6, <1>11, <1>12 DEF PartDone, T

LEMMA TransactShown ==
  ASSUME LoopInv, host.patient, Transact PROVE Shown
<1>1. dev.pc = "Work"
  BY DEF Transact
<1>2. /\ spi.busy /\ OneCommand /\ WholeCommand /\ IInv /\ dev \in LoopStates
      /\ dev.stage \in {"Erase", "Program"}
  BY <1>1, PatientFacts
<1>3. /\ dev'.pc = "Work" /\ dev'.stage = dev.stage /\ dev'.to = dev.to /\ dev'.cmd = dev.cmd
      /\ \/ /\ flash' = Worked(Head(dev.work), Head(dev.work).n)
            /\ dev'.work = Tail(dev.work) /\ dev'.err = dev.err
         \/ dev.stage = "Erase"
         \/ dev'.err
      /\ UNCHANGED <<spi, host, before, sessions>>
  BY <1>2, TransactFacts
<1>4. OneCommand'
  BY <1>1, <1>2, <1>3 DEF OneCommand, NoneInFifos, Fetched
<1>5. ASSUME dev.stage = "Program", ~dev'.err PROVE PartDone'
  <2>1. /\ flash' = Worked(Head(dev.work), Head(dev.work).n)
        /\ dev'.work = Tail(dev.work) /\ ~dev.err
    BY <1>3, <1>5
  <2>2. PartDone
    BY <1>1, <1>2, <1>5, <2>1 DEF WholeCommand
  <2> QED
    BY <1>2, <2>1, <2>2, NextPart
<1>6. WholeCommand'
  BY <1>3, <1>5 DEF WholeCommand
<1>7. NorUnseen
  BY <1>1, <1>2, <1>3 DEF NorUnseen, Running
<1> QED
  BY <1>2, <1>3, <1>4, <1>6, <1>7, UnseenSteps DEF Shown, PatientInv

LEMMA ClosePermsShown ==
  ASSUME LoopInv, host.patient, ClosePerms PROVE Shown
<1> DEFINE c == host.last
<1>1. dev.pc = "Work" /\ dev.work = <<>>
  BY DEF ClosePerms
<1>2. /\ spi.busy /\ OneCommand /\ WholeCommand /\ IInv /\ dev \in LoopStates
      /\ c.op \in Opcodes
      /\ dev.stage \in {"Erase", "Program"}
      /\ dev.stage = "Program" => dev.to = "Program"
      /\ dev.stage = "Erase" => dev.to # "Program"
  BY <1>1, PatientFacts
<1>3. /\ dev'.pc = (CASE dev.err -> "Ended"
                      [] ~dev.err /\ dev.stage = "Erase" -> "Verify"
                      [] OTHER -> "Status")
      /\ dev'.stage = dev.stage /\ dev'.to = dev.to /\ dev'.cmd = dev.cmd
      /\ UNCHANGED <<flash, spi, host, before, sessions>>
  BY <1>2, ClosePermsFacts
<1>4. CASE dev.err
  <2>1. dev'.pc = "Ended"
    BY <1>3, <1>4
  <2> QED
    BY <1>1, <1>2, <1>3, <2>1, EndShown
<1>5. CASE ~dev.err
  <2>1. dev'.pc = IF dev.stage = "Erase" THEN "Verify" ELSE "Status"
    BY <1>3, <1>5
  <2>2. OneCommand'
    BY <1>1, <1>2, <1>3, <2>1 DEF OneCommand, NoneInFifos, Fetched
  <2>3. NorUnseen
    BY <1>1, <1>2, <1>3, <2>1 DEF NorUnseen, Running
  <2>4. WholeCommand'
    <3>1. CASE dev.stage = "Erase"
      BY <1>3, <2>1, <3>1 DEF WholeCommand
    <3>2. CASE dev.stage = "Program"
      <4>1. PartDone
        BY <1>1, <1>2, <1>5, <3>2 DEF WholeCommand
      <4>2. \A a \in Address : flash[a] = Target[a]
        BY <1>1, <4>1 DEF PartDone
      <4>3. c.op \in {"ChipErase", "SectorErase", "Program"}
        BY <1>1, <1>2 DEF OneCommand, Opcodes
      <4>4. flash = Target
        <5>1. flash = [a \in Address |-> flash[a]]
          BY <1>2 DEF IInv, TypeOK
        <5> QED
          BY <4>2, <4>3, <5>1, TargetReached
      <4>5. Target = Nor!Effect(before, c, dev.stage = "Program")
        BY <3>2 DEF Target, Nor!Effect
      <4> HIDE DEF c
      <4>6. flash' = Nor!Effect(before, c, dev.stage = "Program")'
        BY <1>3, <4>4, <4>5 DEF c
      <4> QED
        BY <1>2, <1>3, <2>1, <3>2, <4>6 DEF WholeCommand, c
    <3> QED
      BY <1>2, <3>1, <3>2
  <2> QED
    BY <1>2, <1>3, <2>2, <2>3, <2>4, UnseenSteps DEF Shown, PatientInv
<1> QED
  BY <1>4, <1>5

LEMMA EraseVerifyShown ==
  ASSUME LoopInv, host.patient, EraseVerify PROVE Shown
<1> DEFINE c == host.last
<1>1. dev.pc = "Verify"
  BY DEF EraseVerify
<1>2. /\ spi.busy /\ OneCommand /\ IInv /\ dev \in LoopStates
      /\ c.op \in Opcodes
      /\ dev.stage = "Erase" => dev.to # "Program"
  BY <1>1, PatientFacts
<1>3. /\ dev.stage = "Erase" /\ dev'.stage = dev.stage
      /\ \/ /\ \A a \in Address : flash[a] = {}
            /\ dev'.pc = "Status" /\ dev'.to = "Program"
         \/ dev'.pc = "Ended" /\ dev'.to = dev.to
      /\ UNCHANGED <<flash, spi, host, before, sessions>>
  BY <1>2, EraseVerifyFacts
<1>4. Nor!IsErase(c)
  BY <1>1, <1>2, <1>3 DEF OneCommand
<1>5. CASE dev'.pc = "Ended" /\ dev'.to = dev.to
  BY <1>1, <1>2, <1>3, <1>5, EndShown
<1>6. CASE /\ \A a \in Address : flash[a] = {}
           /\ dev'.pc = "Status" /\ dev'.to = "Program"
  <2>1. dev'.cmd = dev.cmd
    BY <1>2, <1>6 DEF EraseVerify, LoopStates
  <2>2. OneCommand'
    BY <1>1, <1>2, <1>3, <1>4, <1>6, <2>1 DEF OneCommand, NoneInFifos, Fetched
  <2>3. NorUnseen
    BY <1>1, <1>2, <1>3, <1>6 DEF NorUnseen, Running
  <2>4. flash = [a \in Address |-> {}]
    BY <1>2, <1>6 DEF IInv, TypeOK
  <2>5. Nor!Effect(before, c, dev.stage = "Program") = [a \in Address |-> {}]
    <3>1. Nor!Effect(before, c, FALSE) = [a \in Address |-> {}]
      BY <1>2, <1>4, EffectFacts
    <3>2. Nor!Effect(before, c, FALSE) = Nor!Effect(before, c, dev.stage = "Program")
      BY <1>3 DEF Nor!Effect
    <3> QED
      BY <3>1, <3>2
  <2>6. flash' = Nor!Effect(before, c, dev.stage = "Program")'
    BY <1>3, <2>4, <2>5
  <2>7. WholeCommand'
    BY <1>6, <2>6 DEF WholeCommand
  <2> QED
    BY <1>2, <1>3, <2>2, <2>3, <2>7, UnseenSteps DEF Shown, PatientInv
<1> QED
  BY <1>3, <1>5, <1>6

LEMMA StatusClearShown ==
  ASSUME LoopInv, host.patient, StatusClear PROVE Shown
<1> DEFINE c == host.last
<1>1. dev.pc = "Status"
  BY DEF StatusClear
<1>2. /\ spi.busy /\ OneCommand /\ WholeCommand /\ IInv /\ dev \in LoopStates
      /\ c.op \in Opcodes
      /\ dev.stage \in {"Erase", "Program"} /\ dev.to \in {"Erase", "Program"}
      /\ dev.stage = "Program" => dev.to = "Program"
  BY <1>1, PatientFacts
<1>3. /\ ~spi'.busy /\ ~spi'.wel
      /\ spi'.cmds = spi.cmds /\ spi'.addrs = spi.addrs /\ spi'.intr = spi.intr
      /\ spi'.over = spi.over
      /\ dev'.pc = "Poll" /\ dev'.stage = dev.to /\ dev'.to = dev.to
      /\ UNCHANGED <<flash, host, before, sessions>>
  BY <1>2, StatusClearFacts
<1>4. /\ flash = Nor!Effect(before, c, dev.stage = "Program")
      /\ Nor!IsErase(c) => dev.to = "Program"
  BY <1>1, <1>2 DEF WholeCommand
<1>5. /\ spi.wel /\ NoneInFifos
      /\ host.started => dev.stage = "Program"
      /\ dev.stage = "Erase" /\ dev.to = "Program" => Nor!IsErase(c)
  BY <1>1, <1>2 DEF OneCommand
<1>6. Quiet'
  BY <1>2, <1>3, <1>4, <1>5 DEF Quiet, NoneInFifos
<1>7. (dev'.stage = "Program") <=> (dev.stage = "Program" \/ Nor!IsErase(c))
  BY <1>2, <1>3, <1>4, <1>5
<1>8. Nor!Finish
  BY <1>1, <1>2, <1>3, <1>4, <1>5, <1>7 DEF Nor!Finish, Running, NoCmd, Nor!Idle
<1> QED
  BY <1>3, <1>6, <1>8 DEF Shown, PatientInv, Nor!Next

LEMMA RestartShown ==
  ASSUME LoopInv, host.patient, Restart PROVE Shown
<1>1. /\ IInv /\ (~spi.busy => Quiet) /\ host.patient \in BOOLEAN
  BY PatientFacts DEF HostStates
<1>2. /\ spi' = FreshSpi /\ dev' = FreshDev /\ host' = FreshHost(host.patient)
      /\ dev.pc # "Work" => \A a \in Address : flash'[a] = {} <=> flash[a] = {}
  BY <1>1, RestartFacts
<1>3. /\ ~spi'.busy /\ ~spi'.wel /\ ~spi'.intr /\ ~spi'.over /\ spi'.cmds = <<>>
      /\ spi'.addrs = <<>> /\ dev'.pc = "Poll" /\ dev'.stage = "Erase"
      /\ ~host'.started /\ host'.ready
  BY <1>2 DEF FreshSpi, FreshDev, FreshHost
<1>4. Quiet'
  BY <1>3 DEF Quiet, NoneInFifos
<1>5. ~spi.busy => \A a \in Address : flash'[a] = {} <=> flash[a] = {}
  BY <1>1, <1>2 DEF Quiet
<1>6. Nor!StartAgain
  BY <1>3, <1>5 DEF Nor!StartAgain, Nor!Address, Address, Running, NoCmd, Nor!Idle
<1> QED
  BY <1>3, <1>4, <1>6 DEF Shown, PatientInv, Nor!Next

LEMMA StepShown ==
  ASSUME LoopInv, host.patient, [Next]_vars PROVE Shown
<1>1. CASE Device
  BY <1>1, PollIntrShown, ClearIntrShown, FetchShown, PayloadShown, StartEraseShown,
     StartProgramShown, TransactShown, ClosePermsShown, EraseVerifyShown, StatusClearShown
     DEF Device
<1>2. CASE Host
  BY <1>2, LatchShown, UploadShown, ReadStatusShown DEF Host
<1>3. CASE Restart
  BY <1>3, RestartShown
<1>4. CASE UNCHANGED vars
  <2> USE DEF vars
  <2>3. Quiet => Quiet'
    BY <1>4 DEF Quiet, NoneInFifos
  <2>4. OneCommand => OneCommand'
    BY <1>4 DEF OneCommand, NoneInFifos, InFifos, Fetched
  <2>5. PartDone => PartDone'
    <3>1. flash' = flash /\ before' = before /\ host' = host /\ dev' = dev
      BY <1>4
    <3>2. Target' = Target
      BY <3>1, Zenon DEF Target
    <3>3. \A w, a : Result(w, a)' = Result(w, a) /\ Touches(w, a)' = Touches(w, a)
      BY <3>1 DEF Result, Data, Touches
    <3> QED
      BY <3>1, <3>2, <3>3 DEF PartDone
  <2>6. WholeCommand => WholeCommand'
    <3>1. Nor!Effect(before, host.last, dev.stage = "Program")'
           = Nor!Effect(before, host.last, dev.stage = "Program")
      <4>1. before' = before /\ host' = host /\ dev' = dev
        BY <1>4
      <4> QED
        BY <4>1, Zenon
    <3> QED
      BY <1>4, <2>5, <3>1 DEF WholeCommand
  <2>1. PatientInv'
    BY <1>4, <2>3, <2>4, <2>6 DEF LoopInv, PatientInv
  <2>2. NorUnseen
    BY <1>4 DEF NorUnseen, Running
  <2> QED
    BY <2>1, <2>2, UnseenSteps DEF Shown
<1> QED
  BY <1>1, <1>2, <1>3, <1>4 DEF Next

LEMMA SameHost ==
  ASSUME IInv, [Next]_vars PROVE host'.patient = host.patient
<1> USE DEF IInv, TypeOK
<1>1. CASE Device
  BY <1>1 DEF Device, PollIntr, ClearIntr, Fetch, Payload, StartErase, StartProgram, Transact,
     ClosePerms, EraseVerify, StatusClear
<1>2. CASE Host
  BY <1>2, UploadFacts DEF Host, WriteEnable, WriteDisable, ReadStatus, HostStates
<1>3. CASE Restart
  BY <1>3, FreshTypes DEF Restart, HostStates
<1> QED
  BY <1>1, <1>2, <1>3 DEF Next, vars

LEMMA InitPatient == Init => PatientInv
<1> SUFFICES ASSUME Init PROVE PatientInv
  OBVIOUS
<1>1. PICK p \in Patience : host = FreshHost(p)
  BY DEF Init
<1>2. /\ ~spi.busy /\ ~spi.intr /\ ~spi.over /\ spi.cmds = <<>> /\ spi.addrs = <<>>
      /\ dev.pc = "Poll" /\ ~host.started /\ host.ready
  BY <1>1 DEF Init, FreshSpi, FreshDev, FreshHost
<1> QED
  BY <1>2 DEF PatientInv, Quiet, NoneInFifos

(* To a patient host one command is on its way at most, and each flash     *)
(* transaction brings its bytes, and no others, to what it is to do.       *)
THEOREM LoopInvariant == Spec => []LoopInv
<1>1. Init => LoopInv
  BY InitInv, InitPatient DEF LoopInv
<1>2. ASSUME LoopInv, [Next]_vars PROVE LoopInv'
  <2>1. IInv'
    BY <1>2, StepInv DEF LoopInv
  <2>2. CASE host.patient
    BY <1>2, <2>1, <2>2, StepShown DEF LoopInv, Shown
  <2>3. CASE ~host.patient
    <3>1. ~host'.patient
      BY <1>2, <2>3, SameHost DEF LoopInv
    <3> QED
      BY <2>1, <3>1 DEF LoopInv, PatientInv
  <2> QED
    BY <2>2, <2>3
<1> QED
  BY <1>1, <1>2, PTL DEF Spec

(* To a host that waits for the busy bit, bootstrap implements the NOR     *)
(* flash of SpiNor, for flash and pages of any size and any payload.       *)
THEOREM NorImplemented == Spec => ImplementsNor
<1>1. ASSUME LoopInv, [Next]_vars
      PROVE  [host.patient => Nor!Next]_(Nor!vars)
  <2>1. CASE host.patient
    BY <1>1, <2>1, StepShown DEF Shown
  <2>2. CASE ~host.patient
    BY <2>2
  <2> QED
    BY <2>1, <2>2
<1> QED
  BY <1>1, LoopInvariant, PTL DEF Spec, ImplementsNor
=============================================================================
