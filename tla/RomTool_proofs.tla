---------------------------- MODULE RomTool_proofs ----------------------------
(***************************************************************************)
(* The layout of the ROM and what becomes of the target, for headers of    *)
(* less than 4 GiB and files, alignments and offsets of any size, in any   *)
(* number of arguments.                                                    *)
(* total_bytes_written, a size_t, is the position in the file less 4096,   *)
(* modulo 2^64; the rest is arithmetic with remainders, in the first       *)
(* section.                                                                *)
(***************************************************************************)
EXTENDS RomTool, TLAPS

\* The constants, one by one.
LEMMA Constants ==
  /\ Wrap \in Nat \ {0} /\ Header \in Nat \ {0} /\ MinHeader \in Nat \ {0}
  /\ TocSize \in Nat \ {0} /\ TocAlign \in Nat \ {0} /\ MaxEntries \in Nat \ {0}
  /\ PadAlign \in Nat \ {0} /\ Word \in Nat \ {0} /\ MinAlign \in Nat \ {0}
  /\ Kilo \in Nat \ {0} /\ MaxArgs \in Nat /\ IntWrap \in Nat \ {0}
  /\ Wrap % PadAlign = 0 /\ Wrap % TocAlign = 0 /\ 2 * (Header + PadAlign) < Wrap
  /\ HeaderSizes \subseteq 0..(IntWrap - 1) /\ FileSizes \subseteq Int /\ Aligns \subseteq Int
BY SizesAssumption

------------------------------------------------------------------------------
(* Remainders.                                                              *)

Multiple(d, a) == \E k \in Int : d = a * k

LEMMA Times ==
  ASSUME NEW a \in Int, NEW k \in Int, NEW l \in Int
  PROVE  a * k \in Int /\ a * (k + l) = a * k + a * l
OBVIOUS

LEMMA MultiplePlus ==
  ASSUME NEW a \in Int, NEW d \in Int, NEW e \in Int, NEW s \in Int, s = d + e,
         Multiple(d, a), Multiple(e, a)
  PROVE  Multiple(s, a)
<1>1. PICK k \in Int : d = a * k
  BY DEF Multiple
<1>2. PICK l \in Int : e = a * l
  BY DEF Multiple
<1>3. s = a * (k + l) /\ k + l \in Int
  BY <1>1, <1>2, Times
<1> QED BY <1>3 DEF Multiple

LEMMA MultipleMinus ==
  ASSUME NEW a \in Int, NEW d \in Int, NEW e \in Int, e = -d, Multiple(d, a)
  PROVE  Multiple(e, a)
<1>1. PICK k \in Int : d = a * k
  BY DEF Multiple
<1>2. e = a * (-k) /\ -k \in Int
  BY <1>1
<1> QED BY <1>2 DEF Multiple

LEMMA MultipleTrans ==
  ASSUME NEW a \in Int, NEW b \in Int, NEW d \in Int, Multiple(d, b), Multiple(b, a)
  PROVE  Multiple(d, a)
<1>1. PICK k \in Int : d = b * k
  BY DEF Multiple
<1>2. PICK l \in Int : b = a * l
  BY DEF Multiple
<1>3. d = a * (l * k) /\ l * k \in Int
  BY <1>1, <1>2
<1> QED BY <1>3 DEF Multiple

LEMMA MultipleSelf ==
  ASSUME NEW a \in Int
  PROVE  Multiple(0, a) /\ Multiple(a, a) /\ Multiple(-a, a)
<1>1. 0 = a * 0 /\ a = a * 1 /\ -a = a * (-1)
  OBVIOUS
<1> QED BY <1>1 DEF Multiple

\* What remains is what makes the rest a multiple.
LEMMA Remainder ==
  ASSUME NEW u \in Int, NEW a \in Nat \ {0}
  PROVE  \E m \in 0..(a - 1) : m = u % a /\ Multiple(u - m, a)
<1> DEFINE q == u \div a
           m == u % a
<1>1. q \in Int /\ m \in 0..(a - 1)
  OBVIOUS
<1>2. m = u - a * q
  OBVIOUS
<1>3. a * q \in Int
  BY <1>1, Times
<1> HIDE DEF q
<1>4. u - m = a * q
  <2> HIDE DEF m
  <2> QED BY <1>1, <1>2, <1>3
<1> QED BY <1>1, <1>4 DEF Multiple

LEMMA RemainderIs ==
  ASSUME NEW u \in Int, NEW a \in Nat \ {0}, NEW m \in 0..(a - 1), Multiple(u - m, a)
  PROVE  u % a = m
<1>1. PICK k \in Int : u - m = a * k
  BY DEF Multiple
<1>2. u = a * k + m
  BY <1>1, Times
<1>3. ASSUME NEW v \in Int, NEW b \in Nat \ {0}, NEW j \in Int, NEW n \in 0..(b - 1),
             v = b * j + n
      PROVE  v % b = n
  BY <1>3
<1> QED BY <1>2, <1>3

\* Numbers a multiple of a apart are the same modulo a.
LEMMA Congruent ==
  ASSUME NEW u \in Int, NEW v \in Int, NEW a \in Nat \ {0}
  PROVE  Multiple(v - u, a) <=> v % a = u % a
<1>0. PICK m \in 0..(a - 1) : m = u % a /\ Multiple(u - m, a)
  BY Remainder
<1>1. PICK n \in 0..(a - 1) : n = v % a /\ Multiple(v - n, a)
  BY Remainder
<1>2. ASSUME Multiple(v - u, a) PROVE v % a = m
  <2>1. Multiple(v - m, a)
    BY <1>0, <1>2, MultiplePlus
  <2> QED BY <1>0, <2>1, RemainderIs
<1>3. ASSUME m = n PROVE Multiple(v - u, a)
  <2>1. Multiple(m - u, a)
    BY <1>0, MultipleMinus
  <2> QED BY <1>1, <1>3, <2>1, MultiplePlus
<1> QED BY <1>0, <1>1, <1>2, <1>3

LEMMA SizeIs ==
  ASSUME NEW u \in Int
  PROVE  Size(u) \in 0..(Wrap - 1) /\ Multiple(u - Size(u), Wrap)
BY Constants, Remainder DEF Size

\* Sums may be taken before or after the wrap.
LEMMA SizePlus ==
  ASSUME NEW u \in Int, NEW v \in Int
  PROVE  Size(Size(u) + v) = Size(u + v)
<1> DEFINE s == Size(u)
           d == u - s
           w == s + v
           x1 == u + v
<1>1. s \in Int /\ Multiple(d, Wrap)
  BY SizeIs
<1>2. w \in Int /\ x1 \in Int /\ x1 - w = d
  BY <1>1
<1>3. Multiple(x1 - w, Wrap)
  BY <1>1, <1>2
<1> HIDE DEF s, d, w, x1
<1>4. x1 % Wrap = w % Wrap
  BY <1>2, <1>3, Constants, Congruent
<1> QED BY <1>4 DEF w, x1, s, Size

\* Where a divides the wrap, it does not matter.
LEMMA SizeMod ==
  ASSUME NEW u \in Int, NEW a \in Nat \ {0}, Wrap % a = 0
  PROVE  Size(u) % a = u % a
<1> DEFINE s == Size(u)
<1>1. s \in Int /\ Multiple(u - s, Wrap)
  BY SizeIs
<1>3. Multiple(Wrap, a)
  <2>1. PICK m \in 0..(a - 1) : m = Wrap % a /\ Multiple(Wrap - m, a)
    <3>1. Wrap \in Int
      BY Constants
    <3> QED BY <3>1, Remainder, Zenon
  <2>2. Wrap - m = Wrap
    BY Constants, <2>1
  <2> QED BY <2>1, <2>2
<1> HIDE DEF s
<1>4. Multiple(u - s, a)
  BY <1>1, <1>3, Constants, MultipleTrans
<1>5. u % a = s % a
  BY <1>1, <1>4, Congruent
<1> QED BY <1>5 DEF s

LEMMA SizeSmall ==
  ASSUME NEW u \in Int, -Wrap <= u, u < Wrap
  PROVE  Size(u) = IF u >= 0 THEN u ELSE u + Wrap
<1> DEFINE m == IF u >= 0 THEN u ELSE u + Wrap
<1>1. m \in 0..(Wrap - 1) /\ (u - m = 0 \/ u - m = -Wrap)
  BY Constants
<1>2. Multiple(u - m, Wrap)
  BY <1>1, Constants, MultipleSelf
<1> HIDE DEF m
<1>3. u % Wrap = m
  BY <1>1, <1>2, Constants, RemainderIs
<1> QED BY <1>3 DEF m, Size

LEMMA PaddingAligns ==
  ASSUME NEW u \in Int, NEW v \in Int, NEW a \in Nat \ {0}, u % a = v % a
  PROVE  Padding(u, a) \in 0..(a - 1) /\ (v + Padding(u, a)) % a = 0
<1>1. PICK m \in 0..(a - 1) : m = v % a /\ Multiple(v - m, a)
  BY Remainder
<1> DEFINE p == IF m = 0 THEN 0 ELSE a - m
           s == v + p
<1>2. Padding(u, a) = p
  BY <1>1 DEF Padding
<1>3. p \in 0..(a - 1) /\ s \in Int /\ (s = v - m \/ s = (v - m) + a)
  BY <1>1
<1>4. Multiple(s - 0, a)
  <2> DEFINE d == v - m
             e == s - 0
  <2>1. d \in Int /\ e \in Int /\ (e = d \/ e = d + a) /\ Multiple(d, a)
    BY <1>1, <1>3
  <2> HIDE DEF d, e
  <2>2. Multiple(a, a)
    BY MultipleSelf
  <2>3. ASSUME e = d + a PROVE Multiple(e, a)
    BY <2>1, <2>2, <2>3, MultiplePlus
  <2>4. Multiple(e, a)
    BY <2>1, <2>3
  <2> QED BY <2>4 DEF e
<1> HIDE DEF p, s
<1>5. s % a = 0
  BY <1>3, <1>4, RemainderIs
<1> QED BY <1>2, <1>3, <1>5 DEF s

------------------------------------------------------------------------------
(* Types.                                                                   *)

LEMMA SignedType ==
  ASSUME NEW u \in 0..(Wrap - 1)
  PROVE  /\ Signed(u) \in Int /\ Signed(u) < Wrap
         /\ Signed(u) >= 0 => Signed(u) = u /\ 2 * u < Wrap
BY Constants DEF Signed

LEMMA PaddingType ==
  ASSUME NEW u \in Int, NEW a \in Nat \ {0}
  PROVE  Padding(u, a) \in 0..(a - 1)
BY PaddingAligns

LEMMA ParseType ==
  ASSUME NEW arg \in Numbers
  PROVE  parse_bytes(arg) \in Int /\ 2 * parse_bytes(arg) < Wrap
<1> DEFINE unit == CASE arg.suffix = "M" -> Kilo * Kilo
                     [] arg.suffix = "K" -> Kilo
                     [] OTHER -> 1
<1>1. unit \in Int
  BY Constants
<1>2. arg.number \in Int /\ arg.length \in Nat
  BY SizesAssumption
<1> HIDE DEF unit
<1>3. arg.number * unit \in Int
  BY <1>1, <1>2
<1>4. Size(arg.number * unit) \in 0..(Wrap - 1)
  BY <1>3, SizeIs
<1>5. parse_bytes(arg) = -1 \/ parse_bytes(arg) = Signed(Size(arg.number * unit))
  BY DEF parse_bytes, unit
<1> QED BY <1>4, <1>5, SignedType, Constants

\* The size that is padded to when none was declared.
LEMMA DefaultSize ==
  LET d == RoundUp(Header, PadAlign) - Header
  IN  d \in 0..(PadAlign - 1) /\ (d + Header) % PadAlign = 0
<1> DEFINE u == Header + PadAlign - 1
           q == u \div PadAlign
           r == q * PadAlign
<1>1. u \in Int /\ PadAlign \in Nat \ {0} /\ Header \in Nat
  BY Constants
<1>2. q \in Int /\ r <= u /\ u < (q + 1) * PadAlign
  <2> HIDE DEF u
  <2> QED BY <1>1
<1>3. r \in Int /\ (q + 1) * PadAlign = r + PadAlign /\ r = PadAlign * q
  <2> HIDE DEF q
  <2> QED BY <1>1, <1>2
<1>4. r - Header \in 0..(PadAlign - 1)
  <2> HIDE DEF r, q
  <2> QED BY <1>1, <1>2, <1>3
<1>5. Multiple(r - 0, PadAlign)
  <2> HIDE DEF q
  <2>1. r - 0 = PadAlign * q
    BY <1>1, <1>2, <1>3
  <2> QED BY <1>2, <2>1 DEF Multiple
<1> HIDE DEF r
<1>6. r % PadAlign = 0
  <2>1. 0 \in 0..(PadAlign - 1)
    BY <1>1
  <2> QED BY <2>1, <1>1, <1>3, <1>5, RemainderIs, Zenon
<1> QED BY <1>1, <1>3, <1>4, <1>6 DEF RoundUp, r, q, u

LEMMA ZerosType == TypeOK => FinalZeros \in Int /\ FinalZeros < Wrap
<1> SUFFICES ASSUME TypeOK PROVE FinalZeros \in Int /\ FinalZeros < Wrap
  OBVIOUS
<1>1. total \in 0..(Wrap - 1) /\ DeclaredSize \in 0..(Wrap - 1)
  BY DefaultSize, Constants DEF TypeOK, DeclaredSize
<1>2. CASE DeclaredSize > total
  <2>1. DeclaredSize - total \in 0..(Wrap - 1)
    BY <1>1, <1>2, Constants
  <2> QED BY <1>2, <2>1, SignedType DEF FinalZeros
<1>3. CASE ~(DeclaredSize > total)
  <2>1. Size(total + Header) \in Int
    BY <1>1, Constants, SizeIs
  <2>2. Padding(Size(total + Header), PadAlign) \in 0..(PadAlign - 1)
    BY <2>1, Constants, PaddingType
  <2> QED BY <1>3, <2>2, Constants DEF FinalZeros
<1> QED BY <1>2, <1>3

File == [at : Nat, size : Nat, align : Nat, offset : Int]

LEMMA InitType == Init => TypeOK
<1> SUFFICES ASSUME Init PROVE TypeOK
  OBVIOUS
<1>1. output \in BOOLEAN /\ opened \in BOOLEAN /\ create_toc \in BOOLEAN /\ tmp \in BOOLEAN
  BY Zenon DEF Init
<1>2. args \in 0..MaxArgs /\ total \in 0..(Wrap - 1) /\ declared \in 0..(Wrap - 1)
  BY Constants DEF Init
<1>3. files \in Seq(File)
  BY DEF Init
<1> QED BY <1>1, <1>2, <1>3 DEF Init, TypeOK, File

\* What an alignment adds.
LEMMA AlignType ==
  ASSUME TypeOK, NEW t \in Int
  PROVE  (IF align_next = 0 THEN 0 ELSE Padding(t, align_next)) \in Nat
<1>1. align_next \in Nat
  BY DEF TypeOK
<1>2. CASE align_next # 0
  BY <1>1, <1>2, PaddingType
<1> QED BY <1>2

\* A header that is long enough as an int is as long as the int says.
LEMMA IntHeader ==
  ASSUME TypeOK
  PROVE  /\ header \in Int /\ AsInt(header) \in Int
         /\ AsInt(header) >= 0 => AsInt(header) = header
<1>1. header \in HeaderSizes \cup {-1}
  BY DEF TypeOK
<1>2. CASE header \in 0..(IntWrap - 1)
  <2>1. header - header = 0 /\ header \in Int
    BY <1>2, Constants
  <2>2. header % IntWrap = header
    BY <1>2, <2>1, Constants, MultipleSelf, RemainderIs
  <2> QED BY <1>2, <2>1, <2>2, Constants DEF AsInt
<1>3. CASE header = -1
  <2>1. IntWrap - 1 \in 0..(IntWrap - 1) /\ header - (IntWrap - 1) = -IntWrap
    BY <1>3, Constants
  <2>2. header % IntWrap = IntWrap - 1
    <3>1. Multiple(header - (IntWrap - 1), IntWrap)
      BY <2>1, Constants, MultipleSelf
    <3>2. header \in Int
      BY <1>3
    <3> QED BY <2>1, <3>1, <3>2, Constants, RemainderIs
  <2>3. IntWrap - 1 >= IntWrap \div 2
    BY Constants
  <2> QED BY <1>3, <2>2, <2>3, Constants DEF AsInt
<1> QED BY <1>1, <1>2, <1>3, Constants

\* The table: its padding and its size.
LEMMA TocType ==
  ASSUME TypeOK
  PROVE  /\ AfterHeader \in 0..(Wrap - 1) /\ TocPadding(AfterHeader) \in Nat
         /\ (IF create_toc THEN TocPadding(AfterHeader) + TocSize ELSE 0) \in Nat
<1>1. AfterHeader \in 0..(Wrap - 1)
  <2>1. total + AsInt(header) - Header \in Int
    BY Constants, IntHeader DEF TypeOK
  <2> QED BY <2>1, SizeIs DEF AfterHeader
<1>2. TocPadding(AfterHeader) \in Nat
  BY <1>1, Constants, PaddingType DEF TocPadding
<1> QED BY <1>1, <1>2, Constants

\* The argument of an offset is refused, or zeros are written up to it.
LEMMA OffsetCases ==
  ASSUME TypeOK, NEW arg \in Numbers, OffsetFlag(arg)
  PROVE  \E size, zeros \in Int :
           /\ size = parse_bytes(arg) /\ 2 * size < Wrap
           /\ \/ (Return("usage") \/ Return("error")) /\ UNCHANGED <<total, pos, offset>>
              \/ /\ total # 0 /\ size > 0 /\ zeros >= 0 /\ zeros = Size(size - total)
                 /\ Go /\ total' = Size(total + zeros) /\ pos' = pos + zeros /\ offset' = size
<1> DEFINE size  == parse_bytes(arg)
           zeros == Signed(Size(size - total))
<1>1. /\ size \in Int /\ 2 * size < Wrap /\ zeros \in Int
      /\ zeros >= 0 => zeros = Size(size - total)
  <2>1. size \in Int /\ size - total \in Int /\ 2 * size < Wrap
    BY ParseType DEF TypeOK
  <2> QED BY <2>1, SizeIs, SignedType
<1>2. \/ ~output \/ total = 0 \/ size <= 0 \/ size % Word # 0
      \/ output /\ total # 0 /\ size > 0 /\ size % Word = 0 /\ zeros < 0
      \/ output /\ total # 0 /\ size > 0 /\ size % Word = 0 /\ zeros >= 0
  <2>1. output \in BOOLEAN
    BY DEF TypeOK
  <2> HIDE DEF size, zeros
  <2> QED BY <1>1, <2>1
<1> DEFINE Refused == (Return("usage") \/ Return("error")) /\ UNCHANGED <<total, pos, offset>>
           Written == /\ total # 0 /\ size > 0 /\ zeros >= 0
                      /\ Go /\ total' = Size(total + zeros) /\ pos' = pos + zeros
                      /\ offset' = size
<1>3. Refused \/ Written
  <2>1. CASE ~output \/ total = 0 \/ size <= 0 \/ size % Word # 0
    BY <2>1 DEF OffsetFlag
  <2>2. CASE output /\ total # 0 /\ size > 0 /\ size % Word = 0 /\ zeros < 0
    BY <2>2, <1>1 DEF OffsetFlag
  <2>3. CASE output /\ total # 0 /\ size > 0 /\ size % Word = 0 /\ zeros >= 0
    BY <2>3, <1>1 DEF OffsetFlag
  <2> QED BY <1>2, <2>1, <2>2, <2>3
<1> HIDE DEF size, zeros
<1> QED BY <1>1, <1>3 DEF size

LEMMA StepType == TypeOK /\ [Next]_vars => TypeOK'
<1> SUFFICES ASSUME TypeOK, [Next]_vars PROVE TypeOK'
  OBVIOUS
<1> USE DEF File
<1>0. /\ output \in BOOLEAN /\ opened \in BOOLEAN /\ create_toc \in BOOLEAN /\ tmp \in BOOLEAN
      /\ args \in 0..MaxArgs /\ total \in Int /\ pos \in Nat
      /\ files \in Seq(File)
  BY DEF TypeOK
\* The first part of TypeOK, for steps that follow the next argument.
<1>1. ASSUME NextArg PROVE args' \in 0..MaxArgs /\ status = "run"
  BY <1>1, <1>0, Constants DEF NextArg
<1>2. ASSUME NEW code \in {"usage", "error"}, Return(code)
      PROVE  status' = code /\ tmp' \in BOOLEAN /\ target' = target
  <2>1. tmp' \in BOOLEAN
    BY <1>2, <1>0, Zenon DEF Return
  <2> QED BY <1>2, <2>1 DEF Return
<1>3. ASSUME Go PROVE status' = status /\ tmp' = tmp /\ target' = target
  BY <1>3 DEF Go
<1>4. CASE BadFlag
  <2>1. UNCHANGED <<flags, body>> /\ Return("usage") /\ NextArg
    BY <1>4 DEF BadFlag
  <2> QED BY <2>1, <1>1, <1>2 DEF flags, body, TypeOK
<1>5. CASE HeaderFields
  BY <1>5, <1>1, <1>3 DEF HeaderFields, flags, body, TypeOK
<1>6. ASSUME NEW size \in HeaderSizes, HeaderFlag(size) PROVE TypeOK'
  <2>1. header' \in HeaderSizes \cup {-1} /\ UNCHANGED <<output, declared, create_toc, body>> /\ NextArg
    BY <1>6, Constants DEF HeaderFlag, TypeOK
  <2>2. Go \/ Return("usage")
    BY <1>6 DEF HeaderFlag
  <2>3. CASE Go
    BY <2>1, <2>3, <1>1, <1>3 DEF body, TypeOK
  <2>4. CASE Return("usage")
    BY <2>1, <2>4, <1>1, <1>2 DEF body, TypeOK
  <2> QED BY <2>2, <2>3, <2>4
<1>7. CASE OutputFlag
  <2>1. UNCHANGED <<header, declared, create_toc, body>> /\ NextArg
    BY <1>7 DEF OutputFlag
  <2>2. output' \in BOOLEAN
    BY <1>7, <1>0, Zenon DEF OutputFlag
  <2>3. Go \/ Return("usage")
    BY <1>7 DEF OutputFlag
  <2>4. CASE Go
    BY <2>1, <2>2, <2>4, <1>1, <1>3 DEF body, TypeOK
  <2>5. CASE Return("usage")
    BY <2>1, <2>2, <2>5, <1>1, <1>2 DEF body, TypeOK
  <2> QED BY <2>3, <2>4, <2>5
<1>8. CASE TocFlag
  <2>1. UNCHANGED <<header, output, declared, body>> /\ NextArg
    BY <1>8 DEF TocFlag
  <2>2. create_toc' \in BOOLEAN
    BY <1>8, <1>0, Zenon DEF TocFlag
  <2>3. Go \/ Return("usage")
    BY <1>8 DEF TocFlag
  <2>4. CASE Go
    BY <2>1, <2>2, <2>4, <1>1, <1>3 DEF body, TypeOK
  <2>5. CASE Return("usage")
    BY <2>1, <2>2, <2>5, <1>1, <1>2 DEF body, TypeOK
  <2> QED BY <2>3, <2>4, <2>5
<1>9. ASSUME NEW arg \in Numbers, SizeFlag(arg) PROVE TypeOK'
  <2>1. UNCHANGED <<header, output, create_toc, body>> /\ NextArg
    BY <1>9 DEF SizeFlag
  <2>2. Size(parse_bytes(arg)) \in 0..(Wrap - 1)
    BY ParseType, SizeIs
  <2>3. declared' \in 0..(Wrap - 1)
    BY <1>9, <2>2 DEF SizeFlag, TypeOK
  <2>4. Go \/ Return("usage")
    BY <1>9 DEF SizeFlag
  <2>5. CASE Go
    BY <2>1, <2>3, <2>5, <1>1, <1>3 DEF body, TypeOK
  <2>6. CASE Return("usage")
    BY <2>1, <2>3, <2>6, <1>1, <1>2 DEF body, TypeOK
  <2> QED BY <2>4, <2>5, <2>6
<1>10. ASSUME NEW arg \in Numbers, OffsetFlag(arg) PROVE TypeOK'
  <2>1. UNCHANGED <<flags, opened, toc_offset, align_next, files>> /\ NextArg
    BY <1>10 DEF OffsetFlag
  <2>2. PICK size, zeros \in Int :
          \/ (Return("usage") \/ Return("error")) /\ UNCHANGED <<total, pos, offset>>
          \/ /\ zeros >= 0 /\ Go
             /\ total' = Size(total + zeros) /\ pos' = pos + zeros /\ offset' = size
    BY <1>10, OffsetCases
  <2>3. total' \in 0..(Wrap - 1) /\ pos' \in Nat /\ offset' \in Int
    <3> DEFINE w == total + zeros
    <3>1. w \in Int
      BY <1>0
    <3> HIDE DEF w
    <3>2. Size(w) \in 0..(Wrap - 1)
      BY <3>1, SizeIs
    <3> QED BY <2>2, <3>2 DEF w, TypeOK
  <2>4. status' \in {"run", "usage", "error"} /\ tmp' \in BOOLEAN /\ target' = target
    BY <2>1, <2>2, <1>0, <1>1, <1>2, <1>3
  <2> QED BY <2>1, <2>3, <2>4, <1>1 DEF flags, TypeOK
<1>11. ASSUME NEW align \in Aligns, AlignFlag(align) PROVE TypeOK'
  <2>1. UNCHANGED <<flags, opened, total, toc_offset, files, pos, offset>> /\ NextArg
    BY <1>11 DEF AlignFlag
  <2>2. align_next' \in Nat
    BY <1>11, Constants DEF AlignFlag, TypeOK
  <2>3. Go \/ Return("usage")
    BY <1>11 DEF AlignFlag
  <2>4. CASE Go
    BY <2>1, <2>2, <2>4, <1>1, <1>3 DEF flags, TypeOK
  <2>5. CASE Return("usage")
    BY <2>1, <2>2, <2>5, <1>1, <1>2 DEF flags, TypeOK
  <2> QED BY <2>3, <2>4, <2>5
<1>12. ASSUME NEW size \in FileSizes, FirstFile(size) PROVE TypeOK'
  <2> DEFINE toc == IF create_toc THEN TocPadding(AfterHeader) + TocSize ELSE 0
             t   == Size(AfterHeader + toc)
             a   == IF align_next = 0 THEN 0 ELSE Padding(t, align_next)
  <2>1. toc \in Nat /\ AfterHeader \in Int /\ (create_toc => toc >= TocSize)
    BY TocType, Constants
  <2>2. t \in 0..(Wrap - 1)
    <3> HIDE DEF toc
    <3> QED BY <2>1, SizeIs
  <2>3. a \in Nat
    <3> HIDE DEF t
    <3> QED BY <2>2, Constants, AlignType
  <2>4. size \in Nat /\ header \in Nat /\ header > 0
    BY <1>12, IntHeader, Constants DEF FirstFile
  <2>5. /\ toc_offset' = IF create_toc THEN header + toc - TocSize ELSE 0
        /\ files' = <<[at |-> header + toc + a, size |-> size,
                       align |-> align_next, offset |-> -1]>>
        /\ total' = Size(t + a + size)
        /\ pos' = header + toc + a + size
        /\ align_next' = 0 /\ offset' = -1 /\ opened' = TRUE /\ tmp' = TRUE
        /\ UNCHANGED <<status, target, flags>> /\ NextArg
    BY <1>12 DEF FirstFile
  <2> HIDE DEF toc, t, a
  <2>6. toc_offset' \in Nat /\ pos' \in Nat
    BY <2>1, <2>3, <2>4, <2>5, Constants
  <2>7. total' \in 0..(Wrap - 1)
    BY <2>2, <2>3, <2>4, <2>5, SizeIs
  <2>8. files' \in Seq(File)
    <3>1. [at |-> header + toc + a, size |-> size, align |-> align_next, offset |-> -1] \in File
      BY <2>1, <2>3, <2>4 DEF TypeOK
    <3> QED BY <2>5, <3>1
  <2>9. opened' \in BOOLEAN /\ tmp' \in BOOLEAN
    BY <2>5, Zenon
  <2> QED BY <2>5, <2>6, <2>7, <2>8, <2>9, <1>1 DEF flags, TypeOK
<1>13. ASSUME NEW size \in FileSizes, NextFile(size) PROVE TypeOK'
  <2>1. AlignZeros \in Nat /\ size \in Nat
    BY <1>13, <1>0, AlignType, Constants DEF AlignZeros, NextFile
  <2>2. total' \in 0..(Wrap - 1)
    <3>1. total' = Size(total + AlignZeros + size)
      BY <1>13 DEF NextFile
    <3> QED BY <3>1, <2>1, <1>0, SizeIs
  <2>3. files' \in Seq(File)
    <3> DEFINE f == [at |-> pos + AlignZeros, size |-> size, align |-> align_next,
                     offset |-> IF AlignZeros = 0 THEN offset ELSE -1]
    <3>1. f \in File
      BY <2>1 DEF TypeOK
    <3>2. files' = Append(files, f)
      BY <1>13 DEF NextFile
    <3> HIDE DEF f
    <3> QED BY <3>1, <3>2, <1>0
  <2>4. /\ pos' = pos + AlignZeros + size /\ align_next' = 0 /\ offset' = -1 /\ NextArg
        /\ UNCHANGED <<status, flags, opened, toc_offset, tmp, target>>
    BY <1>13 DEF NextFile
  <2> QED BY <2>1, <2>2, <2>3, <2>4, <1>1 DEF flags, TypeOK
<1>14. ASSUME NEW size \in FileSizes, BadFile(size) PROVE TypeOK'
  <2>1. UNCHANGED <<flags, body>> /\ NextArg
    BY <1>14 DEF BadFile
  <2>2. \/ Return("usage") \/ Return("error")
        \/ status' = "error" /\ tmp' = FALSE /\ UNCHANGED target
    BY <1>14 DEF BadFile
  <2>3. status' \in {"usage", "error"} /\ tmp' \in BOOLEAN /\ target' = target
    BY <2>2, <1>2
  <2> QED BY <2>1, <2>3, <1>1 DEF flags, body, TypeOK
<1>15. CASE NoFinish
  <2>1. UNCHANGED <<args, flags, body>> /\ Return("usage")
    BY <1>15 DEF NoFinish
  <2> QED BY <2>1, <1>2 DEF flags, body, TypeOK
<1>16. CASE Finish
  <2>1. /\ pos' = pos + FinalZeros /\ FinalZeros >= 0 /\ status' = "finish"
        /\ UNCHANGED <<args, flags, opened, total, toc_offset, align_next, files, offset,
                       tmp, target>>
    BY <1>16 DEF Finish
  <2>2. pos' \in Nat
    BY <2>1, <1>0, ZerosType
  <2> QED BY <2>1, <2>2 DEF flags, TypeOK
<1>17. CASE Rename
  <2>1. status' \in {"ok", "error"} /\ target' \in Int /\ UNCHANGED <<args, flags, body>>
    BY <1>17 DEF Rename, TypeOK
  <2>2. tmp' \in BOOLEAN
    BY <1>17, Zenon DEF Rename
  <2> QED BY <2>1, <2>2 DEF flags, body, TypeOK
<1>18. CASE Kill
  BY <1>18 DEF Kill, flags, body, TypeOK
<1>19. CASE UNCHANGED vars
  BY <1>19 DEF vars, flags, body, TypeOK
<1> QED
  BY <1>4, <1>5, <1>6, <1>7, <1>8, <1>9, <1>10, <1>11, <1>12, <1>13, <1>14, <1>15,
     <1>16, <1>17, <1>18, <1>19 DEF Next

\* Every variable keeps its type; in particular no position is negative.
THEOREM TypeCorrect == Spec => []TypeOK
BY InitType, StepType, PTL DEF Spec

------------------------------------------------------------------------------
(* The invariant.                                                           *)

LastEnd == files[Len(files)].at + files[Len(files)].size

\* Before the first file there is nothing, from then on a header and a file.
Opened ==
  /\ ~opened => total = 0 /\ pos = 0 /\ files = <<>> /\ toc_offset = 0 /\ offset = -1
  /\ opened => header >= MinHeader /\ files # <<>>
  /\ ~create_toc => toc_offset = 0

\* total_bytes_written is the position less 4096, modulo the wrap.  It is 0 only
\* right behind a file, and what an offset asked for right behind its zeros.
Position ==
  status = "run" =>
    /\ opened => total = Size(pos - Header) /\ (total = 0 => LastEnd = pos)
    /\ offset # -1 => offset = total /\ 2 * offset < Wrap

\* The size of the ROM, from the padding on.
Finished ==
  /\ status \in {"finish", "ok"} /\ pos < Wrap =>
       IF declared > total THEN pos = Size(declared + Header) ELSE pos % PadAlign = 0
  /\ status = "ok" => target = pos

\* The table is behind the header and before the files, or was asked for behind
\* files that filled the header, and is at offset 0.
TocPlaced ==
  create_toc /\ opened =>
    \/ /\ toc_offset >= header /\ (toc_offset - Header) % TocAlign = 0
       /\ toc_offset + TocSize <= files[1].at /\ Len(files) <= MaxEntries
    \/ toc_offset = 0 /\ FilesFillHeader

Placed == pos < Wrap => FilesPlaced /\ TocPlaced

IInv == TypeOK /\ Opened /\ Position /\ Finished /\ Placed /\ ReplacedAtOnce

\* The position is below the wrap: total_bytes_written tells it.
LEMMA TotalTells ==
  ASSUME IInv, status = "run", opened, pos < Wrap
  PROVE  total = IF pos >= Header THEN pos - Header ELSE pos - Header + Wrap
<1>1. total = Size(pos - Header) /\ pos \in Nat
  BY DEF IInv, Position, TypeOK
<1>2. pos - Header \in Int /\ -Wrap <= pos - Header /\ pos - Header < Wrap
  BY <1>1, Constants
<1> DEFINE u == pos - Header
<1>3. u \in Int /\ -Wrap <= u /\ u < Wrap /\ total = Size(u)
  BY <1>1, <1>2
<1> HIDE DEF u
<1>4. total = IF u >= 0 THEN u ELSE u + Wrap
  BY <1>3, SizeSmall
<1> QED BY <1>1, <1>4, Constants DEF u

LEMMA InitIInv == Init => IInv
<1> SUFFICES ASSUME Init PROVE IInv
  OBVIOUS
<1>1. TypeOK
  BY InitType
<1>2. files = <<>> /\ Len(files) = 0 /\ opened = FALSE
  BY DEF Init
<1>3. Opened /\ Position /\ Finished /\ ReplacedAtOnce
  BY <1>2 DEF Init, Opened, Position, Finished, ReplacedAtOnce
<1>4. Placed
  BY <1>2 DEF Placed, FilesPlaced, TocPlaced
<1> QED BY <1>1, <1>3, <1>4 DEF IInv

\* A step that writes nothing.  A table that is asked for late is asked for
\* when total_bytes_written is 0.
LEMMA Quiet ==
  ASSUME IInv, TypeOK', UNCHANGED body, UNCHANGED target, status \in {"run", "finish"},
         status' = status \/ status' \in {"usage", "error", "killed"},
         status = "finish" => UNCHANGED flags,
         opened => UNCHANGED header,
         create_toc => create_toc',
         create_toc' => create_toc \/ total = 0,
         opened /\ status' \in {"usage", "error"} => ~tmp'
  PROVE  IInv'
<1>1. UNCHANGED <<opened, total, toc_offset, align_next, files, pos, offset, target>>
  BY DEF body
<1>2. /\ opened \in BOOLEAN /\ create_toc \in BOOLEAN /\ create_toc' \in BOOLEAN
      /\ header \in Int /\ pos \in Nat
  BY IntHeader DEF IInv, TypeOK
<1>3. Opened'
  BY <1>1, <1>2, Constants DEF IInv, Opened
<1>4. Position'
  BY <1>1 DEF IInv, Position, LastEnd
<1>5. Finished'
  <2>1. CASE status = "run"
    BY <2>1 DEF Finished
  <2>2. CASE status = "finish"
    BY <1>1, <2>2 DEF flags, IInv, Finished
  <2> QED BY <2>1, <2>2
<1>6. ASSUME pos < Wrap PROVE FilesPlaced'
  <2>1. FilesPlaced
    BY <1>6 DEF IInv, Placed
  <2>2. CASE opened
    BY <1>1, <2>1, <2>2 DEF FilesPlaced, PowerOfTwo
  <2>3. CASE ~opened
    <3>1. files' = <<>> /\ Len(files') = 0
      BY <1>1, <2>3 DEF IInv, Opened
    <3> QED BY <3>1 DEF FilesPlaced
  <2> QED BY <1>2, <2>2, <2>3
<1>7. ASSUME pos < Wrap PROVE TocPlaced'
  <2>1. TocPlaced
    BY <1>7 DEF IInv, Placed
  <2>2. CASE create_toc
    BY <1>1, <2>1, <2>2 DEF TocPlaced, FilesFillHeader
  <2>3. CASE ~create_toc /\ create_toc' /\ opened /\ status = "run"
    <3>1. total = 0 /\ toc_offset = 0 /\ files # <<>> /\ LastEnd = pos
      BY <2>3 DEF IInv, Opened, Position
    <3>2. pos = Header
      BY <1>2, <1>7, <2>3, <3>1, TotalTells, Constants
    <3>3. Len(files) \in 1..Len(files)
      BY <3>1 DEF IInv, TypeOK
    <3> QED BY <1>1, <3>1, <3>2, <3>3 DEF TocPlaced, FilesFillHeader, LastEnd
  <2>4. status = "finish" => create_toc' = create_toc
    BY DEF flags
  <2> QED BY <1>1, <1>2, <2>2, <2>3, <2>4 DEF TocPlaced, FilesFillHeader
<1>8. ReplacedAtOnce'
  BY <1>1 DEF IInv, ReplacedAtOnce
<1> QED BY <1>1, <1>3, <1>4, <1>5, <1>6, <1>7, <1>8 DEF IInv, Placed

\* A step that writes zeros behind the last file.
LEMMA ZerosOnly ==
  ASSUME IInv, opened, UNCHANGED <<opened, files, header, create_toc, toc_offset>>,
         pos' \in Nat, pos' >= pos
  PROVE  Placed'
<1>1. pos \in Nat /\ files \in Seq(File)
  BY DEF IInv, TypeOK, File
<1> SUFFICES ASSUME pos' < Wrap PROVE FilesPlaced' /\ TocPlaced'
  BY DEF Placed
<1>2. FilesPlaced /\ TocPlaced
  BY <1>1, Constants DEF IInv, Placed
<1>3. TocPlaced'
  BY <1>2 DEF TocPlaced, FilesFillHeader
<1>4. ASSUME NEW k \in 1..Len(files) PROVE files[k].at + files[k].size \in Nat
  <2>1. files[k] \in File
    BY <1>1
  <2> QED BY <2>1 DEF File
<1>5. FilesPlaced'
  BY <1>1, <1>2, <1>4 DEF FilesPlaced, PowerOfTwo
<1> QED BY <1>3, <1>5

LEMMA StepOffset ==
  ASSUME IInv, TypeOK', NEW arg \in Numbers, OffsetFlag(arg)
  PROVE  IInv'
<1>0. /\ opened \in BOOLEAN /\ total \in 0..(Wrap - 1) /\ pos \in Nat
      /\ status = "run" /\ UNCHANGED <<flags, opened, toc_offset, align_next, files>>
  BY DEF IInv, TypeOK, OffsetFlag, NextArg
<1> DEFINE Refused == (Return("usage") \/ Return("error")) /\ UNCHANGED <<total, pos, offset>>
<1>1. PICK size, zeros \in Int :
        /\ 2 * size < Wrap
        /\ \/ Refused
           \/ /\ total # 0 /\ size > 0 /\ zeros >= 0 /\ zeros = Size(size - total)
              /\ Go /\ total' = Size(total + zeros) /\ pos' = pos + zeros /\ offset' = size
  BY OffsetCases DEF IInv
<1>2. CASE Refused
  <2>1. status' \in {"usage", "error"} /\ target' = target /\ (opened => ~tmp')
    BY <1>2 DEF Return
  <2> QED BY <1>0, <1>2, <2>1, Quiet DEF flags, body
<1>3. CASE /\ total # 0 /\ size > 0 /\ zeros >= 0 /\ zeros = Size(size - total)
           /\ Go /\ total' = Size(total + zeros) /\ pos' = pos + zeros /\ offset' = size
  <2>1. UNCHANGED <<status, tmp, target>> /\ opened
    BY <1>0, <1>3 DEF Go, IInv, Opened
  <2>2. total' = size
    <3> DEFINE d == size - total
    <3>1. d \in Int /\ d + total = size
      BY <1>0
    <3> HIDE DEF d
    <3>2. Size(Size(d) + total) = Size(size)
      <4>1. total \in Int
        BY <1>0
      <4>2. Size(Size(d) + total) = Size(d + total)
        BY <3>1, <4>1, SizePlus, Zenon
      <4> QED BY <3>1, <4>2
    <3>3. Size(d) + total = total + zeros
      BY <1>0, <1>3 DEF d
    <3>4. Size(size) = size
      BY <1>1, <1>3, SizeSmall, Constants
    <3> QED BY <1>3, <3>2, <3>3, <3>4
  <2>3. total' = Size(pos' - Header)
    <3> DEFINE u == pos - Header
    <3>1. u \in Int /\ total = Size(u) /\ pos' - Header = u + zeros
      BY <1>0, <1>3, <2>1, Constants DEF IInv, Position
    <3> HIDE DEF u
    <3> QED BY <1>3, <3>1, SizePlus
  <2>4. Position'
    BY <1>1, <1>3, <2>1, <2>2, <2>3 DEF Position
  <2>5. Opened' /\ Finished' /\ ReplacedAtOnce'
    BY <1>0, <2>1 DEF IInv, Opened, Finished, ReplacedAtOnce, flags
  <2>6. Placed'
    <3>1. pos' \in Nat /\ pos' >= pos
      BY <1>0, <1>3
    <3> QED BY <1>0, <2>1, <3>1, ZerosOnly DEF flags
  <2> QED BY <2>4, <2>5, <2>6 DEF IInv
<1> QED BY <1>1, <1>2, <1>3

\* Where a file is put that an alignment is asked for: total is what the
\* alignment counts from, and the position less 4096 if it did not wrap.
LEMMA AlignedFrom ==
  ASSUME NEW p \in Int, NEW t \in Int, NEW a \in Nat \ {0}, NEW z \in Int, NEW at,
         t = Size(p - Header), z = Padding(t, a), at = p + z,
         PowerOfTwo(a) \/ (p >= Header /\ p < Wrap)
  PROVE  (at - Header) % a = 0
<1> DEFINE u == p - Header
<1>1. u \in Int /\ t = Size(u)
  BY Constants
<1>2. t % a = u % a
  <2>1. CASE PowerOfTwo(a)
    <3> HIDE DEF u
    <3> QED BY <1>1, <2>1, SizeMod DEF PowerOfTwo
  <2>2. CASE p >= Header /\ p < Wrap
    <3>1. 0 <= u /\ -Wrap <= u /\ u < Wrap
      BY <2>2, Constants
    <3> HIDE DEF u
    <3> QED BY <1>1, <3>1, SizeSmall
  <2> QED BY <2>1, <2>2
<1> DEFINE s == u + z
<1>3. s % a = 0 /\ z \in Int
  <2> HIDE DEF u
  <2> QED BY <1>1, <1>2, PaddingAligns
<1>4. at - Header = s
  BY <1>3, Constants
<1> HIDE DEF s
<1> QED BY <1>3, <1>4

LEMMA StepNextFile ==
  ASSUME IInv, TypeOK', NEW size \in FileSizes, NextFile(size)
  PROVE  IInv'
<1> DEFINE f == [at |-> pos + AlignZeros, size |-> size, align |-> align_next,
                 offset |-> IF AlignZeros = 0 THEN offset ELSE -1]
           n == Len(files)
<1>0. /\ pos \in Nat /\ size \in Nat /\ AlignZeros \in Nat /\ files \in Seq(File)
      /\ total \in 0..(Wrap - 1) /\ align_next \in Nat /\ offset \in Int /\ header \in Int
  <2>1. AlignZeros \in Nat
    BY AlignType DEF AlignZeros, IInv, TypeOK
  <2> QED BY <2>1, Constants DEF IInv, TypeOK, File, NextFile
<1>1. /\ opened /\ status = "run" /\ ~TableFull
      /\ files' = Append(files, f) /\ total' = Size(total + AlignZeros + size)
      /\ pos' = pos + AlignZeros + size /\ offset' = -1
      /\ UNCHANGED <<status, flags, opened, toc_offset, tmp, target>>
  BY DEF NextFile, NextArg
<1>2. /\ n \in Nat /\ n >= 1 /\ Len(files') = n + 1 /\ files'[n + 1] = f
      /\ \A k \in 1..n : files'[k] = files[k]
  <2>1. files # <<>>
    BY <1>1 DEF IInv, Opened
  <2> HIDE DEF f
  <2> QED BY <1>0, <1>1, <2>1
<1>3. LastEnd' = pos'
  BY <1>0, <1>1, <1>2 DEF LastEnd
<1>4. total' = Size(pos' - Header)
  <2> DEFINE u == pos - Header
             z == AlignZeros + size
  <2>1. u \in Int /\ z \in Int /\ total = Size(u) /\ pos' - Header = u + z
    BY <1>0, <1>1, Constants DEF IInv, Position
  <2>2. total' = Size(total + z)
    <3>1. total + z = total + AlignZeros + size
      BY <1>0
    <3> HIDE DEF z
    <3> QED BY <1>1, <3>1
  <2> HIDE DEF u, z
  <2> QED BY <2>1, <2>2, SizePlus
<1>5. Opened' /\ Position' /\ Finished' /\ ReplacedAtOnce'
  <2>1. files' # <<>>
    BY <1>2
  <2> QED BY <1>1, <1>3, <1>4, <2>1
      DEF IInv, Opened, Position, Finished, ReplacedAtOnce, flags
<1>6. ASSUME pos' < Wrap PROVE FilesPlaced'
  <2>1. pos < Wrap /\ pos <= f.at /\ f.at <= pos' /\ f.at + f.size = pos'
    BY <1>0, <1>1, <1>6, Constants
  <2>2. FilesPlaced /\ header' = header
    BY <1>1, <2>1 DEF IInv, Placed, flags
  <2>3. ASSUME NEW k \in 1..n
        PROVE  /\ files[k].at >= IF k = 1 THEN header ELSE files[k - 1].at + files[k - 1].size
               /\ files[k].at + files[k].size <= pos
               /\ files[k].offset # -1 => files[k].at = Header + files[k].offset
               /\ files[k].align # 0 /\ (PowerOfTwo(files[k].align) \/ header >= Header) =>
                    (files[k].at - Header) % files[k].align = 0
               /\ files[k].at \in Nat /\ files[k].size \in Nat
    <3>1. files[k] \in File
      BY <1>0, <1>2
    <3> QED BY <2>2, <3>1 DEF FilesPlaced, File
  <2>4. header <= pos
    <3>1. files[1].at >= header /\ files[1].at + files[1].size <= pos /\ files[1].size \in Nat
          /\ files[1].at \in Nat
      BY <1>2, <2>3
    <3> QED BY <1>0, <3>1
  <2>5. f.at >= files[n].at + files[n].size
    <3>1. files[n].at + files[n].size <= pos /\ files[n].size \in Nat /\ files[n].at \in Nat
      BY <1>2, <2>3
    <3> QED BY <1>0, <2>1, <3>1
  <2>6. f.offset # -1 => f.at = Header + f.offset
    <3> SUFFICES ASSUME AlignZeros = 0, offset # -1 PROVE pos = Header + offset
      BY <1>0
    <3>1. offset = total /\ 2 * offset < Wrap
      BY <1>1 DEF IInv, Position
    <3> QED BY <1>0, <1>1, <2>1, <3>1, TotalTells, Constants
  <2>7. f.align # 0 /\ (PowerOfTwo(f.align) \/ header >= Header) => (f.at - Header) % f.align = 0
    <3>0. f.at = pos + AlignZeros /\ f.align = align_next
      OBVIOUS
    <3> HIDE DEF f
    <3> SUFFICES ASSUME f.align # 0, PowerOfTwo(f.align) \/ header >= Header
                 PROVE  (f.at - Header) % f.align = 0
      OBVIOUS
    <3>1. AlignZeros = Padding(total, f.align) /\ f.align \in Nat \ {0}
      BY <1>0, <3>0 DEF AlignZeros
    <3>2. total = Size(pos - Header) /\ pos \in Int /\ total \in Int /\ AlignZeros \in Int
      BY <1>0, <1>1 DEF IInv, Position
    <3>3. PowerOfTwo(f.align) \/ (pos >= Header /\ pos < Wrap)
      BY <1>0, <2>1, <2>4, Constants
    <3> QED BY <3>0, <3>1, <3>2, <3>3, AlignedFrom
  <2>8. ASSUME NEW k \in 1..(n + 1)
        PROVE  /\ files'[k].at >= IF k = 1 THEN header ELSE files'[k - 1].at + files'[k - 1].size
               /\ files'[k].at + files'[k].size <= pos'
               /\ files'[k].offset # -1 => files'[k].at = Header + files'[k].offset
               /\ files'[k].align # 0 /\ (PowerOfTwo(files'[k].align) \/ header >= Header) =>
                    (files'[k].at - Header) % files'[k].align = 0
    <3> HIDE DEF f
    <3>1. CASE k = n + 1
      <4>1. k - 1 = n /\ k # 1 /\ files'[k - 1] = files[n] /\ files'[k] = f
        BY <1>2, <3>1
      <4>2. f.at + f.size <= pos'
        BY <2>1, <1>0, <1>1
      <4> HIDE DEF n
      <4> QED BY <4>1, <4>2, <2>5, <2>6, <2>7
    <3>2. CASE k # n + 1
      <4>1. k \in 1..n /\ (k # 1 => k - 1 \in 1..n)
        BY <1>2, <3>2
      <4>2. files'[k] = files[k] /\ (k # 1 => files'[k - 1] = files[k - 1])
        BY <1>2, <4>1
      <4>3. pos <= pos'
        BY <1>0, <1>1
      <4>4. files[k].at + files[k].size <= pos /\ files[k].at + files[k].size \in Nat
        BY <2>3, <4>1
      <4>5. files[k].at + files[k].size <= pos'
        BY <4>3, <4>4, <1>0, <1>1
      <4> QED BY <2>3, <4>1, <4>2, <4>5
    <3> QED BY <3>1, <3>2
  <2> HIDE DEF n, f
  <2> QED BY <1>2, <2>2, <2>8 DEF FilesPlaced, PowerOfTwo
<1>7. ASSUME pos' < Wrap PROVE TocPlaced'
  <2>1. TocPlaced
    <3>1. pos < Wrap
      BY <1>0, <1>1, <1>7, Constants
    <3> QED BY <3>1 DEF IInv, Placed
  <2>2. files'[1] = files[1] /\ UNCHANGED <<create_toc, opened, toc_offset, header>>
    BY <1>1, <1>2 DEF flags
  <2>3. create_toc => Len(files') <= MaxEntries
    BY <1>1, <1>2, Constants DEF TableFull
  <2>4. \A k \in 1..n : k \in 1..Len(files') /\ files'[k] = files[k]
    BY <1>2
  <2> HIDE DEF f
  <2> QED BY <2>1, <2>2, <2>3, <2>4 DEF TocPlaced, FilesFillHeader
<1> QED BY <1>5, <1>6, <1>7 DEF IInv, Placed

LEMMA StepFirstFile ==
  ASSUME IInv, TypeOK', NEW size \in FileSizes, FirstFile(size)
  PROVE  IInv'
<1> DEFINE toc == IF create_toc THEN TocPadding(AfterHeader) + TocSize ELSE 0
           t   == Size(AfterHeader + toc)
           a   == IF align_next = 0 THEN 0 ELSE Padding(t, align_next)
           f   == [at |-> header + toc + a, size |-> size, align |-> align_next,
                   offset |-> -1]
<1>0. /\ status = "run" /\ ~opened /\ total = 0 /\ create_toc \in BOOLEAN
      /\ header \in Int /\ header >= MinHeader /\ header > 0 /\ AsInt(header) = header
      /\ size \in Nat /\ align_next \in Nat
  <2>1. AsInt(header) >= MinHeader /\ MinHeader > 0
    BY Constants DEF FirstFile
  <2>2. header \in Int /\ AsInt(header) = header
    BY <2>1, IntHeader, Constants DEF IInv
  <2> QED BY <2>1, <2>2, Constants DEF FirstFile, NextArg, IInv, TypeOK, Opened
<1>1. /\ toc_offset' = IF create_toc THEN header + toc - TocSize ELSE 0
      /\ files' = <<f>> /\ total' = Size(t + a + size) /\ pos' = header + toc + a + size
      /\ offset' = -1 /\ opened' = TRUE /\ UNCHANGED <<status, target, flags>>
  BY DEF FirstFile
<1>2. /\ AfterHeader \in Int /\ TocPadding(AfterHeader) \in Nat /\ toc \in Nat
      /\ AfterHeader = Size(header - Header)
  <2>1. 0 + AsInt(header) - Header = header - Header
    BY <1>0, Constants
  <2> QED BY <1>0, <2>1, TocType DEF IInv, AfterHeader
<1>3. t = Size((header + toc) - Header) /\ t \in 0..(Wrap - 1)
  <2> DEFINE u == header - Header
             w == (header + toc) - Header
  <2>1. u \in Int /\ w \in Int /\ u + toc = w
    <3> HIDE DEF toc
    <3> QED BY <1>0, <1>2, Constants
  <2>2. AfterHeader = Size(u)
    BY <1>2
  <2> HIDE DEF toc, u, w
  <2>3. Size(Size(u) + toc) = Size(u + toc)
    BY <1>2, <2>1, SizePlus
  <2>4. t = Size(w) /\ Size(w) \in 0..(Wrap - 1)
    BY <2>1, <2>2, <2>3, SizeIs
  <2> QED BY <2>4 DEF w
<1>4. a \in Nat
  <2> HIDE DEF t
  <2> QED BY <1>3, Constants, AlignType DEF IInv
<1>5. total' = Size(pos' - Header)
  <2> DEFINE u == (header + toc) - Header
             z == a + size
  <2>1. u \in Int /\ z \in Int /\ pos' - Header = u + z
    <3> HIDE DEF toc, a, f, t
    <3> QED BY <1>0, <1>1, <1>2, <1>4, Constants
  <2>2. total' = Size(t + z)
    <3>1. t + z = t + a + size
      <4> HIDE DEF t, a
      <4> QED BY <1>0, <1>3, <1>4
    <3> HIDE DEF z, t, a, f, toc
    <3> QED BY <1>1, <3>1
  <2>3. t = Size(u)
    BY <1>3
  <2> HIDE DEF t, u, z
  <2> QED BY <2>1, <2>2, <2>3, SizePlus
<1>6. /\ f.at = header + toc + a /\ f.size = size /\ f.align = align_next /\ f.offset = -1
      /\ Len(files') = 1 /\ files'[1] = f /\ files' # <<>>
  BY <1>1
<1> HIDE DEF f
<1>7. f.at \in Nat /\ f.at + f.size = pos' /\ f.at >= header /\ LastEnd' = pos'
  <2> HIDE DEF toc, a, t
  <2> QED BY <1>0, <1>1, <1>2, <1>4, <1>6 DEF LastEnd
<1>8. Opened' /\ Position' /\ Finished' /\ ReplacedAtOnce'
  <2>1. files' # <<>>
    BY <1>6
  <2>2. ~create_toc' => toc_offset' = 0
    BY <1>1 DEF flags
  <2>3. header' = header
    BY <1>1 DEF flags
  <2>4. Position'
    BY <1>1, <1>5, <1>7 DEF Position
  <2> QED BY <1>0, <1>1, <2>1, <2>2, <2>3, <2>4
      DEF IInv, Opened, Finished, ReplacedAtOnce
<1>9. ASSUME pos' < Wrap PROVE FilesPlaced'
  <2>1. header' = header
    BY <1>1 DEF flags
  <2>2. align_next # 0 /\ (PowerOfTwo(align_next) \/ header >= Header) =>
          (f.at - Header) % align_next = 0
    <3> SUFFICES ASSUME align_next # 0, PowerOfTwo(align_next) \/ header >= Header
                 PROVE  (f.at - Header) % align_next = 0
      OBVIOUS
    <3> DEFINE p == header + toc
    <3>1. a = Padding(t, align_next) /\ align_next \in Nat \ {0}
      BY <1>0
    <3> HIDE DEF toc, a, t
    <3>2. p \in Int /\ f.at = p + a /\ p <= f.at /\ p >= header
      BY <1>0, <1>2, <1>4, <1>6
    <3>3. p < Wrap
      BY <1>0, <1>7, <1>9, <1>6, <3>2, Constants
    <3>4. t = Size(p - Header)
      BY <1>3
    <3>6. t \in Int /\ a \in Int
      BY <1>3, <1>4, Constants
    <3>5. PowerOfTwo(align_next) \/ (p >= Header /\ p < Wrap)
      BY <1>0, <3>2, <3>3, Constants
    <3> HIDE DEF p
    <3> QED BY <3>1, <3>2, <3>4, <3>5, <3>6, AlignedFrom
  <2>3. pos' \in Nat
    BY DEF TypeOK
  <2> QED BY <1>6, <1>7, <2>1, <2>2, <2>3 DEF FilesPlaced, PowerOfTwo
<1>10. TocPlaced'
  <2> SUFFICES ASSUME create_toc
               PROVE  /\ toc_offset' >= header /\ (toc_offset' - Header) % TocAlign = 0
                      /\ toc_offset' + TocSize <= f.at /\ 1 <= MaxEntries
    BY <1>1, <1>6 DEF TocPlaced, flags
  <2> DEFINE z == TocPadding(AfterHeader)
  <2>1. toc = z + TocSize /\ z \in Nat
    BY <1>2
  <2>2. toc_offset' = header + z
    <3> HIDE DEF toc, z, a, t
    <3> QED BY <1>0, <1>1, <2>1, Constants
  <2>3. toc_offset' >= header /\ toc_offset' + TocSize <= f.at
    <3> HIDE DEF toc, z, a, t
    <3> QED BY <1>0, <1>4, <1>6, <2>1, <2>2, Constants
  <2>4. (toc_offset' - Header) % TocAlign = 0
    <3>1. z = Padding(AfterHeader, TocAlign)
      BY DEF TocPadding
    <3>2. z \in Int /\ TocAlign \in Nat \ {0} /\ PowerOfTwo(TocAlign)
      BY <2>1, Constants DEF PowerOfTwo
    <3> HIDE DEF z
    <3> QED BY <1>0, <1>2, <2>2, <3>1, <3>2, AlignedFrom
  <2> HIDE DEF z
  <2>5. 1 <= MaxEntries
    BY Constants
  <2> QED BY <2>3, <2>4, <2>5
<1> QED BY <1>8, <1>9, <1>10 DEF IInv, Placed

\* total_bytes_written and 4096 is the position, modulo the wrap.
LEMMA PositionTold ==
  ASSUME IInv, status = "run", opened, NEW z \in Int, NEW s \in Int, s = total + z
  PROVE  Size(s + Header) = Size(pos + z)
<1> DEFINE u == pos - Header
           v == z + Header
           w == s + Header
           p == pos + z
<1>1. u \in Int /\ v \in Int /\ total \in Int /\ total + v = w /\ u + v = p
  BY Constants DEF IInv, TypeOK
<1>2. total = Size(u)
  BY DEF IInv, Position
<1> HIDE DEF u, v, w, p
<1>3. Size(total + v) = Size(u + v)
  BY <1>1, <1>2, SizePlus
<1>4. Size(w) = Size(p)
  BY <1>1, <1>3
<1> QED BY <1>4 DEF w, p

\* The padding brings the file to its declared size, or to a multiple.
LEMMA StepFinish ==
  ASSUME IInv, TypeOK', Finish
  PROVE  IInv'
<1>0. /\ status = "run" /\ total # 0 /\ (declared = 0 \/ declared >= total)
      /\ FinalZeros >= 0 /\ status' = "finish" /\ pos' = pos + FinalZeros
      /\ UNCHANGED <<flags, opened, total, toc_offset, align_next, files, offset, tmp, target>>
  BY DEF Finish
<1>1. /\ opened /\ pos \in Nat /\ pos' \in Nat /\ FinalZeros \in Nat
      /\ total \in 0..(Wrap - 1) /\ declared \in 0..(Wrap - 1) /\ total \in Int
      /\ DeclaredSize \in 0..(Wrap - 1) /\ DeclaredSize \in Int
  <2>1. FinalZeros \in Int /\ opened
    BY <1>0, ZerosType DEF IInv, Opened
  <2>2. total \in 0..(Wrap - 1) /\ declared \in 0..(Wrap - 1)
    BY DEF IInv, TypeOK
  <2>3. DeclaredSize \in 0..(Wrap - 1)
    BY <2>2, DefaultSize, Constants DEF DeclaredSize
  <2> QED BY <1>0, <2>1, <2>2, <2>3, Constants DEF IInv, TypeOK
<1>2. Opened' /\ Position' /\ ReplacedAtOnce'
  <2>1. Opened'
    BY <1>0, <1>1 DEF IInv, Opened, flags
  <2> QED BY <1>0, <2>1 DEF IInv, Position, ReplacedAtOnce
<1>3. Placed'
  BY <1>0, <1>1, ZerosOnly DEF flags
<1>4. ASSUME pos' < Wrap, DeclaredSize > total PROVE pos' = Size(DeclaredSize + Header)
  <2>1. FinalZeros = DeclaredSize - total
    <3>1. DeclaredSize - total \in 0..(Wrap - 1)
      BY <1>1, <1>4, Constants
    <3> QED BY <1>0, <1>4, <3>1, SignedType DEF FinalZeros
  <2>2. DeclaredSize = total + FinalZeros
    BY <1>1, <2>1
  <2>3. Size(DeclaredSize + Header) = Size(pos + FinalZeros)
    BY <1>0, <1>1, <2>2, PositionTold
  <2>4. Size(pos') = pos'
    BY <1>1, <1>4, SizeSmall, Constants
  <2> QED BY <1>0, <2>3, <2>4
<1>5. ASSUME ~(DeclaredSize > total) PROVE pos' % PadAlign = 0
  <2> DEFINE t == Size(total + Header)
  <2>1. t = Size(pos + 0) /\ t \in Int
    <3>1. total + 0 = total /\ total + Header \in Int
      BY <1>1, Constants
    <3>2. t = Size(pos + 0)
      BY <1>0, <1>1, <3>1, PositionTold
    <3>3. t \in 0..(Wrap - 1)
      BY <3>1, SizeIs
    <3> QED BY <3>2, <3>3, Constants
  <2>2. FinalZeros = Padding(t, PadAlign)
    BY <1>5 DEF FinalZeros
  <2>3. t % PadAlign = pos % PadAlign
    <3>1. pos + 0 = pos /\ pos \in Int
      BY <1>1
    <3>2. Size(pos) % PadAlign = pos % PadAlign
      BY <3>1, SizeMod, Constants
    <3> HIDE DEF t
    <3> QED BY <2>1, <3>1, <3>2
  <2> HIDE DEF t
  <2>4. (pos + Padding(t, PadAlign)) % PadAlign = 0
    BY <1>1, <2>1, <2>3, PaddingAligns, Constants
  <2> QED BY <1>0, <2>2, <2>4
<1>6. ASSUME pos' < Wrap
      PROVE  IF declared > total THEN pos' = Size(declared + Header) ELSE pos' % PadAlign = 0
  <2>1. CASE declared > total
    <3>1. DeclaredSize = declared
      BY <1>1, <2>1, Constants DEF DeclaredSize
    <3> QED BY <1>4, <1>6, <2>1, <3>1
  <2>2. CASE ~(declared > total) /\ ~(DeclaredSize > total)
    BY <1>5, <2>2
  <2>3. CASE ~(declared > total) /\ DeclaredSize > total
    <3> DEFINE s == DeclaredSize + Header
    <3>1. declared = 0
      BY <2>3 DEF DeclaredSize
    <3>2. s % PadAlign = 0 /\ s \in Int
      BY <1>1, <3>1, DefaultSize, Constants DEF DeclaredSize
    <3>3. pos' = Size(s)
      BY <1>4, <1>6, <2>3
    <3> HIDE DEF s
    <3>4. Size(s) % PadAlign = s % PadAlign
      BY <3>2, SizeMod, Constants
    <3> QED BY <2>3, <3>2, <3>3, <3>4
  <2> QED BY <2>1, <2>2, <2>3
<1>7. Finished'
  <2>1. UNCHANGED <<declared, total>>
    BY <1>0 DEF flags
  <2> QED BY <1>0, <1>6, <2>1 DEF Finished
<1> QED BY <1>2, <1>3, <1>7 DEF IInv

\* The target is replaced by what has been written.
LEMMA StepRename ==
  ASSUME IInv, TypeOK', Rename
  PROVE  IInv'
<1>0. status = "finish" /\ tmp' = FALSE /\ UNCHANGED <<flags, body>>
  BY DEF Rename
<1>1. CASE status' = "error" /\ UNCHANGED target
  BY <1>0, <1>1, Quiet DEF flags
<1>2. CASE status' = "ok" /\ target' = pos
  <2>1. /\ UNCHANGED <<opened, total, toc_offset, align_next, files, pos, offset>>
        /\ UNCHANGED <<header, output, declared, create_toc>>
    BY <1>0 DEF flags, body
  <2>2. pos \in Nat
    BY DEF IInv, TypeOK
  <2>3. Opened' /\ Position' /\ ReplacedAtOnce'
    BY <1>0, <1>2, <2>1, <2>2 DEF IInv, Opened, Position, ReplacedAtOnce
  <2>4. Finished'
    BY <1>0, <1>2, <2>1 DEF IInv, Finished
  <2>5. Placed'
    BY <2>1 DEF IInv, Placed, FilesPlaced, TocPlaced, FilesFillHeader, PowerOfTwo
  <2> QED BY <2>3, <2>4, <2>5 DEF IInv
<1> QED BY <1>0, <1>1, <1>2 DEF Rename

\* Flags change what is asked for; only an alignment is kept in body.
LEMMA StepFlag ==
  ASSUME IInv, TypeOK',
         \/ BadFlag \/ HeaderFields \/ OutputFlag \/ TocFlag
         \/ \E size \in HeaderSizes : HeaderFlag(size)
         \/ \E arg \in Numbers : SizeFlag(arg)
         \/ \E align \in Aligns : AlignFlag(align)
  PROVE  IInv'
<1> DEFINE Stops == status' = "usage" /\ target' = target /\ (opened => ~tmp')
<1>0. ASSUME Return("usage") PROVE Stops
  BY <1>0 DEF Return
<1>1. ASSUME Go PROVE status' = status /\ target' = target /\ tmp' = tmp
  BY <1>1 DEF Go
<1>2. status = "run"
  BY DEF BadFlag, HeaderFields, OutputFlag, TocFlag, HeaderFlag, SizeFlag, AlignFlag, NextArg
<1>3. CASE BadFlag \/ HeaderFields
  BY <1>0, <1>1, <1>2, <1>3, Quiet DEF BadFlag, HeaderFields, flags
<1>4. CASE OutputFlag
  BY <1>0, <1>1, <1>2, <1>4, Quiet DEF OutputFlag
<1>5. CASE TocFlag
  <2>1. UNCHANGED <<header, output, declared, body>>
    BY <1>5 DEF TocFlag
  <2>2. CASE total = 0 /\ create_toc' = TRUE /\ Go
    BY <1>1, <1>2, <2>1, <2>2, Quiet
  <2>3. CASE Return("usage") /\ UNCHANGED create_toc
    BY <1>0, <1>2, <2>1, <2>3, Quiet
  <2> QED BY <1>5, <2>2, <2>3 DEF TocFlag
<1>6. ASSUME NEW size \in HeaderSizes, HeaderFlag(size) PROVE IInv'
  <2>1. UNCHANGED <<output, declared, create_toc, body>>
    BY <1>6 DEF HeaderFlag
  <2>2. opened => header # -1
    BY Constants DEF IInv, TypeOK, Opened
  <2>3. CASE header = -1 /\ header' = size /\ Go
    BY <1>1, <1>2, <2>1, <2>2, <2>3, Quiet
  <2>4. CASE Return("usage") /\ UNCHANGED header
    BY <1>0, <1>2, <2>1, <2>4, Quiet
  <2> QED BY <1>6, <2>3, <2>4 DEF HeaderFlag
<1>7. ASSUME NEW arg \in Numbers, SizeFlag(arg) PROVE IInv'
  <2>1. UNCHANGED <<header, output, create_toc, body>>
    BY <1>7 DEF SizeFlag
  <2>2. Go \/ Return("usage")
    BY <1>7 DEF SizeFlag
  <2> QED BY <1>0, <1>1, <1>2, <2>1, <2>2, Quiet
<1>8. ASSUME NEW align \in Aligns, AlignFlag(align) PROVE IInv'
  <2>1. UNCHANGED <<flags, opened, total, toc_offset, files, pos, offset>>
    BY <1>8 DEF AlignFlag
  <2>2. CASE Return("usage") /\ UNCHANGED align_next
    BY <1>0, <1>2, <2>1, <2>2, Quiet DEF flags, body
  <2>3. CASE Go
    <3>1. UNCHANGED <<status, tmp, target, header, output, declared, create_toc>>
      BY <1>1, <2>1, <2>3 DEF flags
    <3>2. Opened' /\ Position' /\ Finished' /\ ReplacedAtOnce'
      BY <2>1, <3>1 DEF IInv, Opened, Position, LastEnd, Finished, ReplacedAtOnce
    <3>3. Placed'
      BY <2>1, <3>1 DEF IInv, Placed, FilesPlaced, TocPlaced, FilesFillHeader, PowerOfTwo
    <3> QED BY <3>2, <3>3 DEF IInv
  <2> QED BY <1>8, <2>2, <2>3 DEF AlignFlag
<1> QED BY <1>3, <1>4, <1>5, <1>6, <1>7, <1>8

LEMMA StepIInv == IInv /\ [Next]_vars => IInv'
<1> SUFFICES ASSUME IInv, [Next]_vars PROVE IInv'
  OBVIOUS
<1>0. TypeOK'
  BY StepType DEF IInv
<1>1. CASE \/ BadFlag \/ HeaderFields \/ OutputFlag \/ TocFlag
           \/ \E size \in HeaderSizes : HeaderFlag(size)
           \/ \E arg \in Numbers : SizeFlag(arg)
           \/ \E align \in Aligns : AlignFlag(align)
  BY <1>0, <1>1, StepFlag
<1>2. ASSUME NEW arg \in Numbers, OffsetFlag(arg) PROVE IInv'
  BY <1>0, <1>2, StepOffset
<1>3. ASSUME NEW size \in FileSizes, FirstFile(size) PROVE IInv'
  BY <1>0, <1>3, StepFirstFile
<1>4. ASSUME NEW size \in FileSizes, NextFile(size) PROVE IInv'
  BY <1>0, <1>4, StepNextFile
<1>5. ASSUME NEW size \in FileSizes, BadFile(size) PROVE IInv'
  <2>1. status = "run" /\ UNCHANGED <<flags, body>>
    BY <1>5 DEF BadFile, NextArg
  <2>2. status' \in {"usage", "error"} /\ target' = target /\ (opened => ~tmp')
    BY <1>5 DEF BadFile, Return
  <2> QED BY <1>0, <2>1, <2>2, Quiet DEF flags
<1>6. CASE NoFinish
  <2>1. status = "run" /\ UNCHANGED <<flags, body>>
    BY <1>6 DEF NoFinish
  <2>2. status' = "usage" /\ target' = target /\ (opened => ~tmp')
    BY <1>6 DEF NoFinish, Return
  <2> QED BY <1>0, <2>1, <2>2, Quiet DEF flags
<1>7. CASE Finish
  BY <1>0, <1>7, StepFinish
<1>8. CASE Rename
  BY <1>0, <1>8, StepRename
<1>9. CASE Kill
  BY <1>0, <1>9, Quiet DEF Kill, flags
<1>10. CASE UNCHANGED vars
  <2>1. UNCHANGED <<status, tmp, target, header, output, declared, create_toc, opened,
                    total, toc_offset, files, pos, offset>>
    BY <1>10 DEF vars, flags, body
  <2>2. Opened' /\ Position' /\ Finished' /\ ReplacedAtOnce'
    BY <2>1 DEF IInv, Opened, Position, LastEnd, Finished, ReplacedAtOnce
  <2>3. Placed'
    BY <2>1 DEF IInv, Placed, FilesPlaced, TocPlaced, FilesFillHeader, PowerOfTwo
  <2> QED BY <1>0, <2>2, <2>3 DEF IInv
<1> QED
  BY <1>1, <1>2, <1>3, <1>4, <1>5, <1>6, <1>7, <1>8, <1>9, <1>10 DEF Next

LEMMA Inductive == Spec => []IInv
BY InitIInv, StepIInv, PTL DEF Spec

------------------------------------------------------------------------------
(* What follows.                                                            *)

\* In every ROM shorter than 2^64 bytes: total_bytes_written tells the position
\* until the end; files do not overlap, each is where --offset puts it, and at
\* its alignment if that is a power of two or the header is not short; the table
\* is behind the header and before the files, unless files fill up a short
\* header.
THEOREM LayoutHolds == Spec => []Layout
<1>1. IInv => Layout
  <2> SUFFICES ASSUME IInv, pos < Wrap PROVE PositionFollowsTotal /\ FilesPlaced /\ TocHasPlace
    BY DEF Layout
  <2>1. FilesPlaced /\ TocHasPlace
    BY DEF IInv, Placed, TocPlaced, TocHasPlace
  <2>2. ASSUME status = "run", opened PROVE Size(total + Header) = pos
    <3>1. total = total + 0 /\ pos = pos + 0 /\ total \in Int /\ pos \in Nat
      BY Constants DEF IInv, TypeOK
    <3>2. Size(total + Header) = Size(pos + 0)
      BY <2>2, <3>1, PositionTold
    <3>3. Size(pos) = pos
      BY <3>1, SizeSmall, Constants
    <3> QED BY <3>1, <3>2, <3>3
  <2> QED BY <2>1, <2>2 DEF PositionFollowsTotal
<1> QED BY <1>1, Inductive, PTL

\* The target is replaced by a whole ROM or is as before, and the temporary file
\* only outlives a process that is killed.  A ROM is padded to a multiple of
\* PadAlign, or, where a positive size was declared that the contents do not
\* fill, it has this size and the header's 4096 bytes.
THEOREM TargetStaysRom == Spec => []TargetIsRom
<1>1. IInv => TargetIsRom
  <2> SUFFICES ASSUME IInv PROVE ReplacedAtOnce /\ RomSize
    BY DEF TargetIsRom
  <2>1. ReplacedAtOnce
    BY DEF IInv
  <2>2. RomSize
    <3>1. declared \in 0..(Wrap - 1) /\ total \in 0..(Wrap - 1)
      BY DEF IInv, TypeOK
    <3> SUFFICES ASSUME status = "ok", pos < Wrap, target = pos
                 PROVE  /\ declared = 0 => pos % PadAlign = 0
                        /\ declared > total /\ Signed(declared) > 0 =>
                             pos = declared + Header
      BY DEF IInv, Finished, RomSize
    <3>2. IF declared > total THEN pos = Size(declared + Header) ELSE pos % PadAlign = 0
      BY DEF IInv, Finished
    <3>3. ASSUME declared > total, Signed(declared) > 0 PROVE pos = declared + Header
      <4> DEFINE u == declared + Header
      <4>1. u \in Int /\ u >= 0 /\ u < Wrap
        BY <3>1, <3>3, SignedType, Constants
      <4>2. pos = Size(u)
        BY <3>2, <3>3
      <4> HIDE DEF u
      <4>3. Size(u) = u
        BY <4>1, SizeSmall, Constants
      <4> QED BY <4>2, <4>3 DEF u
    <3> QED BY <3>1, <3>2, <3>3
  <2> QED BY <2>1, <2>2
<1> QED BY <1>1, Inductive, PTL
=============================================================================
