------------------------------ MODULE RomTool ------------------------------
(***************************************************************************)
(* n64tool.c: a ROM is a header, a table of contents (TOC) if one is asked *)
(* for, the input files and padding.  main goes through its arguments in   *)
(* order and writes to a temporary file as it goes; the target is replaced *)
(* at the end.  Sizes are scaled; a size_t is a number modulo Wrap, an     *)
(* ssize_t the same with a sign, and writes to the file succeed.  Title    *)
(* and region, which fill fixed bytes of the header, are left out.         *)
(***************************************************************************)
EXTENDS Integers, Sequences

CONSTANTS
  Wrap,        \* 2^64
  IntWrap,     \* 2^32, the values of an int
  Header,      \* 4096: what main takes the header's size for
  MinHeader,   \* 0x100
  TocSize, TocAlign, MaxEntries,   \* TOC_SIZE, TOC_ALIGN, TOC_MAX_ENTRIES
  PadAlign,    \* PAD_ALIGN
  Word,        \* 4: what sizes and offsets are a multiple of
  MinAlign,    \* 4: the least alignment
  Kilo,        \* 1024
  MaxArgs,     \* bound on the number of arguments
  HeaderSizes,  \* of header files; one that cannot be read is as one too small
  FileSizes,    \* of input files, -1 for one that cannot be read
  Numbers, Aligns           \* arguments of --size and --offset, of --align

ASSUME SizesAssumption ==
  /\ {Wrap, IntWrap, Header, MinHeader, TocSize, TocAlign, MaxEntries, PadAlign, Word,
      MinAlign, Kilo} \subseteq Nat \ {0}
  /\ MaxArgs \in Nat
  /\ Wrap % PadAlign = 0 /\ Wrap % TocAlign = 0 /\ 2 * (Header + PadAlign) < Wrap
  /\ HeaderSizes \subseteq 0..(IntWrap - 1)     \* files of less than 4 GiB
  /\ FileSizes \subseteq Int /\ Aligns \subseteq Int
  /\ \A n \in Numbers : n.length \in Nat /\ n.number \in Int

VARIABLES
  args,        \* arguments seen so far
  status,      \* "run", "finish", or what main returned
  header,      \* size of the header file, -1 if there is none
  output,      \* the output flag has been seen
  opened,      \* write_file is open
  declared,    \* declared_size
  total,       \* total_bytes_written
  create_toc, toc_offset, align_next,
  files,       \* for each input file, where it is, its size and what was asked
  pos,         \* bytes in write_file
  offset,      \* history: the value of an offset whose zeros were written last
  tmp,         \* the temporary file is there
  target       \* the size of the output file, -1 for the one of before

flags == <<header, output, declared, create_toc>>
body  == <<opened, total, toc_offset, align_next, files, pos, offset>>
vars  == <<args, status, flags, body, tmp, target>>

Signed(x) == IF x >= Wrap \div 2 THEN x - Wrap ELSE x
Size(x)   == x % Wrap

\* What an int keeps of a number.
AsInt(x) == LET low == x % IntWrap IN IF low >= IntWrap \div 2 THEN low - IntWrap ELSE low

RoundUp(x, a) == ((x + a - 1) \div a) * a

\* The number of zeros that bring x to a multiple of a.
Padding(x, a) == IF x % a = 0 THEN 0 ELSE a - (x % a)

Init ==
  /\ args = 0 /\ status = "run" /\ header = -1 /\ output = FALSE
  /\ declared = 0 /\ create_toc = FALSE
  /\ opened = FALSE /\ total = 0 /\ toc_offset = 0 /\ align_next = 0
  /\ files = <<>> /\ pos = 0 /\ offset = -1
  /\ tmp \in BOOLEAN /\ target = -1

NextArg == status = "run" /\ args < MaxArgs /\ args' = args + 1

\* Mutant: nothing is done at exit.
Return_KeepsTmp(code) ==
  /\ status' = code
  /\ UNCHANGED <<tmp, target>>

\* main returns; remove_tmp_file runs at exit once the file has been opened.
Return(code) ==
  /\ status' = code
  /\ tmp' = (tmp /\ ~opened)
  /\ UNCHANGED target

Go == UNCHANGED <<status, tmp, target>>

\* parse_bytes: the argument's number, its suffix and its length.
parse_bytes(arg) ==
  IF arg.length < 2 THEN -1
  ELSE LET unit == CASE arg.suffix = "M" -> Kilo * Kilo
                     [] arg.suffix = "K" -> Kilo
                     [] OTHER -> 1
       IN  Signed(Size(arg.number * unit))

------------------------------------------------------------------------------
(* The flags.                                                               *)

\* --byteswap, a flag without its argument, a region that is too long, and no
\* argument at all.
BadFlag ==
  /\ NextArg /\ Return("usage")
  /\ UNCHANGED <<flags, body>>

\* --title, --region
HeaderFields ==
  /\ NextArg /\ Go
  /\ UNCHANGED <<flags, body>>

\* The flag is not valid a second time: header is no longer NULL.
HeaderFlag(size) ==
  /\ NextArg
  /\ IF header = -1 THEN header' = size /\ Go
                    ELSE Return("usage") /\ UNCHANGED header
  /\ UNCHANGED <<output, declared, create_toc, body>>

OutputFlag ==
  /\ NextArg
  /\ IF ~output THEN output' = TRUE /\ Go ELSE Return("usage") /\ UNCHANGED output
  /\ UNCHANGED <<header, declared, create_toc, body>>

SizeFlag(arg) ==
  LET size == parse_bytes(arg) IN
  /\ NextArg
  /\ IF size % Word = 0 THEN declared' = Size(size) /\ Go
                        ELSE Return("usage") /\ UNCHANGED declared
  /\ UNCHANGED <<header, output, create_toc, body>>

\* Mutant: may come at any time.
TocFlag_Always ==
  /\ NextArg /\ Go
  /\ create_toc' = TRUE
  /\ UNCHANGED <<header, output, declared, body>>

TocFlag ==
  /\ NextArg
  /\ IF total = 0 THEN create_toc' = TRUE /\ Go
                  ELSE Return("usage") /\ UNCHANGED create_toc
  /\ UNCHANGED <<header, output, declared, body>>

OffsetFlag(arg) ==
  LET size  == parse_bytes(arg)
      zeros == Signed(Size(size - total)) IN
  /\ NextArg
  /\ CASE ~output \/ total = 0 \/ size <= 0 \/ size % Word # 0 ->
            Return("usage") /\ UNCHANGED <<total, pos, offset>>
       [] output /\ total # 0 /\ size > 0 /\ size % Word = 0 /\ zeros < 0 ->
            Return("error") /\ UNCHANGED <<total, pos, offset>>
       [] output /\ total # 0 /\ size > 0 /\ size % Word = 0 /\ zeros >= 0 ->
            /\ total' = Size(total + zeros) /\ pos' = pos + zeros
            /\ offset' = size /\ Go
  /\ UNCHANGED <<flags, opened, toc_offset, align_next, files>>

\* Mutant: takes any number.
AlignFlag_Any(align) ==
  /\ NextArg /\ output /\ Go
  /\ align_next' = align
  /\ UNCHANGED <<flags, opened, total, toc_offset, files, pos, offset>>

AlignFlag(align) ==
  /\ NextArg
  /\ IF output /\ align >= MinAlign
       THEN align_next' = align /\ Go
       ELSE Return("usage") /\ UNCHANGED align_next
  /\ UNCHANGED <<flags, opened, total, toc_offset, files, pos, offset>>

------------------------------------------------------------------------------
(* An input file.                                                           *)

\* Mutant: the size of the header is not corrected.
AfterHeader_Uncorrected == total

\* total_bytes_written once the header is copied: it wraps around for a header
\* that is short.  The header's size has gone through an int.
AfterHeader == Size(total + AsInt(header) - Header)

TocPadding(t) == Padding(t, TocAlign)

\* The first file: opens the temporary file, copies the header and leaves space
\* for the table.
FirstFile(size) ==
  /\ NextArg /\ output /\ ~opened /\ AsInt(header) >= MinHeader /\ size >= 0
  /\ opened' = TRUE /\ tmp' = TRUE
  /\ LET toc == IF create_toc THEN TocPadding(AfterHeader) + TocSize ELSE 0
         t   == Size(AfterHeader + toc)
         a   == IF align_next = 0 THEN 0 ELSE Padding(t, align_next) IN
     /\ toc_offset' = IF create_toc THEN header + toc - TocSize ELSE 0
     /\ files' = <<[at |-> header + toc + a, size |-> size,
                    align |-> align_next, offset |-> -1]>>
     /\ total' = Size(t + a + size)
     /\ pos' = header + toc + a + size
  /\ align_next' = 0 /\ offset' = -1
  /\ UNCHANGED <<status, target, flags>>

TableFull == create_toc /\ Len(files) >= MaxEntries

\* Mutant: the alignment counts from the start of the ROM.
AlignZeros_FromRom == IF align_next = 0 THEN 0 ELSE Padding(pos, align_next)

AlignZeros == IF align_next = 0 THEN 0 ELSE Padding(total, align_next)

NextFile(size) ==
  /\ NextArg /\ opened /\ size >= 0 /\ ~TableFull
  /\ files' = Append(files, [at |-> pos + AlignZeros, size |-> size, align |-> align_next,
                             offset |-> IF AlignZeros = 0 THEN offset ELSE -1])
  /\ total' = Size(total + AlignZeros + size)
  /\ pos' = pos + AlignZeros + size
  /\ align_next' = 0 /\ offset' = -1
  /\ UNCHANGED <<status, flags, opened, toc_offset, tmp, target>>

\* No output flag; the temporary file cannot be opened; a header or an input
\* file that cannot be read, a header that is too small or, as an int, negative,
\* a table that is full.
BadFile(size) ==
  /\ NextArg
  /\ \/ ~output /\ Return("usage")
     \/ output /\ ~opened /\ Return("error")
     \/ /\ output /\ ~opened /\ (AsInt(header) < MinHeader \/ size < 0)
        /\ status' = "error" /\ tmp' = FALSE /\ UNCHANGED target
     \/ opened /\ (size < 0 \/ TableFull) /\ Return("error")
  /\ UNCHANGED <<flags, body>>

------------------------------------------------------------------------------
(* The end of main.                                                         *)

\* A size that was not declared is the least that is padded with the header.
DeclaredSize == IF declared # 0 THEN declared ELSE RoundUp(Header, PadAlign) - Header

\* Mutant: rounds the size without the header.
FinalZeros_Body ==
  IF DeclaredSize > total THEN Signed(DeclaredSize - total) ELSE Padding(total, PadAlign)

\* The zeros behind the last file; a declared size that was negative asks for
\* more than an ssize_t can say.
FinalZeros ==
  IF DeclaredSize > total THEN Signed(DeclaredSize - total)
                          ELSE Padding(Size(total + Header), PadAlign)

\* Nothing written, more than declared, or no padding to the declared size.
NoFinish ==
  /\ status = "run"
  /\ total = 0 \/ (declared # 0 /\ declared < total) \/ FinalZeros < 0
  /\ Return("usage")
  /\ UNCHANGED <<args, flags, body>>

\* The padding, the fields of the header and the table are written.
Finish ==
  /\ status = "run" /\ total # 0 /\ (declared = 0 \/ declared >= total)
  /\ FinalZeros >= 0
  /\ status' = "finish"
  /\ pos' = pos + FinalZeros
  /\ UNCHANGED <<args, flags, opened, total, toc_offset, align_next, files, offset, tmp, target>>

\* fclose and rename, which may fail; the temporary file is then removed.
Rename ==
  /\ status = "finish"
  /\ \/ status' = "ok" /\ target' = pos
     \/ status' = "error" /\ UNCHANGED target
  /\ tmp' = FALSE
  /\ UNCHANGED <<args, flags, body>>

\* The process is killed: nothing runs at exit.
Kill ==
  /\ status \in {"run", "finish"} /\ status' = "killed"
  /\ UNCHANGED <<args, flags, body, tmp, target>>

Next ==
  \/ BadFlag \/ HeaderFields \/ OutputFlag \/ TocFlag
  \/ \E size \in HeaderSizes : HeaderFlag(size)
  \/ \E arg \in Numbers : SizeFlag(arg) \/ OffsetFlag(arg)
  \/ \E align \in Aligns : AlignFlag(align)
  \/ \E size \in FileSizes : FirstFile(size) \/ NextFile(size) \/ BadFile(size)
  \/ NoFinish \/ Finish \/ Rename \/ Kill

Spec == Init /\ [][Next]_vars

------------------------------------------------------------------------------
TypeOK ==
  /\ args \in 0..MaxArgs
  /\ status \in {"run", "finish", "ok", "error", "usage", "killed"}
  /\ header \in HeaderSizes \cup {-1} /\ output \in BOOLEAN /\ opened \in BOOLEAN
  /\ declared \in 0..(Wrap - 1) /\ total \in 0..(Wrap - 1) /\ create_toc \in BOOLEAN
  /\ toc_offset \in Nat /\ align_next \in Nat /\ pos \in Nat /\ offset \in Int
  /\ files \in Seq([at : Nat, size : Nat, align : Nat, offset : Int])
  /\ tmp \in BOOLEAN /\ target \in Int

\* total_bytes_written, from which all positions are computed, tells the
\* position in the file: also behind a header that is longer than 4096 bytes,
\* and behind a shorter one, for which it wraps around.
PositionFollowsTotal ==
  status = "run" /\ opened => Size(total + Header) = pos

PowerOfTwo(a) == Wrap % a = 0

\* Files do not overlap, and each is where its flags ask for, counted from the
\* end of a header of 4096 bytes.  Of an alignment that is no power of two
\* nothing is claimed behind a header that is shorter.
FilesPlaced ==
  \A k \in 1..Len(files) :
    LET f == files[k] IN
    /\ f.at >= IF k = 1 THEN header ELSE files[k - 1].at + files[k - 1].size
    /\ f.at + f.size <= pos
    /\ f.offset # -1 => f.at = Header + f.offset
    /\ f.align # 0 /\ (PowerOfTwo(f.align) \/ header >= Header) =>
         (f.at - Header) % f.align = 0

\* total_bytes_written was 0 again behind a file.
FilesFillHeader == \E k \in 1..Len(files) : files[k].at + files[k].size = Header

\* The table has a place of its own behind the header, aligned, and every file
\* has an entry.  Nothing is claimed where files fill a short header up to 4096
\* bytes: --toc may then have come behind them.
TocHasPlace ==
  create_toc /\ opened /\ ~FilesFillHeader =>
    /\ toc_offset >= header /\ (toc_offset - Header) % TocAlign = 0
    /\ toc_offset + TocSize <= files[1].at /\ Len(files) <= MaxEntries

\* A ROM without --size is padded; one with it has this size without its
\* header of 4096 bytes, if its contents leave room for padding.  Of contents
\* that fill the size, and of negative sizes, nothing is claimed.
RomSize ==
  status = "ok" /\ target < Wrap =>
    /\ declared = 0 => target % PadAlign = 0
    /\ declared > total /\ Signed(declared) > 0 => target = declared + Header

\* The target is replaced by a whole ROM or not at all, and only a process that
\* is killed leaves the temporary file behind.
ReplacedAtOnce ==
  /\ target # -1 <=> status = "ok"
  /\ opened /\ status \in {"ok", "error", "usage"} => ~tmp

\* Where everything is in the ROM, which is shorter than 2^64 bytes.
Layout == pos < Wrap => PositionFollowsTotal /\ FilesPlaced /\ TocHasPlace

\* What becomes of the target.
TargetIsRom == ReplacedAtOnce /\ RomSize

------------------------------------------------------------------------------
(* What the usage promises and the code does not keep.                      *)

\* "Create a table of contents in the ROM", before any input file: it does not
\* take the header's place.
TocKept == create_toc => toc_offset >= header

\* "Next file is aligned at <align> bytes from top of memory"
AlignKept ==
  \A k \in 1..Len(files) :
    files[k].align # 0 => (files[k].at - Header) % files[k].align = 0

\* "Force ROM output file size to <size>"
SizeForced == declared # 0 => target = declared

\* A ROM that is made keeps at least one of the three promises.
SomePromiseKept == status = "ok" => TocKept \/ AlignKept \/ SizeForced
=============================================================================
