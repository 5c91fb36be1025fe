------------------------------- MODULE Console -------------------------------
(***************************************************************************)
(* isviewer.c, memory.c and io_write of dma.c: a message is put together   *)
(* in print_buffer, which keeps what earlier messages left in it, and goes *)
(* to the viewer in words of 4 bytes and chunks of the viewer's buffer.    *)
(* A character is a number, 0 the terminator.                              *)
(***************************************************************************)
EXTENDS Integers, Sequences, SequencesExt

CONSTANTS
  BufferLen,   \* size of print_buffer, 128
  PrefixLen,   \* 96: what println_u copies of its text
  NumberLen,   \* 32: what it appends of the number
  ViewerLen,   \* ISVIEWER_BUFFER_LEN
  Half,        \* 2^31, half the range of uint32_t
  Texts, Values, Bases,   \* arguments of the calls
  Viewers      \* what answers at the viewer's address

NL    == 10
Minus == 45
Digit(d) == IF d < 10 THEN 48 + d ELSE 55 + d

\* The kernel's own messages are shorter than its buffers.
ASSUME LengthAssumption ==
  /\ {BufferLen, PrefixLen, NumberLen, ViewerLen, Half} \subseteq Nat \ {0}
  /\ \A t \in Texts : t \in Seq(1..127) /\ Len(t) < BufferLen
  /\ PrefixLen + NumberLen <= BufferLen /\ ViewerLen % 4 = 0
ASSUME ValuesAssumption == Values \subseteq 0..(2 * Half - 1) /\ Bases \subseteq 2..36

VARIABLES
  writer,
  enabled,   \* is_enabled
  print_buffer,   \* index -> character
  len,       \* isviewer_write's len: what is left to send
  data,      \* isviewer_write's data, as an index
  l, i,      \* isviewer_write's locals
  viewer,    \* the viewer's buffer: index -> character
  kind,      \* one of Viewers
  shown,     \* what the viewer has shown of this message
  message    \* history: the message asked for, its number as <<value, base>>

console_vars == <<writer, enabled, print_buffer, len, data, l, i, viewer, kind, shown, message>>

BufferIndexes == 0..(BufferLen - 1)

Message(text, number, end) == [text |-> text, number |-> number, end |-> end]

\* strlen: what comes before the first terminator.
StrLen(mem) ==
  CHOOSE n \in 0..BufferLen : /\ \A k \in 0..(n - 1) : mem[k] # 0
                              /\ n = BufferLen \/ mem[n] = 0

\* strncpy to the start of a buffer: fills up with terminators.
strncpy(dst, text, n) ==
  [k \in BufferIndexes |-> IF k >= n THEN dst[k] ELSE IF k < Len(text) THEN text[k + 1] ELSE 0]

\* Mutant: the terminator is written only when the text is cut.
strncat_OnlyCut(dst, text, n) ==
  LET end    == StrLen(dst)
      copied == IF Len(text) < n THEN Len(text) ELSE n IN
  [k \in BufferIndexes |-> IF k \in end..(end + copied - 1) THEN text[k - end + 1]
                     ELSE IF k = end + copied /\ copied = n THEN 0 ELSE dst[k]]

\* strncat: n characters at most, then a terminator.
strncat(dst, text, n) ==
  LET end    == StrLen(dst)
      copied == IF Len(text) < n THEN Len(text) ELSE n IN
  [k \in BufferIndexes |-> IF k \in end..(end + copied - 1) THEN text[k - end + 1]
                     ELSE IF k = end + copied THEN 0 ELSE dst[k]]

\* utoa: the digits come last first, and are then reversed in place.
LastFirst(value, base) ==
  LET digits[v \in 0..value] ==
        IF v < base THEN <<Digit(v)>> ELSE <<Digit(v % base)>> \o digits[v \div base]
  IN digits[value]

utoa(value, base) == Reverse(LastFirst(value, base))

\* itoa takes an int: a value of println_u32 from 2^31 on is negative.
itoa(value, base) ==
  IF base = 10 /\ value >= Half THEN <<Minus>> \o utoa(2 * Half - value, base)
  ELSE utoa(value, base)

\* A number and its terminator fit println_u's str_buf.
ASSUME NumbersFit == \A value \in Values, base \in Bases : Len(itoa(value, base)) < NumberLen

ConsoleInit ==
  /\ writer = "init" /\ enabled = FALSE
  /\ print_buffer = [k \in BufferIndexes |-> 0] /\ viewer = [k \in 0..(ViewerLen - 1) |-> 0]
  /\ len = 0 /\ data = 0 /\ l = 0 /\ i = 0
  /\ kind \in Viewers /\ shown = <<>> /\ message = Message(<<>>, <<>>, <<>>)

\* Mutant: the inverted magic value is not tried.
isviewer_init_impl_Once == kind \in {"memory", "magic"}

\* Writes the inverted magic value and the magic value and reads each back.
isviewer_init_impl == kind \in {"memory", "inverted"} /\ kind \in {"memory", "magic"}

isviewer_init ==
  /\ writer = "init" /\ writer' = "idle"
  /\ enabled' = isviewer_init_impl
  /\ UNCHANGED <<print_buffer, len, data, l, i, viewer, kind, shown, message>>

\* Calls isviewer_write, which does nothing without a viewer.
Send(buf, length, asked) ==
  /\ writer = "idle"
  /\ print_buffer' = buf
  /\ writer' = IF enabled /\ length > 0 THEN "chunk" ELSE "idle"
  /\ len' = length /\ data' = 0
  /\ shown' = <<>> /\ message' = asked
  /\ UNCHANGED <<enabled, l, i, viewer, kind>>

print(text) ==
  LET b == strncpy(print_buffer, text, BufferLen) IN Send(b, StrLen(b), Message(text, <<>>, <<>>))

println(text) ==
  LET b == strncpy(print_buffer, text, BufferLen)
      n == StrLen(b) IN
  Send([b EXCEPT ![n] = NL], n + 1, Message(text, <<>>, <<NL>>))

\* println_u32 and println_x32, with a text that leaves space for the number.
println_u(text, value, base) ==
  LET b == strncat(strncpy(print_buffer, text, PrefixLen), itoa(value, base), NumberLen)
      n == StrLen(b) IN
  /\ Len(text) < PrefixLen
  /\ Send([b EXCEPT ![n] = NL], n + 1, Message(text, <<value, base>>, <<NL>>))

\* Mutant: the length is not cut to the viewer's buffer.
Chunk_Whole ==
  /\ writer = "chunk"
  /\ l' = len /\ i' = 0 /\ writer' = "word"
  /\ UNCHANGED <<enabled, print_buffer, len, data, viewer, kind, shown, message>>

\* Mutant: nothing is left over of a whole buffer.
Chunk_Remainder ==
  /\ writer = "chunk"
  /\ l' = len % ViewerLen /\ i' = 0 /\ writer' = "word"
  /\ UNCHANGED <<enabled, print_buffer, len, data, viewer, kind, shown, message>>

\* The viewer's buffer takes so much at a time.
Chunk ==
  /\ writer = "chunk"
  /\ l' = IF len < ViewerLen THEN len ELSE ViewerLen
  /\ i' = 0 /\ writer' = "word"
  /\ UNCHANGED <<enabled, print_buffer, len, data, viewer, kind, shown, message>>

\* io_write of a word, a critical section of its own; behind the end of
\* print_buffer it reads what is not shown.
WriteWord ==
  /\ writer = "word" /\ i < l
  /\ viewer' = [k \in DOMAIN viewer |->
       IF k \in i..(i + 3) /\ data + k - i < BufferLen THEN print_buffer[data + k - i] ELSE viewer[k]]
  /\ i' = i + 4 /\ data' = data + 4
  /\ UNCHANGED <<writer, enabled, print_buffer, len, l, kind, shown, message>>

\* io_write of the length: the viewer shows so much of its buffer.
Flush ==
  /\ writer = "word" /\ i >= l
  /\ shown' = shown \o [k \in 1..l |-> viewer[k - 1]]
  /\ len' = len - l
  /\ writer' = IF len' > 0 THEN "chunk" ELSE "idle"
  /\ UNCHANGED <<enabled, print_buffer, data, l, i, viewer, kind, message>>

ConsoleNext ==
  \/ isviewer_init \/ Chunk \/ WriteWord \/ Flush
  \/ \E text \in Texts :
       \/ print(text) \/ println(text)
       \/ \E value \in Values, base \in Bases : println_u(text, value, base)

ConsoleSpec == ConsoleInit /\ [][ConsoleNext]_console_vars

isviewer_write == Chunk \/ WriteWord \/ Flush

\* The thread runs on.
ConsoleFairSpec == ConsoleSpec /\ WF_console_vars(isviewer_write)

------------------------------------------------------------------------------
\* The words read are within print_buffer, and those written within the viewer.
ConsoleTypeOK ==
  /\ writer \in {"init", "idle", "chunk", "word"} /\ enabled \in BOOLEAN
  /\ print_buffer \in [BufferIndexes -> 0..127] /\ len \in 0..BufferLen
  /\ data \in 0..(BufferLen + 3) /\ (writer = "word" /\ i < l => data \in BufferIndexes)
  /\ l \in 0..ViewerLen /\ i \in 0..ViewerLen
  /\ viewer \in [0..(ViewerLen - 1) -> 0..127]
  /\ kind \in Viewers /\ shown \in Seq(1..127)

\* Reference: what a numeral says, the value of its digits.
DigitValue(c) == CHOOSE d \in 0..35 : Digit(d) = c
ValueOf(numeral, base) ==
  LET upto[n \in 0..Len(numeral)] ==
        IF n = 0 THEN 0 ELSE upto[n - 1] * base + DigitValue(numeral[n])
  IN upto[Len(numeral)]

\* The numeral is the number's, which is not negative.
SaysNumber(numeral, value, base) ==
  /\ numeral # <<>> /\ ToSet(numeral) \subseteq {Digit(d) : d \in 0..(base - 1)}
  /\ ValueOf(numeral, base) = value
  /\ Len(numeral) > 1 => numeral[1] # Digit(0)

\* A message without a number shows none.  Which numeral stands for a decimal
\* number from 2^31 on is left open: println_u32 takes a uint32_t, itoa an int.
ShowsNumber(numeral, number) ==
  IF number = <<>> THEN numeral = <<>>
  ELSE /\ numeral # <<>>
       /\ number[2] # 10 \/ number[1] < Half => SaysNumber(numeral, number[1], number[2])

\* The viewer has shown the message that was asked for, all of it and nothing
\* else, whatever longer messages have left in print_buffer and in the viewer.
Says(said, asked) ==
  /\ IsPrefix(asked.text, said) /\ IsSuffix(asked.end, said)
  /\ ShowsNumber(SubSeq(said, Len(asked.text) + 1, Len(said) - Len(asked.end)), asked.number)

ShowsMessage == writer = "idle" /\ enabled => Says(shown, message)

\* isviewer.c:29: the words of a message are written only where what is
\* written can be read back.
WritesToMemory == writer \in {"chunk", "word"} => kind = "memory"

\* isviewer_write returns: each round of its loop leaves less to send.
PrintReturns == []<>(writer \notin {"chunk", "word"})

\* Messages arrive where there is a viewer, and go nowhere else.
MessagesArrive == ShowsMessage /\ WritesToMemory
=============================================================================
