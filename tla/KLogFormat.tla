------------------------------ MODULE KLogFormat ------------------------------
(***************************************************************************)
(* The message formatter of klog_printf_internal (klogdev.c lines 203-236) *)
(* with snprintf_int and snprintf_hex, and the copy of the formatted text  *)
(* into entry->msg (lines 250-253).  Pure code: the formats and arguments  *)
(* are chosen in Init and the results are operators of them.               *)
(*                                                                         *)
(* A character is a one-letter string; ordinary format text is "a", the    *)
(* characters of a %s argument are "b".  The buffer keeps its real width   *)
(* of 64 bytes, so every boundary position is reached.                     *)
(***************************************************************************)
EXTENDS Integers, SequencesExt

CONSTANTS
  PrefixLens,   \* numbers of ordinary characters before the directive
  Directives,   \* directive letters after '%' ("" stands for a final '%')
  IntArgs,      \* int values passed to %d
  HexArgs,      \* uint values passed to %x (below 2^31: TLC integers)
  StrArgs,      \* %s arguments: a length, or -1 for a null pointer
  SuffixLens    \* numbers of ordinary characters after the directive

BUF_SIZE == 64                 \* char buf[64] and entry->msg[64]
INT_MIN == -2147483647 - 1
DIGITS == <<"0", "1", "2", "3", "4", "5", "6", "7",
            "8", "9", "a", "b", "c", "d", "e", "f">>

ASSUME PrefixLens \subseteq 0 .. 80 /\ SuffixLens \subseteq 0 .. 80
ASSUME \A v \in IntArgs : INT_MIN <= v /\ v < 2147483647
ASSUME \A v \in HexArgs : 0 <= v /\ v < 2147483647

VARIABLES
  fmt,  \* the format string, a sequence of characters
  arg   \* the one argument the directive consumes (unused by %%, %q)

vars == <<fmt, arg>>

Plain(n) == [k \in 1 .. n |-> "a"]

ArgsFor(d) ==
  CASE d = "d" -> IntArgs
    [] d = "x" -> HexArgs
    [] d = "s" -> StrArgs
    [] OTHER   -> {0}

Init ==
  \E k \in PrefixLens, d \in Directives, n \in SuffixLens :
    /\ fmt = Plain(k) \o <<"%">> \o (IF d = "" THEN <<>> ELSE <<d>> \o Plain(n))
    /\ arg \in ArgsFor(d)

\* Nothing changes after the format is chosen.
Next == UNCHANGED vars

Spec == Init /\ [][Next]_vars

(***************************************************************************)
(* The code.                                                               *)
(***************************************************************************)
\* Two's-complement negation (val = -val, line 124): -INT_MIN wraps to itself.
Neg32(v) == IF v = INT_MIN THEN INT_MIN ELSE -v

\* The digit loop of snprintf_int / snprintf_hex: tmp[] least significant
\* digit first, while(val > 0).
RECURSIVE DigitsLsbFirst(_, _)
DigitsLsbFirst(v, base) ==
  IF v <= 0 THEN <<>>
  ELSE <<DIGITS[(v % base) + 1]>> \o DigitsLsbFirst(v \div base, base)

TakeFirst(s, n) == IF n <= 0 THEN <<>> ELSE IF Len(s) <= n THEN s ELSE SubSeq(s, 1, n)

\* Mutant: tmp copied out in the order it was filled.
SnprintfIntLsbFirst(val, size) ==
  LET neg == val < 0
      mag == IF neg THEN Neg32(val) ELSE val
      tmp == IF mag = 0 THEN <<"0">> ELSE DigitsLsbFirst(mag, 10)
  IN  IF size <= 0 THEN <<>>
      ELSE TakeFirst((IF neg THEN <<"-">> ELSE <<>>) \o tmp, size - 1)

\* snprintf_int(buf, size, val): the characters written, at most size - 1;
\* '-' first, then tmp[] from its last element down.
SnprintfInt(val, size) ==
  LET neg == val < 0
      mag == IF neg THEN Neg32(val) ELSE val
      tmp == IF mag = 0 THEN <<"0">> ELSE DigitsLsbFirst(mag, 10)
  IN  IF size <= 0 THEN <<>>
      ELSE TakeFirst((IF neg THEN <<"-">> ELSE <<>>) \o Reverse(tmp), size - 1)

\* snprintf_hex(buf, size, val): nothing when size <= 2, else "0x" and the
\* digits, at most size - 1 characters.
SnprintfHex(val, size) ==
  LET tmp == IF val = 0 THEN <<"0">> ELSE DigitsLsbFirst(val, 16)
  IN  IF size <= 2 THEN <<>>
      ELSE TakeFirst(<<"0", "x">> \o Reverse(tmp), size - 1)

\* case 's': "(null)" for a null pointer; copy while *s && i < sizeof(buf)-1.
StrText(a) == IF a < 0 THEN <<"(", "n", "u", "l", "l", ")">> ELSE [k \in 1 .. a |-> "b"]

(***************************************************************************)
(* The for loop of lines 205-235.  out is buf[0..i-1]; the loop writes     *)
(* sequentially, so i = Len(out).  p is the position of *fmt.             *)
(***************************************************************************)
RECURSIVE FormatLoop(_, _, _, _)
FormatLoop(f, a, p, out) ==
  LET i == Len(out) IN
  IF p > Len(f) \/ i >= BUF_SIZE - 1 THEN out
  ELSE IF f[p] # "%" THEN FormatLoop(f, a, p + 1, Append(out, f[p]))
  ELSE IF p + 1 > Len(f) THEN out                     \* '%' then NUL: break
  ELSE LET c == f[p + 1]
           emitted ==
             CASE c = "d" -> SnprintfInt(a, BUF_SIZE - i)
               [] c = "x" -> SnprintfHex(a, BUF_SIZE - i)
               [] c = "s" -> TakeFirst(StrText(a), BUF_SIZE - 1 - i)
               [] c = "%" -> <<"%">>
               [] OTHER   -> <<"%", c>>
       IN  FormatLoop(f, a, p + 2, out \o emitted)

\* The formatted text in buf before the terminator of line 236.
Formatted == FormatLoop(fmt, arg, 1, <<>>)

\* Mutant: the copy into entry->msg runs up to sizeof(msg) characters.
StoredMessageFull(text) == TakeFirst(text, BUF_SIZE)

\* Lines 250-253: copy while i < sizeof(entry->msg) - 1 && buf[i].
StoredMessage(text) == TakeFirst(text, BUF_SIZE - 1)

(***************************************************************************)
(* The reference: what the template renders to with no size limit, by the *)
(* substitution grammar of the log engine (integer, 0x-prefixed hex, text, *)
(* literal percent; other directives copied through).                      *)
(***************************************************************************)
RECURSIVE DecimalOf(_)
DecimalOf(v) ==
  CASE v = INT_MIN -> <<"-", "2", "1", "4", "7", "4", "8", "3", "6", "4", "8">>
    [] v < 0       -> <<"-">> \o DecimalOf(-v)
    [] v < 10      -> <<DIGITS[v + 1]>>
    [] OTHER       -> DecimalOf(v \div 10) \o <<DIGITS[(v % 10) + 1]>>

RECURSIVE HexOf(_)
HexOf(v) == IF v < 16 THEN <<DIGITS[v + 1]>>
            ELSE HexOf(v \div 16) \o <<DIGITS[(v % 16) + 1]>>

RECURSIVE Rendered(_, _, _)
Rendered(f, a, p) ==
  IF p > Len(f) THEN <<>>
  ELSE IF f[p] # "%" THEN <<f[p]>> \o Rendered(f, a, p + 1)
  ELSE IF p + 1 > Len(f) THEN <<>>
  ELSE LET c == f[p + 1]
           piece == CASE c = "d" -> DecimalOf(a)
                      [] c = "x" -> <<"0", "x">> \o HexOf(a)
                      [] c = "s" -> StrText(a)
                      [] c = "%" -> <<"%">>
                      [] OTHER   -> <<"%", c>>
       IN  piece \o Rendered(f, a, p + 2)

Intended == Rendered(fmt, arg, 1)

(***************************************************************************)
(* Properties.                                                             *)
(***************************************************************************)
Chars == {"a", "b", "%", "-", "x", "(", ")", "n", "u", "l"} \cup Range(DIGITS)

\* The format and the stored message have their types: the message is a
\* string of at most 63 characters (entry->msg keeps room for its NUL).
TypeOK ==
  /\ fmt \in Seq(Chars \cup Directives)
  /\ StoredMessage(Formatted) \in Seq(Chars \cup Directives)
  /\ Len(StoredMessage(Formatted)) <= BUF_SIZE - 1

\* A message whose rendering fits in entry->msg is stored exactly as the
\* template renders it: every %d, %x, %s, %% is substituted in full.
FitsRenderedExactly ==
  Len(Intended) <= BUF_SIZE - 1 => StoredMessage(Formatted) = Intended

\* Any message is stored as the first 63 characters of its rendering:
\* truncation never drops a piece in the middle and keeps what follows.
TruncatesToPrefix ==
  StoredMessage(Formatted) = TakeFirst(Intended, BUF_SIZE - 1)

\* The terminator buf[i] = 0 written after the loop (line 236) is inside
\* char buf[64]: the loop never leaves i at 64.
FormatWritesInBuffer == Len(Formatted) <= BUF_SIZE - 1

=============================================================================
